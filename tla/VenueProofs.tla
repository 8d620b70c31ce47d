---------------------------- MODULE VenueProofs -----------------------------
(***************************************************************************)
(* Proofs about Venue, for any number of requests, users and rows: guests  *)
(* are told how their reservation ends, hooks that interleave lose no      *)
(* medal of a campaign, and XP, coins and streaks are those of the awards  *)
(* and the logins that were recorded.                                      *)
(***************************************************************************)
EXTENDS Venue, FiniteSetTheorems, WellFoundedInduction, TLAPS

-----------------------------------------------------------------------------
(* Reservations: the guest is told *)

BookingTypes ==
  /\ status \in [Reservation -> V!Status] /\ passed \subseteq Reservation
  /\ told \in [Reservation -> {"NONE", "CONFIRMED", "DECLINED", "CANCELLED"}]
  /\ vpc \in [Request -> V!Label]
  /\ tables \in [Request -> SUBSET Reservation]
  /\ \A r \in Request : \A v \in tables[r] : status[v] # "NONE"

\* A handler that nobody overtook finds the reservation as it read it ...
AsRead ==
  \A r \in Request \ outrun : \A v \in tables[r] :
    /\ vpc[r] \in V!Write \cup {"sweepWrite"} =>
         status[v] \in V!Open \/ (vpc[r] = "delete" /\ v \in passed)
    /\ vpc[r] \in V!Tell => status[v] \in {V!News(vpc[r]), "DELETED"}

\* ... and a guest who does not know yet is about to be told.
OnTheWay ==
  \A v \in Reservation \ (muddled \cup guestEnded) :
    V!Told(v) \/ \E r \in Request : vpc[r] \in V!Tell /\ v \in tables[r]

BookingIInv == BookingTypes /\ AsRead /\ OnTheWay

LEMMA NewsOf ==
  /\ V!News("tellCONFIRMED") = "CONFIRMED"
  /\ V!News("tellDECLINED") = "DECLINED"
  /\ V!News("tellCANCELLED") = "CANCELLED"
BY DEF V!News, V!TellOf

LEMMA BookingStands == BookingIInv => V!GuestTold
BY DEF BookingIInv, OnTheWay, V!GuestTold

LEMMA BookingInit == V!Init => BookingIInv
<1> SUFFICES ASSUME V!Init PROVE BookingIInv
  OBVIOUS
<1>1. BookingTypes
  BY DEF V!Init, BookingTypes, V!Status, V!Open, V!Label
<1>2. AsRead
  BY DEF V!Init, AsRead
<1>3. OnTheWay
  BY DEF V!Init, OnTheWay, V!Told
<1>4. QED BY <1>1, <1>2, <1>3 DEF BookingIInv

\* A request arrives that has read the rows of S.
LEMMA BookingBegins ==
  ASSUME BookingIInv, NEW r \in Request, NEW S \in SUBSET Reservation,
         NEW l \in V!Write \cup {"sweepFind"}, V!Begin(r, S, l),
         \A v \in S : /\ status[v] \in V!Open \/ (l = "delete" /\ v \in passed)
                      /\ status[v] # "NONE"
  PROVE  BookingIInv'
<1>1. /\ vpc[r] = "idle" /\ vpc' = [vpc EXCEPT ![r] = l]
      /\ tables' = [tables EXCEPT ![r] = S] /\ outrun' = outrun \ {r}
      /\ UNCHANGED <<status, passed, told, guestEnded, muddled>>
  BY DEF V!Begin
<1>2. l \in V!Label /\ l \notin V!Tell /\ l # "sweepWrite" /\ "idle" \notin V!Tell
  BY DEF V!Write, V!Tell, V!Label
<1>3. BookingTypes'
  BY <1>1, <1>2 DEF BookingIInv, BookingTypes
<1>4. AsRead'
  BY <1>1, <1>2 DEF BookingIInv, BookingTypes, AsRead
<1>5. OnTheWay'
  BY <1>1, <1>2 DEF BookingIInv, BookingTypes, OnTheWay, V!Told
<1>6. QED BY <1>3, <1>4, <1>5 DEF BookingIInv

\* A request that tells nobody goes on, or gives up; or it finds what to sweep.
LEMMA BookingMoves ==
  ASSUME BookingIInv, NEW r \in Request, NEW S \in SUBSET Reservation,
         NEW l \in V!Label, V!Goto(r, S, l), vpc[r] \notin V!Tell,
         UNCHANGED <<status, passed, told, guestEnded, outrun, muddled>>,
         S = {} \/ (l = "sweepWrite" /\ S = V!Stale)
  PROVE  BookingIInv'
<1>1. /\ vpc' = [vpc EXCEPT ![r] = IF S = {} THEN "idle" ELSE l]
      /\ tables' = [tables EXCEPT ![r] = S]
  BY DEF V!Goto
<1>2. "idle" \notin V!Tell \cup V!Write /\ "idle" \in V!Label /\ "sweepWrite" \notin V!Tell
      /\ "sweepWrite" \notin V!Write
  BY DEF V!Write, V!Tell, V!Label
<1>3. \A v \in S : status[v] \in V!Open /\ status[v] # "NONE"
  BY DEF V!Stale, V!Open
<1>4. BookingTypes'
  BY <1>1, <1>2, <1>3 DEF BookingIInv, BookingTypes
<1>5. AsRead'
  BY <1>1, <1>2, <1>3 DEF BookingIInv, BookingTypes, AsRead
<1>6. OnTheWay'
  BY <1>1, <1>2 DEF BookingIInv, BookingTypes, OnTheWay, V!Told
<1>7. QED BY <1>4, <1>5, <1>6 DEF BookingIInv

\* One row is written, and its guest is to be told or need not be.
LEMMA BookingWrites ==
  ASSUME BookingIInv, NEW r \in Request, NEW l \in V!Write, NEW new \in V!Status,
         NEW tells \in BOOLEAN, V!Writes(r, l, new, tells),
         IF tells THEN new \in {"CONFIRMED", "DECLINED", "CANCELLED"}
         ELSE new \in {"COMPLETED", "DELETED"} \/ (new = "CANCELLED" /\ tables[r] \subseteq guestEnded'),
         guestEnded \subseteq guestEnded'
  PROVE  BookingIInv'
<1>1. PICK v \in tables[r] :
        /\ vpc[r] = l
        /\ status' = [status EXCEPT ![v] = new]
        /\ V!Wrote(r, {v})
        /\ V!Goto(r, IF tells THEN {v} ELSE {}, V!TellOf(new))
        /\ UNCHANGED <<passed, told, vserved>>
  BY DEF V!Writes
<1>2. v \in Reservation /\ new # "NONE"
  BY <1>1 DEF BookingIInv, BookingTypes
<1> DEFINE m == IF tells THEN V!TellOf(new) ELSE "idle"
<1>3. /\ vpc' = [vpc EXCEPT ![r] = m]
      /\ tables' = [tables EXCEPT ![r] = IF tells THEN {v} ELSE {}]
      /\ outrun' = outrun \cup {q \in Request \ {r} : tables[q] \cap {v} # {}}
      /\ muddled' = IF r \in outrun THEN muddled \cup {v} ELSE muddled
  BY <1>1 DEF V!Goto, V!Wrote
<1>4. /\ m \in V!Label
      /\ tells => m \in V!Tell /\ V!News(m) = new
      /\ m \notin V!Write \cup {"sweepWrite"}
      /\ ~tells => m \notin V!Tell
  BY NewsOf DEF V!TellOf, V!Label, V!Tell, V!Write
<1>5. vpc[r] \notin V!Tell
  BY <1>1 DEF V!Write, V!Tell
<1> HIDE DEF m
<1>6. BookingTypes'
  BY <1>1, <1>2, <1>3, <1>4 DEF BookingIInv, BookingTypes
<1>7. AsRead'
  <2> SUFFICES ASSUME NEW q \in Request, q \notin outrun', NEW w \in tables'[q]
               PROVE  /\ vpc'[q] \in V!Write \cup {"sweepWrite"} =>
                           status'[w] \in V!Open \/ (vpc'[q] = "delete" /\ w \in passed')
                      /\ vpc'[q] \in V!Tell => status'[w] \in {V!News(vpc'[q]), "DELETED"}
    BY DEF AsRead
  <2>1. CASE q = r
    BY <2>1, <1>1, <1>2, <1>3, <1>4 DEF BookingIInv, BookingTypes
  <2>2. CASE q # r
    <3>1. w # v /\ q \notin outrun /\ w \in tables[q] /\ vpc'[q] = vpc[q] /\ w \in Reservation
      BY <2>2, <1>3 DEF BookingIInv, BookingTypes
    <3>2. status'[w] = status[w]
      BY <3>1, <1>1 DEF BookingIInv, BookingTypes
    <3>3. QED BY <3>1, <3>2, <1>1 DEF BookingIInv, AsRead
  <2>3. QED BY <2>1, <2>2
<1>8. OnTheWay'
  <2> SUFFICES ASSUME NEW w \in Reservation, w \notin muddled' \cup guestEnded', ~V!Told(w)'
               PROVE  \E q \in Request : vpc'[q] \in V!Tell /\ w \in tables'[q]
    BY DEF OnTheWay
  <2>1. CASE w = v
    BY <2>1, <1>1, <1>2, <1>3, <1>4 DEF BookingIInv, BookingTypes, V!Told
  <2>2. CASE w # v
    <3>1. ~V!Told(w) /\ w \notin muddled \cup guestEnded
      BY <2>2, <1>1, <1>3 DEF BookingIInv, BookingTypes, V!Told
    <3>2. PICK q \in Request : vpc[q] \in V!Tell /\ w \in tables[q]
      BY <3>1 DEF BookingIInv, OnTheWay
    <3>3. q # r
      BY <3>2, <1>5
    <3>4. QED BY <3>2, <3>3, <1>3 DEF BookingIInv, BookingTypes
  <2>3. QED BY <2>1, <2>2
<1>9. QED BY <1>6, <1>7, <1>8 DEF BookingIInv

\* A sweep cancels what it found, and its guests are to be told.
LEMMA SweepStep ==
  ASSUME BookingIInv, NEW r \in Request, V!SweepWrite(r)
  PROVE  BookingIInv'
<1> DEFINE S == {v \in tables[r] : V!Exists(v)}
           m == IF tables[r] = {} THEN "idle" ELSE "tellCANCELLED"
<1>1. /\ vpc[r] = "sweepWrite"
      /\ status' = [v \in Reservation |-> IF v \in S THEN "CANCELLED" ELSE status[v]]
      /\ outrun' = outrun \cup {q \in Request \ {r} : tables[q] \cap S # {}}
      /\ muddled' = IF r \in outrun THEN muddled \cup S ELSE muddled
      /\ vpc' = [vpc EXCEPT ![r] = m]
      /\ tables' = [tables EXCEPT ![r] = tables[r]]
      /\ UNCHANGED <<passed, told, guestEnded>>
  BY DEF V!SweepWrite, V!Wrote, V!Goto
<1>2. /\ m \in V!Label /\ m \notin V!Write \cup {"sweepWrite"}
      /\ tables[r] # {} => m \in V!Tell /\ V!News(m) = "CANCELLED"
      /\ "sweepWrite" \notin V!Tell /\ "CANCELLED" \in V!Status
  BY NewsOf DEF V!Label, V!Tell, V!Write, V!Status, V!Final
<1>3. S \subseteq tables[r] /\ tables' = tables
      /\ \A v \in tables[r] \ S : status[v] = "DELETED"
  BY <1>1 DEF BookingIInv, BookingTypes, V!Exists
<1> HIDE DEF S, m
<1>4. BookingTypes'
  BY <1>1, <1>2, <1>3 DEF BookingIInv, BookingTypes
<1>5. AsRead'
  <2> SUFFICES ASSUME NEW q \in Request, q \notin outrun', NEW w \in tables[q]
               PROVE  /\ vpc'[q] \in V!Write \cup {"sweepWrite"} =>
                           status'[w] \in V!Open \/ (vpc'[q] = "delete" /\ w \in passed')
                      /\ vpc'[q] \in V!Tell => status'[w] \in {V!News(vpc'[q]), "DELETED"}
    BY <1>3 DEF AsRead
  <2>0. w \in Reservation
    BY DEF BookingIInv, BookingTypes
  <2>1. CASE q = r
    BY <2>0, <2>1, <1>1, <1>2, <1>3 DEF BookingIInv, BookingTypes
  <2>2. CASE q # r
    <3>1. w \notin S /\ q \notin outrun /\ vpc'[q] = vpc[q] /\ status'[w] = status[w]
      BY <2>0, <2>2, <1>1 DEF BookingIInv, BookingTypes
    <3>2. QED BY <3>1, <1>1 DEF BookingIInv, AsRead
  <2>3. QED BY <2>1, <2>2
<1>6. OnTheWay'
  <2> SUFFICES ASSUME NEW w \in Reservation, w \notin muddled' \cup guestEnded', ~V!Told(w)'
               PROVE  \E q \in Request : vpc'[q] \in V!Tell /\ w \in tables[q]
    BY <1>3 DEF OnTheWay
  <2>1. CASE w \in S
    BY <2>1, <1>1, <1>2, <1>3 DEF BookingIInv, BookingTypes
  <2>2. CASE w \notin S
    <3>1. ~V!Told(w) /\ w \notin muddled \cup guestEnded
      BY <2>2, <1>1 DEF BookingIInv, BookingTypes, V!Told
    <3>2. PICK q \in Request : vpc[q] \in V!Tell /\ w \in tables[q]
      BY <3>1 DEF BookingIInv, OnTheWay
    <3>3. q # r
      BY <3>2, <1>1, <1>2
    <3>4. QED BY <3>2, <3>3, <1>1 DEF BookingIInv, BookingTypes
  <2>3. QED BY <2>1, <2>2
<1>7. QED BY <1>4, <1>5, <1>6 DEF BookingIInv

LEMMA NotifyStep ==
  ASSUME BookingIInv, NEW r \in Request, NEW v \in Reservation, V!Notify(r, v)
  PROVE  BookingIInv'
<1> DEFINE m == IF tables[r] \ {v} = {} THEN "idle" ELSE vpc[r]
<1>1. /\ vpc[r] \in V!Tell /\ v \in tables[r]
      /\ told' = [told EXCEPT ![v] = V!News(vpc[r])]
      /\ muddled' = IF r \in outrun THEN muddled \cup {v} ELSE muddled
      /\ vpc' = [vpc EXCEPT ![r] = m]
      /\ tables' = [tables EXCEPT ![r] = tables[r] \ {v}]
      /\ UNCHANGED <<status, passed, guestEnded, outrun>>
  BY DEF V!Notify, V!Goto
<1>2. /\ "idle" \in V!Label /\ "idle" \notin V!Write \cup {"sweepWrite"} \cup V!Tell
      /\ tables[r] \ {v} # {} => m = vpc[r]
      /\ m \in {"idle", vpc[r]}
      /\ V!News(vpc[r]) \in {"CONFIRMED", "DECLINED", "CANCELLED"}
  BY <1>1, NewsOf DEF V!Label, V!Write, V!Tell
<1> HIDE DEF m
<1>3. BookingTypes'
  BY <1>1, <1>2 DEF BookingIInv, BookingTypes
<1>4. AsRead'
  BY <1>1, <1>2 DEF BookingIInv, BookingTypes, AsRead
<1>5. OnTheWay'
  <2> SUFFICES ASSUME NEW w \in Reservation, w \notin muddled' \cup guestEnded', ~V!Told(w)'
               PROVE  \E q \in Request : vpc'[q] \in V!Tell /\ w \in tables'[q]
    BY DEF OnTheWay
  <2>1. CASE w = v
    <3>1. r \notin outrun
      BY <2>1, <1>1
    <3>2. status[v] \in {V!News(vpc[r]), "DELETED"}
      BY <3>1, <1>1 DEF BookingIInv, AsRead
    <3>3. QED BY <2>1, <3>2, <1>1 DEF BookingIInv, BookingTypes, V!Told
  <2>2. CASE w # v
    <3>1. ~V!Told(w) /\ w \notin muddled \cup guestEnded
      BY <2>2, <1>1 DEF BookingIInv, BookingTypes, V!Told
    <3>2. PICK q \in Request : vpc[q] \in V!Tell /\ w \in tables[q]
      BY <3>1 DEF BookingIInv, OnTheWay
    <3>3. vpc'[q] \in V!Tell /\ w \in tables'[q]
      BY <3>2, <2>2, <1>1, <1>2 DEF BookingIInv, BookingTypes
    <3>4. QED BY <3>3
  <2>3. QED BY <2>1, <2>2
<1>6. QED BY <1>3, <1>4, <1>5 DEF BookingIInv

\* What a handler fails to tell counts as muddled.
LEMMA BookingFails ==
  ASSUME BookingIInv, NEW r \in Request, V!Fail(r)
  PROVE  BookingIInv'
<1>1. /\ muddled' = IF vpc[r] \in V!Tell THEN muddled \cup tables[r] ELSE muddled
      /\ vpc' = [vpc EXCEPT ![r] = "idle"] /\ tables' = [tables EXCEPT ![r] = {}]
      /\ UNCHANGED <<status, passed, told, guestEnded, outrun>>
  BY DEF V!Fail, V!Goto
<1>2. "idle" \in V!Label /\ "idle" \notin V!Write \cup {"sweepWrite"} \cup V!Tell
  BY DEF V!Label, V!Write, V!Tell
<1>3. BookingTypes'
  BY <1>1, <1>2 DEF BookingIInv, BookingTypes
<1>4. AsRead'
  BY <1>1, <1>2 DEF BookingIInv, BookingTypes, AsRead
<1>5. OnTheWay'
  BY <1>1, <1>2 DEF BookingIInv, BookingTypes, OnTheWay, V!Told
<1>6. QED BY <1>3, <1>4, <1>5 DEF BookingIInv

LEMMA PassStep ==
  ASSUME BookingIInv, NEW v \in Reservation, V!Pass(v)
  PROVE  BookingIInv'
<1>1. UNCHANGED <<status, told, vpc, tables, guestEnded, outrun, muddled>> 
      /\ passed \subseteq passed' /\ passed' \subseteq Reservation
  BY DEF BookingIInv, BookingTypes, V!Pass, V!locals
<1>2. BookingTypes' /\ OnTheWay'
  BY <1>1 DEF BookingIInv, BookingTypes, OnTheWay, V!Told
<1>3. AsRead'
  BY <1>1 DEF BookingIInv, AsRead
<1>4. QED BY <1>2, <1>3 DEF BookingIInv

LEMMA CreateStep ==
  ASSUME BookingIInv, NEW r \in Request, NEW v \in Reservation, V!Create(r, v)
  PROVE  BookingIInv'
<1>1. /\ status[v] = "NONE" /\ status' = [status EXCEPT ![v] = "PENDING"]
      /\ UNCHANGED <<passed, told, vpc, tables, guestEnded, outrun, muddled>>
  BY DEF V!Create, V!locals
<1>2. \A q \in Request : v \notin tables[q]
  BY <1>1 DEF BookingIInv, BookingTypes
<1>3. BookingTypes'
  BY <1>1 DEF BookingIInv, BookingTypes, V!Status, V!Open
<1>4. AsRead'
  BY <1>1, <1>2 DEF BookingIInv, BookingTypes, AsRead
<1>5. OnTheWay'
  BY <1>1 DEF BookingIInv, BookingTypes, OnTheWay, V!Told
<1>6. QED BY <1>3, <1>4, <1>5 DEF BookingIInv

LEMMA BookingStep == BookingIInv /\ V!Next => BookingIInv'
<1> SUFFICES ASSUME BookingIInv, V!Next PROVE BookingIInv'
  OBVIOUS
<1>1. ASSUME NEW r \in V!Arriving, NEW v \in Reservation,
             \/ V!BeginComplete(r, v) \/ V!BeginDelete(r, v)
             \/ \E l \in V!Write : V!BeginDecide(r, v, l) \/ V!BeginCancel(r, v, l)
      PROVE  BookingIInv'
  <2>r. r \in Request /\ {} \in SUBSET Reservation /\ {v} \in SUBSET Reservation
    BY DEF V!Arriving
  <2>1. CASE V!BeginComplete(r, v)
    BY <2>r, <2>1, BookingBegins DEF V!BeginComplete, V!Open, V!Write
  <2>2. CASE V!BeginDelete(r, v)
    BY <2>r, <2>2, BookingBegins DEF V!BeginDelete, V!Exists, V!Write
  <2>3. ASSUME NEW l \in V!Write, V!BeginDecide(r, v, l) PROVE BookingIInv'
    BY <2>r, <2>3, BookingBegins DEF V!BeginDecide, V!Open, V!Write
  <2>4. ASSUME NEW l \in V!Write, V!BeginCancel(r, v, l) PROVE BookingIInv'
    BY <2>r, <2>4, BookingBegins DEF V!BeginCancel, V!Open, V!Write
  <2>5. QED BY <1>1, <2>1, <2>2, <2>3, <2>4
<1>2. ASSUME NEW r \in V!Arriving, V!List(r) PROVE BookingIInv'
  <2>1. r \in Request /\ {} \in SUBSET Reservation BY DEF V!Arriving
  <2>2. QED BY <1>2, <2>1, BookingBegins DEF V!List
<1>3. ASSUME NEW r \in Request,
             V!Confirm(r) \/ V!Decline(r) \/ V!CancelByBar(r) \/ V!Complete(r)
             \/ V!CancelByUser(r) \/ V!DeletePast(r)
      PROVE  BookingIInv'
  <2>1. CASE V!Confirm(r)
    BY <2>1, BookingWrites DEF V!Confirm, V!Write, V!Status, V!Open
  <2>2. CASE V!Decline(r)
    BY <2>2, BookingWrites DEF V!Decline, V!Write, V!Status, V!Final
  <2>3. CASE V!CancelByBar(r)
    BY <2>3, BookingWrites DEF V!CancelByBar, V!Write, V!Status, V!Final
  <2>4. CASE V!Complete(r)
    BY <2>4, BookingWrites DEF V!Complete, V!Write, V!Status, V!Final
  <2>5. CASE V!CancelByUser(r)
    BY <2>5, BookingWrites DEF V!CancelByUser, V!Write, V!Status, V!Final
  <2>6. CASE V!DeletePast(r)
    BY <2>6, BookingWrites DEF V!DeletePast, V!Write, V!Status
  <2>7. QED BY <1>3, <2>1, <2>2, <2>3, <2>4, <2>5, <2>6
<1>4. ASSUME NEW r \in Request, V!SweepFind(r) PROVE BookingIInv'
  <2>1. /\ V!Stale \in SUBSET Reservation /\ "sweepWrite" \in V!Label /\ vpc[r] \notin V!Tell
    BY <1>4 DEF BookingIInv, BookingTypes, V!SweepFind, V!Stale, V!Label, V!Tell
  <2>2. QED BY <1>4, <2>1, BookingMoves DEF V!SweepFind
<1>5. QED
  BY <1>1, <1>2, <1>3, <1>4, SweepStep, NotifyStep, BookingFails, PassStep, CreateStep
  DEF V!Next, V!Arriving, V!Working

-----------------------------------------------------------------------------
(* Campaigns: the medal is earned, and no hook loses it *)

\* A hook that has read the target, and one that has counted the visits.
Aims == {"pool", "visits", "upsert", "findMedal", "medal"}
Tallied == {"upsert", "findMedal", "medal"}

CampaignTypes ==
  /\ window \in {"before", "open", "over"}
  /\ pool \subseteq Bar /\ visits \subseteq Bar
  /\ target \in Nat \ {0} /\ counts \in Nat /\ least \in Nat
  /\ removed \in BOOLEAN /\ medal \in BOOLEAN /\ disturbed \in BOOLEAN /\ behind \in BOOLEAN
  /\ gpc \in [Request -> G!Label] /\ bar \in [Request -> SUBSET Bar]
  /\ goal \in [Request -> Nat] /\ counted \in [Request -> SUBSET Bar]
  /\ \A r \in Request : gpc[r] \in {"target", "pool0"} => goal[r] # 0

\* A hook aims at no less than the least target, and what it has counted are visits.
Backed ==
  /\ least <= target
  /\ \A r \in Request :
       /\ gpc[r] \in Aims => goal[r] >= least
       /\ gpc[r] \in Tallied => counted[r] \subseteq visits
       /\ gpc[r] \in {"findMedal", "medal"} => Cardinality(counted[r]) >= goal[r]
  /\ medal => Cardinality(visits) >= least
  /\ counts <= Cardinality(visits)

\* In an event nobody has disturbed a hook knows the target, the pool and, unless
\* a visit came later, what has been visited of it.
Steady ==
  /\ window = "before" => visits = {}
  /\ ~disturbed => \A r \in Request :
       /\ gpc[r] \in Aims => goal[r] = target
       /\ gpc[r] = "visits" => counted[r] = pool
       /\ gpc[r] \in Tallied /\ r \notin late => counted[r] = pool \cap visits

\* A hook is yet to count, or has counted enough.
Counting(r) == gpc[r] \in {"pool", "visits"} \/ (gpc[r] = "members" /\ bar[r] \subseteq pool)
Winning(r) == gpc[r] \in Tallied /\ Cardinality(counted[r]) >= goal[r]

Visited == Cardinality(visits \cap pool)

\* Who has visited enough has the medal or a hook that is going to give it ...
MedalComes ==
  (~disturbed /\ G!Live /\ Visited >= target /\ ~medal) =>
    \E r \in Request : Counting(r) \/ Winning(r)

\* ... and the count that is stored is right, or about to be written.
CountComes ==
  (~disturbed /\ G!Live /\ ~behind) =>
    \/ counts = G!MinOf(Visited, target)
    \/ \E r \in Request : Counting(r) \/ gpc[r] = "upsert"

CampaignIInv == CampaignTypes /\ Backed /\ Steady /\ MedalComes /\ CountComes

LEMMA SameCardinality == \A S : G!Cardinality(S) = Cardinality(S)
BY Zenon DEF G!Cardinality, Cardinality

LEMMA BarsFinite == \A S \in SUBSET Bar : IsFiniteSet(S) /\ Cardinality(S) \in Nat
BY FS_Subset, FS_CardinalityType, ConstantsOK

LEMMA BarsGrow ==
  \A S, T \in SUBSET Bar : S \subseteq T => Cardinality(S) <= Cardinality(T)
BY BarsFinite, FS_Subset

LEMMA CampaignStands == CampaignIInv => G!EventMedalEarned /\ G!EventMedalDelivered
<1> SUFFICES ASSUME CampaignIInv PROVE G!EventMedalEarned /\ G!EventMedalDelivered
  OBVIOUS
<1>1. G!EventMedalEarned
  <2>1. CASE medal
    BY <2>1, SameCardinality DEF CampaignIInv, Backed, G!EventMedalEarned
  <2>2. CASE ~medal
    <3>1. G!MedalCards = {} BY <2>2 DEF G!MedalCards
    <3>2. QED BY <3>1 DEF G!EventMedalEarned
  <2>3. QED BY <2>1, <2>2
<1>2. CASE G!Live /\ ~disturbed /\ \A r \in Request : gpc[r] \notin G!Hook
  <2>1. /\ G!UserCard = [progress |-> counts, of |-> target, hasMedal |-> medal]
        /\ G!Invited = pool
    BY <1>2 DEF G!UserCard, G!Invited, G!Live
  <2>2. \A r \in Request : ~Counting(r) /\ ~Winning(r) /\ gpc[r] # "upsert"
    BY <1>2 DEF Counting, Winning, Tallied, G!Hook
  <2>3. (Visited >= target => medal) /\ (~behind => counts = G!MinOf(Visited, target))
    BY <1>2, <2>2 DEF CampaignIInv, MedalComes, CountComes
  <2>4. G!EventMedalDelivered
    BY <2>1, <2>3, SameCardinality DEF G!EventMedalDelivered, Visited
  <2>5. QED BY <1>1, <2>4
<1>3. CASE ~(G!Live /\ ~disturbed /\ \A r \in Request : gpc[r] \notin G!Hook)
  <2>1. ~G!Live => G!UserCard = None BY DEF G!UserCard
  <2>2. QED BY <1>1, <1>3, <2>1 DEF G!EventMedalDelivered
<1>4. QED BY <1>1, <1>2, <1>3

\* Before the first visit nothing is owed.
LEMMA NoVisits ==
  ASSUME CampaignTypes, Backed, visits = {}
  PROVE  MedalComes /\ CountComes
<1>1. visits \cap pool = {} /\ Cardinality({}) = 0
  BY FS_EmptySet
<1>2. Visited = 0 /\ counts = 0
  BY <1>1 DEF Visited, CampaignTypes, Backed
<1>3. QED
  BY <1>2 DEF CampaignTypes, MedalComes, CountComes, G!MinOf

LEMMA CampaignInit == G!Init => CampaignIInv
<1> SUFFICES ASSUME G!Init PROVE CampaignIInv
  OBVIOUS
<1>0. PICK e \in {"DRAFT", "ACTIVE"}, t \in Target, bs \in SUBSET Bar : G!Created(e, t, bs)
  BY DEF G!Init
<1>1. /\ removed = FALSE /\ target \in Nat \ {0} /\ pool \subseteq Bar /\ least = target
      /\ window \in {"before", "open"} /\ visits = {} /\ counts = 0 /\ medal = FALSE
      /\ gpc = [r \in Request |-> "idle"] /\ bar = [r \in Request |-> {}]
      /\ goal = [r \in Request |-> 0] /\ counted = [r \in Request |-> {}]
      /\ disturbed = FALSE /\ behind = FALSE
  BY <1>0, ConstantsOK DEF G!Init, G!Created
<1>2. CampaignTypes
  BY <1>1 DEF CampaignTypes, G!Label
<1>3. Backed
  BY <1>1, FS_EmptySet DEF Backed, Aims, Tallied
<1>4. Steady
  BY <1>1 DEF Steady, Aims, Tallied
<1>5. QED BY <1>1, <1>2, <1>3, <1>4, NoVisits DEF CampaignIInv

LEMMA ClockStep ==
  ASSUME CampaignIInv, G!Clock
  PROVE  CampaignIInv'
<1>1. /\ window' \in {"open", "over"} /\ (window' = "open" => visits = {})
      /\ UNCHANGED <<event, removed, pool, target, visits, counts, done, medal, gpc, bar, goal,
                     counted, least, disturbed, late, behind>>
  BY DEF G!Clock, G!records, G!locals, G!history, CampaignIInv, CampaignTypes, Steady
<1>2. CampaignTypes' /\ Backed' /\ Steady'
  BY <1>1 DEF CampaignIInv, CampaignTypes, Backed, Steady
<1>3. CASE window' = "open"
  <2>1. visits' = {} BY <1>1, <1>3
  <2>2. MedalComes' /\ CountComes'
    <3>1. (CampaignTypes /\ Backed /\ visits = {} => MedalComes /\ CountComes)'
      BY NoVisits, PTL
    <3>2. QED BY <1>2, <2>1, <3>1
  <2>3. QED BY <1>2, <2>2 DEF CampaignIInv
<1>4. CASE window' = "over"
  <2>1. MedalComes' /\ CountComes'
    BY <1>4 DEF MedalComes, CountComes, G!Live
  <2>2. QED BY <1>2, <2>1 DEF CampaignIInv
<1>5. QED BY <1>1, <1>3, <1>4

\* What one request does with its own place in a hook, the event as it was: it goes
\* on as it must, and the rest stands.
LEMMA HookMoves ==
  ASSUME CampaignIInv, NEW r \in Request,
         UNCHANGED <<event, removed, window, pool, target, visits, least, disturbed>>,
         \A q \in Request \ {r} : /\ gpc'[q] = gpc[q] /\ bar'[q] = bar[q]
                                  /\ goal'[q] = goal[q] /\ counted'[q] = counted[q]
                                  /\ q \in late <=> q \in late',
         CampaignTypes',
         gpc'[r] \in Aims => goal'[r] >= least /\ (~disturbed => goal'[r] = target),
         gpc'[r] \in Tallied =>
           /\ counted'[r] \subseteq visits
           /\ ~disturbed /\ r \notin late' => counted'[r] = pool \cap visits,
         gpc'[r] = "visits" /\ ~disturbed => counted'[r] = pool,
         gpc'[r] \in {"findMedal", "medal"} => Cardinality(counted'[r]) >= goal'[r],
         medal' => medal \/ Cardinality(visits) >= least, medal => medal',
         ~disturbed /\ G!Live /\ Visited >= target /\ (Counting(r) \/ Winning(r)) =>
           medal' \/ Counting(r)' \/ Winning(r)',
         counts' <= Cardinality(visits),
         \/ /\ counts' = counts /\ behind' = behind
            /\ ~disturbed /\ G!Live /\ (Counting(r) \/ gpc[r] = "upsert") =>
                 Counting(r)' \/ gpc'[r] = "upsert"
         \/ ~disturbed /\ ~behind' => counts' = G!MinOf(Visited, target)
  PROVE  CampaignIInv'
<1>1. Backed'
  BY DEF CampaignIInv, CampaignTypes, Backed
<1>2. Steady'
  <2> SUFFICES ASSUME ~disturbed, NEW q \in Request
               PROVE  /\ gpc'[q] \in Aims => goal'[q] = target
                      /\ gpc'[q] = "visits" => counted'[q] = pool
                      /\ gpc'[q] \in Tallied /\ q \notin late' => counted'[q] = pool \cap visits
    BY DEF CampaignIInv, Steady
  <2>1. CASE q = r BY <2>1
  <2>2. CASE q # r BY <2>2 DEF CampaignIInv, Steady
  <2>3. QED BY <2>1, <2>2
<1>3. G!Live' = G!Live /\ Visited' = Visited
  BY DEF G!Live, Visited
<1>4. \A q \in Request \ {r} : Counting(q)' = Counting(q) /\ Winning(q)' = Winning(q)
  BY DEF Counting, Winning
<1>5. MedalComes'
  <2> SUFFICES ASSUME ~disturbed, G!Live, Visited >= target, ~medal'
               PROVE  \E q \in Request : Counting(q)' \/ Winning(q)'
    BY <1>3 DEF MedalComes
  <2>1. PICK q \in Request : Counting(q) \/ Winning(q)
    BY DEF CampaignIInv, MedalComes
  <2>2. CASE q = r BY <2>1, <2>2
  <2>3. CASE q # r BY <2>1, <2>3, <1>4
  <2>4. QED BY <2>2, <2>3
<1>6. CountComes'
  <2> SUFFICES ASSUME ~disturbed, G!Live, ~behind', counts' # G!MinOf(Visited, target)
               PROVE  \E q \in Request : Counting(q)' \/ gpc'[q] = "upsert"
    BY <1>3 DEF CountComes
  <2>1. PICK q \in Request : Counting(q) \/ gpc[q] = "upsert"
    BY DEF CampaignIInv, CountComes
  <2>2. CASE q = r BY <2>1, <2>2
  <2>3. CASE q # r BY <2>1, <2>3, <1>4
  <2>4. QED BY <2>2, <2>3
<1>7. QED BY <1>1, <1>2, <1>5, <1>6 DEF CampaignIInv

\* Where a request is when it has ended.
LEMMA HookReturns ==
  ASSUME CampaignTypes, NEW r \in Request, G!Return(r)
  PROVE  /\ gpc' \in [Request -> G!Label] /\ bar' \in [Request -> SUBSET Bar]
         /\ goal' \in [Request -> Nat] /\ counted' \in [Request -> SUBSET Bar]
         /\ gpc'[r] = "idle" /\ "idle" \notin Aims \cup Tallied \cup {"members"}
         /\ \A q \in Request \ {r} : /\ gpc'[q] = gpc[q] /\ bar'[q] = bar[q]
                                      /\ goal'[q] = goal[q] /\ counted'[q] = counted[q]
BY DEF G!Return, CampaignTypes, G!Label, Aims, Tallied

LEMMA MembersStep ==
  ASSUME CampaignIInv, NEW r \in Request, G!ReadMembers(r)
  PROVE  CampaignIInv'
<1>1. /\ gpc[r] = "members"
      /\ UNCHANGED <<event, removed, window, pool, target, visits, counts, medal, least,
                     disturbed, late, behind>>
  BY DEF G!ReadMembers, G!campaign, G!records, G!history
<1>2. CASE G!Live /\ bar[r] \subseteq pool
  <2>1. /\ gpc' = [gpc EXCEPT ![r] = "pool"] /\ goal' = [goal EXCEPT ![r] = target]
        /\ UNCHANGED <<bar, counted>>
    BY <1>2 DEF G!ReadMembers
  <2>2. CampaignTypes'
    BY <1>1, <2>1 DEF CampaignIInv, CampaignTypes, G!Label, G!Hook, G!Admin
  <2>3. gpc'[r] = "pool" /\ goal'[r] = target
    BY <2>1 DEF CampaignIInv, CampaignTypes
  <2>4. Counting(r)' BY <2>3 DEF Counting
  <2>5. QED
    BY <1>1, <2>1, <2>2, <2>3, <2>4, HookMoves DEF CampaignIInv, CampaignTypes, Backed, Tallied
<1>3. CASE ~(G!Live /\ bar[r] \subseteq pool)
  <2>1. G!Return(r) BY <1>3 DEF G!ReadMembers
  <2>2. CampaignTypes'
    BY <1>1, <2>1, HookReturns DEF CampaignIInv, CampaignTypes
  <2>3. G!Live => ~Counting(r) /\ ~Winning(r) /\ gpc[r] # "upsert"
    BY <1>1, <1>3 DEF Counting, Winning, Tallied
  <2>4. QED
    BY <1>1, <2>1, <2>2, <2>3, HookReturns, HookMoves DEF CampaignIInv, Backed, Aims
<1>4. QED BY <1>2, <1>3

LEMMA PoolStep ==
  ASSUME CampaignIInv, NEW r \in Request, G!ReadPool(r)
  PROVE  CampaignIInv'
<1>1. /\ gpc[r] = "pool" /\ gpc' = [gpc EXCEPT ![r] = "visits"]
      /\ counted' = [counted EXCEPT ![r] = pool]
      /\ UNCHANGED <<event, removed, window, pool, target, visits, counts, medal, bar, goal,
                     least, disturbed, late, behind>>
  BY DEF G!ReadPool, G!campaign, G!records, G!history
<1>2. CampaignTypes'
  BY <1>1 DEF CampaignIInv, CampaignTypes, G!Label, G!Hook, G!Admin
<1>3. gpc'[r] = "visits" /\ counted'[r] = pool /\ "visits" \notin Tallied
      /\ goal[r] >= least /\ (~disturbed => goal[r] = target)
  BY <1>1 DEF CampaignIInv, CampaignTypes, Backed, Steady, Tallied, Aims
<1>4. Counting(r)' BY <1>3 DEF Counting
<1>5. QED BY <1>1, <1>2, <1>3, <1>4, HookMoves DEF CampaignIInv, CampaignTypes, Backed

LEMMA VisitsStep ==
  ASSUME CampaignIInv, NEW r \in Request, G!ReadVisits(r)
  PROVE  CampaignIInv'
<1>1. /\ gpc[r] = "visits" /\ gpc' = [gpc EXCEPT ![r] = "upsert"]
      /\ counted' = [counted EXCEPT ![r] = counted[r] \cap visits] /\ late' = late \ {r}
      /\ UNCHANGED <<event, removed, window, pool, target, visits, counts, medal, bar, goal,
                     least, disturbed, behind>>
  BY DEF G!ReadVisits, G!campaign, G!records
<1>2. CampaignTypes'
  BY <1>1 DEF CampaignIInv, CampaignTypes, G!Label, G!Hook, G!Admin
<1>3. /\ gpc'[r] = "upsert" /\ counted'[r] = counted[r] \cap visits
      /\ goal[r] >= least /\ (~disturbed => goal[r] = target /\ counted[r] = pool)
  BY <1>1 DEF CampaignIInv, CampaignTypes, Backed, Steady, Aims
<1>4. ~disturbed => counted'[r] = pool \cap visits
  BY <1>3
<1>5. ~disturbed /\ Visited >= target => Winning(r)'
  BY <1>1, <1>3, <1>4 DEF Winning, Tallied, Visited
<1>6. QED BY <1>1, <1>2, <1>3, <1>4, <1>5, HookMoves DEF CampaignIInv, CampaignTypes, Backed

\* The count written is of visits, and it is the right one unless a visit came later.
LEMMA UpsertStep ==
  ASSUME CampaignIInv, NEW r \in Request, G!Upsert(r)
  PROVE  CampaignIInv'
<1> DEFINE n == G!MinOf(Cardinality(counted[r]), goal[r])
<1>1. /\ gpc[r] = "upsert" /\ counts' = n /\ done' = (n >= goal[r]) /\ behind' = (r \in late)
      /\ IF done' THEN G!Goto(r, "findMedal") ELSE G!Return(r)
      /\ UNCHANGED <<event, removed, window, pool, target, visits, medal, least, disturbed, late>>
  BY SameCardinality DEF G!Upsert, G!campaign
<1>2. /\ counted[r] \in SUBSET Bar /\ goal[r] \in Nat /\ Cardinality(counted[r]) \in Nat
      /\ counted[r] \subseteq visits /\ visits \in SUBSET Bar
      /\ goal[r] >= least /\ (~disturbed => goal[r] = target)
      /\ ~disturbed /\ r \notin late => counted[r] = pool \cap visits
  BY <1>1, BarsFinite DEF CampaignIInv, CampaignTypes, Backed, Steady, Aims, Tallied
<1>3. Cardinality(counted[r]) <= Cardinality(visits) /\ Cardinality(visits) \in Nat
  BY <1>2, BarsGrow, BarsFinite
<1>4. /\ n \in Nat /\ n <= Cardinality(visits)
      /\ n >= goal[r] <=> Cardinality(counted[r]) >= goal[r]
  BY <1>2, <1>3 DEF G!MinOf
<1>5. ~disturbed /\ ~behind' => n = G!MinOf(Visited, target)
  <2> SUFFICES ASSUME ~disturbed, ~behind' PROVE n = G!MinOf(Visited, target)
    OBVIOUS
  <2>1. pool \cap visits = visits \cap pool OBVIOUS
  <2>2. counted[r] = visits \cap pool /\ goal[r] = target
    BY <1>1, <1>2, <2>1
  <2>3. QED BY <2>2 DEF Visited
<1> HIDE DEF n
<1>6. CASE done'
  <2>1. gpc' = [gpc EXCEPT ![r] = "findMedal"] /\ UNCHANGED <<bar, goal, counted>>
    BY <1>1, <1>6 DEF G!Goto
  <2>2. CampaignTypes'
    BY <1>1, <1>4, <2>1 DEF CampaignIInv, CampaignTypes, G!Label, G!Hook, G!Admin
  <2>3. gpc'[r] = "findMedal" /\ Cardinality(counted[r]) >= goal[r]
    BY <1>1, <1>4, <1>6, <2>1 DEF CampaignIInv, CampaignTypes
  <2>4. Winning(r)' BY <2>1, <2>3 DEF Winning, Tallied
  <2>5. QED BY <1>1, <1>2, <1>4, <1>5, <2>1, <2>2, <2>3, <2>4, HookMoves
<1>7. CASE ~done'
  <2>1. G!Return(r) BY <1>1, <1>7
  <2>2. CampaignTypes'
    BY <1>1, <1>4, <2>1, HookReturns DEF CampaignIInv, CampaignTypes
  <2>3. ~Counting(r) /\ ~Winning(r)
    BY <1>1, <1>4, <1>7 DEF Counting, Winning
  <2>4. /\ gpc'[r] \notin Aims \cup Tallied
        /\ \A q \in Request \ {r} : /\ gpc'[q] = gpc[q] /\ bar'[q] = bar[q]
                                     /\ goal'[q] = goal[q] /\ counted'[q] = counted[q]
    BY <2>1, HookReturns DEF CampaignIInv
  <2>5. QED BY <1>1, <1>4, <1>5, <2>2, <2>3, <2>4, HookMoves DEF Aims
<1>8. QED BY <1>6, <1>7

LEMMA MedalStep ==
  ASSUME CampaignIInv, NEW r \in Request, G!FindMedal(r) \/ G!CreateMedal(r)
  PROVE  CampaignIInv'
<1>1. CASE G!FindMedal(r) /\ ~medal
  <2>1. /\ gpc[r] = "findMedal" /\ gpc' = [gpc EXCEPT ![r] = "medal"]
        /\ UNCHANGED <<event, removed, window, pool, target, visits, counts, medal, bar, goal,
                       counted, least, disturbed, late, behind>>
    BY <1>1 DEF G!FindMedal, G!Goto, G!campaign, G!records, G!history
  <2>2. CampaignTypes'
    BY <2>1 DEF CampaignIInv, CampaignTypes, G!Label, G!Hook
  <2>3. /\ gpc'[r] = "medal" /\ "medal" \in Aims \cap Tallied /\ "findMedal" \in Aims \cap Tallied
        /\ Cardinality(counted[r]) >= goal[r]
    BY <2>1 DEF CampaignIInv, CampaignTypes, Backed, Aims, Tallied
  <2>4. Winning(r)' /\ ~Counting(r)
    BY <2>1, <2>3 DEF Winning, Counting
  <2>5. QED
    BY <2>1, <2>2, <2>3, <2>4, HookMoves DEF CampaignIInv, CampaignTypes, Backed, Steady
<1>2. CASE (G!FindMedal(r) /\ medal) \/ G!CreateMedal(r)
  <2>1. /\ gpc[r] \in {"findMedal", "medal"} /\ G!Return(r) /\ medal'
        /\ UNCHANGED <<event, removed, window, pool, target, visits, counts, least, disturbed,
                       late, behind>>
    BY <1>2 DEF G!FindMedal, G!CreateMedal, G!campaign, G!records, G!history
  <2>2. CampaignTypes'
    BY <1>2, <2>1, HookReturns DEF CampaignIInv, CampaignTypes, G!FindMedal, G!CreateMedal, G!records
  <2>3. Cardinality(visits) >= least
    <3>1. /\ counted[r] \in SUBSET Bar /\ visits \in SUBSET Bar /\ counted[r] \subseteq visits
          /\ Cardinality(counted[r]) >= goal[r] /\ goal[r] >= least
          /\ goal[r] \in Nat /\ least \in Nat
      BY <2>1 DEF CampaignIInv, CampaignTypes, Backed, Aims, Tallied
    <3>2. QED BY <3>1, BarsGrow, BarsFinite
  <2>4. /\ gpc'[r] \notin Aims \cup Tallied
        /\ \A q \in Request \ {r} : /\ gpc'[q] = gpc[q] /\ bar'[q] = bar[q]
                                     /\ goal'[q] = goal[q] /\ counted'[q] = counted[q]
    BY <2>1, HookReturns DEF CampaignIInv
  <2>5. ~Counting(r) /\ gpc[r] # "upsert"
    BY <2>1 DEF Counting
  <2>6. QED BY <2>1, <2>2, <2>3, <2>4, <2>5, HookMoves DEF CampaignIInv, Backed, Aims
<1>3. QED BY <1>1, <1>2

\* A hook that fails disturbs the event; what the admin fails to do changes nothing.
LEMMA CampaignFails ==
  ASSUME CampaignIInv, NEW r \in Request, G!Fail(r)
  PROVE  CampaignIInv'
<1>1. /\ G!Return(r) /\ disturbed' = (disturbed \/ gpc[r] \in G!Hook)
      /\ UNCHANGED <<event, removed, window, pool, target, visits, counts, medal, least, late,
                     behind>>
  BY DEF G!Fail, G!campaign, G!records
<1>2. /\ gpc'[r] \notin Aims \cup Tallied
      /\ \A q \in Request \ {r} : /\ gpc'[q] = gpc[q] /\ bar'[q] = bar[q]
                                   /\ goal'[q] = goal[q] /\ counted'[q] = counted[q]
  BY <1>1, HookReturns DEF CampaignIInv
<1>3. CampaignTypes'
  BY <1>1, HookReturns DEF CampaignIInv, CampaignTypes
<1>4. CASE gpc[r] \in G!Hook
  <2>1. disturbed' BY <1>1, <1>4
  <2>2. Backed'
    BY <1>1, <1>2 DEF CampaignIInv, Backed, Aims, Tallied
  <2>3. Steady' /\ MedalComes' /\ CountComes'
    BY <1>1, <2>1 DEF CampaignIInv, Steady, MedalComes, CountComes
  <2>4. QED BY <1>3, <2>2, <2>3 DEF CampaignIInv
<1>5. CASE gpc[r] \notin G!Hook
  <2>1. ~Counting(r) /\ ~Winning(r) /\ gpc[r] # "upsert" /\ UNCHANGED disturbed
    BY <1>1, <1>5 DEF CampaignIInv, CampaignTypes, Counting, Winning, Tallied, G!Hook
  <2>2. QED BY <1>1, <1>2, <1>3, <2>1, HookMoves DEF CampaignIInv, Backed, Aims
<1>6. QED BY <1>4, <1>5

LEMMA CampaignBegins ==
  ASSUME CampaignIInv, NEW r \in Request, NEW bs \in SUBSET Bar, NEW t \in Nat,
         NEW l \in G!Admin, t # 0 \/ l \notin {"target", "pool0"}, G!Begin(r, bs, t, l),
         UNCHANGED <<event, removed, window, pool, target, visits, counts, medal, least, disturbed,
                     late, behind>>
  PROVE  CampaignIInv'
<1>1. /\ gpc[r] = "idle" /\ gpc' = [gpc EXCEPT ![r] = l] /\ bar' = [bar EXCEPT ![r] = bs]
      /\ goal' = [goal EXCEPT ![r] = t] /\ UNCHANGED counted
  BY DEF G!Begin
<1>2. CampaignTypes'
  BY <1>1 DEF CampaignIInv, CampaignTypes, G!Label
<1>3. gpc'[r] \notin Aims \cup Tallied
  BY <1>1 DEF CampaignIInv, CampaignTypes, Aims, Tallied, G!Admin
<1>4. ~Counting(r) /\ ~Winning(r) /\ gpc[r] # "upsert"
  BY <1>1 DEF Counting, Winning, Tallied
<1>5. QED
  BY <1>1, <1>2, <1>3, <1>4, HookMoves DEF CampaignIInv, CampaignTypes, Backed, Aims

\* A bar visited anew: whoever has counted before is late, and this hook will count.
LEMMA UnlockStep ==
  ASSUME CampaignIInv, NEW r \in Request, NEW b \in Bar, G!Unlock(r, b)
  PROVE  CampaignIInv'
<1>1. /\ gpc[r] = "idle" /\ gpc' = [gpc EXCEPT ![r] = "members"] /\ bar' = [bar EXCEPT ![r] = {b}]
      /\ goal' = [goal EXCEPT ![r] = 0] /\ UNCHANGED counted
      /\ visits' = IF window = "open" THEN visits \cup {b} ELSE visits
      /\ late' = IF visits' # visits THEN Request \ {r} ELSE late
      /\ UNCHANGED <<event, removed, window, pool, target, counts, medal, least, disturbed, behind>>
  BY DEF G!Unlock, G!Begin, G!campaign, G!records
<1>2. CampaignTypes'
  BY <1>1 DEF CampaignIInv, CampaignTypes, G!Label, G!Hook
<1>3. /\ gpc'[r] = "members" /\ "members" \notin Aims \cup Tallied /\ bar'[r] = {b}
      /\ \A q \in Request \ {r} : /\ gpc'[q] = gpc[q] /\ bar'[q] = bar[q]
                                   /\ goal'[q] = goal[q] /\ counted'[q] = counted[q]
  BY <1>1 DEF CampaignIInv, CampaignTypes, Aims, Tallied
<1>4. ~Counting(r) /\ ~Winning(r) /\ gpc[r] # "upsert"
  BY <1>1 DEF Counting, Winning, Tallied
<1>5. CASE visits' = visits
  BY <1>1, <1>2, <1>3, <1>4, <1>5, HookMoves DEF CampaignIInv, CampaignTypes, Backed, Aims
<1>6. CASE visits' # visits
  <2>1. /\ window = "open" /\ visits' = visits \cup {b} /\ late' = Request \ {r}
        /\ Cardinality(visits) <= Cardinality(visits')
        /\ Cardinality(visits) \in Nat /\ Cardinality(visits') \in Nat
    BY <1>1, <1>2, <1>6, BarsGrow, BarsFinite DEF CampaignIInv, CampaignTypes
  <2>2. Backed'
    BY <1>1, <1>3, <2>1 DEF CampaignIInv, CampaignTypes, Backed, Aims
  <2>3. Steady'
    BY <1>1, <1>3, <2>1 DEF CampaignIInv, Steady, Aims, Tallied
  <2>4. /\ b \in pool => Counting(r)'
        /\ b \notin pool => visits' \cap pool = visits \cap pool
        /\ G!Live' = G!Live
    BY <1>1, <1>3, <2>1 DEF Counting, G!Live
  <2>5. \A q \in Request \ {r} : Counting(q)' = Counting(q) /\ Winning(q)' = Winning(q)
    BY <1>1, <1>3 DEF Counting, Winning
  <2>6. MedalComes' /\ CountComes'
    <3>1. CASE b \in pool
      BY <3>1, <2>4 DEF MedalComes, CountComes
    <3>2. CASE b \notin pool
      <4>1. Visited' = Visited BY <1>1, <3>2, <2>4 DEF Visited
      <4>2. MedalComes'
        BY <1>1, <1>4, <2>4, <2>5, <4>1 DEF CampaignIInv, MedalComes
      <4>3. CountComes'
        BY <1>1, <1>3, <1>4, <2>4, <2>5, <4>1 DEF CampaignIInv, CountComes
      <4>4. QED BY <4>2, <4>3
    <3>3. QED BY <3>1, <3>2
  <2>7. QED BY <1>2, <2>2, <2>3, <2>6 DEF CampaignIInv
<1>7. QED BY <1>5, <1>6

\* The event changes: from the first visit or hook on, that disturbs it.
LEMMA AdminStep ==
  ASSUME CampaignIInv, NEW r \in Request, G!Update(r) \/ G!WriteStatus(r)
  PROVE  CampaignIInv'
<1>1. /\ G!Return(r) /\ G!Changes /\ gpc[r] \notin Aims \cup Tallied
      /\ UNCHANGED <<window, visits, counts, medal, late, behind>>
      /\ \/ UNCHANGED <<pool, target, least>>
         \/ /\ gpc[r] \in {"target", "pool0"} /\ target' = goal[r] /\ least' = G!MinOf(least, goal[r])
            /\ pool' \in {bar[r], pool} /\ UNCHANGED removed
  BY DEF G!Update, G!WriteStatus, G!records, Aims, Tallied
<1>2. /\ gpc'[r] \notin Aims \cup Tallied
      /\ \A q \in Request \ {r} : /\ gpc'[q] = gpc[q] /\ bar'[q] = bar[q]
                                   /\ goal'[q] = goal[q] /\ counted'[q] = counted[q]
  BY <1>1, HookReturns DEF CampaignIInv
<1>3. /\ target' \in Nat \ {0} /\ least' \in Nat /\ least' <= least /\ least' <= target'
      /\ pool' \subseteq Bar /\ removed' \in BOOLEAN /\ disturbed' \in BOOLEAN
  <2>1. /\ goal[r] \in Nat /\ (gpc[r] \in {"target", "pool0"} => goal[r] # 0)
        /\ least <= target /\ target \in Nat \ {0} /\ least \in Nat
        /\ bar[r] \subseteq Bar /\ pool \subseteq Bar
    BY DEF CampaignIInv, CampaignTypes, Backed
  <2>2. pool' \subseteq Bar /\ target' \in Nat \ {0} /\ least' \in Nat /\ least' <= least /\ least' <= target'
    BY <1>1, <2>1 DEF G!MinOf
  <2>3. removed' \in BOOLEAN
    BY DEF CampaignIInv, CampaignTypes, G!Update, G!WriteStatus
  <2>4. disturbed' \in BOOLEAN
    BY <1>1 DEF G!Changes
  <2>5. QED BY <2>2, <2>3, <2>4
<1>4. CampaignTypes'
  BY <1>1, <1>3, HookReturns DEF CampaignIInv, CampaignTypes
<1>5. Backed'
  <2>1. Cardinality(visits) \in Nat BY BarsFinite DEF CampaignIInv, CampaignTypes
  <2>2. QED BY <1>1, <1>2, <1>3, <2>1 DEF CampaignIInv, CampaignTypes, Backed, Aims
<1>6. ~disturbed' => visits = {} /\ \A q \in Request : gpc[q] \notin G!Hook
  BY <1>1 DEF G!Changes
<1>7. Steady'
  BY <1>1, <1>2, <1>6 DEF CampaignIInv, Steady, Aims, Tallied, G!Hook
<1>8. MedalComes' /\ CountComes'
  <2>1. CASE disturbed'
    BY <2>1 DEF MedalComes, CountComes
  <2>2. CASE ~disturbed'
    <3>1. visits' = {} BY <1>1, <1>6, <2>2
    <3>2. (CampaignTypes /\ Backed /\ visits = {} => MedalComes /\ CountComes)'
      BY NoVisits, PTL
    <3>3. QED BY <1>4, <1>5, <3>1, <3>2
  <2>3. QED BY <2>1, <2>2
<1>9. QED BY <1>4, <1>5, <1>7, <1>8 DEF CampaignIInv

LEMMA CampaignStep == CampaignIInv /\ G!Next => CampaignIInv'
<1> SUFFICES ASSUME CampaignIInv, G!Next PROVE CampaignIInv'
  OBVIOUS
<1>1. ASSUME NEW r \in Request, NEW bs \in SUBSET Bar, NEW t \in Target, G!BeginUpdate(r, bs, t)
      PROVE  CampaignIInv'
  <2>1. PICK l \in {"target", "pool0"} : G!Begin(r, bs, t, l)
    BY <1>1 DEF G!BeginUpdate
  <2>2. l \in G!Admin /\ t \in Nat /\ t # 0
    BY ConstantsOK DEF G!Admin
  <2>3. UNCHANGED <<event, removed, window, pool, target, visits, counts, medal, least, disturbed,
                    late, behind>>
    BY <1>1 DEF G!BeginUpdate, G!campaign, G!records, G!history
  <2>4. QED BY <2>1, <2>2, <2>3, CampaignBegins
<1>2. ASSUME NEW r \in Request, NEW l \in G!Admin, G!BeginStatus(r, l)
      PROVE  CampaignIInv'
  <2>1. l \notin {"target", "pool0"} /\ G!Begin(r, {}, 0, l)
    BY <1>2 DEF G!BeginStatus
  <2>2. UNCHANGED <<event, removed, window, pool, target, visits, counts, medal, least, disturbed,
                    late, behind>>
    BY <1>2 DEF G!BeginStatus, G!campaign, G!records, G!history
  <2>3. QED BY <2>1, <2>2, CampaignBegins
<1>3. QED
  BY <1>1, <1>2, ClockStep, UnlockStep, MembersStep, PoolStep, VisitsStep, UpsertStep, MedalStep,
     AdminStep, CampaignFails DEF G!Next, G!Arriving, G!Working

-----------------------------------------------------------------------------
(* Rewards: types *)

LEMMA SameCounts ==
  \A S : R!Cardinality(S) = Cardinality(S) /\ (R!IsFiniteSet(S) <=> IsFiniteSet(S))
<1>1. \A S : R!Cardinality(S) = Cardinality(S)
  BY Zenon DEF R!Cardinality, Cardinality
<1>2. \A S : R!IsFiniteSet(S) <=> IsFiniteSet(S)
  BY DEF R!IsFiniteSet, IsFiniteSet
<1>3. QED BY <1>1, <1>2

\* The highest tier within a streak exists: the tiers above a tier are finitely many,
\* and where they are fewest there is none.
LEMMA TierExists ==
  ASSUME NEW n \in Nat
  PROVE  R!TierReached(n) \in Tier /\ R!TierReached(n) <= n
<1> DEFINE S == {t \in Tier : t <= n}
           Above(t) == {s \in S : s > t}
           T == {Above(t) : t \in S}
<1>1. S \subseteq Nat /\ IsFiniteSet(S) /\ 0 \in S
  <2>1. S \in SUBSET Nat /\ \A s \in S : s <= n
    BY ConstantsOK
  <2>2. 0 \in S BY ConstantsOK
  <2> HIDE DEF S
  <2>3. IsFiniteSet(S) BY <2>1, FS_BoundedSetOfNaturals
  <2>4. QED BY <2>1, <2>2, <2>3
<1>2. T \subseteq FiniteSubsetsOf(S)
  BY <1>1, FS_Subset DEF FiniteSubsetsOf
<1>3. PICK A \in T : \A B \in T : ~(<<B, A>> \in StrictSubsetOrdering(S))
  <2>1. IsWellFoundedOn(StrictSubsetOrdering(S), FiniteSubsetsOf(S))
    BY FS_StrictSubsetOrderingWellFounded
  <2>2. T # {} BY <1>1
  <2>3. QED BY <1>2, <2>1, <2>2, WFMin
<1>4. PICK t \in S : A = Above(t)
  BY <1>3
<1>5. \A s \in S : s <= t
  <2> SUFFICES ASSUME NEW s \in S, s > t PROVE FALSE
    BY <1>1
  <2>1. Above(s) \in T /\ Above(s) \subseteq A /\ s \in A /\ s \notin Above(s)
    BY <1>1, <1>4
  <2>2. <<Above(s), A>> \in StrictSubsetOrdering(S)
    BY <1>4, <2>1 DEF StrictSubsetOrdering
  <2>3. QED BY <1>3, <2>1, <2>2
<1>6. t \in Tier /\ t <= n /\ \A s \in Tier : s <= n => s <= t
  BY <1>5
<1>7. QED BY <1>6 DEF R!TierReached

\* The rows and keys that handlers pass on have their types.
LEMMA RewardShapes ==
  /\ R!Blank \in R!Progress /\ R!NoUser \in R!UserRow
  /\ R!TypeOK => R!Row \in R!UserRow
BY DEF R!Blank, R!Progress, R!Period, R!NoUser, R!UserRow, R!Row, R!TypeOK

LocalTypes ==
  /\ rpc \in [Request -> R!Label] /\ day \in [Request -> Nat]
  /\ seen \in [Request -> R!UserRow] /\ merged \in [Request -> R!Progress]
  /\ todo \in [Request -> SUBSET R!Key]

LEMMA ContinueTypes ==
  ASSUME R!TypeOK, NEW r \in Request, NEW l \in R!Label, NEW ks \in SUBSET R!Key,
         NEW rd \in R!UserRow, R!Continue(r, l, ks, rd)
  PROVE  LocalTypes'
BY RewardShapes DEF R!TypeOK, LocalTypes, R!Continue, R!Label

LEMMA ReturnTypes ==
  ASSUME R!TypeOK, NEW r \in Request, R!Return(r)
  PROVE  LocalTypes'
BY ContinueTypes, RewardShapes DEF R!Return, R!Label

LEMMA ArrivesTypes ==
  ASSUME R!TypeOK, NEW r \in Request, NEW l \in R!Label, NEW ks \in SUBSET R!Key,
         NEW into \in R!Progress, R!Arrives(r, l, ks, into)
  PROVE  R!TypeOK'
<1>1. LocalTypes'
  BY RewardShapes DEF R!TypeOK, LocalTypes, R!Arrives
<1>2. rserved' \in 0..MaxEarned
  BY ConstantsOK DEF R!TypeOK, R!Arrives
<1>3. stale' \subseteq Request /\ hurried' \subseteq Request
  BY DEF R!TypeOK, R!Arrives
<1>4. UNCHANGED <<today, xp, coins, streak, lastLogin, tierClaimed, chestDay, entries, ledger,
                  repeats, dropped, live, progress, mission, logins, completions, squeezed, lost>>
  BY DEF R!Arrives, R!account, R!records
<1>5. QED
  BY <1>1, <1>2, <1>3, <1>4 DEF R!TypeOK, LocalTypes

\* What a bonus is recorded under.
LEMMA StreakKeyTypes ==
  ASSUME NEW n \in Nat, NEW claimed \in Nat
  PROVE  R!StreakKeys(n, claimed) \in SUBSET R!Key
<1>1. R!TierReached(n) \in Nat BY TierExists, ConstantsOK
<1>2. QED BY <1>1 DEF R!StreakKeys, R!Key

LEMMA MergeTypes ==
  ASSUME R!TypeOK, NEW e \in Entry, NEW inc \in Incoming
  PROVE  R!Merge(entries, e, inc) \in R!Progress
<1>1. inc \in [period : R!Period, done : BOOLEAN] /\ entries \in R!Progress
  BY ConstantsOK DEF R!Period, R!TypeOK
<1>2. entries[e] \in [period : R!Period, done : BOOLEAN]
  BY <1>1 DEF R!Progress
<1>3. [entries[e] EXCEPT !.done = @ \/ inc.done] \in [period : R!Period, done : BOOLEAN]
  BY <1>1, <1>2
<1>4. QED BY <1>1, <1>2, <1>3 DEF R!Merge, R!Progress

LEMMA ClaimTypes ==
  ASSUME NEW m \in R!Progress
  PROVE  R!Claims(m) \in SUBSET R!Key
BY DEF R!Claims, R!Key, R!Progress

\* What a request finds when it arrives.
LEMMA ArrivalTypes ==
  ASSUME R!TypeOK, NEW r \in R!Arriving,
         \/ R!LoginRead(r) \/ R!EarnMedal(r)
         \/ \E e \in Entry, inc \in Incoming, chest \in BOOLEAN : R!SyncRead(r, e, inc, chest)
         \/ \E p \in Place : R!CheckIn(r, p)
         \/ \E d \in Drink : R!LogDrink(r, d)
         \/ \E p \in Promo : R!ScanPromo(r, p)
  PROVE  R!TypeOK'
<1>r. r \in Request /\ today \in Nat /\ streak \in Nat /\ tierClaimed \in Nat /\ R!Blank \in R!Progress
  BY RewardShapes DEF R!Arriving, R!TypeOK
<1>1. CASE R!LoginRead(r)
  BY <1>r, <1>1, StreakKeyTypes, ArrivesTypes DEF R!LoginRead, R!Label
<1>2. CASE R!EarnMedal(r)
  BY <1>r, <1>2, ArrivesTypes DEF R!EarnMedal, R!Label, R!Key
<1>3. ASSUME NEW e \in Entry, NEW inc \in Incoming, NEW chest \in BOOLEAN, R!SyncRead(r, e, inc, chest)
      PROVE  R!TypeOK'
  <2>1. (IF chest THEN {<<"CHEST", today>>} ELSE {}) \in SUBSET R!Key
    BY <1>r DEF R!Key
  <2>2. R!Merge(entries, e, inc) \in R!Progress
    BY MergeTypes
  <2>3. QED BY <1>r, <1>3, <2>1, <2>2, ArrivesTypes DEF R!SyncRead, R!Label
<1>4. ASSUME NEW p \in Place, R!CheckIn(r, p) PROVE R!TypeOK'
  <2>1. {<<"VISIT", p, today>>} \in SUBSET R!Key BY <1>r DEF R!Key
  <2>2. QED BY <1>r, <1>4, <2>1, ArrivesTypes DEF R!CheckIn, R!Label
<1>5. ASSUME NEW d \in Drink, R!LogDrink(r, d) PROVE R!TypeOK'
  <2>1. {IF <<"DRINK", d>> \in ledger THEN <<"REPEAT", d>> ELSE <<"DRINK", d>>} \in SUBSET R!Key
    BY DEF R!Key
  <2>2. QED BY <1>r, <1>5, <2>1, ArrivesTypes DEF R!LogDrink, R!Label
<1>6. ASSUME NEW p \in Promo, R!ScanPromo(r, p) PROVE R!TypeOK'
  <2>1. {<<"PROMO", p>>} \in SUBSET R!Key BY DEF R!Key
  <2>2. QED BY <1>r, <1>6, <2>1, ArrivesTypes DEF R!ScanPromo, R!Label
<1>7. QED BY <1>1, <1>2, <1>3, <1>4, <1>5, <1>6

\* What a request that claims a promotion, or awards in a transaction, is about to record.
Ready ==
  \A r \in Request :
    /\ rpc[r] \in {"slots", "recount", "renew"} => \E p \in Promo : todo[r] = {<<"PROMO", p>>}
    /\ rpc[r] \in {"award", "commit"} =>
         \E k \in R!Key : todo[r] = {k} /\ R!Kind(k) \notin {"STREAK", "CHEST"}

LEMMA PromoKeys ==
  ASSUME NEW r \in Request, NEW k \in R!Key, todo[r] = {k}, R!Kind(k) = "PROMO"
  PROVE  R!PromoOf(r) \in Promo /\ k = <<"PROMO", R!PromoOf(r)>> /\ k[2] = R!PromoOf(r)
<1>1. k \in {"PROMO"} \X Promo
  BY DEF R!Key, R!Kind
<1>2. k[2] \in Promo /\ k = <<"PROMO", k[2]>>
  BY <1>1
<1>3. R!PromoOf(r) \in Promo /\ <<"PROMO", R!PromoOf(r)>> \in todo[r]
  BY <1>2 DEF R!PromoOf
<1>4. QED BY <1>2, <1>3

LEMMA GoesLiveTypes ==
  ASSUME R!TypeOK, NEW r \in Request, R!PromoOf(r) \in Promo, R!GoesLive(r)
  PROVE  live' \subseteq Promo /\ hurried' \subseteq Request /\ squeezed' \subseteq Promo
BY DEF R!TypeOK, R!GoesLive

LEMMA LoginTypes ==
  ASSUME R!TypeOK, NEW r \in Request, R!LoginWrite(r)
  PROVE  R!TypeOK'
<1> DEFINE n == IF seen[r].last = day[r] - 1 THEN seen[r].streak + 1 ELSE 1
           rd == [R!Row EXCEPT !.streak = n, !.last = day[r]]
<1>1. n \in Nat /\ day[r] \in Nat /\ tierClaimed \in Nat
  BY DEF R!TypeOK, R!UserRow
<1>2. rd \in R!UserRow
  BY <1>1, RewardShapes DEF R!UserRow
<1>3. R!StreakKeys(n, tierClaimed) \in SUBSET R!Key
  BY <1>1, StreakKeyTypes
<1>4. /\ R!Continue(r, "grant", R!StreakKeys(n, tierClaimed), rd)
      /\ lastLogin' = day[r] /\ streak' = n /\ logins' = logins \cup {day[r]} /\ stale' = stale \ {r}
      /\ UNCHANGED <<today, xp, coins, tierClaimed, chestDay, entries, ledger, repeats, dropped, live,
                     progress, mission, rserved, completions, hurried, squeezed, lost>>
  BY DEF R!LoginWrite, R!Reread, R!records
<1> HIDE DEF n, rd
<1>5. LocalTypes'
  BY <1>2, <1>3, <1>4, ContinueTypes DEF R!Label
<1>6. QED BY <1>1, <1>4, <1>5 DEF R!TypeOK, LocalTypes

LEMMA SyncTypes ==
  ASSUME R!TypeOK, NEW r \in Request, R!SyncWrite(r)
  PROVE  R!TypeOK'
<1> DEFINE ks == {k \in todo[r] : k[2] = today /\ k[2] > chestDay} \cup R!Claims(merged[r])
<1>1. merged[r] \in R!Progress BY DEF R!TypeOK
<1>2. ks \in SUBSET R!Key
  BY <1>1, ClaimTypes DEF R!TypeOK
<1>3. /\ R!Continue(r, "grant", ks, R!Row) /\ entries' = merged[r] /\ stale' = stale \ {r}
      /\ UNCHANGED <<today, xp, coins, streak, lastLogin, tierClaimed, chestDay, ledger, repeats,
                     dropped, live, progress, mission, rserved, logins, completions, hurried,
                     squeezed, lost>>
  BY DEF R!SyncWrite, R!Reread, R!records
<1> HIDE DEF ks
<1>4. LocalTypes'
  BY <1>2, <1>3, ContinueTypes, RewardShapes DEF R!Label
<1>5. QED BY <1>1, <1>3, <1>4 DEF R!TypeOK, LocalTypes

\* One reward: recorded with its XP and coins, or it was before.
LEMMA GrantTypes ==
  ASSUME R!TypeOK, NEW r \in Request, NEW k \in todo[r], R!Grant(r, k)
  PROVE  R!TypeOK'
<1>1. k \in R!Key /\ todo[r] \ {k} \in SUBSET R!Key /\ IsFiniteSet(ledger)
  BY SameCounts DEF R!TypeOK
<1>2. R!Kind(k) \in {"STREAK", "CHEST"} => k[2] \in Nat
  BY <1>1 DEF R!Key, R!Kind
<1>3. /\ xp' \in Nat /\ coins' \in Nat /\ tierClaimed' \in Nat /\ chestDay' \in Nat
      /\ ledger' \in {ledger, ledger \cup {k}} /\ stale' \subseteq Request /\ lost' \in BOOLEAN
  <2>1. CASE k \in ledger
    BY <2>1 DEF R!Grant, R!TypeOK, R!Reread
  <2>2. CASE k \notin ledger /\ R!PaysXp(k)
    BY <1>2, <2>2 DEF R!Grant, R!TypeOK, R!UserRow, R!AddXp
  <2>3. CASE k \notin ledger /\ ~R!PaysXp(k)
    BY <1>2, <2>3 DEF R!Grant, R!TypeOK, R!Reread
  <2>4. QED BY <2>1, <2>2, <2>3
<1>4. ledger' \subseteq R!Key /\ R!IsFiniteSet(ledger')
  BY <1>1, <1>3, FS_AddElement, SameCounts DEF R!TypeOK
<1>5. /\ R!Continue(r, "grant", todo[r] \ {k}, [R!Row EXCEPT !.xp = xp'])
      /\ UNCHANGED <<today, streak, lastLogin, entries, repeats, dropped, live, progress,
                     mission, rserved, logins, completions, hurried, squeezed>>
  BY DEF R!Grant
<1>6. [R!Row EXCEPT !.xp = xp'] \in R!UserRow
  BY <1>3, RewardShapes DEF R!UserRow
<1>7. LocalTypes'
  BY <1>1, <1>5, <1>6, ContinueTypes DEF R!Label
<1>8. QED BY <1>3, <1>4, <1>5, <1>7 DEF R!TypeOK, LocalTypes

\* Promotions: counted, renewed.
LEMMA SlotTypes ==
  ASSUME R!TypeOK, Ready, NEW r \in Request, R!ClaimSlot(r) \/ R!Renew(r)
  PROVE  R!TypeOK'
<1>1. CASE R!ClaimSlot(r)
  BY <1>1 DEF R!ClaimSlot, R!Goto, R!TypeOK, R!Label, R!account, R!records, R!locals
<1>2. CASE R!Renew(r)
  <2>1. PICK p \in Promo : todo[r] = {<<"PROMO", p>>}
    BY <1>2 DEF R!Renew, Ready
  <2>2. <<"PROMO", p>> \in R!Key /\ R!Kind(<<"PROMO", p>>) = "PROMO"
    BY DEF R!Key, R!Kind
  <2>3. R!PromoOf(r) \in Promo
    BY <2>1, <2>2, PromoKeys
  <2>4. live' \subseteq Promo /\ hurried' \subseteq Request /\ squeezed' \subseteq Promo
    BY <1>2, <2>3, GoesLiveTypes DEF R!Renew
  <2>5. LocalTypes' BY <1>2, ReturnTypes DEF R!Renew
  <2>6. QED BY <1>2, <2>4, <2>5 DEF R!Renew, R!TypeOK, R!account, LocalTypes
<1>3. QED BY <1>1, <1>2

LEMMA AwardTypes ==
  ASSUME R!TypeOK, Ready, NEW r \in Request, R!Award(r)
  PROVE  R!TypeOK'
<1> DEFINE c == CHOOSE k \in todo[r] : TRUE
<1>1. PICK k \in R!Key : todo[r] = {k} /\ R!Kind(k) \notin {"STREAK", "CHEST"}
  BY DEF R!Award, Ready
<1>2. c = k BY <1>1
<1>3. /\ xp' = seen[r].xp + 1 /\ stale' = Request \ {r} /\ lost' = (lost \/ r \in stale)
      /\ IF R!Kind(k) = "REPEAT" THEN repeats' = repeats + 1 /\ UNCHANGED ledger
         ELSE ledger' = ledger \cup {k} /\ UNCHANGED repeats
      /\ IF R!Kind(k) = "PROMO" THEN R!GoesLive(r) ELSE UNCHANGED <<live, hurried, squeezed>>
      /\ IF R!Kind(k) = "DRINK" THEN R!Goto(r, "mission") /\ UNCHANGED <<day, seen, merged, todo>>
         ELSE R!Return(r)
      /\ UNCHANGED <<today, coins, streak, lastLogin, tierClaimed, chestDay, entries,
                     dropped, progress, mission, rserved, logins, completions>>
  BY <1>2 DEF R!Award, R!AddXp, R!locals
<1>4. xp' \in Nat /\ repeats' \in Nat /\ stale' \subseteq Request /\ lost' \in BOOLEAN
  BY <1>3 DEF R!TypeOK, R!UserRow
<1>5. ledger' \subseteq R!Key /\ R!IsFiniteSet(ledger')
  BY <1>3, FS_AddElement, SameCounts DEF R!TypeOK
<1>6. live' \subseteq Promo /\ hurried' \subseteq Request /\ squeezed' \subseteq Promo
  <2>1. CASE R!Kind(k) = "PROMO"
    BY <1>1, <1>3, <2>1, PromoKeys, GoesLiveTypes
  <2>2. CASE R!Kind(k) # "PROMO"
    BY <1>3, <2>2 DEF R!TypeOK
  <2>3. QED BY <2>1, <2>2
<1>7. LocalTypes'
  <2>1. CASE R!Kind(k) = "DRINK"
    BY <1>3, <2>1 DEF R!Goto, R!TypeOK, LocalTypes, R!Label
  <2>2. CASE R!Kind(k) # "DRINK"
    BY <1>3, <2>2, ReturnTypes
  <2>3. QED BY <2>1, <2>2
<1>8. QED BY <1>3, <1>4, <1>5, <1>6, <1>7 DEF R!TypeOK, LocalTypes

\* Reads of the total, and what rolls back or fails.
LEMMA ReadTypes ==
  ASSUME R!TypeOK, NEW r \in Request,
         R!AwardRead(r) \/ R!AwardTaken(r) \/ R!MissionReadXp(r) \/ R!MissionFind(r) \/ R!Fail(r)
  PROVE  R!TypeOK'
<1>1. CASE R!AwardRead(r) \/ R!MissionReadXp(r)
  BY <1>1, RewardShapes
  DEF R!AwardRead, R!MissionReadXp, R!Reread, R!Goto, R!TypeOK, R!Label, R!account, R!records
<1>2. CASE R!AwardTaken(r) \/ R!Fail(r)
  <2>1. LocalTypes' BY <1>2, ReturnTypes DEF R!AwardTaken, R!Fail
  <2>2. lost' \in BOOLEAN
    BY <1>2 DEF R!AwardTaken, R!Fail, R!TypeOK, R!history
  <2>3. QED
    BY <1>2, <2>1, <2>2
    DEF R!AwardTaken, R!Fail, R!TypeOK, LocalTypes, R!account, R!records, R!history
<1>3. CASE R!MissionFind(r)
  <2>1. LocalTypes'
    BY <1>3, ReturnTypes DEF R!MissionFind, R!Goto, R!TypeOK, LocalTypes, R!Label, R!locals
  <2>2. QED
    BY <1>3, <2>1
    DEF R!MissionFind, R!TypeOK, LocalTypes, R!account, R!records, R!history
<1>4. QED BY <1>1, <1>2, <1>3

LEMMA MissionTypes ==
  ASSUME R!TypeOK, NEW r \in Request,
         R!MissionUpsert(r) \/ R!MissionComplete(r) \/ R!MissionWriteXp(r)
  PROVE  R!TypeOK'
<1>1. CASE R!MissionUpsert(r)
  <2>1. LocalTypes'
    BY <1>1, ReturnTypes DEF R!MissionUpsert, R!Goto, R!TypeOK, LocalTypes, R!Label, R!locals
  <2>2. QED
    BY <1>1, <2>1 DEF R!MissionUpsert, R!TypeOK, LocalTypes, R!account, R!history
<1>2. CASE R!MissionComplete(r)
  BY <1>2 DEF R!MissionComplete, R!Goto, R!TypeOK, R!Label, R!account, R!locals
<1>3. CASE R!MissionWriteXp(r)
  <2>1. LocalTypes' BY <1>3, ReturnTypes DEF R!MissionWriteXp
  <2>2. xp' \in Nat /\ stale' \subseteq Request /\ lost' \in BOOLEAN
    BY <1>3 DEF R!MissionWriteXp, R!AddXp, R!TypeOK, R!UserRow
  <2>3. QED
    BY <1>3, <2>1, <2>2 DEF R!MissionWriteXp, R!TypeOK, LocalTypes, R!records
<1>4. QED BY <1>1, <1>2, <1>3

LEMMA RewardTypes == R!TypeOK /\ Ready /\ R!Next => R!TypeOK'
<1> SUFFICES ASSUME R!TypeOK, Ready, R!Next PROVE R!TypeOK'
  OBVIOUS
<1>1. CASE R!Tomorrow
  BY <1>1 DEF R!Tomorrow, R!TypeOK, R!account, R!records, R!locals, R!history
<1>2. ASSUME NEW p \in Promo, R!Expire(p) PROVE R!TypeOK'
  BY <1>2 DEF R!Expire, R!TypeOK, R!account, R!locals, R!history
<1>3. QED
  BY <1>1, <1>2, ArrivalTypes, LoginTypes, SyncTypes, GrantTypes, SlotTypes, AwardTypes,
     ReadTypes, MissionTypes
  DEF R!Next, R!Working

\* Deleting promotions takes rows away, and counts them.
LEMMA DroppedTypes ==
  ASSUME R!TypeOK, NEW ps \in SUBSET Promo, R!PromosChange(ps),
         UNCHANGED <<today, xp, coins, streak, lastLogin, tierClaimed, chestDay, entries,
                     repeats, progress, mission, rserved, rpc, day, seen, merged, todo,
                     logins, completions, stale, hurried, lost>>
  PROVE  R!TypeOK'
<1>1. /\ IsFiniteSet(ledger) /\ ledger' \subseteq ledger /\ ledger \ ledger' \subseteq ledger
      /\ dropped' = dropped + Cardinality(ledger \ ledger')
  BY SameCounts DEF R!TypeOK, R!PromosChange
<1>2. IsFiniteSet(ledger') /\ Cardinality(ledger \ ledger') \in Nat
  BY <1>1, FS_Subset, FS_CardinalityType
<1>3. R!IsFiniteSet(ledger') BY <1>2, SameCounts
<1>4. dropped' \in Nat BY <1>1, <1>2 DEF R!TypeOK
<1>5. live' \subseteq Promo /\ squeezed' \subseteq Promo BY DEF R!TypeOK, R!PromosChange
<1>6. QED BY <1>1, <1>3, <1>4, <1>5 DEF R!TypeOK

-----------------------------------------------------------------------------
(* Rewards: what is paid is what was recorded *)

XpKeys == {k \in ledger : R!PaysXp(k)}
CoinKeys == {k \in ledger : R!PaysCoins(k)}
Awards == Cardinality(XpKeys) + repeats + dropped + completions
Owed == Cardinality(R!Unwritten)

\* Requests that are going to write what they read plus one.
Holding == {"grant", "commit", "writeXp"}

\* Neither the total nor any that was read exceeds what has been awarded and is
\* not owed; a total read by a request that is not stale is the total.
Figures ==
  /\ coins = Cardinality(CoinKeys)
  /\ xp + Owed <= Awards /\ (~lost => xp + Owed = Awards)
  /\ \A r \in Request : rpc[r] \in Holding =>
       seen[r].xp + Owed <= Awards /\ (r \notin stale => seen[r].xp = xp)

LEMMA FigureTypes ==
  ASSUME R!TypeOK
  PROVE  /\ IsFiniteSet(XpKeys) /\ IsFiniteSet(CoinKeys) /\ IsFiniteSet(R!Unwritten)
         /\ Cardinality(XpKeys) \in Nat /\ Cardinality(CoinKeys) \in Nat
         /\ Owed \in Nat /\ Awards \in Nat
         /\ xp \in Nat /\ \A r \in Request : seen[r].xp \in Nat
<1>1. IsFiniteSet(ledger) /\ XpKeys \subseteq ledger /\ CoinKeys \subseteq ledger
      /\ R!Unwritten \subseteq Request /\ IsFiniteSet(Request)
  BY SameCounts, ConstantsOK DEF R!TypeOK, XpKeys, CoinKeys, R!Unwritten
<1>2. IsFiniteSet(XpKeys) /\ IsFiniteSet(CoinKeys) /\ IsFiniteSet(R!Unwritten)
  BY <1>1, FS_Subset
<1>3. Cardinality(XpKeys) \in Nat /\ Cardinality(CoinKeys) \in Nat /\ Owed \in Nat
  BY <1>2, FS_CardinalityType DEF Owed
<1>4. QED BY <1>2, <1>3 DEF Awards, R!TypeOK, R!UserRow

LEMMA FiguresAddUp == R!TypeOK /\ Figures => R!XpAddsUp
BY SameCounts DEF Figures, R!XpAddsUp, R!Awarded, Awards, Owed, XpKeys, CoinKeys

\* A request goes on without paying: it has nothing to pay, or keeps what it read,
\* or has read the total now.
LEMMA NothingPaid ==
  ASSUME R!TypeOK, Figures, NEW r \in Request,
         UNCHANGED <<xp, coins, ledger, repeats, dropped, completions, lost>>,
         \A q \in Request \ {r} : rpc'[q] = rpc[q] /\ seen'[q] = seen[q] /\ (q \in stale' <=> q \in stale),
         rpc[r] \in {"readXp", "writeXp"} <=> rpc'[r] \in {"readXp", "writeXp"},
         rpc'[r] \in Holding =>
           \/ seen'[r].xp = xp
           \/ rpc[r] \in Holding /\ seen'[r] = seen[r] /\ (r \in stale' <=> r \in stale)
  PROVE  Figures'
<1>1. UNCHANGED <<XpKeys, CoinKeys>> BY DEF XpKeys, CoinKeys
<1>2. R!Unwritten' = R!Unwritten BY DEF R!Unwritten
<1>3. UNCHANGED <<Awards, Owed>> BY <1>1, <1>2 DEF Awards, Owed
<1>4. QED BY <1>1, <1>3, FigureTypes DEF Figures

LEMMA OneMore ==
  \A x, o, a, o2, a2 \in Nat : a2 - o2 = a - o + 1 =>
    (x + o <= a => x + 1 + o2 <= a2) /\ (x + o = a => x + 1 + o2 = a2)
OBVIOUS

\* A request pays one more award.
LEMMA OnePaid ==
  ASSUME R!TypeOK, Figures, NEW r \in Request, rpc[r] \in Holding, R!AddXp(r),
         \A q \in Request \ {r} : rpc'[q] = rpc[q] /\ seen'[q] = seen[q],
         rpc'[r] \in Holding => seen'[r].xp = xp',
         Awards' \in Nat, Owed' \in Nat, Awards' - Owed' = Awards - Owed + 1,
         coins' = Cardinality(CoinKeys')
  PROVE  Figures'
<1>1. /\ xp' = seen[r].xp + 1 /\ stale' = Request \ {r} /\ lost' = (lost \/ r \in stale)
  BY DEF R!AddXp
<1>2. /\ seen[r].xp + Owed <= Awards /\ (r \notin stale => seen[r].xp = xp)
      /\ ~lost => xp + Owed = Awards
  BY DEF Figures
<1>3. /\ xp' + Owed' <= Awards' /\ (~lost' => xp' + Owed' = Awards')
  <2>1. xp \in Nat /\ seen[r].xp \in Nat /\ Owed \in Nat /\ Awards \in Nat
    BY FigureTypes
  <2>2. xp' + Owed' <= Awards'
    BY <1>1, <1>2, <2>1, OneMore
  <2>3. ASSUME ~lost' PROVE xp' + Owed' = Awards'
    <3>1. ~lost /\ seen[r].xp = xp BY <1>1, <1>2, <2>3
    <3>2. xp + Owed = Awards BY <1>2, <3>1
    <3>3. QED BY <1>1, <2>1, <3>1, <3>2, OneMore
  <2>4. QED BY <2>2, <2>3
<1>4. ASSUME NEW q \in Request, rpc'[q] \in Holding
      PROVE  seen'[q].xp + Owed' <= Awards' /\ (q \notin stale' => seen'[q].xp = xp')
  <2>1. CASE q = r BY <2>1, <1>3, <1>4
  <2>2. CASE q # r
    BY <2>2, <1>1, <1>4, FigureTypes DEF Figures
  <2>3. QED BY <2>1, <2>2
<1>5. QED BY <1>3, <1>4 DEF Figures

\* One more key in the ledger, or one more repeat, is one more award.
LEMMA LedgerGrows ==
  ASSUME R!TypeOK, NEW k, k \notin ledger, ledger' = ledger \cup {k}
  PROVE  /\ Cardinality(XpKeys') = Cardinality(XpKeys) + (IF R!PaysXp(k) THEN 1 ELSE 0)
         /\ Cardinality(CoinKeys') = Cardinality(CoinKeys) + (IF R!PaysCoins(k) THEN 1 ELSE 0)
<1>1. /\ XpKeys' = IF R!PaysXp(k) THEN XpKeys \cup {k} ELSE XpKeys
      /\ CoinKeys' = IF R!PaysCoins(k) THEN CoinKeys \cup {k} ELSE CoinKeys
      /\ k \notin XpKeys /\ k \notin CoinKeys
  BY DEF XpKeys, CoinKeys
<1>2. /\ Cardinality(XpKeys \cup {k}) = Cardinality(XpKeys) + 1
      /\ Cardinality(CoinKeys \cup {k}) = Cardinality(CoinKeys) + 1
  BY <1>1, FigureTypes, FS_AddElement
<1>3. QED BY <1>1, <1>2, FigureTypes

-----------------------------------------------------------------------------
(* Rewards: a streak stands for days with a login *)

BonusEarned(k) == R!Kind(k) = "STREAK" => \E last \in logins : R!InARow(k[2], last)

\* Who is about to write a login has read days in a row, and a bonus that is about
\* to be recorded was earned.
Streaks ==
  /\ R!StreakEarned
  /\ \A r \in Request : /\ rpc[r] = "login" => R!InARow(seen[r].streak, seen[r].last)
                        /\ \A k \in todo[r] : BonusEarned(k)

RewardsIInv == R!TypeOK /\ Ready /\ Figures /\ Streaks

\* The keys of a bonus for a streak with a login on its last day.
LEMMA BonusKeys ==
  ASSUME NEW n \in Nat, NEW claimed \in Nat, NEW last, R!InARow(n, last), n > 0 => last \in logins,
         NEW k \in R!StreakKeys(n, claimed)
  PROVE  BonusEarned(k) /\ R!Kind(k) = "STREAK"
<1>1. k = <<"STREAK", R!TierReached(n)>> /\ R!TierReached(n) > claimed
  BY DEF R!StreakKeys
<1>2. R!TierReached(n) \in Nat /\ R!TierReached(n) <= n
  BY TierExists, ConstantsOK
<1>3. n > 0 /\ last \in logins
  BY <1>1, <1>2
<1>4. R!InARow(R!TierReached(n), last)
  BY <1>2 DEF R!InARow
<1>5. k[2] = R!TierReached(n) /\ R!Kind(k) = "STREAK"
  BY <1>1 DEF R!Kind
<1>6. QED BY <1>3, <1>4, <1>5 DEF BonusEarned

\* Nobody else's place, and no login, streak or bonus, changes.
LEMMA StreaksStay ==
  ASSUME Streaks, NEW r \in Request, UNCHANGED <<streak, lastLogin, logins>>,
         \A q \in Request \ {r} : rpc'[q] = rpc[q] /\ seen'[q] = seen[q] /\ todo'[q] = todo[q],
         rpc'[r] = "login" => R!InARow(seen'[r].streak, seen'[r].last),
         \A k \in todo'[r] : BonusEarned(k),
         \A k \in ledger' \ ledger : BonusEarned(k)
  PROVE  Streaks'
<1>1. R!StreakEarned'
  BY DEF Streaks, R!StreakEarned, R!InARow, BonusEarned
<1>2. \A q \in Request : /\ (rpc[q] = "login" => R!InARow(seen[q].streak, seen[q].last))'
                         /\ (\A k \in todo[q] : BonusEarned(k))'
  BY DEF Streaks, R!InARow, BonusEarned
<1>3. QED BY <1>1, <1>2 DEF Streaks

-----------------------------------------------------------------------------
(* Rewards: requests *)

Others(r) ==
  \A q \in Request \ {r} : rpc'[q] = rpc[q] /\ seen'[q] = seen[q] /\ todo'[q] = todo[q]

\* What is left to show of a step once the types are known.
Preserved == Ready' /\ Figures' /\ Streaks'

LEMMA ContinueShape ==
  ASSUME R!TypeOK, NEW r \in Request, NEW l, NEW ks, NEW rd, R!Continue(r, l, ks, rd)
  PROVE  /\ Others(r) /\ todo'[r] = ks
         /\ rpc'[r] = IF ks = {} THEN "idle" ELSE l
         /\ seen'[r] = IF ks = {} THEN R!NoUser ELSE rd
BY DEF R!TypeOK, R!Continue, Others

LEMMA ReturnShape ==
  ASSUME R!TypeOK, NEW r \in Request, R!Return(r)
  PROVE  Others(r) /\ todo'[r] = {} /\ rpc'[r] = "idle"
BY ContinueShape DEF R!Return

LEMMA ReadyStays ==
  ASSUME Ready, NEW r \in Request, Others(r),
         rpc'[r] \in {"slots", "recount", "renew"} => \E p \in Promo : todo'[r] = {<<"PROMO", p>>},
         rpc'[r] \in {"award", "commit"} =>
           \E k \in R!Key : todo'[r] = {k} /\ R!Kind(k) \notin {"STREAK", "CHEST"}
  PROVE  Ready'
<1>1. ASSUME NEW q \in Request
      PROVE  /\ rpc'[q] \in {"slots", "recount", "renew"} => \E p \in Promo : todo'[q] = {<<"PROMO", p>>}
             /\ rpc'[q] \in {"award", "commit"} =>
                  \E k \in R!Key : todo'[q] = {k} /\ R!Kind(k) \notin {"STREAK", "CHEST"}
  BY DEF Ready, Others
<1>2. QED BY <1>1 DEF Ready

\* A request is over: nothing is left to record.
LEMMA Returned ==
  ASSUME RewardsIInv, NEW r \in Request, R!Return(r),
         UNCHANGED <<streak, lastLogin, logins>>, \A k \in ledger' \ ledger : BonusEarned(k)
  PROVE  Ready' /\ Streaks'
<1>1. Others(r) /\ todo'[r] = {} /\ rpc'[r] = "idle"
  BY ReturnShape DEF RewardsIInv
<1>2. Ready' BY <1>1, ReadyStays DEF RewardsIInv
<1>3. Streaks' BY <1>1, StreaksStay DEF RewardsIInv, Others
<1>4. QED BY <1>2, <1>3

LEMMA ArriveStep ==
  ASSUME RewardsIInv, NEW r \in Request, NEW l, NEW ks, NEW into, R!Arrives(r, l, ks, into),
         l \notin {"readXp", "writeXp"},
         \A k \in ks : BonusEarned(k),
         l \in {"slots", "recount", "renew"} => \E p \in Promo : ks = {<<"PROMO", p>>},
         l \in {"award", "commit"} =>
           \E k \in R!Key : ks = {k} /\ R!Kind(k) \notin {"STREAK", "CHEST"}
  PROVE  Preserved
<1>1. /\ rpc[r] = "idle" /\ Others(r)
      /\ rpc'[r] = l /\ todo'[r] = ks /\ seen'[r] = R!Row
      /\ stale' = stale \ {r}
      /\ UNCHANGED <<xp, coins, streak, lastLogin, ledger, repeats, dropped, logins, completions, lost>>
  BY DEF RewardsIInv, R!TypeOK, R!Arrives, R!account, R!records, Others
<1>2. Ready' BY <1>1, ReadyStays DEF RewardsIInv
<1>3. seen'[r].xp = xp /\ seen'[r].streak = streak /\ seen'[r].last = lastLogin
  BY <1>1 DEF R!Row
<1>4. Figures'
  BY <1>1, <1>3, NothingPaid DEF RewardsIInv, Others
<1>5. R!InARow(seen'[r].streak, seen'[r].last)
  BY <1>3 DEF RewardsIInv, Streaks, R!StreakEarned
<1>6. Streaks'
  BY <1>1, <1>5, StreaksStay DEF RewardsIInv, Others
<1>7. QED BY <1>2, <1>4, <1>6 DEF Preserved

\* Keys that no streak is recorded under.
LEMMA NoBonus == \A k : R!Kind(k) # "STREAK" => BonusEarned(k)
BY DEF BonusEarned

LEMMA LastDay == RewardsIInv /\ streak > 0 => lastLogin \in logins
<1> SUFFICES ASSUME RewardsIInv, streak > 0 PROVE lastLogin \in logins
  OBVIOUS
<1>1. streak \in Nat /\ lastLogin \in Nat /\ R!InARow(streak, lastLogin)
  BY DEF RewardsIInv, R!TypeOK, Streaks, R!StreakEarned
<1>2. lastLogin - 0 \in logins
  BY <1>1 DEF R!InARow
<1>3. QED BY <1>1, <1>2

LEMMA ArrivalStep ==
  ASSUME RewardsIInv, NEW r \in R!Arriving,
         \/ R!LoginRead(r) \/ R!EarnMedal(r)
         \/ \E e \in Entry, inc \in Incoming, chest \in BOOLEAN : R!SyncRead(r, e, inc, chest)
         \/ \E p \in Place : R!CheckIn(r, p)
         \/ \E d \in Drink : R!LogDrink(r, d)
         \/ \E p \in Promo : R!ScanPromo(r, p)
  PROVE  Preserved
<1>r. r \in Request /\ today \in Nat /\ streak \in Nat /\ tierClaimed \in Nat
  BY DEF R!Arriving, RewardsIInv, R!TypeOK
<1>1. CASE R!LoginRead(r)
  <2>1. CASE R!Arrives(r, "login", {}, R!Blank)
    BY <1>r, <2>1, ArriveStep
  <2>2. CASE R!Arrives(r, "grant", R!StreakKeys(streak, tierClaimed), R!Blank)
    <3>1. \A k \in R!StreakKeys(streak, tierClaimed) : BonusEarned(k)
      BY <1>r, LastDay, BonusKeys DEF RewardsIInv, Streaks, R!StreakEarned
    <3>2. QED BY <1>r, <2>2, <3>1, ArriveStep
  <2>3. QED BY <1>1, <2>1, <2>2 DEF R!LoginRead
<1>2. CASE R!EarnMedal(r)
  <2>1. <<"MEDAL">> \in R!Key /\ R!Kind(<<"MEDAL">>) = "MEDAL"
    BY DEF R!Key, R!Kind
  <2>2. QED BY <1>r, <1>2, <2>1, NoBonus, ArriveStep DEF R!EarnMedal
<1>3. ASSUME NEW e \in Entry, NEW inc \in Incoming, NEW chest \in BOOLEAN, R!SyncRead(r, e, inc, chest)
      PROVE  Preserved
  <2>1. \A k \in (IF chest THEN {<<"CHEST", today>>} ELSE {}) : BonusEarned(k)
    BY NoBonus DEF R!Kind
  <2>2. QED BY <1>r, <1>3, <2>1, ArriveStep DEF R!SyncRead
<1>4. ASSUME NEW p \in Place, R!CheckIn(r, p) PROVE Preserved
  <2>1. <<"VISIT", p, today>> \in R!Key /\ R!Kind(<<"VISIT", p, today>>) = "VISIT"
    BY <1>r DEF R!Key, R!Kind
  <2>2. QED BY <1>r, <1>4, <2>1, NoBonus, ArriveStep DEF R!CheckIn
<1>5. ASSUME NEW d \in Drink, R!LogDrink(r, d) PROVE Preserved
  <2> DEFINE k == IF <<"DRINK", d>> \in ledger THEN <<"REPEAT", d>> ELSE <<"DRINK", d>>
  <2>1. k \in R!Key /\ R!Kind(k) \in {"DRINK", "REPEAT"}
    BY DEF R!Key, R!Kind
  <2>2. R!Arrives(r, "award", {k}, R!Blank) BY <1>5 DEF R!LogDrink
  <2> HIDE DEF k
  <2>3. QED BY <1>r, <2>1, <2>2, NoBonus, ArriveStep
<1>6. ASSUME NEW p \in Promo, R!ScanPromo(r, p) PROVE Preserved
  <2>1. R!Kind(<<"PROMO", p>>) = "PROMO" BY DEF R!Kind
  <2>2. PICK l \in {"recount", "slots"} : R!Arrives(r, l, {<<"PROMO", p>>}, R!Blank)
    BY <1>6 DEF R!ScanPromo
  <2>3. QED BY <1>r, <2>1, <2>2, NoBonus, ArriveStep
<1>7. QED BY <1>1, <1>2, <1>3, <1>4, <1>5, <1>6

\* A day with a login more: no streak that stood falls.
LEMMA MoreLogins ==
  ASSUME logins \subseteq logins', NEW n, NEW last, R!InARow(n, last)
  PROVE  R!InARow(n, last)'
BY DEF R!InARow

LEMMA LoginStep ==
  ASSUME RewardsIInv, NEW r \in Request, R!LoginWrite(r)
  PROVE  Preserved
<1> DEFINE n == IF seen[r].last = day[r] - 1 THEN seen[r].streak + 1 ELSE 1
           rd == [R!Row EXCEPT !.streak = n, !.last = day[r]]
           ks == R!StreakKeys(n, tierClaimed)
<1>1. n \in Nat /\ n > 0 /\ day[r] \in Nat /\ tierClaimed \in Nat /\ rd.xp = xp
      /\ seen[r].last \in Nat /\ seen[r].streak \in Nat
  BY DEF RewardsIInv, R!TypeOK, R!UserRow, R!Row
<1>2. /\ rpc[r] = "login" /\ R!Continue(r, "grant", ks, rd)
      /\ lastLogin' = day[r] /\ streak' = n /\ logins' = logins \cup {day[r]} /\ stale' = stale \ {r}
      /\ UNCHANGED <<today, xp, coins, tierClaimed, chestDay, entries, ledger, repeats, dropped, live,
                     progress, mission, rserved, completions, hurried, squeezed, lost>>
  BY DEF R!LoginWrite, R!Reread, R!records
<1>c. PICK m \in Nat, d \in Nat : m = n /\ d = day[r]
  BY <1>1
<1>3. R!InARow(m, d)'
  <2>1. R!InARow(seen[r].streak, seen[r].last)
    BY <1>2 DEF RewardsIInv, Streaks
  <2>2. ASSUME NEW i \in 0..(m - 1) PROVE d - i \in logins'
    <3>1. CASE i = 0 BY <1>1, <1>c, <1>2, <3>1
    <3>2. CASE i # 0
      <4>1. seen[r].last = day[r] - 1 /\ i - 1 \in 0..(seen[r].streak - 1)
        BY <1>1, <1>c, <3>2
      <4>2. seen[r].last - (i - 1) \in logins
        BY <2>1, <4>1 DEF R!InARow
      <4>3. seen[r].last - (i - 1) = d - i
        BY <1>1, <1>c, <4>1
      <4>4. QED BY <1>2, <4>2, <4>3
    <3>3. QED BY <3>1, <3>2
  <2>3. QED BY <2>2 DEF R!InARow
<1>4. ASSUME NEW k \in ks PROVE BonusEarned(k)'
  <2>1. k = <<"STREAK", R!TierReached(n)>> /\ R!TierReached(n) \in Nat /\ R!TierReached(n) <= n
    BY <1>1, TierExists, ConstantsOK DEF R!StreakKeys
  <2>2. k[2] \in Nat /\ k[2] <= m
    BY <1>c, <2>1
  <2>3. R!InARow(k[2], d)'
    BY <1>3, <2>2 DEF R!InARow
  <2>4. d \in logins' BY <1>2, <1>c
  <2>5. QED BY <2>3, <2>4 DEF BonusEarned
<1> HIDE DEF n, rd, ks
<1>5. /\ Others(r) /\ todo'[r] = ks
      /\ rpc'[r] = IF ks = {} THEN "idle" ELSE "grant"
      /\ seen'[r] = IF ks = {} THEN R!NoUser ELSE rd
  BY <1>2, ContinueShape DEF RewardsIInv
<1>6. rpc'[r] \in {"idle", "grant"} /\ (rpc'[r] = "grant" => seen'[r].xp = xp)
  BY <1>1, <1>5
<1>7. Ready'
  BY <1>5, <1>6, ReadyStays DEF RewardsIInv
<1>8. Figures'
  BY <1>2, <1>5, <1>6, NothingPaid DEF RewardsIInv, Others, Holding
<1>9. Streaks'
  <2>1. logins \subseteq logins' BY <1>2
  <2>2. ASSUME NEW k, BonusEarned(k) PROVE BonusEarned(k)'
    BY <2>1, <2>2, MoreLogins DEF BonusEarned
  <2>3. R!StreakEarned'
    <3>1. R!InARow(streak, lastLogin)' BY <1>2, <1>c, <1>3 DEF R!InARow
    <3>2. \A k \in ledger : BonusEarned(k) BY DEF RewardsIInv, Streaks, R!StreakEarned, BonusEarned
    <3>3. \A k \in ledger' : BonusEarned(k)' BY <1>2, <2>2, <3>2
    <3>4. QED BY <3>1, <3>3 DEF R!StreakEarned, BonusEarned
  <2>4. ASSUME NEW q \in Request
        PROVE  /\ (rpc[q] = "login" => R!InARow(seen[q].streak, seen[q].last))'
               /\ (\A k \in todo[q] : BonusEarned(k))'
    <3>1. CASE q = r BY <1>4, <1>5, <1>6, <3>1
    <3>2. CASE q # r
      <4>1. rpc'[q] = rpc[q] /\ seen'[q] = seen[q] /\ todo'[q] = todo[q]
        BY <1>5, <3>2 DEF Others
      <4>2. rpc[q] = "login" => R!InARow(seen[q].streak, seen[q].last)
        BY DEF RewardsIInv, Streaks
      <4>3. \A k \in todo[q] : BonusEarned(k)
        BY DEF RewardsIInv, Streaks
      <4>4. (rpc[q] = "login" => R!InARow(seen[q].streak, seen[q].last))'
        BY <2>1, <4>1, <4>2 DEF R!InARow
      <4>5. QED BY <2>2, <4>1, <4>3, <4>4
    <3>3. QED BY <3>1, <3>2
  <2>5. QED BY <2>3, <2>4 DEF Streaks
<1>10. QED BY <1>7, <1>8, <1>9 DEF Preserved

LEMMA SyncStep ==
  ASSUME RewardsIInv, NEW r \in Request, R!SyncWrite(r)
  PROVE  Preserved
<1> DEFINE ks == {k \in todo[r] : k[2] = today /\ k[2] > chestDay} \cup R!Claims(merged[r])
<1>1. \A k \in ks : BonusEarned(k)
  <2>1. \A k \in R!Claims(merged[r]) : R!Kind(k) = "ENTRY" BY DEF R!Claims, R!Kind
  <2>2. QED BY <2>1, NoBonus DEF RewardsIInv, Streaks
<1>2. /\ rpc[r] = "sync" /\ R!Continue(r, "grant", ks, R!Row) /\ stale' = stale \ {r}
      /\ UNCHANGED <<xp, coins, streak, lastLogin, ledger, repeats, dropped, logins, completions, lost>>
  BY DEF R!SyncWrite, R!Reread, R!records
<1> HIDE DEF ks
<1>3. /\ Others(r) /\ todo'[r] = ks
      /\ rpc'[r] = IF ks = {} THEN "idle" ELSE "grant"
      /\ seen'[r] = IF ks = {} THEN R!NoUser ELSE R!Row
  BY <1>2, ContinueShape DEF RewardsIInv
<1>4. rpc'[r] \in {"idle", "grant"} /\ (rpc'[r] = "grant" => seen'[r].xp = xp)
  BY <1>3 DEF R!Row
<1>5. Ready' BY <1>3, <1>4, ReadyStays DEF RewardsIInv
<1>6. Figures' BY <1>2, <1>3, <1>4, NothingPaid DEF RewardsIInv, Others, Holding
<1>7. Streaks' BY <1>1, <1>2, <1>3, <1>4, StreaksStay DEF RewardsIInv, Others
<1>8. QED BY <1>5, <1>6, <1>7 DEF Preserved

LEMMA GrantStep ==
  ASSUME RewardsIInv, NEW r \in Request, NEW k \in todo[r], R!Grant(r, k)
  PROVE  Preserved
<1> DEFINE rd == [R!Row EXCEPT !.xp = xp']
<1>1. /\ rpc[r] = "grant" /\ R!Continue(r, "grant", todo[r] \ {k}, rd)
      /\ UNCHANGED <<streak, lastLogin, repeats, dropped, logins, completions>>
      /\ BonusEarned(k) /\ rd.xp = xp'
  BY DEF R!Grant, RewardsIInv, Streaks, R!Row
<1> HIDE DEF rd
<1>2. /\ Others(r) /\ todo'[r] = todo[r] \ {k}
      /\ rpc'[r] \in {"idle", "grant"} /\ (rpc'[r] = "grant" => seen'[r].xp = xp')
  BY <1>1, ContinueShape DEF RewardsIInv
<1>3. Ready' BY <1>2, ReadyStays DEF RewardsIInv
<1>4. ledger' \subseteq ledger \cup {k} BY DEF R!Grant
<1>5. Streaks'
  <2>1. \A j \in todo'[r] : BonusEarned(j) BY <1>2 DEF RewardsIInv, Streaks
  <2>2. QED BY <1>1, <1>2, <1>4, <2>1, StreaksStay DEF RewardsIInv, Others
<1>6. R!Unwritten' = R!Unwritten BY <1>1, <1>2 DEF R!Unwritten, Others
<1>7. Figures'
  <2>1. CASE k \in ledger
    <3>1. stale' = stale \ {r} /\ UNCHANGED <<xp, coins, ledger, lost>>
      BY <2>1 DEF R!Grant, R!Reread
    <3>2. QED BY <1>1, <1>2, <3>1, NothingPaid DEF RewardsIInv, Others, Holding
  <2>2. CASE k \notin ledger
    <3>1. /\ ledger' = ledger \cup {k} /\ coins' = coins + IF R!PaysCoins(k) THEN 1 ELSE 0
          /\ IF R!PaysXp(k) THEN R!AddXp(r) ELSE stale' = stale \ {r} /\ UNCHANGED <<xp, lost>>
      BY <2>2 DEF R!Grant, R!Reread
    <3>2. /\ Cardinality(XpKeys') = Cardinality(XpKeys) + (IF R!PaysXp(k) THEN 1 ELSE 0)
          /\ Cardinality(CoinKeys') = Cardinality(CoinKeys) + (IF R!PaysCoins(k) THEN 1 ELSE 0)
      BY <2>2, <3>1, LedgerGrows DEF RewardsIInv
    <3>3. /\ Awards' = Cardinality(XpKeys') + repeats + dropped + completions /\ Owed' = Owed
          /\ coins' = Cardinality(CoinKeys')
      BY <1>1, <1>6, <3>1, <3>2 DEF Awards, Owed, RewardsIInv, Figures
    <3>4. Cardinality(XpKeys) \in Nat /\ Owed \in Nat /\ repeats \in Nat /\ dropped \in Nat
          /\ completions \in Nat
      BY FigureTypes DEF RewardsIInv, R!TypeOK
    <3>5. CASE R!PaysXp(k)
      <4>1. Awards' \in Nat /\ Owed' \in Nat /\ Awards' - Owed' = Awards - Owed + 1
        BY <3>2, <3>3, <3>4, <3>5 DEF Awards
      <4>2. QED BY <1>1, <1>2, <3>1, <3>3, <3>5, <4>1, OnePaid DEF RewardsIInv, Others, Holding
    <3>6. CASE ~R!PaysXp(k)
      <4>1. Awards' = Awards BY <3>2, <3>3, <3>4, <3>6 DEF Awards
      <4>2. stale' = stale \ {r} /\ UNCHANGED <<xp, lost>> BY <3>1, <3>6
      <4>3. ASSUME NEW q \in Request, rpc'[q] \in Holding
            PROVE  seen'[q].xp + Owed' <= Awards' /\ (q \notin stale' => seen'[q].xp = xp')
        <5>1. CASE q = r
          BY <1>2, <3>3, <4>1, <4>2, <4>3, <5>1 DEF RewardsIInv, Figures, Holding
        <5>2. CASE q # r
          BY <1>2, <3>3, <4>1, <4>2, <4>3, <5>2 DEF RewardsIInv, Figures, Others
        <5>3. QED BY <5>1, <5>2
      <4>4. xp' + Owed' <= Awards' /\ (~lost' => xp' + Owed' = Awards')
        BY <3>3, <4>1, <4>2 DEF RewardsIInv, Figures
      <4>5. QED BY <3>3, <4>3, <4>4 DEF Figures
    <3>7. QED BY <3>5, <3>6
  <2>3. QED BY <2>1, <2>2
<1>8. QED BY <1>3, <1>5, <1>7 DEF Preserved

LEMMA SlotStep ==
  ASSUME RewardsIInv, NEW r \in Request, R!ClaimSlot(r) \/ R!Renew(r)
  PROVE  Preserved
<1>1. CASE R!ClaimSlot(r)
  <2>1. PICK p \in Promo : todo[r] = {<<"PROMO", p>>}
    BY <1>1 DEF R!ClaimSlot, RewardsIInv, Ready
  <2>2. /\ rpc[r] \in {"slots", "recount"} /\ rpc'[r] \in {"renew", "award"} /\ Others(r)
        /\ UNCHANGED <<xp, coins, streak, lastLogin, ledger, repeats, dropped, seen, todo,
                       logins, completions, stale, lost>>
    BY <1>1 DEF R!ClaimSlot, R!Goto, R!account, R!records, R!locals, Others, RewardsIInv, R!TypeOK
  <2>3. <<"PROMO", p>> \in R!Key /\ R!Kind(<<"PROMO", p>>) = "PROMO"
    BY DEF R!Key, R!Kind
  <2>4. Ready' BY <2>1, <2>2, <2>3, ReadyStays DEF RewardsIInv
  <2>5. Figures' BY <2>2, NothingPaid DEF RewardsIInv, Others, Holding
  <2>6. \A k \in todo'[r] : BonusEarned(k) BY <2>1, <2>2, <2>3, NoBonus
  <2>7. Streaks' BY <2>2, <2>6, StreaksStay DEF RewardsIInv, Others
  <2>8. QED BY <2>4, <2>5, <2>7 DEF Preserved
<1>2. CASE R!Renew(r)
  <2>1. /\ rpc[r] = "renew" /\ R!Return(r)
        /\ UNCHANGED <<xp, coins, streak, lastLogin, ledger, repeats, dropped, logins,
                       completions, stale, lost>>
    BY <1>2 DEF R!Renew, R!account
  <2>2. Ready' /\ Streaks' BY <2>1, Returned
  <2>3. Figures' BY <2>1, ReturnShape, NothingPaid DEF RewardsIInv, Others, Holding
  <2>4. QED BY <2>2, <2>3 DEF Preserved
<1>3. QED BY <1>1, <1>2

\* Reads of the total, and what rolls back.
LEMMA ReadStep ==
  ASSUME RewardsIInv, NEW r \in Request, R!AwardRead(r) \/ R!AwardTaken(r) \/ R!MissionReadXp(r)
  PROVE  Preserved
<1>1. CASE R!AwardRead(r) \/ R!MissionReadXp(r)
  <2>1. /\ \/ rpc[r] = "award" /\ rpc'[r] = "commit"
           \/ rpc[r] = "readXp" /\ rpc'[r] = "writeXp"
        /\ seen'[r] = R!Row /\ Others(r) /\ todo' = todo /\ stale' = stale \ {r}
        /\ UNCHANGED <<xp, coins, streak, lastLogin, ledger, repeats, dropped, logins,
                       completions, lost>>
    BY <1>1 DEF R!AwardRead, R!MissionReadXp, R!Reread, R!Goto, R!account, R!records, Others,
                RewardsIInv, R!TypeOK
  <2>2. Ready' BY <2>1, ReadyStays DEF RewardsIInv, Ready
  <2>3. seen'[r].xp = xp BY <2>1 DEF R!Row
  <2>4. Figures' BY <2>1, <2>3, NothingPaid DEF RewardsIInv, Others
  <2>5. \A k \in todo'[r] : BonusEarned(k) BY <2>1 DEF RewardsIInv, Streaks
  <2>6. Streaks' BY <2>1, <2>5, StreaksStay DEF RewardsIInv, Others
  <2>7. QED BY <2>2, <2>4, <2>6 DEF Preserved
<1>2. CASE R!AwardTaken(r)
  <2>1. /\ rpc[r] = "commit" /\ R!Return(r)
        /\ UNCHANGED <<xp, coins, streak, lastLogin, ledger, repeats, dropped, logins,
                       completions, stale, lost>>
    BY <1>2 DEF R!AwardTaken, R!account, R!records, R!history
  <2>2. Ready' /\ Streaks' BY <2>1, Returned
  <2>3. Figures' BY <2>1, ReturnShape, NothingPaid DEF RewardsIInv, Others, Holding
  <2>4. QED BY <2>2, <2>3 DEF Preserved
<1>3. QED BY <1>1, <1>2

LEMMA AwardStep ==
  ASSUME RewardsIInv, NEW r \in Request, R!Award(r)
  PROVE  Preserved
<1> DEFINE c == CHOOSE k \in todo[r] : TRUE
<1>1. PICK k \in R!Key : todo[r] = {k} /\ R!Kind(k) \notin {"STREAK", "CHEST"}
  BY DEF R!Award, RewardsIInv, Ready
<1>2. c = k BY <1>1
<1>3. /\ rpc[r] = "commit" /\ k \notin ledger /\ R!AddXp(r)
      /\ IF R!Kind(k) = "REPEAT" THEN repeats' = repeats + 1 /\ UNCHANGED ledger
         ELSE ledger' = ledger \cup {k} /\ UNCHANGED repeats
      /\ IF R!Kind(k) = "DRINK" THEN R!Goto(r, "mission") /\ UNCHANGED <<day, seen, merged, todo>>
         ELSE R!Return(r)
      /\ UNCHANGED <<coins, streak, lastLogin, dropped, logins, completions>>
  BY <1>2 DEF R!Award, R!locals
<1> HIDE DEF c
<1>4. /\ Others(r) /\ rpc'[r] \in {"mission", "idle"} /\ todo'[r] \in SUBSET {k}
  <2>1. CASE R!Kind(k) = "DRINK"
    BY <1>1, <1>3, <2>1 DEF R!Goto, Others, RewardsIInv, R!TypeOK
  <2>2. CASE R!Kind(k) # "DRINK"
    BY <1>3, <2>2, ReturnShape DEF RewardsIInv
  <2>3. QED BY <2>1, <2>2
<1>5. Ready' BY <1>4, ReadyStays DEF RewardsIInv
<1>6. Streaks'
  <2>1. \A j \in {k} : BonusEarned(j) BY <1>1, NoBonus
  <2>2. ledger' \subseteq ledger \cup {k} BY <1>3
  <2>3. QED BY <1>3, <1>4, <2>1, <2>2, StreaksStay DEF RewardsIInv, Others
<1>7. Owed' = Owed
  <2>1. R!Unwritten' = R!Unwritten BY <1>3, <1>4 DEF R!Unwritten, Others
  <2>2. QED BY <2>1 DEF Owed
<1>8. Awards' = Awards + 1 /\ Awards' \in Nat /\ Cardinality(CoinKeys') = Cardinality(CoinKeys)
  <2>1. /\ Cardinality(XpKeys) \in Nat /\ Cardinality(CoinKeys) \in Nat /\ repeats \in Nat
        /\ dropped \in Nat /\ completions \in Nat
    BY FigureTypes DEF RewardsIInv, R!TypeOK
  <2>2. CASE R!Kind(k) = "REPEAT"
    BY <1>3, <2>1, <2>2 DEF Awards, XpKeys, CoinKeys
  <2>3. CASE R!Kind(k) # "REPEAT"
    <3>1. R!PaysXp(k) /\ ~R!PaysCoins(k) BY <1>1 DEF R!PaysXp, R!PaysCoins
    <3>2. /\ Cardinality(XpKeys') = Cardinality(XpKeys) + 1
          /\ Cardinality(CoinKeys') = Cardinality(CoinKeys)
      BY <1>3, <2>1, <2>3, <3>1, LedgerGrows DEF RewardsIInv
    <3>3. QED BY <1>3, <2>1, <2>3, <3>2 DEF Awards
  <2>4. QED BY <2>2, <2>3
<1>9. Figures'
  <2>1. Owed' \in Nat /\ Awards' - Owed' = Awards - Owed + 1
    BY <1>7, <1>8, FigureTypes DEF RewardsIInv
  <2>2. coins' = Cardinality(CoinKeys')
    BY <1>3, <1>8 DEF RewardsIInv, Figures
  <2>3. QED BY <1>3, <1>4, <1>8, <2>1, <2>2, OnePaid DEF RewardsIInv, Others, Holding
<1>10. QED BY <1>5, <1>6, <1>9 DEF Preserved

\* One request more, or one less, owes the reward of a mission.
LEMMA OwedMoves ==
  ASSUME R!TypeOK, NEW r \in Request, Others(r)
  PROVE  /\ rpc[r] \notin {"readXp", "writeXp"} /\ rpc'[r] \in {"readXp", "writeXp"} => Owed' = Owed + 1
         /\ rpc[r] \in {"readXp", "writeXp"} /\ rpc'[r] \notin {"readXp", "writeXp"} =>
              Owed' = Owed - 1 /\ Owed' \in Nat
         /\ (rpc[r] \in {"readXp", "writeXp"} <=> rpc'[r] \in {"readXp", "writeXp"}) => Owed' = Owed
<1>1. IsFiniteSet(R!Unwritten) BY FigureTypes
<1>2. ASSUME rpc[r] \notin {"readXp", "writeXp"}, rpc'[r] \in {"readXp", "writeXp"}
      PROVE  Owed' = Owed + 1
  <2>1. r \notin R!Unwritten /\ R!Unwritten' = R!Unwritten \cup {r}
    BY <1>2 DEF R!Unwritten, Others
  <2>2. QED BY <1>1, <2>1, FS_AddElement DEF Owed
<1>3. ASSUME rpc[r] \in {"readXp", "writeXp"}, rpc'[r] \notin {"readXp", "writeXp"}
      PROVE  Owed' = Owed - 1 /\ Owed' \in Nat
  <2>1. r \in R!Unwritten /\ R!Unwritten' = R!Unwritten \ {r}
    BY <1>3 DEF R!Unwritten, Others
  <2>2. Cardinality(R!Unwritten \ {r}) = Cardinality(R!Unwritten) - 1 /\ IsFiniteSet(R!Unwritten \ {r})
    BY <1>1, <2>1, FS_RemoveElement
  <2>3. Cardinality(R!Unwritten \ {r}) \in Nat BY <2>2, FS_CardinalityType
  <2>4. QED BY <2>1, <2>2, <2>3 DEF Owed
<1>4. ASSUME rpc[r] \in {"readXp", "writeXp"} <=> rpc'[r] \in {"readXp", "writeXp"}
      PROVE  Owed' = Owed
  <2>1. R!Unwritten' = R!Unwritten BY <1>4 DEF R!Unwritten, Others
  <2>2. QED BY <2>1 DEF Owed
<1>5. QED BY <1>2, <1>3, <1>4

\* The mission's row: found, counted on, completed.
LEMMA MissionStep ==
  ASSUME RewardsIInv, NEW r \in Request,
         R!MissionFind(r) \/ R!MissionUpsert(r) \/ R!MissionComplete(r) \/ R!MissionWriteXp(r)
  PROVE  Preserved
<1>t. /\ Owed \in Nat /\ Awards \in Nat /\ xp \in Nat /\ \A q \in Request : seen[q].xp \in Nat
  BY FigureTypes DEF RewardsIInv
<1>1. CASE R!MissionFind(r) \/ R!MissionUpsert(r)
  <2>1. /\ rpc[r] \in {"mission", "upsert"}
        /\ \/ R!Return(r)
           \/ (R!Goto(r, "upsert") \/ R!Goto(r, "complete")) /\ UNCHANGED <<day, seen, merged, todo>>
        /\ UNCHANGED <<xp, coins, streak, lastLogin, ledger, repeats, dropped, logins,
                       completions, stale, lost>>
    BY <1>1 DEF R!MissionFind, R!MissionUpsert, R!account, R!records, R!locals, R!history
  <2>2. Others(r) /\ rpc'[r] \in {"idle", "upsert", "complete"} /\ todo'[r] \in {{}, todo[r]}
    BY <2>1, ReturnShape DEF R!Goto, Others, RewardsIInv, R!TypeOK
  <2>3. Ready' BY <2>2, ReadyStays DEF RewardsIInv
  <2>4. Figures' BY <2>1, <2>2, NothingPaid DEF RewardsIInv, Others, Holding
  <2>5. \A k \in todo'[r] : BonusEarned(k) BY <2>2 DEF RewardsIInv, Streaks
  <2>6. Streaks' BY <2>1, <2>2, <2>5, StreaksStay DEF RewardsIInv, Others
  <2>7. QED BY <2>3, <2>4, <2>6 DEF Preserved
<1>2. CASE R!MissionComplete(r)
  <2>1. /\ rpc[r] = "complete" /\ rpc'[r] = "readXp" /\ Others(r) /\ completions' = completions + 1
        /\ UNCHANGED <<xp, coins, streak, lastLogin, ledger, repeats, dropped, seen, todo, logins,
                       stale, lost>>
    BY <1>2 DEF R!MissionComplete, R!Goto, R!account, R!locals, Others, RewardsIInv, R!TypeOK
  <2>2. Ready' BY <2>1, ReadyStays DEF RewardsIInv
  <2>3. \A k \in todo'[r] : BonusEarned(k) BY <2>1 DEF RewardsIInv, Streaks
  <2>4. Streaks' BY <2>1, <2>3, StreaksStay DEF RewardsIInv, Others
  <2>5. UNCHANGED <<XpKeys, CoinKeys>> BY <2>1 DEF XpKeys, CoinKeys
  <2>6. Awards' = Awards + 1
    <3>1. Cardinality(XpKeys) \in Nat /\ repeats \in Nat /\ dropped \in Nat /\ completions \in Nat
      BY FigureTypes DEF RewardsIInv, R!TypeOK
    <3>2. QED BY <2>1, <2>5, <3>1 DEF Awards
  <2>7. Owed' = Owed + 1 BY <2>1, OwedMoves DEF RewardsIInv
  <2>8. \A q \in Request : rpc'[q] \in Holding => rpc[q] \in Holding
    BY <2>1 DEF Others, Holding
  <2>9. Figures' BY <1>t, <2>1, <2>5, <2>6, <2>7, <2>8 DEF RewardsIInv, Figures
  <2>10. QED BY <2>2, <2>4, <2>9 DEF Preserved
<1>3. CASE R!MissionWriteXp(r)
  <2>1. /\ rpc[r] = "writeXp" /\ R!AddXp(r) /\ R!Return(r)
        /\ UNCHANGED <<coins, streak, lastLogin, ledger, repeats, dropped, logins, completions>>
    BY <1>3 DEF R!MissionWriteXp, R!records
  <2>2. Ready' /\ Streaks' BY <2>1, Returned
  <2>3. Others(r) /\ rpc'[r] = "idle" BY <2>1, ReturnShape DEF RewardsIInv
  <2>4. UNCHANGED <<XpKeys, CoinKeys>> BY <2>1 DEF XpKeys, CoinKeys
  <2>5. Awards' = Awards BY <2>1, <2>4 DEF Awards
  <2>6. Owed' = Owed - 1 /\ Owed' \in Nat BY <2>1, <2>3, OwedMoves DEF RewardsIInv
  <2>7. coins' = Cardinality(CoinKeys') BY <2>1, <2>4 DEF RewardsIInv, Figures
  <2>8. Awards' \in Nat /\ Awards' - Owed' = Awards - Owed + 1 BY <1>t, <2>5, <2>6
  <2>9. Figures'
    BY <2>1, <2>3, <2>6, <2>7, <2>8, OnePaid DEF RewardsIInv, Others, Holding
  <2>10. QED BY <2>2, <2>9 DEF Preserved
<1>4. QED BY <1>1, <1>2, <1>3

\* A request that fails may leave a mission unpaid for good.
LEMMA FailStep ==
  ASSUME RewardsIInv, NEW r \in Request, R!Fail(r)
  PROVE  Preserved
<1>1. /\ R!Return(r) /\ lost' = (lost \/ rpc[r] \in {"readXp", "writeXp"})
      /\ UNCHANGED <<xp, coins, streak, lastLogin, ledger, repeats, dropped, logins,
                     completions, stale>>
  BY DEF R!Fail, R!account, R!records
<1>2. Ready' /\ Streaks' BY <1>1, Returned
<1>3. Others(r) /\ rpc'[r] = "idle" BY <1>1, ReturnShape DEF RewardsIInv
<1>4. Owed \in Nat /\ Awards \in Nat /\ xp \in Nat /\ \A q \in Request : seen[q].xp \in Nat
  BY FigureTypes DEF RewardsIInv
<1>5. UNCHANGED <<XpKeys, CoinKeys, Awards>>
  <2>1. UNCHANGED <<XpKeys, CoinKeys>> BY <1>1 DEF XpKeys, CoinKeys
  <2>2. QED BY <1>1, <2>1 DEF Awards
<1>l. (rpc[r] \in {"readXp", "writeXp"} => lost') /\ (~lost' => ~lost)
  BY <1>1, Zenon
<1>6. Owed' \in Nat /\ Owed' <= Owed /\ (~lost' => Owed' = Owed /\ ~lost)
  <2>1. CASE rpc[r] \in {"readXp", "writeXp"}
    <3>1. Owed' = Owed - 1 /\ Owed' \in Nat
      BY <1>3, <2>1, OwedMoves DEF RewardsIInv
    <3>2. QED BY <1>l, <1>4, <2>1, <3>1
  <2>2. CASE rpc[r] \notin {"readXp", "writeXp"}
    <3>1. Owed' = Owed
      BY <1>3, <2>2, OwedMoves DEF RewardsIInv
    <3>2. QED BY <1>l, <1>4, <2>2, <3>1
  <2>3. QED BY <2>1, <2>2
<1>7. \A q \in Request : rpc'[q] \in Holding => rpc[q] \in Holding /\ seen'[q] = seen[q]
  BY <1>3 DEF Others, Holding
<1>8. Figures'
  <2>1. xp' + Owed' <= Awards' /\ (~lost' => xp' + Owed' = Awards')
    BY <1>1, <1>4, <1>5, <1>6 DEF RewardsIInv, Figures
  <2>2. ASSUME NEW q \in Request, rpc'[q] \in Holding
        PROVE  seen'[q].xp + Owed' <= Awards' /\ (q \notin stale' => seen'[q].xp = xp')
    <3>1. seen'[q] = seen[q] /\ seen[q].xp + Owed <= Awards /\ (q \notin stale => seen[q].xp = xp)
      BY <1>7, <2>2 DEF RewardsIInv, Figures
    <3>2. QED BY <1>1, <1>4, <1>5, <1>6, <3>1
  <2>3. QED BY <1>1, <1>5, <2>1, <2>2 DEF RewardsIInv, Figures
<1>9. QED BY <1>2, <1>8 DEF Preserved

\* Nothing that the invariant is about changes.
LEMMA SameRewards ==
  ASSUME Ready, Figures, Streaks,
         UNCHANGED <<xp, coins, streak, lastLogin, ledger, repeats, dropped, rpc, seen, todo,
                     logins, completions, stale, lost>>
  PROVE  Preserved
<1>1. Ready' BY DEF Ready
<1>2. Streaks' BY DEF Streaks, R!StreakEarned, R!InARow, BonusEarned
<1>3. UNCHANGED <<XpKeys, CoinKeys>> BY DEF XpKeys, CoinKeys
<1>4. R!Unwritten' = R!Unwritten BY DEF R!Unwritten
<1>5. UNCHANGED <<Awards, Owed>> BY <1>3, <1>4 DEF Awards, Owed
<1>6. Figures' BY <1>3, <1>5 DEF Figures
<1>7. QED BY <1>1, <1>2, <1>6 DEF Preserved

LEMMA RewardsNext == RewardsIInv /\ R!Next => RewardsIInv'
<1> SUFFICES ASSUME RewardsIInv, R!Next PROVE R!TypeOK' /\ Preserved
  BY DEF RewardsIInv, Preserved
<1>1. R!TypeOK'
  BY RewardTypes DEF RewardsIInv
<1>2. ASSUME R!Tomorrow PROVE Preserved
  <2>1. UNCHANGED <<xp, coins, streak, lastLogin, ledger, repeats, dropped, rpc, seen, todo,
                    logins, completions, stale, lost>>
    BY <1>2 DEF R!Tomorrow, R!account, R!records, R!locals, R!history
  <2>2. QED BY <2>1, SameRewards DEF RewardsIInv, Preserved
<1>3. ASSUME NEW p \in Promo, R!Expire(p) PROVE Preserved
  <2>1. UNCHANGED <<xp, coins, streak, lastLogin, ledger, repeats, dropped, rpc, seen, todo,
                    logins, completions, stale, lost>>
    BY <1>3 DEF R!Expire, R!account, R!locals, R!history
  <2>2. QED BY <2>1, SameRewards DEF RewardsIInv, Preserved
<1>4. QED
  BY <1>1, <1>2, <1>3, ArrivalStep, LoginStep, SyncStep, GrantStep, SlotStep, ReadStep, AwardStep,
     MissionStep, FailStep
  DEF R!Next, R!Working

\* Promotions are deleted with the records of their claims: what was paid for
\* them stays, and is counted as dropped.
LEMMA PromosStep ==
  ASSUME RewardsIInv, NEW ps \in SUBSET Promo, R!PromosChange(ps),
         UNCHANGED <<today, xp, coins, streak, lastLogin, tierClaimed, chestDay, entries,
                     repeats, progress, mission, rserved, rpc, day, seen, merged, todo,
                     logins, completions, stale, hurried, lost>>
  PROVE  RewardsIInv'
<1>1. R!TypeOK' BY DroppedTypes DEF RewardsIInv
<1>2. Ready' BY DEF RewardsIInv, Ready
<1>3. ledger' \subseteq ledger BY DEF R!PromosChange
<1>4. Streaks' BY <1>3 DEF RewardsIInv, Streaks, R!StreakEarned, R!InARow, BonusEarned
<1>5. Figures'
  <2> DEFINE rows == ledger \ ledger'
  <2>1. \A k \in rows : R!PaysXp(k) /\ ~R!PaysCoins(k)
    BY DEF R!PromosChange, R!PaysXp, R!PaysCoins, R!Kind
  <2>2. CoinKeys' = CoinKeys BY <1>3, <2>1 DEF CoinKeys
  <2>3. XpKeys' = XpKeys \ rows /\ rows \subseteq XpKeys BY <1>3, <2>1 DEF XpKeys
  <2>4. dropped' = dropped + Cardinality(rows) BY SameCounts DEF R!PromosChange
  <2> HIDE DEF rows
  <2>5. IsFiniteSet(XpKeys) /\ Cardinality(XpKeys) \in Nat /\ Owed \in Nat /\ xp \in Nat
        /\ repeats \in Nat /\ dropped \in Nat /\ completions \in Nat
    BY FigureTypes DEF RewardsIInv, R!TypeOK
  <2>6. Cardinality(XpKeys \ rows) = Cardinality(XpKeys) - Cardinality(XpKeys \cap rows)
        /\ XpKeys \cap rows = rows /\ IsFiniteSet(rows) /\ Cardinality(rows) \in Nat
    BY <2>3, <2>5, FS_Difference, FS_Subset, FS_CardinalityType
  <2>r. UNCHANGED <<repeats, completions>> OBVIOUS
  <2>c. Cardinality(XpKeys') = Cardinality(XpKeys) - Cardinality(rows) BY <2>3, <2>6
  <2>7. Awards' = Awards BY <2>4, <2>5, <2>6, <2>c, <2>r DEF Awards
  <2>8. Owed' = Owed
    <3>1. R!Unwritten' = R!Unwritten BY DEF R!Unwritten
    <3>2. QED BY <3>1 DEF Owed
  <2>9. QED BY <2>2, <2>7, <2>8 DEF RewardsIInv, Figures
<1>6. QED BY <1>1, <1>2, <1>4, <1>5 DEF RewardsIInv

LEMMA RewardsInit == R!Init => RewardsIInv
<1> SUFFICES ASSUME R!Init PROVE RewardsIInv
  OBVIOUS
<1>1. PICK n \in 0..1 : streak = n /\ lastLogin = n /\ logins = 1..n
  BY DEF R!Init
<1>2. PICK ps \in {{}} \cup {{p} : p \in Promo} :
        ps \subseteq Promo /\ live = ps /\ ledger = {<<"PROMO", p>> : p \in ps} /\ xp = Cardinality(ps)
  BY SameCounts DEF R!Init
<1>3. /\ IsFiniteSet(ledger) /\ Cardinality(ledger) = xp /\ xp \in Nat
  <2>1. CASE ps = {}
    BY <1>2, <2>1, FS_EmptySet
  <2>2. ASSUME NEW p \in Promo, ps = {p} PROVE IsFiniteSet(ledger) /\ Cardinality(ledger) = xp /\ xp \in Nat
    <3>1. ledger = {<<"PROMO", p>>} BY <1>2, <2>2
    <3>2. IsFiniteSet(ledger) /\ Cardinality(ledger) = 1 BY <3>1, FS_Singleton
    <3>3. xp = 1 BY <1>2, <2>2, FS_Singleton
    <3>4. QED BY <3>2, <3>3
  <2>3. QED BY <1>2, <2>1, <2>2
<1>4. \A k \in ledger : k \in R!Key /\ R!Kind(k) = "PROMO"
  BY <1>2 DEF R!Key, R!Kind
<1>5. R!TypeOK
  <2>1. R!Blank \in R!Progress /\ R!NoUser \in R!UserRow BY RewardShapes
  <2>2. today \in Nat BY DEF R!Init
  <2>3. ledger \subseteq R!Key /\ R!IsFiniteSet(ledger) BY <1>3, <1>4, SameCounts
  <2>4. logins \subseteq Nat /\ streak \in Nat /\ lastLogin \in Nat BY <1>1
  <2>5. live \subseteq Promo BY <1>2
  <2>6. QED BY <1>3, <2>1, <2>2, <2>3, <2>4, <2>5 DEF R!Init, R!TypeOK, R!Label
<1>6. \A r \in Request : rpc[r] = "idle" /\ todo[r] = {}
  BY DEF R!Init
<1>7. Ready BY <1>6 DEF Ready
<1>8. Figures
  <2>1. XpKeys = ledger /\ CoinKeys = {}
    BY <1>4 DEF XpKeys, CoinKeys, R!PaysXp, R!PaysCoins
  <2>2. Owed = 0
    <3>1. R!Unwritten = {} BY <1>6 DEF R!Unwritten
    <3>2. QED BY <3>1, FS_EmptySet DEF Owed
  <2>3. Awards = xp
    <3>1. repeats = 0 /\ dropped = 0 /\ completions = 0 BY DEF R!Init
    <3>2. QED BY <1>3, <2>1, <3>1 DEF Awards
  <2>4. coins = 0 /\ Cardinality({}) = 0 BY FS_EmptySet DEF R!Init
  <2>5. QED BY <1>3, <1>6, <2>1, <2>2, <2>3, <2>4 DEF Figures, Holding
<1>9. Streaks
  <2>1. R!InARow(streak, lastLogin) BY <1>1 DEF R!InARow
  <2>2. QED BY <1>4, <1>6, <2>1 DEF Streaks, R!StreakEarned
<1>10. QED BY <1>5, <1>7, <1>8, <1>9 DEF RewardsIInv

LEMMA RewardsUntouched == RewardsIInv /\ UNCHANGED rewards => RewardsIInv'
<1> SUFFICES ASSUME RewardsIInv, UNCHANGED rewards PROVE RewardsIInv'
  OBVIOUS
<1>1. R!TypeOK' BY DEF RewardsIInv, R!TypeOK, rewards
<1>2. Preserved
  <2>1. UNCHANGED <<xp, coins, streak, lastLogin, ledger, repeats, dropped, rpc, seen, todo,
                    logins, completions, stale, lost>>
    BY DEF rewards
  <2>2. QED BY <2>1, SameRewards DEF RewardsIInv
<1>3. QED BY <1>1, <1>2 DEF RewardsIInv, Preserved
-----------------------------------------------------------------------------
(* Every step of Venue *)

LEMMA BookingsUntouched == BookingIInv /\ UNCHANGED bookings => BookingIInv'
BY DEF bookings, BookingIInv, BookingTypes, AsRead, OnTheWay, V!Told

LEMMA CampaignsUntouched == CampaignIInv /\ UNCHANGED campaigns => CampaignIInv'
<1> SUFFICES ASSUME CampaignIInv, UNCHANGED campaigns PROVE CampaignIInv'
  OBVIOUS
<1>1. CampaignTypes' /\ Backed' /\ Steady'
  BY DEF campaigns, CampaignIInv, CampaignTypes, Backed, Steady
<1>2. MedalComes' /\ CountComes'
  BY DEF campaigns, CampaignIInv, MedalComes, CountComes, G!Live, Visited, Counting, Winning
<1>3. QED BY <1>1, <1>2 DEF CampaignIInv

OutcomesIInv == BookingIInv /\ CampaignIInv

LEMMA OutcomesStep == OutcomesIInv /\ [Next]_vars => OutcomesIInv'
<1> SUFFICES ASSUME BookingIInv, CampaignIInv, [Next]_vars PROVE BookingIInv' /\ CampaignIInv'
  BY DEF OutcomesIInv
<1>1. CASE BookingsStep
  BY <1>1, BookingStep, CampaignsUntouched DEF BookingsStep
<1>2. CASE CampaignsStep
  BY <1>2, CampaignStep, BookingsUntouched DEF CampaignsStep
<1>3. CASE RewardsStep \/ OffersStep \/ DesignsStep \/ PagesStep \/ PlacesStep \/ UNCHANGED vars
  BY <1>3, BookingsUntouched, CampaignsUntouched
  DEF RewardsStep, OffersStep, DesignsStep, PagesStep, PlacesStep, vars
<1>4. QED BY <1>1, <1>2, <1>3 DEF Next

\* However handlers, sweeps and hooks interleave, a guest is told how the
\* reservation stands, but for the exceptions the property names; no medal of a
\* campaign is given without the visits, and none is lost while nothing fails
\* and nobody changes the event.
THEOREM OutcomesDeliveredHolds == Spec => []OutcomesDelivered
<1>1. Init => OutcomesIInv
  BY BookingInit, CampaignInit DEF Init, OutcomesIInv
<1>2. Spec => []OutcomesIInv
  BY <1>1, OutcomesStep, PTL DEF Spec
<1>3. OutcomesIInv => OutcomesDelivered
  BY BookingStands, CampaignStands DEF OutcomesIInv, OutcomesDelivered
<1>4. QED BY <1>2, <1>3, PTL

LEMMA RewardsStepHolds == RewardsIInv /\ [Next]_vars => RewardsIInv'
<1> SUFFICES ASSUME RewardsIInv, [Next]_vars PROVE RewardsIInv'
  OBVIOUS
<1>1. CASE RewardsStep
  BY <1>1, RewardsNext DEF RewardsStep
<1>2. CASE OffersStep
  <2>1. PICK ps \in SUBSET Promo : ps = (gone' \ gone) \cap Promo
    OBVIOUS
  <2>2. /\ R!PromosChange(ps)
        /\ UNCHANGED <<today, xp, coins, streak, lastLogin, tierClaimed, chestDay, entries,
                       repeats, progress, mission, rserved, rpc, day, seen, merged, todo,
                       logins, completions, stale, hurried, lost>>
    BY <1>2, <2>1 DEF OffersStep
  <2>3. QED BY <2>2, PromosStep
<1>3. CASE BookingsStep \/ CampaignsStep \/ DesignsStep \/ PagesStep \/ PlacesStep \/ UNCHANGED vars
  BY <1>3, RewardsUntouched
  DEF BookingsStep, CampaignsStep, DesignsStep, PagesStep, PlacesStep, vars
<1>4. QED BY <1>1, <1>2, <1>3 DEF Next

\* However requests that write the total from a value read before interleave,
\* and promotions are deleted under them, XP never exceeds the awards recorded
\* and equals them while no write was lost; coins are exact; and a streak, and
\* every bonus recorded for one, stands for that many days with a login.
THEOREM RewardsAddUpHolds == Spec => []RewardsAddUp
<1>1. Init => RewardsIInv
  BY RewardsInit DEF Init
<1>2. Spec => []RewardsIInv
  BY <1>1, RewardsStepHolds, PTL DEF Spec
<1>3. RewardsIInv => RewardsAddUp
  BY FiguresAddUp DEF RewardsIInv, Streaks, RewardsAddUp
<1>4. QED BY <1>2, <1>3, PTL
=============================================================================
