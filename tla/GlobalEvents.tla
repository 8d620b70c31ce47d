---------------------------- MODULE GlobalEvents ----------------------------
(***************************************************************************)
(* One campaign over a pool of bars and one user who visits them           *)
(* (global-events.service.ts).  A redeemed code is committed first; the    *)
(* hook that counts the bars visited runs afterwards, outside of any       *)
(* transaction, while the admin may change pool, target and status.        *)
(***************************************************************************)
EXTENDS Integers, FiniteSets

CONSTANTS
  Request, Bar,
  Target,       \* values of global_events.target_count
  None,
  MaxServed     \* bound: requests served in all

VARIABLES
  event,       \* DRAFT, ACTIVE or ENDED
  removed,     \* deletedAt is set
  window,      \* the campaign's dates: before, open or over
  pool,        \* global_event_bars
  target,
  visits,      \* bars with an unlock of the user within the campaign's dates
  progress, done, \* user_global_event_progress; done: completedAt is set
  medal,       \* user_global_event_medals has a row
  served,      \* bound
  pc,
  bar,         \* bar[r] : the bars of the request, redeemed at or chosen
  goal,        \* goal[r] : the target r has read
  counted,     \* counted[r] : the bars r counts, pool or visits among them
  least,       \* history: the least target the event has had
  disturbed,   \* history: a hook failed, or the event changed after a visit or hook
  late,        \* history: a visit was committed since r counted
  behind       \* history: such an r wrote the progress last

campaign == <<event, removed, window, pool, target>>
records == <<progress, done, medal>>
locals == <<pc, bar, goal, counted>>
history == <<least, disturbed, late, behind>>
vars == <<campaign, visits, records, served, locals, history>>

Hook == {"members", "pool", "visits", "upsert", "findMedal", "medal"}
Admin == {"target", "pool0", "activate", "end", "delete"}
Label == {"idle"} \cup Hook \cup Admin

MinOf(a, b) == IF a <= b THEN a ELSE b
Live == event = "ACTIVE" /\ ~removed /\ window = "open"

\* assertLegendBarPool: enough bars (every member of Bar is one of the legend plan).
ValidPool(bs, t) == Cardinality(bs) >= t

\* What the user is shown of the campaign, the medals the user keeps, whatever
\* becomes of the campaign, and the bars it is listed for.
UserCard == IF Live THEN [progress |-> progress, of |-> target, hasMedal |-> medal] ELSE None
MedalCards == IF medal THEN {"medal"} ELSE {}
Invited == IF removed \/ event = "ENDED" THEN {} ELSE pool

-----------------------------------------------------------------------------

\* create
Created(e, t, bs) ==
  /\ event = e /\ removed = FALSE
  /\ target = t /\ pool = bs /\ ValidPool(bs, t)

Init ==
  /\ \E e \in {"DRAFT", "ACTIVE"}, t \in Target, bs \in SUBSET Bar : Created(e, t, bs)
  /\ window \in {"before", "open"} /\ least = target
  /\ visits = {} /\ progress = 0 /\ done = FALSE /\ medal = FALSE
  /\ served \in 0..MaxServed
  /\ pc = [r \in Request |-> "idle"] /\ bar = [r \in Request |-> {}]
  /\ goal = [r \in Request |-> 0] /\ counted = [r \in Request |-> {}]
  /\ disturbed = FALSE /\ late = {} /\ behind = FALSE

Clock ==
  /\ window # "over"
  /\ window' = IF window = "before" THEN "open" ELSE "over"
  /\ UNCHANGED <<event, removed, pool, target, visits, records, served, locals, history>>

Goto(r, l) == pc' = [pc EXCEPT ![r] = l] /\ UNCHANGED <<bar, goal, counted>>

Return(r) ==
  /\ pc' = [pc EXCEPT ![r] = "idle"]
  /\ bar' = [bar EXCEPT ![r] = {}]
  /\ goal' = [goal EXCEPT ![r] = 0]
  /\ counted' = [counted EXCEPT ![r] = {}]

Begin(r, bs, t, l) ==
  /\ pc[r] = "idle"
  /\ served < MaxServed /\ served' = served + 1
  /\ pc' = [pc EXCEPT ![r] = l]
  /\ bar' = [bar EXCEPT ![r] = bs]
  /\ goal' = [goal EXCEPT ![r] = t]
  /\ UNCHANGED counted

-----------------------------------------------------------------------------
(* A code of bar b is redeemed, then onQrUnlock *)

Unlock(r, b) ==
  /\ Begin(r, {b}, 0, "members")
  /\ visits' = IF window = "open" THEN visits \cup {b} ELSE visits
  /\ late' = IF visits' # visits THEN Request \ {r} ELSE late
  /\ UNCHANGED <<campaign, records, least, disturbed, behind>>

\* Memberships of the bar in events that are live.
ReadMembers(r) ==
  /\ pc[r] = "members"
  /\ IF Live /\ bar[r] \subseteq pool
       THEN /\ pc' = [pc EXCEPT ![r] = "pool"]
            /\ goal' = [goal EXCEPT ![r] = target]
            /\ UNCHANGED <<bar, counted>>
       ELSE Return(r)
  /\ UNCHANGED <<campaign, visits, records, served, history>>

ReadPool(r) ==
  /\ pc[r] = "pool"
  /\ pc' = [pc EXCEPT ![r] = "visits"]
  /\ counted' = [counted EXCEPT ![r] = pool]
  /\ UNCHANGED <<campaign, visits, records, served, bar, goal, history>>

\* Mutant of ReadVisits: the bar of this request is the only one counted anew.
ReadVisitsFirst(r) ==
  /\ pc[r] = "visits"
  /\ pc' = [pc EXCEPT ![r] = "upsert"]
  /\ counted' = [counted EXCEPT ![r] = @ \cap bar[r]]
  /\ late' = late \ {r}
  /\ UNCHANGED <<campaign, visits, records, served, bar, goal, least, disturbed, behind>>

ReadVisits(r) ==
  /\ pc[r] = "visits"
  /\ pc' = [pc EXCEPT ![r] = "upsert"]
  /\ counted' = [counted EXCEPT ![r] = @ \cap visits]
  /\ late' = late \ {r}
  /\ UNCHANGED <<campaign, visits, records, served, bar, goal, least, disturbed, behind>>

\* The count is written as it is, also over a higher one.
Upsert(r) ==
  LET n == MinOf(Cardinality(counted[r]), goal[r]) IN
  /\ pc[r] = "upsert"
  /\ progress' = n /\ done' = (n >= goal[r])
  /\ behind' = (r \in late)
  /\ IF done' THEN Goto(r, "findMedal") ELSE Return(r)
  /\ UNCHANGED <<campaign, visits, medal, served, least, disturbed, late>>

FindMedal(r) ==
  /\ pc[r] = "findMedal"
  /\ IF medal THEN Return(r) ELSE Goto(r, "medal")
  /\ UNCHANGED <<campaign, visits, records, served, history>>

\* Unique per user and event: with one there already the insert fails.
CreateMedal(r) ==
  /\ pc[r] = "medal"
  /\ medal' = TRUE
  /\ Return(r)
  /\ UNCHANGED <<campaign, visits, progress, done, served, history>>

-----------------------------------------------------------------------------
(* The admin; every handler has read the event before *)

Changes ==
  disturbed' = (disturbed \/ visits # {} \/ \E q \in Request : pc[q] \in Hook)

\* update, with a target or a pool or both; setBars is one with a pool only.
BeginUpdate(r, bs, t) ==
  /\ ~removed
  /\ \/ t # target /\ event # "ENDED" /\ bs = pool \* no new pool: none is tested
     \/ bs # pool /\ ValidPool(bs, t) /\ (t # target => event # "ENDED")
  /\ Begin(r, bs, t, IF bs = pool THEN "target" ELSE "pool0")
  /\ UNCHANGED <<campaign, visits, records, history>>

Update(r) ==
  /\ pc[r] \in {"target", "pool0"}
  /\ target' = goal[r]
  /\ pool' = IF pc[r] = "pool0" THEN bar[r] ELSE pool
  /\ least' = MinOf(least, goal[r])
  /\ Changes
  /\ Return(r)
  /\ UNCHANGED <<event, removed, window, visits, records, served, late, behind>>

\* activate: with enough bars in the pool; end and softDelete: always.
BeginStatus(r, l) ==
  /\ ~removed
  /\ l \in {"activate", "end", "delete"}
  /\ l = "activate" => Cardinality(pool) >= target
  /\ Begin(r, {}, 0, l)
  /\ UNCHANGED <<campaign, visits, records, history>>

WriteStatus(r) ==
  /\ pc[r] \in {"activate", "end", "delete"}
  /\ event' = IF pc[r] = "activate" THEN "ACTIVE" ELSE "ENDED"
  /\ removed' = (removed \/ pc[r] = "delete")
  /\ Changes
  /\ Return(r)
  /\ UNCHANGED <<window, pool, target, visits, records, served, least, late, behind>>

\* A query fails or the process dies.
Fail(r) ==
  /\ pc[r] # "idle"
  /\ disturbed' = (disturbed \/ pc[r] \in Hook)
  /\ Return(r)
  /\ UNCHANGED <<campaign, visits, records, served, least, late, behind>>

\* Requests that may arrive, while the bound allows, and those at work.
Arriving == {r \in Request : pc[r] = "idle" /\ served < MaxServed}
Working == {r \in Request : pc[r] # "idle"}

Next ==
  \/ Clock
  \/ \E r \in Arriving :
       \/ \E b \in Bar : Unlock(r, b)
       \/ \E bs \in SUBSET Bar, t \in Target : BeginUpdate(r, bs, t)
       \/ \E l \in Admin : BeginStatus(r, l)
  \/ \E r \in Working :
       \/ ReadMembers(r) \/ ReadPool(r) \/ ReadVisits(r)
       \/ Upsert(r) \/ FindMedal(r) \/ CreateMedal(r)
       \/ Update(r) \/ WriteStatus(r) \/ Fail(r)

-----------------------------------------------------------------------------

TypeOK ==
  /\ event \in {"DRAFT", "ACTIVE", "ENDED"} /\ removed \in BOOLEAN
  /\ window \in {"before", "open", "over"}
  /\ pool \subseteq Bar /\ visits \subseteq Bar
  /\ target \in Nat /\ progress \in Nat /\ done \in BOOLEAN /\ medal \in BOOLEAN
  /\ served \in 0..MaxServed
  /\ pc \in [Request -> Label] /\ bar \in [Request -> SUBSET Bar]
  /\ goal \in [Request -> Nat] /\ counted \in [Request -> SUBSET Bar]
  /\ least \in Nat /\ disturbed \in BOOLEAN /\ late \subseteq Request /\ behind \in BOOLEAN

\* No medal without visits to as many bars as the event ever asked for.
EventMedalEarned == MedalCards # {} => Cardinality(visits) >= least

\* Hooks that interleave lose no medal: once they have all ended, none failed
\* and the event was not changed after the first visit or hook, whoever has visited
\* enough of the bars the campaign is listed for is shown with the medal, and
\* with the count, unless a hook that had counted before another visit wrote it
\* last.
EventMedalDelivered ==
  (UserCard # None /\ ~disturbed /\ \A r \in Request : pc[r] \notin Hook) =>
    LET n == Cardinality(visits \cap Invited) IN
    /\ n >= UserCard.of => UserCard.hasMedal
    /\ ~behind => UserCard.progress = MinOf(n, UserCard.of)
=============================================================================
