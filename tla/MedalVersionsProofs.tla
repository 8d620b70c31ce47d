------------------------ MODULE MedalVersionsProofs ------------------------
(***************************************************************************)
(* Proofs about MedalVersions, for any number of seasons, versions and     *)
(* requests: a bar never has two official medals, the medal never jumps    *)
(* from one season to another, and the versions of a season are numbered   *)
(* without gaps.  Then about MedalDossier: the record of moderation tells  *)
(* how a version stands, and bar and office are shown the same one.        *)
(***************************************************************************)
EXTENDS MedalDossier, TLAPS

\* A request that is about to activate holds the bar's row, and every ACTIVE
\* version is its own or of its season, so that its commit disables it.
BarHeld == \A r \in Request : pc[r] = "activating" =>
  /\ barLock = r
  /\ \A w \in Active : w = version[r] \/ season[w] = season[version[r]]

\* The number that a request has computed follows one that is taken.
NextFollows == \A r \in Request : pc[r] = "createNext" =>
  next[r] = 1 \/ (next[r] > 1 /\ Taken(inSeason[r], next[r] - 1))

IInv == TypeOK /\ BarHeld /\ OneOfficialMedal /\ NextFollows /\ Numbering

LEMMA InitIInv == Init => IInv
<1> SUFFICES ASSUME Init PROVE IInv
  OBVIOUS
<1>1. TypeOK
  BY NoneIsNew DEF Init, TypeOK, RowsOK, LocksOK, LocalsOK, Informed, Creating, OnVersion, Writes,
                   Activations, Open
<1>2. BarHeld /\ OneOfficialMedal /\ NextFollows
  BY DEF Init, BarHeld, OneOfficialMedal, NextFollows, Active
<1>3. Numbering
  BY NoneIsNew DEF Init, Numbering, Of
<1>4. QED BY <1>1, <1>2, <1>3 DEF IInv

-----------------------------------------------------------------------------
(* Type correctness *)

LEMMA ReturnTyped ==
  ASSUME NEW r \in Request, TypeOK, Return(r),
         \A v \in Version : season[v] # None => season'[v] # None
  PROVE  LocalsOK' /\ \A q \in Request : Informed(q)'
<1>1. LocalsOK' BY DEF Return, Goto, TypeOK, LocalsOK
<1>2. \A q \in Request : Informed(q)'
  BY DEF Return, Goto, TypeOK, LocalsOK, Informed, Creating, OnVersion, Writes, Activations
<1>3. QED BY <1>1, <1>2

LEMMA GotoTyped ==
  ASSUME NEW r \in Request, TypeOK, NEW l \in OnVersion, Goto(r, l), pc[r] \in OnVersion,
         UNCHANGED <<season, locals>>
  PROVE  LocalsOK' /\ \A q \in Request : Informed(q)'
<1>1. LocalsOK' BY DEF Goto, TypeOK, LocalsOK, locals
<1>2. \A q \in Request : Informed(q)'
  BY DEF Goto, TypeOK, LocalsOK, Informed, Creating, OnVersion, Writes, Activations, locals
<1>3. QED BY <1>1, <1>2

LEMMA InsertTyped ==
  ASSUME NEW r \in Request, TypeOK, NEW v \in Version, pc[r] \in Creating, NEW n \in Nat,
         Insert(v, inSeason[r], n, draft[r]), Return(r), UNCHANGED locks
  PROVE  TypeOK'
<1>1. inSeason[r] \in Season /\ draft[r] \in Copy \cup {None}
  BY DEF TypeOK, LocalsOK, Informed
<1>2. season[v] = None /\ inSeason[r] # None
  BY <1>1, NoneIsNew DEF Insert, TypeOK, RowsOK
<1>3. \A w \in Version : season[w] # None => season'[w] = season[w]
  BY <1>2 DEF Insert, TypeOK, RowsOK
<1>4. RowsOK'
  <2>1. \A s \in Season : current'[s] # None => season'[current'[s]] = s
    <3> SUFFICES ASSUME NEW s \in Season, current'[s] # None PROVE season'[current'[s]] = s
      OBVIOUS
    <3>1. CASE s = inSeason[r]
      BY <1>1, <3>1 DEF Insert, TypeOK, RowsOK
    <3>2. CASE s # inSeason[r]
      <4>1. current'[s] = current[s] BY <3>2 DEF Insert, TypeOK, RowsOK
      <4>2. current[s] \in Version /\ season[current[s]] = s /\ s # None
        BY <4>1, NoneIsNew DEF TypeOK, RowsOK
      <4>3. QED BY <1>3, <4>1, <4>2
    <3>3. QED BY <3>1, <3>2
  <2>2. \A w \in Version : (status'[w] = "unborn") <=> (season'[w] = None)
    BY <1>1, <1>2 DEF Insert, TypeOK, RowsOK
  <2>3. /\ status' \in [Version -> Open \cup {"unborn", "ACTIVE", "DISABLED"}]
        /\ season' \in [Version -> Season \cup {None}] /\ number' \in [Version -> Nat]
        /\ copy' \in [Version -> Copy \cup {None}] /\ current' \in [Season -> Version \cup {None}]
    BY <1>1 DEF Insert, TypeOK, RowsOK, Open
  <2>4. QED BY <2>1, <2>2, <2>3 DEF RowsOK
<1>5. LocalsOK' /\ \A q \in Request : Informed(q)'
  BY <1>3, ReturnTyped
<1>6. QED BY <1>4, <1>5 DEF TypeOK, LocksOK, locks

\* What the handlers that update a row by id have in common.
LEMMA UpdateTyped ==
  ASSUME NEW r \in Request, TypeOK, pc[r] \in OnVersion,
         status' = status \/ (\E st \in Open \cup {"DISABLED"} : Becomes(r, st)),
         copy' = copy \/ Edit(r), current' = current \/ PointSeason(r),
         UNCHANGED <<season, number>>
  PROVE  RowsOK'
<1>1. version[r] \in Version /\ season[version[r]] \in Season /\ season[version[r]] # None
  BY DEF TypeOK, RowsOK, Informed
<1>2. status' \in [Version -> Open \cup {"unborn", "ACTIVE", "DISABLED"}]
  BY <1>1 DEF TypeOK, RowsOK, Becomes
<1>3. \A w \in Version : (status'[w] = "unborn") <=> (season'[w] = None)
  BY <1>1 DEF TypeOK, RowsOK, Becomes, Open
<1>4. draft[r] \in Copy \cup {None} BY DEF TypeOK, LocalsOK
<1>5. copy' \in [Version -> Copy \cup {None}] BY <1>1, <1>4 DEF TypeOK, RowsOK, Edit
<1>6. /\ current' \in [Season -> Version \cup {None}]
      /\ \A s \in Season : current'[s] # None => season'[current'[s]] = s
  BY <1>1 DEF TypeOK, RowsOK, PointSeason
<1>7. QED BY <1>2, <1>3, <1>5, <1>6 DEF TypeOK, RowsOK

LEMMA StepType ==
  ASSUME NEW r \in Request, TypeOK, Step(r) \/ Fail(r)
  PROVE  TypeOK'
<1>1. ASSUME NEW v \in Version, CreateDraft(r, v) PROVE TypeOK'
  BY <1>1, InsertTyped DEF CreateDraft, Creating
<1>2. ASSUME NEW v \in Version, CreateNext(r, v) PROVE TypeOK'
  <2>1. next[r] \in Nat BY DEF TypeOK, LocalsOK
  <2>2. QED BY <1>2, <2>1, InsertTyped DEF CreateNext, Creating
<1>3. CASE NextNumber(r)
  <2>1. PICK n \in {0} \cup {number[v] : v \in Of(inSeason[r])} : next' = [next EXCEPT ![r] = n + 1]
    BY <1>3 DEF NextNumber
  <2>2. n \in Nat BY DEF Of, TypeOK, RowsOK
  <2>3. LocalsOK'
    BY <1>3, <2>1, <2>2 DEF NextNumber, Goto, TypeOK, LocalsOK, Creating
  <2>4. \A q \in Request : Informed(q)'
    BY <1>3 DEF NextNumber, rows, Goto, TypeOK, LocalsOK, Informed, Creating, OnVersion, Writes,
                Activations
  <2>5. QED BY <1>3, <2>3, <2>4 DEF NextNumber, rows, locks, TypeOK, RowsOK, LocksOK
<1>4. CASE CreateNextRetry(r)
  <2>1. LocalsOK' /\ \A q \in Request : Informed(q)'
    <3>1. CASE attempt[r] < 2
      <4>1. attempt[r] \in 0..2 BY DEF TypeOK, LocalsOK
      <4>2. LocalsOK'
        BY <1>4, <3>1, <4>1 DEF CreateNextRetry, Goto, TypeOK, LocalsOK, Creating
      <4>3. \A q \in Request : Informed(q)'
        BY <1>4, <3>1 DEF CreateNextRetry, rows, Goto, TypeOK, LocalsOK, Informed, Creating,
                          OnVersion, Writes, Activations
      <4>4. QED BY <4>2, <4>3
    <3>2. CASE ~(attempt[r] < 2)
      BY <1>4, <3>2, ReturnTyped DEF CreateNextRetry, rows
    <3>3. QED BY <3>1, <3>2
  <2>2. QED BY <1>4, <2>1 DEF CreateNextRetry, rows, locks, TypeOK, RowsOK, LocksOK
<1>5. CASE Submit(r) \/ SubmitSeason(r)
  <2>1. pc[r] \in OnVersion
    BY <1>5 DEF Submit, SubmitSeason, UpdateRow, OnVersion, Writes
  <2>2. RowsOK' BY <1>5, <2>1, UpdateTyped DEF Submit, SubmitSeason, UpdateRow, Open
  <2>3. LocalsOK' /\ \A q \in Request : Informed(q)'
    BY <1>5, <2>1, ReturnTyped, GotoTyped DEF Submit, SubmitSeason, UpdateRow, OnVersion
  <2>4. QED BY <1>5, <2>2, <2>3 DEF Submit, SubmitSeason, UpdateRow, locks, TypeOK, LocksOK
<1>6. CASE UpdateDraft(r) \/ Approve(r) \/ CorrectionRequired(r) \/ SetReward(r) \/ SetArtwork(r)
             \/ Disable(r)
  <2> USE DEF UpdateDraft, Approve, CorrectionRequired, SetReward, SetArtwork, Disable, UpdateRow
  <2>1. pc[r] \in OnVersion BY <1>6 DEF OnVersion, Writes
  <2>2. RowsOK' BY <1>6, <2>1, UpdateTyped DEF Open
  <2>3. LocalsOK' /\ \A q \in Request : Informed(q)' BY <1>6, ReturnTyped
  <2>4. QED BY <1>6, <2>2, <2>3 DEF locks, TypeOK, LocksOK
<1>7. CASE ApproveReload(r) \/ ApproveInTx(r) \/ ActivateBegin(r) \/ LockBar(r)
  <2> USE DEF ApproveReload, ApproveInTx, ActivateBegin, LockBar
  <2>1. PICK l \in OnVersion : Goto(r, l) BY <1>7 DEF OnVersion
  <2>2. pc[r] \in OnVersion BY <1>7 DEF OnVersion, Activations
  <2>3. UNCHANGED <<rows, locals>> BY <1>7 DEF locks, locals
  <2>4. LocalsOK' /\ \A q \in Request : Informed(q)' BY <2>1, <2>2, <2>3, GotoTyped DEF rows
  <2>5. LocksOK' BY <1>7 DEF TypeOK, LocksOK, locks
  <2>6. QED BY <2>3, <2>4, <2>5 DEF rows, TypeOK, RowsOK
<1>8. CASE Activate(r)
  <2>1. version[r] \in Version /\ season[version[r]] \in Season /\ season[version[r]] # None
    BY <1>8 DEF Activate, TypeOK, RowsOK, Informed, OnVersion
  <2>2. RowsOK' BY <1>8, <2>1 DEF Activate, TypeOK, RowsOK, Active, Open
  <2>3. LocalsOK' /\ \A q \in Request : Informed(q)' BY <1>8, ReturnTyped DEF Activate
  <2>4. LocksOK' BY <1>8 DEF Activate, TypeOK, LocksOK
  <2>5. QED BY <2>2, <2>3, <2>4 DEF TypeOK
<1>9. CASE Fail(r)
  <2>1. LocalsOK' /\ \A q \in Request : Informed(q)' BY <1>9, ReturnTyped DEF Fail, rows
  <2>2. QED BY <1>9, <2>1 DEF Fail, rows, TypeOK, RowsOK, LocksOK
<1>10. QED BY <1>1, <1>2, <1>3, <1>4, <1>5, <1>6, <1>7, <1>8, <1>9 DEF Step

LEMMA ArriveType ==
  ASSUME NEW r \in Request, TypeOK, Arrive(r)
  PROVE  TypeOK'
<1> USE DEF TypeOK, LocalsOK, Informed, Goto
<1>1. ASSUME NEW s \in Season, NEW c \in Copy, CreateDraftCheck(r, s, c) PROVE TypeOK'
  <2>1. LocalsOK' BY <1>1 DEF CreateDraftCheck, Creating
  <2>2. \A q \in Request : Informed(q)'
    BY <1>1 DEF CreateDraftCheck, rows, Creating, OnVersion, Writes, Activations
  <2>3. QED BY <1>1, <2>1, <2>2 DEF CreateDraftCheck, rows, locks, RowsOK, LocksOK
<1>2. ASSUME NEW s \in Season, NEW v \in Version, CreateNextCheck(r, s, v) PROVE TypeOK'
  <2>1. copy[v] \in Copy \cup {None} BY DEF RowsOK
  <2>2. LocalsOK' BY <1>2, <2>1 DEF CreateNextCheck, Creating
  <2>3. \A q \in Request : Informed(q)'
    BY <1>2 DEF CreateNextCheck, rows, Creating, OnVersion, Writes, Activations
  <2>4. QED BY <1>2, <2>2, <2>3 DEF CreateNextCheck, rows, locks, RowsOK, LocksOK
<1>3. ASSUME NEW o \in Writes \cup Activations, NEW v \in Version, NEW c \in Copy \cup {None},
             Read(r, o, v, c)
      PROVE  TypeOK'
  <2>1. "unborn" \notin Accepts(o) BY DEF Accepts, Writes, Activations, Open
  <2>2. season[v] # None BY <1>3, <2>1 DEF Read, RowsOK
  <2>3. LocalsOK' BY <1>3 DEF Read, OnVersion
  <2>4. \A q \in Request : Informed(q)'
    BY <1>3, <2>2 DEF Read, rows, Creating, OnVersion, Writes, Activations
  <2>5. QED BY <1>3, <2>3, <2>4 DEF Read, rows, locks, RowsOK, LocksOK
<1>4. QED BY <1>1, <1>2, <1>3 DEF Arrive, Writes

\* No interleaving gives a variable a value outside its type or points a season
\* at a version of another.
THEOREM TypeCorrect == Spec => []TypeOK
<1>1. Init => TypeOK BY InitIInv DEF IInv
<1>2. TypeOK /\ [Next]_vars => TypeOK'
  <2> SUFFICES ASSUME TypeOK, [Next]_vars PROVE TypeOK'
    OBVIOUS
  <2>1. CASE UNCHANGED vars
    BY <2>1 DEF vars, rows, locks, locals, TypeOK, RowsOK, LocksOK, LocalsOK, Informed
  <2>2. ASSUME NEW r \in Request, Arrive(r) \/ Step(r) \/ Fail(r) PROVE TypeOK'
    BY <2>2, ArriveType, StepType
  <2>3. QED BY <2>1, <2>2 DEF Next
<1>3. QED BY <1>1, <1>2, PTL DEF Spec

-----------------------------------------------------------------------------
(* Who may make a version ACTIVE *)

\* Only the commit of an activation makes a version ACTIVE, and rows keep their
\* season and number once they have them.
LEMMA RowsGrow ==
  ASSUME IInv, NEW r \in Request, Arrive(r) \/ Step(r) \/ Fail(r)
  PROVE  \A v \in Version : season[v] # None => season'[v] = season[v] /\ number'[v] = number[v]
<1>1. ASSUME NEW v \in Version, NEW s, NEW n, NEW c, Insert(v, s, n, c), NEW w \in Version,
             season[w] # None
      PROVE  season'[w] = season[w] /\ number'[w] = number[w]
  BY <1>1 DEF Insert, IInv, TypeOK, RowsOK
<1>2. CASE (\E v \in Version : CreateDraft(r, v) \/ CreateNext(r, v))
  BY <1>1, <1>2 DEF CreateDraft, CreateNext
<1>3. CASE UNCHANGED <<season, number>> BY <1>3
<1>4. QED
  BY <1>2, <1>3 DEF Arrive, Step, Fail, CreateDraftCheck, CreateNextCheck, Read, NextNumber,
     CreateNextRetry, UpdateDraft, Submit, SubmitSeason, Approve, CorrectionRequired, SetReward,
     SetArtwork, Disable, UpdateRow, ApproveReload, ApproveInTx, ActivateBegin, LockBar, Activate, rows

LEMMA ActiveOnlyByActivate ==
  ASSUME IInv, NEW r \in Request, Arrive(r) \/ Step(r) \/ Fail(r), ~Activate(r)
  PROVE  Active' \subseteq Active
<1> USE DEF Active
<1>1. CASE UNCHANGED status BY <1>1
<1>2. ASSUME NEW st \in Open \cup {"DISABLED"}, Becomes(r, st) PROVE Active' \subseteq Active
  BY <1>2 DEF Becomes, Open, IInv, TypeOK, RowsOK
<1>3. ASSUME NEW v \in Version, NEW s, NEW n, NEW c, Insert(v, s, n, c) PROVE Active' \subseteq Active
  BY <1>3 DEF Insert, IInv, TypeOK, RowsOK
<1>4. CASE Arrive(r) \/ Fail(r)
  BY <1>1, <1>4 DEF Arrive, Fail, CreateDraftCheck, CreateNextCheck, Read, rows
<1>5. CASE Step(r)
  BY <1>1, <1>2, <1>3, <1>5 DEF Step, CreateDraft, CreateNext, NextNumber,
     CreateNextRetry, UpdateDraft, Submit, SubmitSeason, Approve, CorrectionRequired, SetReward,
     SetArtwork, Disable, ApproveReload, ApproveInTx, ActivateBegin, LockBar, rows, Open
<1>6. QED BY <1>4, <1>5

\* Apart from an activation, a step that takes the bar's row took it free, and
\* one that gives it up held it; nobody else starts to activate.
LEMMA BarHeldStep ==
  ASSUME IInv, NEW r \in Request, Arrive(r) \/ Step(r) \/ Fail(r)
  PROVE  BarHeld'
<1> SUFFICES ASSUME NEW q \in Request, pc'[q] = "activating"
             PROVE  /\ barLock' = q
                    /\ \A w \in Active' : w = version'[q] \/ season'[w] = season'[version'[q]]
  BY DEF BarHeld
<1>1. CASE Activate(r)
  <2>1. pc'[r] = "idle" BY <1>1 DEF Activate, Return, Goto, IInv, TypeOK, LocalsOK
  <2>2. q # r /\ pc[q] = "activating" BY <1>1, <2>1 DEF Activate, Return, Goto, IInv, TypeOK, LocalsOK
  <2>3. barLock = q /\ barLock = r BY <1>1, <2>2 DEF Activate, IInv, BarHeld
  <2>4. QED BY <2>2, <2>3
<1>2. CASE LockBar(r) /\ q = r
  <2>1. version' = version /\ season' = season /\ Active' = Active /\ barLock' = r
    BY <1>2 DEF LockBar, rows, locals, Active
  <2>2. QED BY <1>2, <2>1 DEF LockBar
<1>3. CASE ~Activate(r) /\ ~(LockBar(r) /\ q = r)
  <2>1. pc[q] = "activating" /\ version'[q] = version[q] /\ (Fail(r) => q # r)
    BY <1>3 DEF Arrive, Fail, CreateDraftCheck, CreateNextCheck, Read, Step, CreateDraft, CreateNext,
       NextNumber, CreateNextRetry, UpdateDraft, Submit, SubmitSeason, Approve, CorrectionRequired,
       SetReward, SetArtwork, Disable, UpdateRow, ApproveReload, ApproveInTx, ActivateBegin, LockBar,
       Return, Goto, locals, IInv, TypeOK, LocalsOK, Writes, Activations
  <2>2. barLock = q /\ \A w \in Active : w = version[q] \/ season[w] = season[version[q]]
    BY <2>1 DEF IInv, BarHeld
  <2>3. barLock' = barLock
    BY <1>3, <2>1, <2>2, NoneIsNew DEF Arrive, Fail, CreateDraftCheck, CreateNextCheck, Read, Step,
       CreateDraft, CreateNext, NextNumber, CreateNextRetry, UpdateDraft, Submit, SubmitSeason,
       Approve, CorrectionRequired, SetReward, SetArtwork, Disable, UpdateRow, ApproveReload,
       ApproveInTx, ActivateBegin, LockBar, locks
  <2>4. \A w \in Active \cup {version[q]} : season'[w] = season[w]
    <3>1. \A w \in Active \cup {version[q]} : w \in Version /\ season[w] # None
      BY <2>1 DEF Active, IInv, TypeOK, RowsOK, Informed, OnVersion
    <3>2. QED BY <3>1, RowsGrow
  <2>5. Active' \subseteq Active BY <1>3, ActiveOnlyByActivate
  <2>6. QED BY <2>1, <2>2, <2>3, <2>4, <2>5
<1>4. QED BY <1>1, <1>2, <1>3

LEMMA OneOfficialStep ==
  ASSUME IInv, NEW r \in Request, Arrive(r) \/ Step(r) \/ Fail(r)
  PROVE  /\ OneOfficialMedal'
         /\ \A v \in Active, w \in Active' : season[w] = season[v]
<1>1. CASE Activate(r)
  <2>1. version[r] \in Version /\ \A w \in Active : w = version[r] \/ season[w] = season[version[r]]
    BY <1>1 DEF Activate, IInv, BarHeld, TypeOK, Informed, OnVersion
  <2>2. Active' = {version[r]}
    BY <1>1, <2>1 DEF Activate, Active, Of, IInv, TypeOK, RowsOK
  <2>3. QED BY <2>1, <2>2 DEF OneOfficialMedal
<1>2. CASE ~Activate(r)
  BY <1>2, ActiveOnlyByActivate DEF OneOfficialMedal, IInv
<1>3. QED BY <1>1, <1>2

-----------------------------------------------------------------------------
(* Numbering *)

\* Taken, of the season and number functions of a state.
Numbered(f, g, s, n) == \E v \in Version : f[v] = s /\ g[v] = n

LEMMA TakenStays ==
  ASSUME IInv, NEW r \in Request, Arrive(r) \/ Step(r) \/ Fail(r), NEW s \in Season, NEW n,
         Numbered(season, number, s, n)
  PROVE  Numbered(season', number', s, n)
<1>1. PICK v \in Version : season[v] = s /\ number[v] = n BY DEF Numbered
<1>2. season'[v] = s /\ number'[v] = n BY <1>1, RowsGrow, NoneIsNew
<1>3. QED BY <1>1, <1>2 DEF Numbered

\* An insertion under a free number whose predecessor is taken keeps the order.
LEMMA InsertNumbered ==
  ASSUME IInv, NEW r \in Request, Step(r), NEW v \in Version, NEW s \in Season, NEW n \in Nat, NEW c,
         Insert(v, s, n, c), ~Taken(s, n), n = 1 \/ (n > 1 /\ Taken(s, n - 1))
  PROVE  Numbering'
<1>1. season[v] = None BY DEF Insert, IInv, TypeOK, RowsOK
<1>2. /\ season'[v] = s /\ number'[v] = n
      /\ \A w \in Version \ {v} : season'[w] = season[w] /\ number'[w] = number[w]
  BY DEF Insert, IInv, TypeOK, RowsOK
<1>3. ASSUME NEW u \in Season, NEW w \in Version, season'[w] = u
      PROVE  number'[w] = 1 \/ (number'[w] > 1 /\ Numbered(season', number', u, number'[w] - 1))
  <2>1. CASE w = v
    <3>1. n = 1 \/ (n > 1 /\ Numbered(season, number, s, n - 1)) BY DEF Taken, Of, Numbered
    <3>2. QED BY <1>2, <1>3, <2>1, <3>1, TakenStays
  <2>2. CASE w # v
    <3>1. number[w] = 1 \/ (number[w] > 1 /\ Numbered(season, number, u, number[w] - 1))
      BY <1>2, <1>3, <2>2 DEF IInv, Numbering, Taken, Of, Numbered
    <3>2. QED BY <1>2, <2>2, <3>1, TakenStays
  <2>3. QED BY <2>1, <2>2
<1>4. ASSUME NEW u \in Season, NEW w \in Version, NEW x \in Version, season'[w] = u, season'[x] = u,
             number'[w] = number'[x]
      PROVE  w = x
  BY <1>2, <1>4 DEF IInv, Numbering, Of, Taken
<1>5. QED BY <1>3, <1>4 DEF Numbering, Of, Taken, Numbered

LEMMA NumberingStep ==
  ASSUME IInv, NEW r \in Request, Arrive(r) \/ Step(r) \/ Fail(r)
  PROVE  Numbering'
<1>1. ASSUME NEW v \in Version, CreateDraft(r, v) PROVE Numbering'
  <2>1. inSeason[r] \in Season BY <1>1 DEF CreateDraft, IInv, TypeOK, Informed, Creating
  <2>2. QED BY <1>1, <2>1, InsertNumbered DEF CreateDraft, Step
<1>2. ASSUME NEW v \in Version, CreateNext(r, v) PROVE Numbering'
  <2>1. inSeason[r] \in Season /\ next[r] \in Nat
    BY <1>2 DEF CreateNext, IInv, TypeOK, LocalsOK, Informed, Creating
  <2>2. next[r] = 1 \/ (next[r] > 1 /\ Taken(inSeason[r], next[r] - 1))
    BY <1>2 DEF CreateNext, IInv, NextFollows
  <2>3. QED BY <1>2, <2>1, <2>2, InsertNumbered DEF CreateNext, Step
<1>3. CASE UNCHANGED <<season, number>> BY <1>3 DEF IInv, Numbering, Of, Taken
<1>4. QED
  BY <1>1, <1>2, <1>3 DEF Arrive, Step, Fail, CreateDraftCheck, CreateNextCheck, Read, NextNumber,
     CreateNextRetry, UpdateDraft, Submit, SubmitSeason, Approve, CorrectionRequired, SetReward,
     SetArtwork, Disable, UpdateRow, ApproveReload, ApproveInTx, ActivateBegin, LockBar, Activate, rows

LEMMA NextFollowsStep ==
  ASSUME IInv, NEW r \in Request, Arrive(r) \/ Step(r) \/ Fail(r)
  PROVE  NextFollows'
<1> SUFFICES ASSUME NEW q \in Request, pc'[q] = "createNext"
             PROVE  \/ next'[q] = 1
                    \/ next'[q] > 1 /\ Numbered(season', number', inSeason'[q], next'[q] - 1)
  BY DEF NextFollows, Taken, Of, Numbered
<1>1. CASE NextNumber(r) /\ q = r
  <2>1. PICK n \in {0} \cup {number[v] : v \in Of(inSeason[r])} : next' = [next EXCEPT ![r] = n + 1]
    BY <1>1 DEF NextNumber
  <2>2. n \in Nat /\ next'[r] = n + 1
    BY <2>1 DEF Of, IInv, TypeOK, RowsOK, LocalsOK
  <2>3. inSeason' = inSeason /\ number' = number /\ season' = season
    BY <1>1 DEF NextNumber, rows
  <2>4. CASE n = 0 BY <1>1, <2>2, <2>4
  <2>5. CASE n # 0
    <3>1. Numbered(season, number, inSeason[r], n) BY <2>1, <2>5 DEF Numbered, Of
    <3>2. next'[r] > 1 /\ next'[r] - 1 = n BY <2>2, <2>5
    <3>3. QED BY <1>1, <2>3, <3>1, <3>2
  <2>6. QED BY <2>4, <2>5
<1>2. CASE ~(NextNumber(r) /\ q = r)
  <2>1. pc[q] = "createNext" /\ next'[q] = next[q] /\ inSeason'[q] = inSeason[q]
    BY <1>2 DEF Arrive, Fail, CreateDraftCheck, CreateNextCheck, Read, Step, CreateDraft, CreateNext,
       NextNumber, CreateNextRetry, UpdateDraft, Submit, SubmitSeason, Approve, CorrectionRequired,
       SetReward, SetArtwork, Disable, UpdateRow, ApproveReload, ApproveInTx, ActivateBegin, LockBar,
       Activate, Return, Goto, locals, IInv, TypeOK, LocalsOK, Writes, Activations
  <2>2. inSeason[q] \in Season BY <2>1 DEF IInv, TypeOK, Informed, Creating
  <2>3. next[q] = 1 \/ (next[q] > 1 /\ Numbered(season, number, inSeason[q], next[q] - 1))
    BY <2>1 DEF IInv, NextFollows, Taken, Of, Numbered
  <2>4. QED BY <2>1, <2>2, <2>3, TakenStays
<1>3. QED BY <1>1, <1>2

-----------------------------------------------------------------------------

LEMMA IInvStep == IInv /\ [Next]_vars => IInv'
<1> SUFFICES ASSUME IInv, [Next]_vars PROVE IInv'
  OBVIOUS
<1>1. CASE UNCHANGED vars
  <2>1. TypeOK'
    BY <1>1 DEF vars, rows, locks, locals, IInv, TypeOK, RowsOK, LocksOK, LocalsOK, Informed
  <2>2. BarHeld' /\ OneOfficialMedal'
    BY <1>1 DEF vars, rows, locks, locals, IInv, BarHeld, OneOfficialMedal, Active
  <2>3. NextFollows' /\ Numbering'
    BY <1>1 DEF vars, rows, locals, IInv, NextFollows, Numbering, Taken, Of
  <2>4. QED BY <2>1, <2>2, <2>3 DEF IInv
<1>2. ASSUME NEW r \in Request, Arrive(r) \/ Step(r) \/ Fail(r) PROVE IInv'
  BY <1>2, ArriveType, StepType, BarHeldStep, OneOfficialStep, NumberingStep, NextFollowsStep
     DEF IInv
<1>3. QED BY <1>1, <1>2 DEF Next

LEMMA IInvHolds == Spec => []IInv
BY InitIInv, IInvStep, PTL DEF Spec

\* Two administrators, stale tests and rolled back transactions cannot give the
\* bar two official medals.
THEOREM OneOfficialMedalHolds == Spec => []OneOfficialMedal
<1>1. IInv => OneOfficialMedal BY DEF IInv
<1>2. QED BY <1>1, IInvHolds, PTL

\* Collisions and retries of createDraft and createNextVersion leave the
\* versions of a season numbered 1, 2, ...
THEOREM NumberingHolds == Spec => []Numbering
<1>1. IInv => Numbering BY DEF IInv
<1>2. QED BY <1>1, IInvHolds, PTL

\* The medal does not move to another season in one step.
THEOREM NoSilentMoveHolds == Spec => NoSilentMove
<1>1. IInv /\ [Next]_vars =>
        [\A v \in Active, w \in Version : status'[w] = "ACTIVE" => season[w] = season[v]]_vars
  <2> SUFFICES ASSUME IInv, Next
               PROVE  \A v \in Active, w \in Version : status'[w] = "ACTIVE" => season[w] = season[v]
    OBVIOUS
  <2>1. PICK r \in Request : Arrive(r) \/ Step(r) \/ Fail(r) BY DEF Next
  <2>2. QED BY <2>1, OneOfficialStep DEF Active
<1>2. QED BY <1>1, IInvHolds, PTL DEF Spec, NoSilentMove

-----------------------------------------------------------------------------
(* The dossier: its steps are steps of MedalVersions *)

Mark == Event \cup {"NONE", "NULL", "LOST"}

RecordTypes ==
  /\ audit \in [Version -> Mark] /\ held \in [Request -> Mark] /\ healing \subseteq Version

\* A row without a design is one from before the visual system, never submitted.
Early == \A v \in Version : audit[v] = "NULL" => status[v] \in {"DRAFT", "ACTIVE", "DISABLED"}

\* Numbers start at 1, and one that a request has computed is either taken by
\* now or beyond all others.
FirstTaken == \A s \in Season : Of(s) # {} => Taken(s, 1)
Beyond == \A r \in Request : pc[r] = "createNext" =>
  Taken(inSeason[r], next[r]) \/ \A v \in Of(inSeason[r]) : number[v] < next[r]

\* Only a season's newest version is open, unless something was lost.
Whole(s) == \A v \in Of(s) : audit[v] # "LOST"
OpenIsNewest == \A s \in Season : Whole(s) =>
  \A v \in Of(s) : status[v] \in Open => v \in Newest(s)

DossierIInv ==
  /\ IInv /\ RecordTypes /\ Early /\ FirstTaken /\ Beyond
  /\ OpenIsNewest /\ AuditTellsStatus /\ CurrentIsNewest

\* The bar and the office read the same rows in the same order.
LEMMA SameFile == OfficeAgrees
<1> DEFINE pending == {v \in Version : status[v] = "PENDING_REVIEW"}
           approved == {v \in Version : status[v] = "APPROVED"}
<1>1. /\ DOMAIN OfficePriority = {"ACTIVE", "PENDING_REVIEW", "APPROVED"}
      /\ OfficePriority["ACTIVE"] = 100 /\ OfficePriority["PENDING_REVIEW"] = 80
      /\ OfficePriority["APPROVED"] = 70
  BY DEF OfficePriority
<1>2. /\ WorkflowPriority["PENDING_REVIEW"] = 50 /\ WorkflowPriority["APPROVED"] = 40
      /\ WorkflowPriority["CHANGES_REQUESTED"] = 30 /\ WorkflowPriority["DRAFT"] = 20
  BY DEF WorkflowPriority
<1>3. InOffice = Active \cup pending \cup approved BY <1>1 DEF InOffice, Active
<1>4. CASE Active # {}
  <2>1. File = Active BY <1>1, <1>3, <1>4 DEF File, Active
  <2>2. Canonical = Active BY <1>4 DEF Canonical
  <2>3. QED
    BY <1>1, <1>3, <2>1, <2>2 DEF OfficeAgrees, ActiveSibling, Bucket, UiState, Active
<1>5. CASE Active = {}
  <2>1. File = IF pending # {} THEN pending ELSE approved
    BY <1>1, <1>3, <1>5 DEF File
  <2>2. Canonical \cap InOffice = IF pending # {} THEN pending ELSE approved
    BY <1>2, <1>3, <1>5 DEF Canonical, InWorkflow, Open
  <2>3. \A v \in Version : ActiveSibling(v) = {} BY <1>5 DEF ActiveSibling
  <2>4. QED BY <2>1, <2>2, <2>3 DEF OfficeAgrees, Bucket, UiState, Listed
<1>6. QED BY <1>4, <1>5

LEMMA DossierMoves ==
  ASSUME NEW r \in Request,
         \/ Arriving(r) \/ Starting(r) \/ Updating(r) \/ Submitting(r) \/ Moderating(r)
         \/ Activating(r) \/ Failing(r)
  PROVE  Arrive(r) \/ Step(r) \/ Fail(r)
<1>1. CASE Arriving(r)
  BY <1>1 DEF Arriving, Arrive
<1>2. CASE Starting(r) BY <1>2 DEF Starting, Step
<1>3. CASE Updating(r) \/ Submitting(r) BY <1>3 DEF Updating, Submitting, Step
<1>4. CASE Moderating(r) BY <1>4 DEF Moderating, Step
<1>5. CASE Activating(r) BY <1>5 DEF Activating, Step
<1>6. CASE Failing(r) BY <1>6 DEF Failing
<1>7. QED BY <1>1, <1>2, <1>3, <1>4, <1>5, <1>6

LEMMA DossierTakesSteps == DossierNext => [Next]_vars
BY DossierMoves DEF DossierNext, HealRead, HealWrite, Next

\* Rows that were there before there was a record are as good as new ones.
LEMMA OlderIInv ==
  ASSUME Idle, NEW v \in Version, NEW s \in Season, NEW c \in Copy, NEW st \in {"DRAFT", "ACTIVE"},
         Older(v, s, c, st)
  PROVE  IInv
<1>1. \A w \in Version : status[w] = "unborn" <=> season[w] = None
  BY NoneIsNew DEF Older
<1>2. TypeOK
  <2>1. RowsOK
    <3>1. /\ status \in [Version -> Open \cup {"unborn", "ACTIVE", "DISABLED"}]
          /\ season \in [Version -> Season \cup {None}] /\ number \in [Version -> Nat]
          /\ copy \in [Version -> Copy \cup {None}]
      BY DEF Older, Open
    <3>2. /\ current \in [Season -> Version \cup {None}]
          /\ \A t \in Season : current[t] # None => season[current[t]] = t
      BY DEF Older
    <3>3. QED BY <1>1, <3>1, <3>2 DEF RowsOK
  <2>2. LocksOK BY DEF Idle, LocksOK
  <2>3. LocalsOK /\ \A r \in Request : Informed(r)
    BY DEF Idle, LocalsOK, Informed, Creating, OnVersion, Writes, Activations
  <2>4. QED BY <2>1, <2>2, <2>3 DEF TypeOK
<1>3. BarHeld /\ NextFollows BY DEF Idle, BarHeld, NextFollows
<1>4. OneOfficialMedal BY DEF Older, OneOfficialMedal, Active
<1>5. Numbering
  <2>1. \A t \in Season : \A w \in Of(t) : w = v /\ number[w] = 1
    BY NoneIsNew DEF Older, Of
  <2>2. QED BY <2>1 DEF Numbering
<1>6. QED BY <1>2, <1>3, <1>4, <1>5 DEF IInv

LEMMA DossierInitIInv == DossierInit => DossierIInv
<1> SUFFICES ASSUME DossierInit PROVE DossierIInv
  OBVIOUS
<1>1. RecordTypes
  <2>1. audit \in [Version -> Mark]
    <3>1. CASE Init /\ audit = [v \in Version |-> "NONE"] BY <3>1 DEF Mark
    <3>2. CASE \E v \in Version, s \in Season, c \in Copy, st \in {"DRAFT", "ACTIVE"} : Older(v, s, c, st)
      BY <3>2 DEF Mark, Older
    <3>3. QED BY <3>1, <3>2 DEF DossierInit
  <2>2. QED BY <2>1 DEF DossierInit, RecordTypes, Mark
<1>2. CASE Init /\ audit = [v \in Version |-> "NONE"]
  <2>1. IInv BY <1>2, InitIInv
  <2>2. /\ \A s \in Season : Of(s) = {}
        /\ \A v \in Version : audit[v] = "NONE" /\ status[v] = "unborn"
        /\ \A r \in Request : pc[r] = "idle"
    BY <1>2, NoneIsNew DEF Init, Of
  <2>3. Early /\ FirstTaken /\ Beyond /\ OpenIsNewest
    BY <2>2 DEF Early, FirstTaken, Beyond, OpenIsNewest
  <2>4. AuditTellsStatus /\ CurrentIsNewest
    BY <2>2 DEF AuditTellsStatus, Trail, CurrentIsNewest
  <2>5. QED BY <1>1, <2>1, <2>3, <2>4 DEF DossierIInv
<1>3. ASSUME Idle, NEW v \in Version, NEW s \in Season, NEW c \in Copy, NEW st \in {"DRAFT", "ACTIVE"},
             Older(v, s, c, st)
      PROVE  DossierIInv
  <2>1. IInv BY <1>3, OlderIInv
  <2>2. \A t \in Season : Of(t) = IF t = s THEN {v} ELSE {}
    BY <1>3, NoneIsNew DEF Older, Of
  <2>3. /\ number[v] = 1 /\ status[v] = st /\ audit[v] = "NULL"
        /\ \A w \in Version \ {v} : status[w] = "unborn" /\ audit[w] = "NONE"
        /\ current[s] \in {None, v} /\ \A t \in Season \ {s} : current[t] = None
    BY <1>3 DEF Older
  <2>4. Newest(s) = {v} /\ \A t \in Season \ {s} : Newest(t) = {}
    BY <2>2, <2>3 DEF Newest
  <2>5. FirstTaken BY <2>2, <2>3 DEF FirstTaken, Taken
  <2>6. Early /\ OpenIsNewest BY <1>3, <2>2, <2>3, <2>4 DEF Early, OpenIsNewest
  <2>7. Beyond BY <1>3 DEF Idle, Beyond
  <2>8. AuditTellsStatus /\ CurrentIsNewest
    BY <2>2, <2>3, <2>4 DEF AuditTellsStatus, Trail, CurrentIsNewest, Current
  <2>9. QED BY <1>1, <2>1, <2>5, <2>6, <2>7, <2>8 DEF DossierIInv
<1>4. QED BY <1>2, <1>3 DEF DossierInit

-----------------------------------------------------------------------------
(* The record and the order of versions *)

\* A handler writes one row and the record in it: either it was overtaken, and the
\* record is lost, or the row was open, or ACTIVE, as it had read.
LEMMA RecordWritten ==
  ASSUME DossierIInv, NEW r \in Request, NEW e \in Mark, version[r] \in Version, Writing(r, e),
         UNCHANGED <<season, number>>,
         \A w \in Version \ {version[r]} :
           status'[w] = status[w] \/ (status[w] = "ACTIVE" /\ status'[w] = "DISABLED"),
         Expected(r) \subseteq Open \/ (status'[version[r]] \notin Open /\ current' = current),
         ~Overtaken(r) /\ audit[version[r]] # "LOST" =>
           /\ e = "NULL" => status'[version[r]] \in {"DRAFT", "ACTIVE", "DISABLED"}
           /\ status'[version[r]] \in DOMAIN Trail =>
                e \in Trail[status'[version[r]]] \cup {"LOST", "NULL"},
         current' = current \/ PointSeason(r)
  PROVE  /\ audit' \in [Version -> Mark]
         /\ Early' /\ OpenIsNewest' /\ AuditTellsStatus' /\ CurrentIsNewest'
<1> DEFINE v == version[r]
<1>1. /\ audit \in [Version -> Mark] /\ OpenIsNewest /\ Early /\ AuditTellsStatus /\ CurrentIsNewest
      /\ Numbering /\ RowsOK
  BY DEF DossierIInv, IInv, TypeOK, RecordTypes
<1>2. /\ audit'[v] = IF audit[v] = "LOST" \/ Overtaken(r) THEN "LOST" ELSE e
      /\ \A w \in Version \ {v} : audit'[w] = audit[w]
      /\ audit' \in [Version -> Mark]
  BY <1>1 DEF Writing, Mark
<1>3. \A s : Of(s)' = Of(s) /\ Newest(s)' = Newest(s) BY DEF Of, Newest
<1>4. DOMAIN Trail = {"PENDING_REVIEW", "APPROVED", "CHANGES_REQUESTED", "ACTIVE", "DISABLED"}
  BY DEF Trail
<1>5. Trail["ACTIVE"] = {"ACTIVATED"} /\ Trail["DISABLED"] = {"ACTIVATED"} BY DEF Trail
<1>6. Early'
  <2> SUFFICES ASSUME NEW w \in Version, audit'[w] = "NULL"
               PROVE  status'[w] \in {"DRAFT", "ACTIVE", "DISABLED"}
    BY DEF Early
  <2>1. CASE w = v BY <1>2, <2>1
  <2>2. CASE w # v BY <1>1, <1>2, <2>2 DEF Early
  <2>3. QED BY <2>1, <2>2
<1>7. AuditTellsStatus'
  <2> SUFFICES ASSUME NEW w \in Version, status'[w] \in DOMAIN Trail
               PROVE  audit'[w] \in Trail[status'[w]] \cup {"LOST", "NULL"}
    BY DEF AuditTellsStatus, Trail
  <2>1. CASE w = v BY <1>2, <2>1
  <2>2. CASE w # v
    <3>1. audit'[w] = audit[w] BY <1>2, <2>2
    <3>2. CASE status'[w] = status[w] BY <1>1, <3>1, <3>2 DEF AuditTellsStatus
    <3>3. CASE status[w] = "ACTIVE" /\ status'[w] = "DISABLED"
      BY <1>1, <1>4, <1>5, <3>1, <3>3 DEF AuditTellsStatus
    <3>4. QED BY <2>2, <3>2, <3>3
  <2>3. QED BY <2>1, <2>2
<1>8. ASSUME NEW s \in Season, Whole(s)'
      PROVE  /\ Whole(s)
             /\ v \in Of(s) => status[v] \in Expected(r)
  <2>1. \A w \in Of(s) : audit'[w] # "LOST" BY <1>3, <1>8 DEF Whole
  <2>2. Whole(s) BY <1>2, <2>1 DEF Whole, Of
  <2>3. v \in Of(s) => ~Overtaken(r) BY <1>2, <2>1
  <2>4. QED BY <2>2, <2>3 DEF Overtaken
<1>9. OpenIsNewest'
  <2> SUFFICES ASSUME NEW s \in Season, Whole(s)', NEW w \in Of(s), status'[w] \in Open
               PROVE  w \in Newest(s)
    BY <1>3 DEF OpenIsNewest
  <2>1. w \in Version BY DEF Of
  <2>2. status[w] \in Open
    <3>1. CASE w = v BY <1>8, <3>1
    <3>2. CASE w # v BY <2>1, <3>2 DEF Open
    <3>3. QED BY <3>1, <3>2
  <2>3. QED BY <1>1, <1>8, <2>2 DEF OpenIsNewest
<1>10. CurrentIsNewest'
  <2> SUFFICES ASSUME NEW s \in Season, Of(s) # {}, Whole(s)' PROVE Current(s)' = Newest(s)
    BY <1>3 DEF CurrentIsNewest, Whole
  <2>1. Current(s) = Newest(s) BY <1>1, <1>8 DEF CurrentIsNewest, Whole
  <2>2. CASE current'[s] = current[s] BY <1>3, <2>1, <2>2 DEF Current
  <2>3. CASE current'[s] # current[s]
    <3>1. /\ current' = [current EXCEPT ![season[v]] = v] /\ Expected(r) \subseteq Open
      BY <2>3 DEF PointSeason
    <3>2. s = season[v] /\ current'[s] = v
      BY <1>1, <2>3, <3>1 DEF RowsOK
    <3>3. v \in Of(s) BY <3>2 DEF Of
    <3>4. v \in Newest(s) BY <1>1, <1>8, <3>1, <3>3 DEF OpenIsNewest
    <3>5. \A w \in Newest(s) : number[w] = number[v]
      <4>1. \A w \in Newest(s) : number[w] <= number[v] /\ number[v] <= number[w]
        BY <3>3, <3>4 DEF Newest
      <4>2. \A w \in Newest(s) : number[w] \in Nat /\ number[v] \in Nat
        BY <1>1, <3>3 DEF RowsOK, Newest, Of
      <4>3. QED BY <4>1, <4>2
    <3>6. Newest(s) = {v} BY <1>1, <3>3, <3>4, <3>5 DEF Numbering, Newest
    <3>7. v # None BY NoneIsNew
    <3>8. QED BY <1>3, <3>2, <3>6, <3>7 DEF Current
  <2>4. QED BY <2>2, <2>3
<1>11. QED BY <1>2, <1>6, <1>7, <1>9, <1>10

\* A version inserted under a number that was free is the newest of its season.
LEMMA Inserted ==
  ASSUME DossierIInv, NEW r \in Request, NEW v \in Version,
         CreateDraft(r, v) \/ CreateNext(r, v)
  PROVE  \E s \in Season, n \in Nat \ {0} :
           /\ s = inSeason[r] /\ Insert(v, s, n, draft[r]) /\ ~Taken(s, n)
           /\ n = 1 \/ Taken(s, n - 1)
           /\ \A w \in Of(s) : number[w] < n
<1>1. CASE CreateDraft(r, v)
  <2>1. inSeason[r] \in Season BY <1>1 DEF CreateDraft, DossierIInv, IInv, TypeOK, Informed, Creating
  <2>2. Of(inSeason[r]) = {} BY <1>1, <2>1 DEF CreateDraft, DossierIInv, FirstTaken
  <2>3. QED BY <1>1, <2>1, <2>2 DEF CreateDraft
<1>2. CASE CreateNext(r, v)
  <2>1. inSeason[r] \in Season /\ next[r] \in Nat
    BY <1>2 DEF CreateNext, DossierIInv, IInv, TypeOK, LocalsOK, Informed, Creating
  <2>2. next[r] = 1 \/ (next[r] > 1 /\ Taken(inSeason[r], next[r] - 1))
    BY <1>2 DEF CreateNext, DossierIInv, IInv, NextFollows
  <2>3. \A w \in Of(inSeason[r]) : number[w] < next[r]
    BY <1>2 DEF CreateNext, DossierIInv, Beyond
  <2>4. next[r] \in Nat \ {0} BY <2>1, <2>2
  <2>5. QED BY <1>2, <2>1, <2>2, <2>3, <2>4 DEF CreateNext
<1>3. QED BY <1>1, <1>2

LEMMA InsertedOrder ==
  ASSUME DossierIInv, NEW v \in Version, NEW s \in Season, NEW n \in Nat \ {0}, NEW c,
         Insert(v, s, n, c), \A w \in Of(s) : number[w] < n
  PROVE  /\ v \notin Of(s) /\ Of(s)' = Of(s) \cup {v} /\ Newest(s)' = {v}
         /\ number' = [number EXCEPT ![v] = n] /\ number'[v] = n
         /\ \A t \in Season \ {s} : Of(t)' = Of(t) /\ Newest(t)' = Newest(t) /\ v \notin Of(t)
         /\ \A w \in Version \ {v} : status'[w] = status[w] /\ number'[w] = number[w]
         /\ current'[s] = v /\ \A t \in Season \ {s} : current'[t] = current[t]
         /\ status'[v] = "DRAFT"
<1>1. RowsOK BY DEF DossierIInv, IInv, TypeOK
<1>2. season[v] = None BY <1>1 DEF RowsOK, Insert
<1>3. \A t \in Season : v \notin Of(t) BY <1>2, NoneIsNew DEF Of
<1>4. /\ number' = [number EXCEPT ![v] = n] /\ number'[v] = n
      /\ \A w \in Version \ {v} : status'[w] = status[w] /\ number'[w] = number[w]
      /\ status'[v] = "DRAFT"
      /\ current'[s] = v /\ \A t \in Season \ {s} : current'[t] = current[t]
  BY <1>1 DEF RowsOK, Insert
<1>5. Of(s)' = Of(s) \cup {v} /\ \A t \in Season \ {s} : Of(t)' = Of(t)
  BY <1>1, <1>2, NoneIsNew DEF RowsOK, Insert, Of
<1>6. \A t \in Season : \A w \in Of(t) : w \in Version /\ number[w] \in Nat BY <1>1 DEF RowsOK, Of
<1>7. Newest(s)' = {v}
  <2>1. \A w \in Of(s) : number'[w] < n BY <1>3, <1>4, <1>6
  <2>2. \A w \in Of(s) : ~(n <= number'[w]) /\ number'[w] <= n
    BY <1>3, <1>4, <1>6, <2>1
  <2>3. QED BY <1>4, <1>5, <2>2 DEF Newest
<1>8. \A t \in Season \ {s} : Newest(t)' = Newest(t)
  <2> SUFFICES ASSUME NEW t \in Season \ {s} PROVE Newest(t)' = Newest(t)
    OBVIOUS
  <2>1. Of(t)' = Of(t) /\ \A w \in Of(t) : number'[w] = number[w] BY <1>3, <1>4, <1>5, <1>6
  <2>2. QED BY <2>1 DEF Newest
<1>9. QED BY <1>3, <1>4, <1>5, <1>7, <1>8

\* What an insertion does to the seasons alone.
LEMMA InsertedSeasons ==
  ASSUME DossierIInv, NEW v \in Version, NEW s \in Season, NEW n \in Nat \ {0}, NEW c,
         Insert(v, s, n, c), \A w \in Of(s) : number[w] < n
  PROVE  Of(s)' = Of(s) \cup {v} /\ number'[v] = n /\ \A t \in Season \ {s} : Of(t)' = Of(t)
BY InsertedOrder

\* Only a creation changes the seasons and numbers of rows.
LEMMA OnlyInserts ==
  ASSUME NEW r \in Request, Arrive(r) \/ Step(r) \/ Fail(r),
         ~ \E v \in Version : CreateDraft(r, v) \/ CreateNext(r, v)
  PROVE  UNCHANGED <<season, number>>
BY DEF Arrive, Step, Fail, CreateDraftCheck, CreateNextCheck, Read, NextNumber, CreateNextRetry,
   UpdateDraft, Submit, SubmitSeason, Approve, CorrectionRequired, SetReward, SetArtwork, Disable,
   UpdateRow, ApproveReload, ApproveInTx, ActivateBegin, LockBar, Activate, rows

LEMMA FirstTakenStep ==
  ASSUME DossierIInv, NEW r \in Request, Arrive(r) \/ Step(r) \/ Fail(r)
  PROVE  FirstTaken'
<1> SUFFICES ASSUME NEW s \in Season, Of(s)' # {} PROVE Numbered(season', number', s, 1)
  BY DEF FirstTaken, Taken, Of, Numbered
<1>1. IInv BY DEF DossierIInv
<1>2. Of(s) # {} => Numbered(season, number, s, 1)
  BY DEF DossierIInv, FirstTaken, Taken, Of, Numbered
<1>3. CASE Of(s) # {} BY <1>1, <1>2, <1>3, TakenStays
<1>4. CASE Of(s) = {}
  <2>1. PICK v \in Version : CreateDraft(r, v) \/ CreateNext(r, v)
    <3>1. ~ UNCHANGED <<season, number>> BY <1>4 DEF Of
    <3>2. QED BY <3>1, OnlyInserts
  <2>2. PICK t \in Season, n \in Nat \ {0} :
          /\ Insert(v, t, n, draft[r]) /\ \A w \in Of(t) : number[w] < n
          /\ n = 1 \/ Taken(t, n - 1)
    BY <2>1, Inserted
  <2>3. Of(t)' = Of(t) \cup {v} /\ number'[v] = n /\ \A u \in Season \ {t} : Of(u)' = Of(u)
    <3>1. Insert(v, t, n, draft[r]) /\ \A w \in Of(t) : number[w] < n BY <2>2
    <3>2. QED BY <3>1, InsertedSeasons
  <2>4. t = s BY <1>4, <2>3
  <2>5. n = 1 BY <1>4, <2>2, <2>4 DEF Taken
  <2>6. QED BY <2>3, <2>4, <2>5 DEF Numbered, Of
<1>5. QED BY <1>3, <1>4

LEMMA BeyondStep ==
  ASSUME DossierIInv, NEW r \in Request, Arrive(r) \/ Step(r) \/ Fail(r)
  PROVE  Beyond'
<1> SUFFICES ASSUME NEW q \in Request, pc'[q] = "createNext"
             PROVE  \/ Numbered(season', number', inSeason'[q], next'[q])
                    \/ \A w \in Version : season'[w] = inSeason'[q] => number'[w] < next'[q]
  BY DEF Beyond, Taken, Of, Numbered
<1>0. IInv BY DEF DossierIInv
<1>1. CASE NextNumber(r) /\ q = r
  <2>1. PICK n \in {0} \cup {number[v] : v \in Of(inSeason[r])} :
          /\ \A v \in Of(inSeason[r]) : number[v] <= n
          /\ next' = [next EXCEPT ![r] = n + 1]
    BY <1>1 DEF NextNumber
  <2>2. n \in Nat /\ next'[r] = n + 1 /\ \A v \in Of(inSeason[r]) : number[v] \in Nat
    BY <1>0, <2>1 DEF Of, IInv, TypeOK, RowsOK, LocalsOK
  <2>3. inSeason' = inSeason /\ number' = number /\ season' = season
    BY <1>1 DEF NextNumber, rows
  <2>4. \A v \in Of(inSeason[r]) : number[v] < n + 1 BY <2>1, <2>2
  <2>5. QED BY <1>1, <2>2, <2>3, <2>4 DEF Of
<1>2. CASE ~(NextNumber(r) /\ q = r)
  <2>1. pc[q] = "createNext" /\ next'[q] = next[q] /\ inSeason'[q] = inSeason[q]
    BY <1>0, <1>2 DEF Arrive, Fail, CreateDraftCheck, CreateNextCheck, Read, Step, CreateDraft, CreateNext,
       NextNumber, CreateNextRetry, UpdateDraft, Submit, SubmitSeason, Approve, CorrectionRequired,
       SetReward, SetArtwork, Disable, UpdateRow, ApproveReload, ApproveInTx, ActivateBegin, LockBar,
       Activate, Return, Goto, locals, IInv, TypeOK, LocalsOK, Writes, Activations
  <2>2. inSeason[q] \in Season /\ next[q] \in Nat
    BY <1>0, <2>1 DEF IInv, TypeOK, LocalsOK, Informed, Creating
  <2>3. next[q] = 1 \/ (next[q] > 1 /\ Taken(inSeason[q], next[q] - 1))
    BY <2>1 DEF DossierIInv, IInv, NextFollows
  <2>4. Taken(inSeason[q], next[q]) \/ \A w \in Of(inSeason[q]) : number[w] < next[q]
    BY <2>1 DEF DossierIInv, Beyond
  <2>5. CASE Taken(inSeason[q], next[q])
    <3>1. Numbered(season, number, inSeason[q], next[q]) BY <2>5 DEF Taken, Of, Numbered
    <3>2. QED BY <1>0, <2>1, <2>2, <3>1, TakenStays
  <2>6. CASE /\ \A w \in Of(inSeason[q]) : number[w] < next[q]
             /\ UNCHANGED <<season, number>>
    BY <2>1, <2>6 DEF Of
  <2>7. CASE /\ \A w \in Of(inSeason[q]) : number[w] < next[q]
             /\ ~ UNCHANGED <<season, number>>
    <3>1. PICK v \in Version : CreateDraft(r, v) \/ CreateNext(r, v) BY <2>7, OnlyInserts
    <3>2. PICK s \in Season, n \in Nat \ {0} :
            /\ Insert(v, s, n, draft[r]) /\ \A w \in Of(s) : number[w] < n
            /\ n = 1 \/ Taken(s, n - 1)
      BY <3>1, Inserted
    <3>3. /\ Of(s)' = Of(s) \cup {v} /\ number'[v] = n
          /\ \A w \in Version \ {v} : number'[w] = number[w]
          /\ \A t \in Season \ {s} : Of(t)' = Of(t) /\ v \notin Of(t)
      BY <3>2, InsertedOrder
    <3>4. CASE inSeason[q] # s
      <4>1. \A w \in Of(inSeason[q]) : w \in Version BY DEF Of
      <4>2. PICK u \in Season : u = inSeason[q] BY <2>2
      <4>3. Of(u)' = Of(u) /\ v \notin Of(u) BY <3>3, <3>4, <4>2
      <4>4. \A w \in Of(u) : number'[w] < next[q] BY <2>7, <3>3, <4>1, <4>2, <4>3
      <4>5. \A w \in Version : season'[w] = u => w \in Of(u)' BY DEF Of
      <4>6. QED BY <2>1, <4>2, <4>3, <4>4, <4>5
    <3>5. CASE inSeason[q] = s
      <4>1. \A w \in Of(s) : number[w] \in Nat
        BY <1>0 DEF Of, IInv, TypeOK, RowsOK
      <4>2. n <= next[q]
        <5>1. CASE n = 1 BY <2>2, <2>3, <5>1
        <5>2. CASE Taken(s, n - 1)
          <6>1. PICK w \in Of(s) : number[w] = n - 1 BY <5>2 DEF Taken
          <6>2. n - 1 < next[q] BY <2>7, <3>5, <6>1
          <6>3. QED BY <2>2, <6>2
        <5>3. QED BY <3>2, <5>1, <5>2
      <4>3. next[q] <= n
        <5>1. CASE next[q] = 1 BY <5>1
        <5>2. CASE next[q] > 1 /\ Taken(s, next[q] - 1)
          <6>1. PICK w \in Of(s) : number[w] = next[q] - 1 BY <5>2 DEF Taken
          <6>2. next[q] - 1 < n BY <3>2, <6>1
          <6>3. QED BY <2>2, <6>2
        <5>3. QED BY <2>3, <3>5, <5>1, <5>2
      <4>4. n = next[q] BY <2>2, <4>2, <4>3
      <4>5. season'[v] = s BY <3>3 DEF Of
      <4>6. QED BY <2>1, <3>3, <3>5, <4>4, <4>5 DEF Numbered
    <3>6. QED BY <3>4, <3>5
  <2>8. QED BY <2>4, <2>5, <2>6, <2>7
<1>3. QED BY <1>1, <1>2

-----------------------------------------------------------------------------
(* The handlers *)

\* A version that is inserted while another is open carries a lost record.
LEMMA StartingRecord ==
  ASSUME DossierIInv, NEW r \in Request, NEW v \in Version, CreateDraft(r, v) \/ CreateNext(r, v),
         audit' = [audit EXCEPT ![v] =
           IF (IF pc[r] = "createDraft" THEN CanStartDraft(inSeason[r]) ELSE CanStartNext(inSeason[r]))
             THEN Kept(held[r]) ELSE "LOST"]
  PROVE  /\ audit' \in [Version -> Mark]
         /\ Early' /\ OpenIsNewest' /\ AuditTellsStatus' /\ CurrentIsNewest'
<1>1. /\ audit \in [Version -> Mark] /\ OpenIsNewest /\ Early /\ AuditTellsStatus /\ CurrentIsNewest
  BY DEF DossierIInv, RecordTypes
<1>2. PICK s \in Season, n \in Nat \ {0} :
        /\ s = inSeason[r] /\ Insert(v, s, n, draft[r]) /\ \A w \in Of(s) : number[w] < n
  BY Inserted
<1>3. /\ v \notin Of(s) /\ Of(s)' = Of(s) \cup {v} /\ Newest(s)' = {v}
      /\ \A t \in Season \ {s} : Of(t)' = Of(t) /\ Newest(t)' = Newest(t) /\ v \notin Of(t)
      /\ \A w \in Version \ {v} : status'[w] = status[w]
      /\ current'[s] = v /\ \A t \in Season \ {s} : current'[t] = current[t]
      /\ status'[v] = "DRAFT"
  BY <1>2, InsertedOrder
<1>4. PICK e \in {"LOST", Kept(held[r])} :
        /\ audit' = [audit EXCEPT ![v] = e]
        /\ e = "LOST" \/ CanStartDraft(s) \/ CanStartNext(s)
  BY <1>2
<1>5. e \in Mark /\ e # "NULL" BY <1>4 DEF Kept, Mark, Event
<1>6. /\ audit' \in [Version -> Mark] /\ audit'[v] = e
      /\ \A w \in Version \ {v} : audit'[w] = audit[w]
  BY <1>1, <1>4, <1>5
<1>7. Early'
  BY <1>1, <1>3, <1>5, <1>6 DEF Early
<1>8. AuditTellsStatus'
  <2> SUFFICES ASSUME NEW w \in Version, status'[w] \in DOMAIN Trail
               PROVE  audit'[w] \in Trail[status'[w]] \cup {"LOST", "NULL"}
    BY DEF AuditTellsStatus, Trail
  <2>1. w # v BY <1>3 DEF Trail
  <2>2. QED BY <1>1, <1>3, <1>6, <2>1 DEF AuditTellsStatus
<1>9. \A t \in Season \ {s} : (Whole(t)' <=> Whole(t)) /\ Current(t)' = Current(t)
  <2> SUFFICES ASSUME NEW t \in Season \ {s} PROVE (Whole(t)' <=> Whole(t)) /\ Current(t)' = Current(t)
    OBVIOUS
  <2>1. Of(t)' = Of(t) /\ \A w \in Of(t) : audit'[w] = audit[w] BY <1>3, <1>6 DEF Of
  <2>2. QED BY <1>3, <2>1 DEF Whole, Current
<1>10. Whole(s)' => e # "LOST" BY <1>3, <1>6 DEF Whole
<1>11. OpenIsNewest'
  <2> SUFFICES ASSUME NEW t \in Season, Whole(t)', NEW w \in Of(t)', status'[w] \in Open
               PROVE  w \in Newest(t)'
    BY DEF OpenIsNewest
  <2>1. CASE t = s
    <3>1. \A x \in Of(s) : status[x] \notin Open
      BY <1>4, <1>10, <2>1 DEF CanStartDraft, CanStartNext, Of, Open
    <3>2. w = v BY <1>3, <2>1, <3>1 DEF Of
    <3>3. QED BY <1>3, <2>1, <3>2
  <2>2. CASE t # s
    <3>1. w \in Of(t) /\ w # v /\ w \in Version BY <1>3, <2>2 DEF Of
    <3>2. QED BY <1>1, <1>3, <1>9, <2>2, <3>1 DEF OpenIsNewest
  <2>3. QED BY <2>1, <2>2
<1>12. CurrentIsNewest'
  <2> SUFFICES ASSUME NEW t \in Season, Of(t)' # {}, Whole(t)' PROVE Current(t)' = Newest(t)'
    BY DEF CurrentIsNewest, Whole
  <2>1. CASE t = s
    <3>1. v # None BY NoneIsNew
    <3>2. QED BY <1>3, <2>1, <3>1 DEF Current
  <2>2. CASE t # s BY <1>1, <1>3, <1>9, <2>2 DEF CurrentIsNewest, Whole
  <2>3. QED BY <2>1, <2>2
<1>13. QED BY <1>6, <1>7, <1>8, <1>11, <1>12

RecordIInv ==
  audit \in [Version -> Mark] /\ Early /\ OpenIsNewest /\ AuditTellsStatus /\ CurrentIsNewest

LEMMA RowsKept == DossierIInv /\ UNCHANGED <<rows, audit>> => RecordIInv'
<1> SUFFICES ASSUME DossierIInv, UNCHANGED <<rows, audit>> PROVE RecordIInv'
  OBVIOUS
<1>1. UNCHANGED <<status, season, number, current, audit>> BY DEF rows
<1>2. \A s \in Season : Of(s)' = Of(s) /\ Newest(s)' = Newest(s) /\ Current(s)' = Current(s)
  BY <1>1 DEF Of, Newest, Current
<1>3. OpenIsNewest' /\ CurrentIsNewest'
  BY <1>1, <1>2 DEF DossierIInv, OpenIsNewest, CurrentIsNewest, Whole
<1>4. QED
  BY <1>1, <1>3 DEF RecordIInv, DossierIInv, RecordTypes, Early, AuditTellsStatus, Trail

\* A handler that changes at most the status of its row, to st.
LEMMA StatusWritten ==
  ASSUME DossierIInv, NEW r \in Request, version[r] \in Version, NEW e \in Mark, Writing(r, e),
         UNCHANGED <<season, number, current>>,
         NEW st \in Open \cup {"ACTIVE", "DISABLED"}, status' = [status EXCEPT ![version[r]] = st],
         Expected(r) \subseteq Open \/ st \notin Open,
         ~Overtaken(r) /\ audit[version[r]] # "LOST" =>
           /\ e = "NULL" => st \in {"DRAFT", "ACTIVE", "DISABLED"}
           /\ st \in DOMAIN Trail => e \in Trail[st] \cup {"LOST", "NULL"}
  PROVE  RecordIInv'
<1>1. status'[version[r]] = st /\ \A w \in Version \ {version[r]} : status'[w] = status[w]
  BY DEF DossierIInv, IInv, TypeOK, RowsOK
<1>2. QED BY <1>1, RecordWritten DEF RecordIInv

\* A handler that leaves the statuses as they are, and may point the season at its
\* row.
LEMMA TextWritten ==
  ASSUME DossierIInv, NEW r \in Request, version[r] \in Version,
         NEW e \in {audit[version[r]], Kept(held[r])}, Writing(r, e),
         e = audit[version[r]] \/ pc[r] = "update",
         UNCHANGED <<status, season, number>>, current' = current \/ PointSeason(r),
         Expected(r) \subseteq Open
  PROVE  RecordIInv'
<1> DEFINE v == version[r]
<1>1. audit[v] \in Mark /\ held[r] \in Mark BY DEF DossierIInv, RecordTypes
<1>2. e \in Mark BY <1>1 DEF Kept, Mark, Event
<1>3. /\ audit[v] = "NULL" => status[v] \in {"DRAFT", "ACTIVE", "DISABLED"}
      /\ status[v] \in DOMAIN Trail => audit[v] \in Trail[status[v]] \cup {"LOST", "NULL"}
  BY DEF DossierIInv, Early, AuditTellsStatus
<1>4. ASSUME ~Overtaken(r), audit[v] # "LOST"
      PROVE  /\ e = "NULL" => status[v] \in {"DRAFT", "ACTIVE", "DISABLED"}
             /\ status[v] \in DOMAIN Trail => e \in Trail[status[v]] \cup {"LOST", "NULL"}
  <2>1. CASE e = audit[v] BY <1>3, <2>1
  <2>2. CASE pc[r] = "update" /\ e = Kept(held[r])
    <3>1. status[v] \in {"DRAFT", "CHANGES_REQUESTED"} /\ audit[v] = held[r]
      BY <1>4, <2>2 DEF Overtaken, Expected, Accepts, Recording
    <3>2. CASE status[v] = "DRAFT" BY <3>2 DEF Trail
    <3>3. CASE status[v] = "CHANGES_REQUESTED"
      <4>1. Trail[status[v]] = {"CHANGES_REQUESTED"} /\ status[v] \in DOMAIN Trail BY <3>3 DEF Trail
      <4>2. audit[v] = "CHANGES_REQUESTED" BY <1>3, <1>4, <3>3, <4>1
      <4>3. e = "CHANGES_REQUESTED" BY <2>2, <3>1, <4>2 DEF Kept, Event
      <4>4. QED BY <4>1, <4>3
    <3>4. QED BY <3>1, <3>2, <3>3
  <2>3. QED BY <2>1, <2>2
<1>5. QED BY <1>2, <1>4, RecordWritten DEF RecordIInv

LEMMA RecordStep ==
  ASSUME DossierIInv, NEW r \in Request,
         \/ Arriving(r) \/ Starting(r) \/ Updating(r) \/ Submitting(r) \/ Moderating(r)
         \/ Activating(r) \/ Failing(r)
  PROVE  RecordIInv'
<1> DEFINE v == version[r]
<1>t. /\ \A q \in Request : pc[q] \in OnVersion => version[q] \in Version
      /\ \A w \in Version : audit[w] \in Mark /\ status[w] \in Open \cup {"unborn", "ACTIVE", "DISABLED"}
      /\ status \in [Version -> Open \cup {"unborn", "ACTIVE", "DISABLED"}]
  BY DEF DossierIInv, IInv, TypeOK, RowsOK, Informed, RecordTypes
<1>k. /\ v \in Version /\ audit[v] = "NULL" => status[v] \in {"DRAFT", "ACTIVE", "DISABLED"}
      /\ v \in Version /\ status[v] \in DOMAIN Trail =>
           audit[v] \in Trail[status[v]] \cup {"LOST", "NULL"}
  BY DEF DossierIInv, Early, AuditTellsStatus
<1>p. /\ Trail["PENDING_REVIEW"] = {"RESUBMITTED"} /\ Trail["APPROVED"] = {"RESUBMITTED"}
      /\ Trail["CHANGES_REQUESTED"] = {"CHANGES_REQUESTED"} /\ Trail["ACTIVE"] = {"ACTIVATED"}
      /\ Trail["DISABLED"] = {"ACTIVATED"}
      /\ DOMAIN Trail = {"PENDING_REVIEW", "APPROVED", "CHANGES_REQUESTED", "ACTIVE", "DISABLED"}
  BY DEF Trail
<1>e. {"RESUBMITTED", "CHANGES_REQUESTED", "ACTIVATED"} \subseteq Mark BY DEF Mark, Event
<1>1. CASE Arriving(r)
  <2>1. UNCHANGED <<rows, audit>>
    BY <1>1 DEF Arriving, CreateDraftCheck, CreateNextCheck, Read
  <2>2. QED BY <2>1, RowsKept
<1>2. CASE Starting(r)
  <2>1. CASE NextNumber(r) \/ CreateNextRetry(r)
    <3>1. ~ \E w \in Version : CreateDraft(r, w)
      BY <2>1 DEF NextNumber, CreateNextRetry, CreateDraft
    <3>2. ~ \E w \in Version : CreateNext(r, w)
      BY <2>1 DEF NextNumber, CreateNextRetry, CreateNext
    <3>3. UNCHANGED <<rows, audit>>
      BY <1>2, <2>1, <3>1, <3>2 DEF Starting, NextNumber, CreateNextRetry
    <3>4. QED BY <3>3, RowsKept
  <2>2. CASE \E w \in Version : CreateDraft(r, w) \/ CreateNext(r, w)
    <3>1. ~NextNumber(r)
      BY <2>2 DEF NextNumber, CreateDraft, CreateNext
    <3>2. ~CreateNextRetry(r)
      BY <2>2 DEF CreateNextRetry, CreateDraft, CreateNext
    <3>3. PICK w \in Version :
            /\ CreateDraft(r, w) \/ CreateNext(r, w)
            /\ audit' = [audit EXCEPT ![w] =
                 IF (IF pc[r] = "createDraft" THEN CanStartDraft(inSeason[r])
                                              ELSE CanStartNext(inSeason[r]))
                   THEN Kept(held[r]) ELSE "LOST"]
      BY <1>2, <3>1, <3>2 DEF Starting
    <3>4. QED BY <3>3, StartingRecord DEF RecordIInv
  <2>3. QED BY <1>2, <2>1, <2>2 DEF Starting
<1>3. CASE Updating(r)
  <2>1. /\ pc[r] = "update" /\ UNCHANGED <<status, season, number>> /\ PointSeason(r)
        /\ \E e \in {audit[v], Kept(held[r])} : Writing(r, e)
    BY <1>3 DEF Updating, UpdateDraft, UpdateRow, Keeps
  <2>2. v \in Version /\ Expected(r) \subseteq Open
    BY <1>t, <2>1 DEF OnVersion, Writes, Expected, Accepts, Open
  <2>3. QED BY <2>1, <2>2, TextWritten
<1>4. CASE Submitting(r)
  <2>1. CASE Submit(r) /\ Writing(r, "RESUBMITTED")
    <3>1. /\ pc[r] = "submit" /\ status' = [status EXCEPT ![v] = "PENDING_REVIEW"]
          /\ UNCHANGED <<season, number, current>>
      BY <2>1 DEF Submit, UpdateRow, Becomes
    <3>2. v \in Version /\ Expected(r) \subseteq Open
      BY <1>t, <3>1 DEF OnVersion, Writes, Expected, Accepts, Open
    <3>3. "PENDING_REVIEW" \in Open BY DEF Open
    <3>4. QED BY <1>e, <1>p, <2>1, <3>1, <3>2, <3>3, StatusWritten
  <2>2. CASE SubmitSeason(r) /\ Keeps(r)
    <3>1. /\ pc[r] = "submitted" /\ UNCHANGED <<status, season, number>> /\ PointSeason(r)
          /\ Writing(r, audit[v])
      BY <2>2 DEF SubmitSeason, Keeps
    <3>2. v \in Version /\ Expected(r) \subseteq Open
      BY <1>t, <3>1 DEF OnVersion, Expected, Open
    <3>3. QED BY <3>1, <3>2, TextWritten
  <2>3. QED BY <1>4, <2>1, <2>2 DEF Submitting
<1>5. CASE Moderating(r)
  <2>1. CASE CorrectionRequired(r) /\ Writing(r, "CHANGES_REQUESTED")
    <3>1. /\ pc[r] = "correct" /\ status' = [status EXCEPT ![v] = "CHANGES_REQUESTED"]
          /\ UNCHANGED <<season, number, current>>
      BY <2>1 DEF CorrectionRequired, UpdateRow, Becomes
    <3>2. v \in Version /\ Expected(r) \subseteq Open
      BY <1>t, <3>1 DEF OnVersion, Writes, Expected, Accepts, Open
    <3>3. "CHANGES_REQUESTED" \in Open BY DEF Open
    <3>4. QED BY <1>e, <1>p, <2>1, <3>1, <3>2, <3>3, StatusWritten
  <2>2. CASE Approve(r) /\ Writing(r, audit[v])
    <3>1. /\ pc[r] = "approve" /\ status' = [status EXCEPT ![v] = "APPROVED"]
          /\ UNCHANGED <<season, number, current>>
      BY <2>2 DEF Approve, UpdateRow, Becomes
    <3>2. v \in Version /\ Expected(r) = {"PENDING_REVIEW"} /\ Expected(r) \subseteq Open
      BY <1>t, <3>1 DEF OnVersion, Writes, Expected, Accepts, Open
    <3>3. "APPROVED" \in Open BY DEF Open
    <3>4. ~Overtaken(r) => status[v] = "PENDING_REVIEW" BY <3>2 DEF Overtaken
    <3>5. ~Overtaken(r) /\ audit[v] # "LOST" => audit[v] = "RESUBMITTED"
      BY <1>k, <1>p, <3>2, <3>4
    <3>6. QED BY <1>e, <1>p, <1>t, <2>2, <3>1, <3>2, <3>3, <3>5, StatusWritten
  <2>3. CASE Disable(r) /\ Writing(r, audit[v])
    <3>1. /\ pc[r] = "disable" /\ status' = [status EXCEPT ![v] = "DISABLED"]
          /\ UNCHANGED <<season, number, current>>
      BY <2>3 DEF Disable, UpdateRow, Becomes
    <3>2. v \in Version /\ Expected(r) = {"ACTIVE"} /\ "DISABLED" \notin Open
      BY <1>t, <3>1 DEF OnVersion, Writes, Expected, Accepts, Open
    <3>3. ~Overtaken(r) => status[v] = "ACTIVE" BY <3>2 DEF Overtaken
    <3>4. ~Overtaken(r) /\ audit[v] # "LOST" => audit[v] \in {"ACTIVATED", "NULL"}
      BY <1>k, <1>p, <3>2, <3>3
    <3>5. QED BY <1>e, <1>p, <1>t, <2>3, <3>1, <3>2, <3>4, StatusWritten, ZenonT(40)
  <2>4. CASE (SetReward(r) \/ SetArtwork(r)) /\ Writing(r, audit[v])
    <3>1. /\ pc[r] \in {"reward", "artwork"} /\ UNCHANGED <<status, season, number, current>>
      BY <2>4 DEF SetReward, SetArtwork, UpdateRow
    <3>2. v \in Version /\ Expected(r) \subseteq Open
      BY <1>t, <3>1 DEF OnVersion, Writes, Expected, Accepts, Open
    <3>3. QED BY <2>4, <3>1, <3>2, TextWritten
  <2>5. QED BY <1>5, <2>1, <2>2, <2>3, <2>4 DEF Moderating, Keeps
<1>6. CASE Activating(r)
  <2>1. CASE UNCHANGED <<rows, audit>> BY <2>1, RowsKept
  <2>2. CASE Activate(r) /\ Writing(r, "ACTIVATED")
    <3>1. /\ pc[r] = "activating" /\ UNCHANGED <<season, number>> /\ PointSeason(r)
          /\ status' = [w \in Version |-> IF w = v THEN "ACTIVE"
                          ELSE IF w \in (Of(season[v]) \cap Active) \ {v} THEN "DISABLED" ELSE status[w]]
      BY <2>2 DEF Activate, PointSeason
    <3>2. v \in Version /\ Expected(r) \subseteq Open
      BY <1>t, <3>1 DEF OnVersion, Expected, Open
    <3>3. status'[v] = "ACTIVE" BY <3>1, <3>2
    <3>4. \A w \in Version \ {v} :
            status'[w] = status[w] \/ (status[w] = "ACTIVE" /\ status'[w] = "DISABLED")
      BY <3>1 DEF Active
    <3>5. QED BY <1>e, <1>p, <2>2, <3>1, <3>2, <3>3, <3>4, RecordWritten DEF RecordIInv
  <2>3. QED
    BY <1>6, <2>1, <2>2 DEF Activating, ApproveReload, ApproveInTx, ActivateBegin, LockBar
<1>7. CASE Failing(r)
  BY <1>7, RowsKept DEF Failing, Fail
<1>8. QED BY <1>1, <1>2, <1>3, <1>4, <1>5, <1>6, <1>7

LEMMA HeldStep ==
  ASSUME DossierIInv, NEW r \in Request,
         \/ Arriving(r) \/ Starting(r) \/ Updating(r) \/ Submitting(r) \/ Moderating(r)
         \/ Activating(r) \/ Failing(r)
  PROVE  held' \in [Request -> Mark]
<1>1. held \in [Request -> Mark] /\ audit \in [Version -> Mark] /\ "NONE" \in Mark
  BY DEF DossierIInv, RecordTypes, Mark
<1>2. /\ UNCHANGED held => held' \in [Request -> Mark]
      /\ Forgets(r) => held' \in [Request -> Mark]
      /\ \A v \in Version : Sees(r, v) => held' \in [Request -> Mark]
  BY <1>1 DEF Forgets, Sees
<1>3. CASE Arriving(r) BY <1>2, <1>3 DEF Arriving
<1>4. CASE Starting(r) \/ Updating(r) \/ Submitting(r) \/ Moderating(r) \/ Failing(r)
  BY <1>2, <1>4 DEF Starting, Updating, Submitting, Moderating, Failing
<1>5. CASE Activating(r)
  <2>1. ApproveReload(r) \/ ActivateBegin(r) => version[r] \in Version
    BY DEF ApproveReload, ActivateBegin, DossierIInv, IInv, TypeOK, Informed, OnVersion, Activations
  <2>2. QED BY <1>2, <1>5, <2>1 DEF Activating
<1>6. QED BY <1>3, <1>4, <1>5

LEMMA HealWriteStep ==
  ASSUME DossierIInv, NEW v \in Version, HealWrite(v)
  PROVE  RecordIInv' /\ RecordTypes'
<1>1. /\ audit \in [Version -> Mark] /\ OpenIsNewest /\ Early /\ AuditTellsStatus /\ CurrentIsNewest
      /\ UNCHANGED <<status, season, number, current, held>>
      /\ held \in [Request -> Mark] /\ healing \subseteq Version /\ healing' \subseteq Version
  BY DEF DossierIInv, RecordTypes, HealWrite, vars, rows
<1>2. PICK e \in {"NONE", "LOST"} :
        /\ audit' = [audit EXCEPT ![v] = e]
        /\ e = "LOST" \/ (audit[v] = "NULL" /\ status[v] \notin DOMAIN Trail)
  BY DEF HealWrite
<1>3. audit'[v] = e /\ audit' \in [Version -> Mark] /\ \A w \in Version \ {v} : audit'[w] = audit[w]
  BY <1>1, <1>2 DEF Mark
<1>4. Early' BY <1>1, <1>3 DEF Early
<1>5. AuditTellsStatus' BY <1>1, <1>2, <1>3 DEF AuditTellsStatus, Trail
<1>6. \A s \in Season : /\ Of(s)' = Of(s) /\ Newest(s)' = Newest(s) /\ Current(s)' = Current(s)
                        /\ Whole(s)' => Whole(s)
  <2>1. \A s \in Season : Of(s)' = Of(s) /\ Newest(s)' = Newest(s) /\ Current(s)' = Current(s)
    BY <1>1 DEF Of, Newest, Current
  <2>2. \A w \in Version : audit[w] = "LOST" => audit'[w] = "LOST" BY <1>2, <1>3
  <2>3. QED BY <2>1, <2>2 DEF Whole, Of
<1>7. OpenIsNewest' /\ CurrentIsNewest'
  BY <1>1, <1>6 DEF OpenIsNewest, CurrentIsNewest, Whole
<1>8. QED BY <1>1, <1>3, <1>4, <1>5, <1>7 DEF RecordIInv, RecordTypes

LEMMA DossierIInvStep == DossierIInv /\ [DossierNext]_dossier => DossierIInv'
<1> SUFFICES ASSUME DossierIInv, [DossierNext]_dossier PROVE DossierIInv'
  OBVIOUS
<1>1. IInv'
  BY IInvStep, DossierTakesSteps DEF DossierIInv, dossier
<1>2. ASSUME UNCHANGED vars PROVE FirstTaken' /\ Beyond'
  BY <1>2 DEF vars, rows, locals, DossierIInv, FirstTaken, Beyond, Of, Taken
<1>3. ASSUME NEW r \in Request, UNCHANGED healing,
             \/ Arriving(r) \/ Starting(r) \/ Updating(r) \/ Submitting(r) \/ Moderating(r)
             \/ Activating(r) \/ Failing(r)
      PROVE  DossierIInv'
  <2>1. FirstTaken' /\ Beyond' BY <1>3, DossierMoves, FirstTakenStep, BeyondStep
  <2>2. RecordIInv' /\ held' \in [Request -> Mark] BY <1>3, RecordStep, HeldStep
  <2>3. QED BY <1>1, <1>3, <2>1, <2>2 DEF DossierIInv, RecordIInv, RecordTypes
<1>4. ASSUME NEW s \in Season, HealRead(s) PROVE DossierIInv'
  <2>1. healing' \subseteq Version /\ UNCHANGED <<vars, audit, held>>
    <3>1. Current(s) \subseteq Version
      BY DEF Current, Newest, Of, DossierIInv, IInv, TypeOK, RowsOK
    <3>2. QED BY <1>4, <3>1 DEF HealRead, DossierIInv, RecordTypes
  <2>2. RecordIInv' BY <2>1, RowsKept DEF vars
  <2>3. QED BY <1>1, <1>2, <2>1, <2>2 DEF DossierIInv, RecordIInv, RecordTypes
<1>5. ASSUME NEW v \in Version, HealWrite(v) PROVE DossierIInv'
  BY <1>1, <1>2, <1>5, HealWriteStep DEF HealWrite, DossierIInv, RecordIInv
<1>6. CASE UNCHANGED dossier
  <2>1. UNCHANGED <<vars, audit, held, healing>> BY <1>6 DEF dossier, record
  <2>2. RecordIInv' BY <2>1, RowsKept DEF vars
  <2>3. QED BY <1>1, <1>2, <2>1, <2>2 DEF DossierIInv, RecordIInv, RecordTypes
<1>7. QED BY <1>3, <1>4, <1>5, <1>6 DEF DossierNext

LEMMA DossierInvariant == DossierSpec => []DossierIInv
BY DossierInitIInv, DossierIInvStep, PTL DEF DossierSpec

\* With healings, clonings and handlers that write back the column they have read:
\* but for what such a handler wrote over, the moderation record of a version ends
\* with the decision its status shows and the bar is shown the newest version of a
\* season; and the bar and the office are shown the same version in the same stage.
THEOREM DossierStandsHolds == DossierSpec => []DossierStands
<1>1. DossierIInv => DossierStands
  BY SameFile DEF DossierIInv, DossierStands
<1>2. QED BY <1>1, DossierInvariant, PTL

\* What is proved of Spec is so for bars that had a version before there was a
\* record, too: one official medal, versions numbered 1, 2, ..., and a medal that
\* does not move to another season in one step.
THEOREM OlderBarsToo == DossierSpec => [](TypeOK /\ OneOfficialMedal /\ Numbering) /\ NoSilentMove
<1>1. DossierIInv => TypeOK /\ OneOfficialMedal /\ Numbering BY DEF DossierIInv, IInv
<1>2. DossierIInv /\ [DossierNext]_dossier =>
        [\A v \in Active, w \in Version : status'[w] = "ACTIVE" => season[w] = season[v]]_vars
  <2> SUFFICES ASSUME IInv, Next
               PROVE  \A v \in Active, w \in Version : status'[w] = "ACTIVE" => season[w] = season[v]
    BY DossierTakesSteps DEF DossierIInv, dossier
  <2>1. PICK r \in Request : Arrive(r) \/ Step(r) \/ Fail(r) BY DEF Next
  <2>2. QED BY <2>1, OneOfficialStep DEF Active
<1>3. QED BY <1>1, <1>2, DossierInvariant, PTL DEF DossierSpec, NoSilentMove
=============================================================================
