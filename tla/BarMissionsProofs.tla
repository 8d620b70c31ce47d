------------------------- MODULE BarMissionsProofs -------------------------
(***************************************************************************)
(* Proofs about BarMissions, for any seasons, versions, drinks, visits and *)
(* overlapping requests: types, progress backed by deeds, and one medal    *)
(* per season that was earned, as PayOnce says.  The counting of deeds is  *)
(* the only place where finiteness matters.  At the end, about MedalViews: *)
(* what is answered agrees with it, however queries and changes            *)
(* interleave.                                                             *)
(***************************************************************************)
EXTENDS MedalViews, FiniteSetTheorems, TLAPS

\* What no step may undo: the deeds and the medal versions already activated.
Grows ==
  /\ unlocks \subseteq unlocks' /\ visits \subseteq visits' /\ parties \subseteq parties'
  /\ \A v \in Version : medal[v] # None => medal'[v] = medal[v]

-----------------------------------------------------------------------------
(* Type correctness *)

LEMMA InitTypes == Init => TypeOK
<1> SUFFICES ASSUME Init PROVE TypeOK
  OBVIOUS
<1>1. operational \in BOOLEAN /\ due \in BOOLEAN BY DEF Init
<1>2. BarTypes BY <1>1, ConstantsOK DEF Init, BarTypes
<1>3. UserTypes BY <1>1 DEF Init, UserTypes
<1>4. RequestTypes BY DEF Init, RequestTypes
<1>5. \A r \in Request : Phase(r) BY DEF Init, Phase, BarWork, Writing, Evaluating
<1>6. QED BY <1>2, <1>3, <1>4, <1>5 DEF TypeOK

\* A request that returns has nothing left to be known about it.
LEMMA ReturnTyped ==
  ASSUME TypeOK, NEW r \in Request, Return(r), Grows
  PROVE  RequestTypes' /\ \A q \in Request : Phase(q)'
<1>1. RequestTypes'
  BY DEF Return, Goto, Grows, TypeOK, RequestTypes
<1>2. \A q \in Request : Phase(q)'
  BY DEF Return, Goto, Grows, TypeOK, RequestTypes, Phase, BarWork, Writing, Evaluating
<1>3. QED BY <1>1, <1>2

\* A step that is no request's leaves what the requests know.
LEMMA OthersTyped ==
  ASSUME TypeOK, UNCHANGED <<pc, locals>>, Grows
  PROVE  RequestTypes' /\ \A q \in Request : Phase(q)'
<1>1. RequestTypes'
  BY DEF locals, Grows, TypeOK, RequestTypes
<1>2. \A q \in Request : Phase(q)'
  BY DEF locals, Grows, TypeOK, RequestTypes, Phase, BarWork, Writing, Evaluating
<1>3. QED BY <1>1, <1>2


\* A hook leaves what the bar set up and what the user did.
LEMMA HookTyped ==
  ASSUME TypeOK, NEW r \in Request, NEW l, Hook(r, l)
  PROVE  Grows /\ BarTypes' /\ (UNCHANGED <<due, completed, grants>> => UserTypes')
<1>1. Grows BY DEF Hook, Grows, config, evidence
<1>2. BarTypes' BY DEF Hook, config, seasons, TypeOK, BarTypes
<1>3. UNCHANGED <<due, completed, grants>> => UserTypes'
  BY DEF Hook, config, evidence, grants, TypeOK, UserTypes
<1>4. QED BY <1>1, <1>2, <1>3

\* A change of the bar's or the administrators' counts, and deletes progress at most.
LEMMA ChangeTyped ==
  ASSUME TypeOK, Change, UNCHANGED Others, completed' \subseteq completed
  PROVE  UserTypes'
<1>1. changes' \in Nat BY DEF Change, TypeOK, UserTypes
<1>2. due' \in BOOLEAN BY DEF Change
<1>3. QED BY <1>1, <1>2 DEF Others, evidence, grants, TypeOK, UserTypes

\* A step that only notes something in a request's variables.
LEMMA NotedTyped ==
  ASSUME TypeOK, UNCHANGED <<config, completed, Others, changes, due>>
  PROVE  Grows /\ BarTypes' /\ UserTypes'
<1>1. Grows BY DEF Grows, config, Others, evidence
<1>2. BarTypes' BY DEF config, seasons, TypeOK, BarTypes
<1>3. UserTypes' BY DEF Others, evidence, grants, TypeOK, UserTypes
<1>4. QED BY <1>1, <1>2, <1>3

LEMMA UserStepTyped == ASSUME TypeOK, NEW r \in Request, UserStep(r) PROVE TypeOK' /\ Grows
<1> USE DEF Happens, Goto, config, seasons, grants, locals, TypeOK, BarTypes, UserTypes, RequestTypes
<1>1. Grows BY DEF UserStep, Redeem, CheckIn, ConfirmReservation, Grows
<1>2. BarTypes' BY DEF UserStep, Redeem, CheckIn, ConfirmReservation
<1>3. UserTypes'
  <2>1. due' \in BOOLEAN BY DEF UserStep, Redeem, CheckIn, ConfirmReservation
  <2>2. QED BY <2>1 DEF UserStep, Redeem, CheckIn, ConfirmReservation
<1>4. RequestTypes' /\ \A q \in Request : Phase(q)'
  <2>1. PICK l \in {"qrUnlock", "visit", "reservation"} : Happens(r, l)
    BY DEF UserStep, Redeem, CheckIn, ConfirmReservation
  <2>2. RequestTypes' BY <1>1, <2>1 DEF Hooks, Grows
  <2>3. \A q \in Request : Phase(q)' BY <2>1 DEF Phase, BarWork, Writing, Evaluating
  <2>4. QED BY <2>2, <2>3
<1>5. QED BY <1>1, <1>2, <1>3, <1>4

\* The hooks, up to the evaluation
LEMMA ProgressTyped ==
  ASSUME TypeOK, NEW r \in Request,
         \/ QrFind(r) \/ QrRead(r) \/ ReservationFind(r) \/ VisitFind(r) \/ Written(r)
         \/ \E row \in rows[r] : QrWrite(r, row) \/ ReservationWrite(r, row)
  PROVE  TypeOK' /\ Grows
<1> USE DEF Goto, TypeOK, RequestTypes, Phase, Hooks, Writing, Evaluating, BarWork
<1>1. CASE QrFind(r)
  <2>1. Grows /\ BarTypes' /\ UserTypes' BY <1>1, HookTyped DEF QrFind
  <2>2. CASE Running = {} BY <1>1, <2>1, <2>2, ReturnTyped DEF QrFind
  <2>3. CASE Running # {}
    <3>1. PICK s \in Running :
            /\ at' = [at EXCEPT ![r] = s]
            /\ span' = [span EXCEPT ![r] = window[s]]
            /\ rows' = [rows EXCEPT ![r] = Row(s, Scan(missions[s]))]
      BY <1>1, <2>3 DEF QrFind
    <3>2. s \in Season /\ window[s] \subseteq Day /\ Row(s, Scan(missions[s])) \subseteq Rows
      BY DEF Running, ActiveSeasons, BarTypes, Row, Rows, Scan
    <3>3. RequestTypes' BY <1>1, <2>1, <2>3, <3>1, <3>2 DEF QrFind, Grows, Hook, evidence
    <3>4. \A q \in Request : Phase(q)' BY <1>1, <2>1, <2>3, <3>1, <3>2 DEF QrFind, Hook, config
    <3>5. QED BY <2>1, <3>3, <3>4
  <2>4. QED BY <2>2, <2>3
<1>2. CASE QrRead(r)
  <2>1. Grows /\ BarTypes' /\ UserTypes' BY <1>2, HookTyped DEF QrRead
  <2>2. RequestTypes' BY <1>2 DEF QrRead, Hook, evidence, Within
  <2>3. \A q \in Request : Phase(q)' BY <1>2 DEF QrRead, Hook, config
  <2>4. QED BY <2>1, <2>2, <2>3
<1>3. CASE ReservationFind(r)
  <2>1. Grows /\ BarTypes' BY <1>3, HookTyped DEF ReservationFind
  <2>2. UserTypes'
    <3>1. due' \in BOOLEAN BY <1>3 DEF ReservationFind, UserTypes
    <3>2. QED BY <1>3, <3>1 DEF ReservationFind, Hook, config, evidence, grants, UserTypes
  <2>3. CASE Return(r) BY <2>1, <2>2, <2>3, ReturnTyped
  <2>4. CASE \E s \in Running :
               /\ at' = [at EXCEPT ![r] = s]
               /\ rows' = [rows EXCEPT ![r] = Row(s, {"RESERVE_PARTY_OF_TWO"})]
               /\ Goto(r, "reservationWrite")
               /\ UNCHANGED <<seen, span, version, plan, ending>>
    <3>1. PICK s \in Running :
            /\ at' = [at EXCEPT ![r] = s]
            /\ rows' = [rows EXCEPT ![r] = Row(s, {"RESERVE_PARTY_OF_TWO"})]
            /\ Goto(r, "reservationWrite")
            /\ UNCHANGED <<seen, span, version, plan, ending>>
      BY <2>4
    <3>2. s \in Season /\ Row(s, {"RESERVE_PARTY_OF_TWO"}) \subseteq Rows
      BY DEF Running, ActiveSeasons, BarTypes, Row, Rows, Template
    <3>3. RequestTypes' BY <1>3, <3>1, <3>2 DEF ReservationFind, Hook, evidence
    <3>4. \A q \in Request : Phase(q)' BY <1>3, <3>1, <3>2 DEF ReservationFind, Hook, config
    <3>5. QED BY <2>1, <2>2, <3>3, <3>4
  <2>5. QED BY <1>3, <2>3, <2>4 DEF ReservationFind
<1>4. CASE VisitFind(r)
  <2>1. Grows /\ BarTypes' /\ UserTypes' BY <1>4, HookTyped DEF VisitFind
  <2>2. CASE Cardinality(Running) = 1
    <3>1. PICK s \in Running : at' = [at EXCEPT ![r] = s] BY <1>4, <2>2 DEF VisitFind
    <3>2. s \in Season BY DEF Running, ActiveSeasons
    <3>3. RequestTypes' BY <1>4, <2>2, <3>1, <3>2 DEF VisitFind, Hook, evidence
    <3>4. \A q \in Request : Phase(q)' BY <1>4, <2>2, <3>1, <3>2 DEF VisitFind, Hook, config
    <3>5. QED BY <2>1, <3>3, <3>4
  <2>3. CASE Cardinality(Running) # 1 BY <1>4, <2>1, <2>3, ReturnTyped DEF VisitFind
  <2>4. QED BY <2>2, <2>3
<1>5. CASE Written(r)
  <2>1. PICK l \in {"qrWrite", "reservationWrite"} : Hook(r, l) BY <1>5 DEF Written
  <2>2. Grows /\ BarTypes' /\ UserTypes' BY <1>5, <2>1, HookTyped DEF Written
  <2>3. RequestTypes' BY <1>5, <2>1 DEF Written, Hook, evidence, locals
  <2>4. \A q \in Request : Phase(q)' BY <1>5, <2>1 DEF Written, Hook, config, locals
  <2>5. QED BY <2>2, <2>3, <2>4
<1>6. ASSUME NEW row \in rows[r], QrWrite(r, row) \/ ReservationWrite(r, row) PROVE TypeOK' /\ Grows
  <2>1. Grows /\ BarTypes' BY <1>6, HookTyped DEF QrWrite, ReservationWrite
  <2>2. UserTypes'
    <3>1. completed' \subseteq Rows BY <1>6 DEF QrWrite, ReservationWrite, UserTypes
    <3>2. QED BY <1>6, <3>1 DEF QrWrite, ReservationWrite, Hook, evidence, grants, UserTypes
  <2>3. RequestTypes' BY <1>6 DEF QrWrite, ReservationWrite, Hook, evidence
  <2>4. \A q \in Request : Phase(q)' BY <1>6 DEF QrWrite, ReservationWrite, Hook, config
  <2>5. QED BY <2>1, <2>2, <2>3, <2>4
<1>7. QED BY <1>1, <1>2, <1>3, <1>4, <1>5, <1>6

\* The evaluation and the transaction
LEMMA UnlockTyped ==
  ASSUME TypeOK, NEW r \in Request, Evaluate(r) \/ Conditions(r) \/ Unlock(r) \/ Grant(r)
  PROVE  TypeOK' /\ Grows
<1> USE DEF Goto, TypeOK, RequestTypes, Phase, Hooks, Writing, Evaluating, BarWork
<1>1. Grows /\ BarTypes' BY HookTyped DEF Evaluate, Conditions, Unlock, Grant
<1>2. UserTypes'
  <2>1. CASE Evaluate(r) \/ Conditions(r) \/ Unlock(r)
    BY <2>1, HookTyped DEF Evaluate, Conditions, Unlock
  <2>2. CASE Grant(r)
    <3>1. <<at[r], version[r]>> \in Season \X Version BY <2>2 DEF Grant, Hook
    <3>2. earned' \subseteq Season \X Version BY <2>2, <3>1 DEF Grant, Give, grants, UserTypes
    <3>3. QED BY <2>2, <3>2 DEF Grant, Hook, config, evidence, UserTypes
  <2>3. QED BY <2>1, <2>2
<1>3. CASE Return(r) BY <1>1, <1>2, <1>3, ReturnTyped
<1>4. CASE Evaluate(r) /\ ~HasMedal(at[r]) /\ ActiveFor(at[r])
  <2>1. at[r] \in Season /\ window[at[r]] \subseteq Day /\ official \in Version
        /\ medal[official] # None /\ medal[official].season = at[r]
    BY <1>4, ConstantsOK DEF Evaluate, Hook, ActiveFor, BarTypes
  <2>2. RequestTypes' BY <1>4, <2>1 DEF Evaluate, Hook, evidence
  <2>3. \A q \in Request : Phase(q)' BY <1>4, <2>1 DEF Evaluate, Hook, config
  <2>4. QED BY <1>1, <1>2, <2>2, <2>3
<1>5. CASE (Conditions(r) /\ Goto(r, "unlock") /\ UNCHANGED locals)
            \/ (Unlock(r) /\ Goto(r, "grant") /\ UNCHANGED locals)
  <2>1. RequestTypes' BY <1>5 DEF Conditions, Unlock, Hook, evidence, locals
  <2>2. \A q \in Request : Phase(q)' BY <1>5 DEF Conditions, Unlock, Hook, config, locals
  <2>3. QED BY <1>1, <1>2, <2>1, <2>2
<1>6. QED BY <1>3, <1>4, <1>5 DEF Evaluate, Conditions, Unlock, Grant

\* The bar's requests
LEMMA BarStepTyped == ASSUME TypeOK, NEW r \in Request, BarStep(r) PROVE TypeOK' /\ Grows
<1> USE DEF Goto, TypeOK, RequestTypes, Phase, Hooks, Writing, Evaluating, BarWork
<1>1. ASSUME NEW T \in Triple, NEW days \in Window, CreateScan(r, T, days) PROVE TypeOK' /\ Grows
  <2>1. Grows /\ BarTypes' /\ UserTypes' BY <1>1, NotedTyped DEF CreateScan
  <2>2. [missions |-> T, window |-> days] \in Plans /\ T \subseteq Template
    BY ConstantsOK DEF Plans
  <2>3. RequestTypes' BY <1>1, <2>2 DEF CreateScan, Others, evidence, ActiveSeasons
  <2>4. \A q \in Request : Phase(q)' BY <1>1, <2>2 DEF CreateScan, config
  <2>5. QED BY <2>1, <2>3, <2>4
<1>2. ASSUME NEW s \in Season, CreateCommit(r, s) PROVE TypeOK' /\ Grows
  <2>1. Grows BY <1>2 DEF CreateCommit, Grows, Others, evidence
  <2>2. plan[r].window \subseteq Day /\ plan[r].missions \subseteq Template
    BY <1>2 DEF CreateCommit, Plans
  <2>3. BarTypes' BY <1>2, <2>2 DEF CreateCommit, StatusAfter, BarTypes
  <2>4. UserTypes' BY <1>2, ChangeTyped DEF CreateCommit
  <2>5. QED BY <1>2, <2>1, <2>3, <2>4, ReturnTyped DEF CreateCommit
<1>3. ASSUME NEW s \in Season, ActivateRead(r, s) PROVE TypeOK' /\ Grows
  <2>1. Grows /\ BarTypes' /\ UserTypes' BY <1>3, NotedTyped DEF ActivateRead
  <2>2. RequestTypes' BY <1>3 DEF ActivateRead, Others, evidence
  <2>3. \A q \in Request : Phase(q)' BY <1>3 DEF ActivateRead, config
  <2>4. QED BY <2>1, <2>2, <2>3
<1>4. ASSUME NEW s \in Season, NEW T \in Triple \cup {None}, NEW days \in Window,
             UpdateSeasonRead(r, s, T, days)
      PROVE  TypeOK' /\ Grows
  <2>1. Grows /\ BarTypes' /\ UserTypes' BY <1>4, NotedTyped DEF UpdateSeasonRead
  <2>2. [missions |-> T, window |-> days] \in Plans BY ConstantsOK DEF Plans
  <2>3. RequestTypes' BY <1>4, <2>2 DEF UpdateSeasonRead, Others, evidence
  <2>4. \A q \in Request : Phase(q)' BY <1>4, <2>2 DEF UpdateSeasonRead, config
  <2>5. QED BY <2>1, <2>3, <2>4
<1>5. CASE ActivateScan(r)
  <2>1. Grows /\ BarTypes' /\ UserTypes' BY <1>5, NotedTyped DEF ActivateScan
  <2>2. RequestTypes' BY <1>5 DEF ActivateScan, Others, evidence, ActiveSeasons
  <2>3. \A q \in Request : Phase(q)' BY <1>5 DEF ActivateScan, config
  <2>4. QED BY <2>1, <2>2, <2>3
<1>6. CASE ActivateCommit(r)
  <2>1. Grows BY <1>6 DEF ActivateCommit, Grows, Others, evidence
  <2>2. BarTypes' BY <1>6 DEF ActivateCommit, StatusAfter, BarTypes
  <2>3. UserTypes' BY <1>6, ChangeTyped DEF ActivateCommit
  <2>4. QED BY <1>6, <2>1, <2>2, <2>3, ReturnTyped DEF ActivateCommit
<1>7. CASE UpdateSeason(r)
  <2>1. Grows BY <1>7 DEF UpdateSeason, Grows, Others, evidence
  <2>2. plan[r] \in Plans /\ at[r] \in Season BY <1>7 DEF UpdateSeason
  <2>3. BarTypes' BY <1>7, <2>2 DEF UpdateSeason, Plans, BarTypes
  <2>4. UserTypes' BY <1>7, ChangeTyped DEF UpdateSeason
  <2>5. QED BY <1>7, <2>1, <2>3, <2>4, ReturnTyped DEF UpdateSeason
<1>8. QED BY <1>1, <1>2, <1>3, <1>4, <1>5, <1>6, <1>7 DEF BarStep

\* The steps that are no request's
LEMMA OutsideTyped ==
  ASSUME TypeOK,
         \/ \E s \in Season : EndSeason(s)
         \/ \E s \in Season, T \in Triple, days \in Window : CreateDraftSeason(s, T, days)
         \/ \E v \in Version, s \in Season, a \in Ask : ActivateMedal(v, s, a)
         \/ DisableMedal \/ SubscriptionChanges \/ NextDay
  PROVE  TypeOK' /\ Grows
<1> USE DEF TypeOK
<1>1. Grows
  <2>1. UNCHANGED evidence
    BY DEF EndSeason, CreateDraftSeason, ActivateMedal, DisableMedal, SubscriptionChanges, NextDay,
           Others
  <2>2. \A v \in Version : medal[v] # None => medal'[v] = medal[v]
    <3>1. CASE \E v \in Version, s \in Season, a \in Ask : ActivateMedal(v, s, a)
      BY <3>1 DEF ActivateMedal, BarTypes
    <3>2. CASE UNCHANGED medal BY <3>2
    <3>3. QED
      BY <3>1, <3>2 DEF EndSeason, CreateDraftSeason, DisableMedal, SubscriptionChanges, NextDay, config
  <2>3. QED BY <2>1, <2>2 DEF Grows, evidence
<1>2. UNCHANGED <<pc, locals>>
  BY DEF EndSeason, CreateDraftSeason, ActivateMedal, DisableMedal, SubscriptionChanges, NextDay
<1>3. UserTypes'
  <2>1. CASE NextDay
    <3>1. due' \in BOOLEAN BY <2>1 DEF NextDay
    <3>2. QED BY <2>1, <3>1 DEF NextDay, evidence, grants, UserTypes
  <2>2. CASE ~NextDay
    BY <2>2, ChangeTyped
    DEF EndSeason, CreateDraftSeason, ActivateMedal, DisableMedal, SubscriptionChanges
  <2>3. QED BY <2>1, <2>2
<1>4. BarTypes'
  <2>1. CASE \E s \in Season : EndSeason(s) BY <2>1 DEF EndSeason, BarTypes
  <2>2. ASSUME NEW s \in Season, NEW T \in Triple, NEW days \in Window,
               CreateDraftSeason(s, T, days)
        PROVE  BarTypes'
    BY <2>2, ConstantsOK DEF CreateDraftSeason, BarTypes
  <2>3. ASSUME NEW v \in Version, NEW s \in Season, NEW a \in Ask, ActivateMedal(v, s, a)
        PROVE  BarTypes'
    <3>1. [season |-> s, generation |-> generation[s], ask |-> a] \in Medals
      BY DEF BarTypes, Medals
    <3>2. QED BY <2>3, <3>1, ConstantsOK DEF ActivateMedal, BarTypes, seasons
  <2>4. CASE DisableMedal BY <2>4 DEF DisableMedal, seasons, BarTypes
  <2>5. CASE SubscriptionChanges
    <3>1. operational' \in BOOLEAN BY <2>5 DEF SubscriptionChanges
    <3>2. QED BY <2>5, <3>1 DEF SubscriptionChanges, seasons, BarTypes
  <2>6. CASE NextDay BY <2>6 DEF NextDay, config, seasons, BarTypes
  <2>7. QED BY <2>1, <2>2, <2>3, <2>4, <2>5, <2>6
<1>5. QED BY <1>1, <1>2, <1>3, <1>4, OthersTyped

LEMMA FailTyped == ASSUME TypeOK, NEW r \in Request, Fail(r) PROVE TypeOK' /\ Grows
<1>1. Grows BY DEF Fail, Grows, Others, config, evidence
<1>2. BarTypes' BY DEF Fail, config, seasons, TypeOK, BarTypes
<1>3. UserTypes'
  <2>1. due' \in BOOLEAN BY DEF Fail
  <2>2. QED BY <2>1 DEF Fail, Others, evidence, grants, TypeOK, UserTypes
<1>4. QED BY <1>1, <1>2, <1>3, ReturnTyped DEF Fail, TypeOK

LEMMA StepTypes == TypeOK /\ [Next]_vars => TypeOK' /\ Grows
<1> SUFFICES ASSUME TypeOK, [Next]_vars PROVE TypeOK' /\ Grows
  OBVIOUS
<1>1. ASSUME NEW r \in Request, UserStep(r) \/ HookStep(r) \/ BarStep(r) \/ Fail(r)
      PROVE  TypeOK' /\ Grows
  BY <1>1, UserStepTyped, ProgressTyped, UnlockTyped, BarStepTyped, FailTyped DEF HookStep
<1>2. CASE UNCHANGED vars
  <2>1. Grows BY <1>2 DEF Grows, vars, config, evidence
  <2>2. BarTypes' BY <1>2 DEF vars, config, seasons, TypeOK, BarTypes
  <2>3. UserTypes' BY <1>2 DEF vars, evidence, grants, TypeOK, UserTypes
  <2>4. QED BY <1>2, <2>1, <2>2, <2>3, OthersTyped DEF vars, TypeOK
<1>3. QED BY <1>1, <1>2, OutsideTyped DEF Next

\* Types hold in every reachable state, and a request that evaluates or grants a
\* medal holds a version of the season it works on.
THEOREM TypeCorrect == Spec => []TypeOK
BY InitTypes, StepTypes, PTL DEF Spec
-----------------------------------------------------------------------------
(* What the user did only grows, and so does what it is worth *)

\* The deeds can be counted.
Countable == IsFiniteSet(visits) /\ IsFiniteSet(Drinks(unlocks))

LEMMA CountableStep == Countable /\ [Next]_vars => Countable'
<1> SUFFICES ASSUME Countable, [Next]_vars PROVE Countable'
  OBVIOUS
<1>1. ASSUME NEW r \in Request, NEW d \in Drink, Redeem(r, d) PROVE Countable'
  <2>1. unlocks' = unlocks \cup {<<d, today>>} /\ <<d, today>>[1] = d BY <1>1 DEF Redeem
  <2>2. \A e \in Drink : e \in Drinks(unlocks') <=> e \in Drinks(unlocks) \/ e = d
    BY <2>1 DEF Drinks
  <2>3. Drinks(unlocks') = Drinks(unlocks) \cup {d}
    <3>1. Drinks(unlocks') \subseteq Drink /\ Drinks(unlocks) \subseteq Drink BY DEF Drinks
    <3>2. QED BY <2>2, <3>1
  <2>4. IsFiniteSet(Drinks(unlocks) \cup {d}) BY FS_AddElement DEF Countable
  <2>5. QED BY <1>1, <2>3, <2>4 DEF Redeem, Countable
<1>2. ASSUME NEW r \in Request, NEW v \in Visit, CheckIn(r, v) PROVE Countable'
  BY <1>2, FS_AddElement DEF CheckIn, Countable
<1>3. CASE UNCHANGED <<unlocks, visits>> BY <1>3 DEF Countable
<1>4. ASSUME NEW r \in Request, HookStep(r) \/ BarStep(r) \/ Fail(r) PROVE UNCHANGED <<unlocks, visits>>
  <2>1. CASE HookStep(r)
    BY <2>1 DEF HookStep, QrFind, QrRead, ReservationFind, VisitFind, QrWrite, ReservationWrite,
                Written, Evaluate, Conditions, Unlock, Grant, Hook, evidence
  <2>2. CASE BarStep(r) \/ Fail(r)
    BY <2>2 DEF BarStep, CreateScan, CreateCommit, ActivateRead, UpdateSeasonRead, ActivateScan,
                ActivateCommit, UpdateSeason, Fail, Others, evidence
  <2>3. QED BY <1>4, <2>1, <2>2
<1>5. QED
  BY <1>1, <1>2, <1>3, <1>4
  DEF Next, UserStep, ConfirmReservation, EndSeason, CreateDraftSeason, ActivateMedal, DisableMedal,
      SubscriptionChanges, NextDay, Others, evidence, vars

LEMMA DoneGrows ==
  ASSUME NEW t, NEW U, NEW W, U \subseteq W, Done(t, U)
  PROVE  Done(t, W)
  BY DEF Done

LEMMA BackedGrows == ASSUME Grows, NEW t, Backed(t) PROVE Backed(t)'
  BY DoneGrows DEF Grows, Backed

LEMMA DeedsGrow == Grows => Deeds \subseteq Deeds'
  BY BackedGrows DEF Deeds

\* More visits, unlocks and missions never make a medal's conditions fail.
LEMMA MeetsGrows ==
  ASSUME NEW a \in Ask, NEW V, NEW V2, NEW U, NEW U2, NEW T, NEW T2,
         V \subseteq V2, U \subseteq U2, T \subseteq T2,
         IsFiniteSet(V2), IsFiniteSet(Drinks(U2)), Meets(a, V, U, T)
  PROVE  Meets(a, V2, U2, T2)
<1>1. Drinks(U) \subseteq Drinks(U2) BY DEF Drinks
<1>2. /\ Cardinality(V) \in Nat /\ Cardinality(V2) \in Nat /\ Cardinality(V) <= Cardinality(V2)
      /\ Cardinality(Drinks(U)) \in Nat /\ Cardinality(Drinks(U2)) \in Nat
      /\ Cardinality(Drinks(U)) <= Cardinality(Drinks(U2))
  BY <1>1, FS_Subset, FS_CardinalityType
<1>3. a.visits \in Nat /\ a.drinks \in Nat BY ConstantsOK
<1>4. CASE a.mode = "ALL" BY <1>2, <1>3, <1>4 DEF Meets
<1>5. CASE a.mode # "ALL"
  <2>1. CASE a.missions \cap T # {} BY <1>5, <2>1 DEF Meets
  <2>2. CASE a.missions \cap T = {} BY <1>2, <1>3, <1>5, <2>2 DEF Meets
  <2>3. QED BY <2>1, <2>2
<1>6. QED BY <1>4, <1>5

-----------------------------------------------------------------------------
(* Completions *)

\* A season that does not exist has no missions, and one being rewritten exists.
Born ==
  /\ \A s \in Season : status[s] = "unborn" => missions[s] = {}
  /\ \A r \in Request : pc[r] = "update" => status[at[r]] # "unborn"

\* Who completes reservation missions has had a reservation confirmed.
Booked(r) ==
  /\ pc[r] \in {"reservation", "reservationWrite"} => parties # {}
  /\ pc[r] = "reservationWrite" => \A row \in rows[r] : row.template = "RESERVE_PARTY_OF_TWO"

LEMMA BornStep == TypeOK /\ Born /\ [Next]_vars => Born'
<1> SUFFICES ASSUME TypeOK, Born, [Next]_vars PROVE Born'
  OBVIOUS
<1> USE DEF Born, TypeOK, BarTypes, RequestTypes, Phase, Goto, Return
<1>1. CASE UNCHANGED <<pc, at>> /\ (UNCHANGED <<status, missions>> \/ \E s \in Season : EndSeason(s)
              \/ \E d \in Season, T \in Triple, days \in Window : CreateDraftSeason(d, T, days))
  BY <1>1 DEF EndSeason, CreateDraftSeason
<1>2. ASSUME NEW r \in Request, UNCHANGED <<status, missions>>,
             \A q \in Request : pc'[q] = "update" => pc[q] = "update" /\ at'[q] = at[q]
      PROVE  Born'
  BY <1>2
<1>3. ASSUME NEW r \in Request, UserStep(r) \/ HookStep(r) \/ Fail(r) PROVE Born'
  <2>1. CASE UserStep(r)
    BY <1>2, <2>1 DEF UserStep, Redeem, CheckIn, ConfirmReservation, Happens, config, seasons, locals
  <2>2. CASE HookStep(r)
    BY <1>2, <2>2 DEF HookStep, QrFind, QrRead, ReservationFind, VisitFind, QrWrite, ReservationWrite,
                      Written, Evaluate, Conditions, Unlock, Grant, Hook, config, seasons, locals
  <2>3. CASE Fail(r) BY <1>2, <2>3 DEF Fail, config, seasons
  <2>4. QED BY <1>3, <2>1, <2>2, <2>3
<1>4. ASSUME NEW r \in Request, BarStep(r) PROVE Born'
  <2>1. ASSUME NEW T \in Triple, NEW days \in Window, CreateScan(r, T, days) PROVE Born'
    BY <1>2, <2>1 DEF CreateScan, config, seasons
  <2>2. ASSUME NEW s \in Season, CreateCommit(r, s) PROVE Born'
    BY <2>2 DEF CreateCommit, StatusAfter, ActiveSeasons
  <2>3. ASSUME NEW s \in Season, ActivateRead(r, s) PROVE Born'
    BY <1>2, <2>3 DEF ActivateRead, config, seasons
  <2>4. ASSUME NEW s \in Season, NEW T \in Triple \cup {None}, NEW days \in Window,
               UpdateSeasonRead(r, s, T, days)
        PROVE  Born'
    BY <2>4 DEF UpdateSeasonRead, config, seasons
  <2>5. CASE ActivateScan(r) BY <1>2, <2>5 DEF ActivateScan, config, seasons
  <2>6. CASE ActivateCommit(r) BY <2>6 DEF ActivateCommit, StatusAfter, ActiveSeasons
  <2>7. CASE UpdateSeason(r) BY <2>7 DEF UpdateSeason
  <2>8. QED BY <1>4, <2>1, <2>2, <2>3, <2>4, <2>5, <2>6, <2>7 DEF BarStep
<1>5. CASE (\E v \in Version, s \in Season, a \in Ask : ActivateMedal(v, s, a))
            \/ DisableMedal \/ SubscriptionChanges \/ NextDay \/ UNCHANGED vars
  BY <1>1, <1>5 DEF ActivateMedal, DisableMedal, SubscriptionChanges, NextDay, vars, config, seasons, locals
<1>6. QED BY <1>1, <1>3, <1>4, <1>5 DEF Next, EndSeason, CreateDraftSeason, locals

LEMMA BookedStep ==
  ASSUME TypeOK, Grows, \A q \in Request : Booked(q), [Next]_vars, NEW q \in Request
  PROVE  Booked(q)'
<1> USE DEF Booked, TypeOK, RequestTypes, Goto, Return, Grows
<1>1. CASE pc'[q] = pc[q] /\ rows'[q] \subseteq rows[q] BY <1>1
<1>2. CASE pc'[q] \notin {"reservation", "reservationWrite"} BY <1>2
<1>3. ASSUME NEW r \in Request, UserStep(r) PROVE Booked(q)'
  <2>1. CASE q # r
    BY <1>1, <1>3, <2>1 DEF UserStep, Redeem, CheckIn, ConfirmReservation, Happens, locals
  <2>2. CASE q = r
    BY <1>3, <2>2 DEF UserStep, Redeem, CheckIn, ConfirmReservation, Happens
  <2>3. QED BY <2>1, <2>2
<1>4. ASSUME NEW r \in Request, HookStep(r) PROVE Booked(q)'
  <2>1. CASE ReservationFind(r)
    <3>1. CASE q # r BY <1>1, <2>1, <3>1 DEF ReservationFind
    <3>2. CASE q = r BY <2>1, <3>2 DEF ReservationFind, Row, Hook
    <3>3. QED BY <3>1, <3>2
  <2>2. CASE \E row \in rows[r] : QrWrite(r, row) \/ ReservationWrite(r, row)
    BY <1>1, <2>2 DEF QrWrite, ReservationWrite
  <2>3. CASE QrFind(r) \/ QrRead(r) \/ VisitFind(r) \/ Written(r) \/ Evaluate(r) \/ Conditions(r)
              \/ Unlock(r) \/ Grant(r)
    <3>1. CASE q # r
      BY <1>1, <2>3, <3>1 DEF QrFind, QrRead, VisitFind, Written, Evaluate, Conditions, Unlock, Grant, locals
    <3>2. CASE q = r
      BY <1>2, <2>3, <3>2 DEF QrFind, QrRead, VisitFind, Written, Evaluate, Conditions, Unlock, Grant
    <3>3. QED BY <3>1, <3>2
  <2>4. QED BY <1>4, <2>1, <2>2, <2>3 DEF HookStep
<1>5. ASSUME NEW r \in Request, BarStep(r) \/ Fail(r) PROVE Booked(q)'
  <2>1. CASE q # r
    BY <1>1, <1>5, <2>1 DEF BarStep, CreateScan, CreateCommit, ActivateRead, UpdateSeasonRead,
                            ActivateScan, ActivateCommit, UpdateSeason, Fail
  <2>2. CASE q = r
    BY <1>2, <1>5, <2>2 DEF BarStep, CreateScan, CreateCommit, ActivateRead, UpdateSeasonRead,
                            ActivateScan, ActivateCommit, UpdateSeason, Fail
  <2>3. QED BY <2>1, <2>2
<1>6. QED
  BY <1>1, <1>3, <1>4, <1>5 DEF Next, EndSeason, CreateDraftSeason, ActivateMedal, DisableMedal,
     SubscriptionChanges, NextDay, vars, locals

LEMMA ProgressBackedStep ==
  ASSUME TypeOK, Grows, Born, \A r \in Request : Booked(r), ProgressBacked, [Next]_vars
  PROVE  ProgressBacked'
<1> USE DEF ProgressBacked, Exists, Row, TypeOK, BarTypes, UserTypes, RequestTypes
<1>1. CASE UNCHANGED <<completed, missions, generation>> BY <1>1, BackedGrows
<1>2. ASSUME NEW r \in Request, NEW row \in rows[r], QrWrite(r, row) PROVE ProgressBacked'
  <2>1. Done(row.template, seen[r]) => Backed(row.template)
    <3>1. Done(row.template, seen[r]) => Done(row.template, unlocks) BY DoneGrows
    <3>2. ~Done("RESERVE_PARTY_OF_TWO", seen[r]) BY DEF Done
    <3>3. QED BY <3>1, <3>2 DEF Backed
  <2>2. \A c \in completed' : Exists(c) /\ Backed(c.template) BY <1>2, <2>1 DEF QrWrite
  <2>3. UNCHANGED <<missions, generation>> BY <1>2 DEF QrWrite, Hook, config, seasons
  <2>4. QED BY <2>2, <2>3, BackedGrows
<1>3. ASSUME NEW r \in Request, NEW row \in rows[r], ReservationWrite(r, row) PROVE ProgressBacked'
  <2>1. Backed(row.template) BY <1>3 DEF ReservationWrite, Hook, Booked, Backed
  <2>2. \A c \in completed' : Exists(c) /\ Backed(c.template) BY <1>3, <2>1 DEF ReservationWrite
  <2>3. UNCHANGED <<missions, generation>> BY <1>3 DEF ReservationWrite, Hook, config, seasons
  <2>4. QED BY <2>2, <2>3, BackedGrows
<1>4. ASSUME NEW r \in Request, UpdateSeason(r) PROVE ProgressBacked'
  <2>1. CASE plan[r].missions = None BY <1>1, <1>4, <2>1 DEF UpdateSeason
  <2>2. CASE plan[r].missions # None
    <3>1. \A c \in completed' : c \in completed /\ c.season # at[r] BY <1>4, <2>2 DEF UpdateSeason
    <3>2. \A c \in completed' : missions'[c.season] = missions[c.season]
                               /\ generation'[c.season] = generation[c.season]
      BY <1>4, <2>2, <3>1 DEF UpdateSeason, Rows
    <3>3. QED BY <3>1, <3>2, BackedGrows
  <2>3. QED BY <2>1, <2>2
<1>5. ASSUME NEW s \in Season, status[s] = "unborn", UNCHANGED <<completed, generation>>,
             \A z \in Season : z # s => missions'[z] = missions[z]
      PROVE  ProgressBacked'
  <2>1. \A c \in completed : c.season \in Season /\ c.season # s BY <1>5 DEF Born, Rows
  <2>2. QED BY <1>5, <2>1, BackedGrows
<1>6. ASSUME NEW r \in Request, BarStep(r) PROVE ProgressBacked'
  <2>1. ASSUME NEW s \in Season, CreateCommit(r, s) PROVE ProgressBacked'
    BY <1>5, <2>1 DEF CreateCommit
  <2>2. QED
    BY <1>1, <1>4, <1>6, <2>1 DEF BarStep, CreateScan, ActivateRead, UpdateSeasonRead, ActivateScan,
                                  ActivateCommit, config, seasons
<1>7. ASSUME NEW r \in Request, UserStep(r) \/ HookStep(r) \/ Fail(r) PROVE ProgressBacked'
  <2>1. CASE UserStep(r) \/ Fail(r)
    BY <1>1, <2>1 DEF UserStep, Redeem, CheckIn, ConfirmReservation, Happens, Fail, config, seasons
  <2>2. CASE HookStep(r)
    BY <1>1, <1>2, <1>3, <2>2
    DEF HookStep, QrFind, QrRead, ReservationFind, VisitFind, Written, Evaluate, Conditions, Unlock,
        Grant, Hook, config, seasons
  <2>3. QED BY <1>7, <2>1, <2>2
<1>8. ASSUME NEW s \in Season, NEW T \in Triple, NEW days \in Window, CreateDraftSeason(s, T, days)
      PROVE  ProgressBacked'
  BY <1>5, <1>8 DEF CreateDraftSeason
<1>9. QED
  BY <1>1, <1>6, <1>7, <1>8 DEF Next, EndSeason, ActivateMedal, DisableMedal, SubscriptionChanges,
     NextDay, vars, config, seasons

-----------------------------------------------------------------------------
(* Medals *)

\* Every step but Grant leaves the medals alone.
LEMMA GrantsOnlyByGrant ==
  ASSUME [Next]_vars, \A r \in Request : ~Grant(r)
  PROVE  UNCHANGED grants
<1>1. ASSUME NEW r \in Request, UserStep(r) \/ HookStep(r) PROVE UNCHANGED grants
  BY <1>1 DEF UserStep, Redeem, CheckIn, ConfirmReservation, Happens, HookStep, QrFind, QrRead,
              ReservationFind, VisitFind, QrWrite, ReservationWrite, Written, Evaluate, Conditions, Unlock
<1>2. ASSUME NEW r \in Request, BarStep(r) \/ Fail(r) PROVE UNCHANGED grants
  BY <1>2 DEF BarStep, CreateScan, CreateCommit, ActivateRead, UpdateSeasonRead, ActivateScan,
              ActivateCommit, UpdateSeason, Fail, Others
<1>3. QED
  BY <1>1, <1>2 DEF Next, EndSeason, CreateDraftSeason, ActivateMedal, DisableMedal,
     SubscriptionChanges, NextDay, Others, vars

LEMMA MedalOnceStep == ASSUME TypeOK, Grows, MedalOnce, [Next]_vars PROVE MedalOnce'
<1> USE DEF MedalOnce, TypeOK, UserTypes, Grows
<1>1. \A m \in earned : medal'[m[2]] = medal[m[2]] OBVIOUS
<1>2. CASE UNCHANGED grants BY <1>1, <1>2 DEF grants
<1>3. ASSUME NEW r \in Request, Grant(r), ~HasMedal(at[r]) PROVE MedalOnce'
  <2> DEFINE new == <<at[r], version[r]>>
  <2>1. /\ at[r] \in Season /\ version[r] \in Version
        /\ medal[version[r]] # None /\ medal[version[r]].season = at[r]
    BY <1>3 DEF Grant, Hook, Phase, Evaluating
  <2>2. new[1] = at[r] /\ new[2] = version[r] OBVIOUS
  <2>3. medal' = medal BY <1>3 DEF Grant, Hook, config
  <2>4. earned' = earned \cup {new} /\ notified' = notified \cup {new}
    BY <1>3 DEF Grant, Give
  <2>5. \A m \in earned : m[1] # at[r] BY <1>3 DEF HasMedal
  <2>6. \A m, n \in earned' : m[1] = n[1] => m = n
    <3> HIDE DEF new
    <3>1. QED BY <2>2, <2>4, <2>5
  <2>7. \A m \in earned' : medal'[m[2]] # None /\ medal'[m[2]].season = m[1]
    <3> HIDE DEF new
    <3>1. QED BY <2>1, <2>2, <2>3, <2>4
  <2>8. ledger' = {m \in earned' : medal'[m[2]].ask.xp}
    <3>1. ledger' = IF medal[new[2]].ask.xp THEN ledger \cup {new} ELSE ledger
      BY <1>3 DEF Grant, Give
    <3>2. QED BY <2>3, <2>4, <3>1
  <2>9. QED BY <2>4, <2>6, <2>7, <2>8
<1>4. CASE \E r \in Request : Grant(r) /\ HasMedal(at[r]) BY <1>2, <1>4 DEF Grant
<1>5. QED BY <1>2, <1>3, <1>4, GrantsOnlyByGrant

\* What the evaluation found stays true until the medal is granted.
Justified(r) ==
  pc[r] \in {"unlock", "grant"} => Meets(medal[version[r]].ask, visits, unlocks, Deeds)

\* A version's conditions, once met by the user's deeds, stay met.
LEMMA StaysMet ==
  ASSUME TypeOK, Grows, Countable', NEW v \in Version, medal[v] # None,
         Meets(medal[v].ask, visits, unlocks, Deeds)
  PROVE  Meets(medal'[v].ask, visits', unlocks', Deeds')
<1>1. medal'[v] = medal[v] /\ medal[v].ask \in Ask BY DEF Grows, TypeOK, BarTypes, Medals
<1>2. QED BY <1>1, DeedsGrow, MeetsGrows DEF Grows, Countable

LEMMA EligibleIsJustified ==
  ASSUME TypeOK, Countable, ProgressBacked, NEW v \in Version, medal[v] # None, NEW days, Eligible(v, days)
  PROVE  Meets(medal[v].ask, visits, unlocks, Deeds)
<1>1. medal[v].ask \in Ask BY DEF TypeOK, BarTypes, Medals
<1>2. CompletedFor(v) \subseteq Deeds BY DEF CompletedFor, ProgressBacked, Deeds
<1>3. QED BY <1>1, <1>2, MeetsGrows DEF Eligible, Within, Countable

LEMMA JustifiedStep ==
  ASSUME TypeOK, Grows, Countable, Countable', ProgressBacked, \A r \in Request : Justified(r),
         [Next]_vars, NEW q \in Request
  PROVE  Justified(q)'
<1> USE DEF TypeOK, RequestTypes
<1>1. CASE pc'[q] \in {"unlock", "grant"} => pc[q] \in {"unlock", "grant"} /\ version'[q] = version[q]
  <2>1. pc[q] \in {"unlock", "grant"} => version[q] \in Version /\ medal[version[q]] # None
    BY DEF Phase
  <2>2. QED BY <1>1, <2>1, StaysMet DEF Justified
<1>2. CASE Conditions(q) /\ pc'[q] = "unlock"
  <2>1. version[q] \in Version /\ medal[version[q]] # None BY <1>2 DEF Conditions, Hook, Phase
  <2>2. Eligible(version[q], span[q]) /\ version' = version
    BY <1>2 DEF Conditions, Return, Goto, locals
  <2>3. Meets(medal[version[q]].ask, visits, unlocks, Deeds) BY <2>1, <2>2, EligibleIsJustified
  <2>4. QED BY <2>1, <2>2, <2>3, StaysMet DEF Justified
<1>3. CASE pc'[q] \in {"unlock", "grant"}
             /\ ~(pc[q] \in {"unlock", "grant"} /\ version'[q] = version[q])
  <2>1. ASSUME NEW r \in Request, HookStep(r) PROVE Conditions(q)
    <3>1. r = q
      BY <1>3, <2>1 DEF HookStep, QrFind, QrRead, ReservationFind, VisitFind, QrWrite, ReservationWrite,
         Written, Evaluate, Conditions, Unlock, Grant, Hook, Return, Goto, locals
    <3>2. QED
      BY <1>3, <2>1, <3>1 DEF HookStep, QrFind, QrRead, ReservationFind, VisitFind, QrWrite,
         ReservationWrite, Written, Evaluate, Unlock, Grant, Hook, Return, Goto, locals
  <2>2. ASSUME NEW r \in Request, UserStep(r) \/ BarStep(r) \/ Fail(r) PROVE FALSE
    BY <1>3, <2>2 DEF UserStep, Redeem, CheckIn, ConfirmReservation, Happens, BarStep, CreateScan,
       CreateCommit, ActivateRead, UpdateSeasonRead, ActivateScan, ActivateCommit, UpdateSeason, Fail,
       Return, Goto, locals
  <2>3. Conditions(q) => pc'[q] = "unlock" BY <1>3 DEF Conditions, Return, Goto
  <2>4. UNCHANGED <<pc, version>> \/ \E r \in Request : HookStep(r)
    BY <2>2 DEF Next, EndSeason, CreateDraftSeason, ActivateMedal, DisableMedal,
       SubscriptionChanges, NextDay, vars, locals
  <2>5. QED BY <1>2, <1>3, <2>1, <2>3, <2>4
<1>4. QED BY <1>1, <1>3

LEMMA MedalEarnedStep ==
  ASSUME TypeOK, Grows, Countable', MedalOnce, MedalEarned, \A r \in Request : Justified(r), [Next]_vars
  PROVE  MedalEarned'
<1> USE DEF TypeOK, UserTypes
<1>1. ASSUME NEW m \in earned PROVE Meets(medal'[m[2]].ask, visits', unlocks', Deeds')
  <2>1. m[2] \in Version /\ medal[m[2]] # None BY DEF MedalOnce
  <2>2. QED BY <2>1, StaysMet DEF MedalEarned
<1>2. CASE UNCHANGED grants BY <1>1, <1>2 DEF grants, MedalEarned
<1>3. ASSUME NEW r \in Request, Grant(r), ~HasMedal(at[r]) PROVE MedalEarned'
  <2>1. version[r] \in Version /\ medal[version[r]] # None BY <1>3 DEF Grant, Hook, Phase
  <2>2. Meets(medal'[version[r]].ask, visits', unlocks', Deeds')
    BY <1>3, <2>1, StaysMet DEF Grant, Hook, Justified
  <2>3. \A m \in earned' : m \in earned \/ m[2] = version[r] BY <1>3 DEF Grant, Give
  <2>4. QED BY <1>1, <2>2, <2>3 DEF MedalEarned
<1>4. CASE \E r \in Request : Grant(r) /\ HasMedal(at[r]) BY <1>2, <1>4 DEF Grant
<1>5. QED BY <1>2, <1>3, <1>4, GrantsOnlyByGrant

-----------------------------------------------------------------------------
(* The invariant and what follows from it *)

IInv ==
  /\ TypeOK /\ Countable /\ Born /\ ProgressBacked /\ MedalOnce /\ MedalEarned
  /\ \A r \in Request : Booked(r) /\ Justified(r)

LEMMA InitIInv == Init => IInv
<1> SUFFICES ASSUME Init PROVE IInv
  OBVIOUS
<1>1. Countable
  <2>1. Drinks(unlocks) = {} BY DEF Init, Drinks
  <2>2. QED BY <2>1, FS_EmptySet DEF Init, Countable
<1>2. Born /\ ProgressBacked BY DEF Init, Born, ProgressBacked
<1>3. MedalOnce BY DEF Init, MedalOnce
<1>4. MedalEarned BY DEF Init, MedalEarned
<1>5. \A r \in Request : Booked(r) /\ Justified(r) BY DEF Init, Booked, Justified
<1>6. QED BY <1>1, <1>2, <1>3, <1>4, <1>5, InitTypes DEF IInv

LEMMA StepIInv == IInv /\ [Next]_vars => IInv'
<1> SUFFICES ASSUME IInv, [Next]_vars PROVE IInv'
  OBVIOUS
<1>1. TypeOK' /\ Grows BY StepTypes DEF IInv
<1>2. Countable' /\ Born' BY CountableStep, BornStep DEF IInv
<1>3. \A r \in Request : Booked(r)' BY <1>1, BookedStep DEF IInv
<1>4. ProgressBacked' BY <1>1, ProgressBackedStep DEF IInv
<1>5. MedalOnce' BY <1>1, MedalOnceStep DEF IInv
<1>6. MedalEarned' BY <1>1, <1>2, MedalEarnedStep DEF IInv
<1>7. \A r \in Request : Justified(r)' BY <1>1, <1>2, JustifiedStep DEF IInv
<1>8. QED BY <1>1, <1>2, <1>3, <1>4, <1>5, <1>6, <1>7 DEF IInv

\* A completion is one of a mission its season has, by a user who did what it asks.
THEOREM ProgressBackedHolds == Spec => []ProgressBacked
<1>1. IInv => ProgressBacked BY DEF IInv
<1>2. QED BY <1>1, InitIInv, StepIInv, PTL DEF Spec

\* Neither a completion nor a medal is without the deeds it stands for, and there
\* is one medal of a season at most, with its XP and its notification.
THEOREM RecordsBackedHolds == Spec => []RecordsBacked
<1>1. IInv => RecordsBacked BY DEF IInv, RecordsBacked
<1>2. QED BY <1>1, InitIInv, StepIInv, PTL DEF Spec

\* One medal per season, with its XP and its notification.
THEOREM MedalOnceHolds == Spec => []MedalOnce
<1>1. IInv => MedalOnce BY DEF IInv
<1>2. QED BY <1>1, InitIInv, StepIInv, PTL DEF Spec

\* Nobody holds a medal without having done what its version asks.
THEOREM MedalEarnedHolds == Spec => []MedalEarned
<1>1. IInv => MedalEarned BY DEF IInv
<1>2. QED BY <1>1, InitIInv, StepIInv, PTL DEF Spec

LEMMA CompletionStaysStep ==
  ASSUME TypeOK, ProgressBacked, [Next]_vars, NEW row \in completed
  PROVE  row \in completed' \/ ~Exists(row)'
<1>1. CASE completed \subseteq completed' BY <1>1
<1>2. ASSUME NEW r \in Request, UpdateSeason(r), row \notin completed' PROVE ~Exists(row)'
  <2>1. row.season = at[r] /\ at[r] \in Season BY <1>2 DEF UpdateSeason, TypeOK, Phase
  <2>2. row.generation = generation[at[r]]
    BY <2>1 DEF ProgressBacked, Exists, Row
  <2>3. generation'[at[r]] = generation[at[r]] + 1 /\ generation[at[r]] \in Nat
    BY <1>2, <2>1 DEF UpdateSeason, TypeOK, BarTypes
  <2>4. row.generation # generation'[row.season] BY <2>1, <2>2, <2>3
  <2>5. QED BY <2>4 DEF Exists, Row
<1>3. ASSUME NEW r \in Request, UserStep(r) \/ HookStep(r) PROVE completed \subseteq completed'
  BY <1>3 DEF UserStep, Redeem, CheckIn, ConfirmReservation, Happens, HookStep, QrFind, QrRead,
              ReservationFind, VisitFind, QrWrite, ReservationWrite, Written, Evaluate, Conditions,
              Unlock, Grant
<1>4. ASSUME NEW r \in Request, BarStep(r) \/ Fail(r), ~UpdateSeason(r)
      PROVE  completed \subseteq completed'
  BY <1>4 DEF BarStep, CreateScan, CreateCommit, ActivateRead, UpdateSeasonRead, ActivateScan,
              ActivateCommit, Fail
<1>5. QED
  BY <1>1, <1>2, <1>3, <1>4 DEF Next, EndSeason, CreateDraftSeason, ActivateMedal, DisableMedal,
     SubscriptionChanges, NextDay, vars

\* A completion is lost only together with its mission.
THEOREM CompletionStaysHolds == Spec => CompletionStays
<1>1. IInv /\ [Next]_vars => [\A row \in completed : row \in completed' \/ ~Exists(row)']_vars
  BY CompletionStaysStep DEF IInv
<1>2. QED BY <1>1, InitIInv, StepIInv, PTL DEF Spec, CompletionStays

-----------------------------------------------------------------------------
(* The refinement *)

LEMMA InitLedger == Init => Ledger!Init
BY DEF Init, Ledger!Init, Met, Receipted

LEMMA MetGrows ==
  ASSUME TypeOK, Grows, Countable'
  PROVE  Ledger!Owe
<1>1. ASSUME NEW m \in Met PROVE m \in Met'
  <2>1. /\ m \in Season \X Version /\ medal[m[2]] # None /\ medal[m[2]].season = m[1]
        /\ Meets(medal[m[2]].ask, visits, unlocks, Deeds)
    BY DEF Met
  <2>2. m[2] \in Version BY <2>1
  <2>3. medal'[m[2]] = medal[m[2]] BY <2>1, <2>2 DEF Grows
  <2>4. Meets(medal'[m[2]].ask, visits', unlocks', Deeds') BY <2>1, <2>2, StaysMet
  <2>5. QED BY <2>1, <2>3, <2>4 DEF Met
<1>2. Met' \subseteq Season \X Version BY DEF Met
<1>3. QED BY <1>1, <1>2 DEF Ledger!Owe

\* A grant pays a debt of a season of which none was paid.
LEMMA GrantPays ==
  ASSUME IInv, IInv', Grows, NEW r \in Request, Grant(r), ~HasMedal(at[r])
  PROVE  /\ <<at[r], version[r]>> \in Season \X Version
         /\ Ledger!Pay(<<at[r], version[r]>>)
<1> DEFINE m == <<at[r], version[r]>>
<1> USE DEF IInv
<1>1. /\ at[r] \in Season /\ version[r] \in Version
      /\ medal[version[r]] # None /\ medal[version[r]].season = at[r]
  BY DEF Grant, Hook, TypeOK, Phase, Evaluating
<1>2. m \in Met'
  <2>1. medal'[version[r]] = medal[version[r]] BY <1>1 DEF Grows
  <2>2. Meets(medal'[version[r]].ask, visits', unlocks', Deeds')
    BY <1>1, StaysMet DEF Grant, Hook, Justified
  <2>3. QED BY <1>1, <2>1, <2>2 DEF Met
<1>3. \A p \in earned : p \in Season \X Version /\ p[1] # at[r]
  BY DEF HasMedal, TypeOK, UserTypes
<1>4. earned' = earned \cup {m} BY DEF Grant, Give
<1>5. Receipted = earned /\ Receipted' = earned'
  BY DEF MedalOnce, Receipted
<1>6. QED BY <1>1, <1>2, <1>3, <1>4, <1>5 DEF Ledger!Pay

\* Hooks, however they overlap with changes of seasons, missions and versions,
\* implement PayOnce: of each season one medal that is owed, with its receipts.
THEOREM MedalsPaidOnce == Spec => LedgerSpec
<1>1. IInv /\ IInv' /\ [Next]_vars => [Ledger!Next]_(Ledger!vars)
  <2> SUFFICES ASSUME IInv, IInv', [Next]_vars PROVE Ledger!Next
    OBVIOUS
  <2>1. Grows BY StepTypes DEF IInv
  <2>2. Ledger!Owe BY <2>1, MetGrows DEF IInv
  <2>3. ASSUME NEW r \in Request, Grant(r), ~HasMedal(at[r]) PROVE Ledger!Next
    BY <2>1, <2>2, <2>3, GrantPays DEF Ledger!Next
  <2>4. CASE UNCHANGED grants
    <3>1. Receipted = earned /\ Receipted' = earned' BY DEF IInv, MedalOnce, Receipted
    <3>2. QED BY <2>2, <2>4, <3>1 DEF Ledger!Next, grants
  <2>5. CASE \E r \in Request : Grant(r) /\ HasMedal(at[r])
    BY <2>4, <2>5 DEF Grant
  <2>6. QED BY <2>3, <2>4, <2>5, GrantsOnlyByGrant
<1>2. QED BY InitLedger, InitIInv, StepIInv, <1>1, PTL DEF Spec, LedgerSpec, Ledger!Spec

-----------------------------------------------------------------------------
(* Nobody is forgotten *)

\* A request whose hook is going to look at season s again, and has read nothing
\* that has changed since.
Coming(r, s) ==
  \/ pc[r] \in {"qrUnlock", "visit"}
  \/ pc[r] \in Writing \cup {"qrRead", "evaluate"} /\ at[r] = s
  \/ pc[r] = "conditions" /\ at[r] = s /\ version[r] = official /\ span[r] = window[s]
  \/ pc[r] \in {"unlock", "grant"} /\ at[r] = s /\ version[r] = official

\* The season of the bar's ACTIVE version; its medal is owed to a user who meets
\* the conditions, does not have it and has seen no change or failure since.
Legend == medal[official].season
Owed ==
  /\ due /\ official # None /\ Running = {Legend}
  /\ Eligible(official, window[Legend])
  /\ ~HasMedal(Legend)

\* The rows a hook still has to write are of its season; nobody else has any.
OwnRows(r) ==
  /\ \A row \in rows[r] : row.season = at[r]
  /\ pc[r] \notin Writing \cup {"qrRead"} => rows[r] = {}

Remembered == Owed => \E r \in Request : Coming(r, Legend)

\* While nothing is changed and no hook fails, bar and day stay as they are.
LEMMA DueIsCalm == [Next]_vars /\ due' => UNCHANGED <<config, today>>
<1> SUFFICES ASSUME [Next]_vars, due' PROVE UNCHANGED <<config, today>>
  OBVIOUS
<1>1. ASSUME NEW r \in Request, UserStep(r) \/ HookStep(r) PROVE UNCHANGED <<config, today>>
  BY <1>1 DEF UserStep, Redeem, CheckIn, ConfirmReservation, Happens, HookStep, QrFind, QrRead,
     ReservationFind, VisitFind, QrWrite, ReservationWrite, Written, Evaluate, Conditions, Unlock,
     Grant, Hook
<1>2. ASSUME NEW r \in Request, BarStep(r) \/ Fail(r) PROVE UNCHANGED <<config, today>>
  BY <1>2 DEF BarStep, CreateScan, CreateCommit, ActivateRead, UpdateSeasonRead, ActivateScan,
     ActivateCommit, UpdateSeason, Fail, Change, Others
<1>3. QED
  BY <1>1, <1>2 DEF Next, EndSeason, CreateDraftSeason, ActivateMedal, DisableMedal,
     SubscriptionChanges, NextDay, Change, vars

LEMMA OwnRowsStep ==
  ASSUME TypeOK, [Next]_vars, NEW q \in Request, OwnRows(q)
  PROVE  OwnRows(q)'
<1> USE DEF OwnRows, TypeOK, RequestTypes, Goto, Return, Writing
<1>1. CASE \/ rows'[q] = {}
           \/ pc'[q] = pc[q] /\ rows'[q] \subseteq rows[q] /\ at'[q] = at[q]
  BY <1>1
<1>2. ASSUME NEW r \in Request, UserStep(r) PROVE OwnRows(q)'
  <2>1. CASE q = r
    BY <1>2, <2>1 DEF UserStep, Redeem, CheckIn, ConfirmReservation, Happens, locals
  <2>2. CASE q # r
    BY <1>1, <1>2, <2>2 DEF UserStep, Redeem, CheckIn, ConfirmReservation, Happens, locals
  <2>3. QED BY <2>1, <2>2
<1>3. ASSUME NEW r \in Request, HookStep(r) PROVE OwnRows(q)'
  <2>1. CASE QrFind(r)
    BY <1>1, <2>1 DEF QrFind, Row
  <2>2. CASE ReservationFind(r)
    BY <1>1, <2>2 DEF ReservationFind, Row
  <2>3. CASE \E row \in rows[r] : QrWrite(r, row) \/ ReservationWrite(r, row)
    BY <1>1, <2>3 DEF QrWrite, ReservationWrite
  <2>4. CASE VisitFind(r) \/ Evaluate(r) \/ Conditions(r) \/ Unlock(r) \/ Grant(r)
    BY <1>1, <2>4 DEF VisitFind, Evaluate, Conditions, Unlock, Grant, Hook, locals
  <2>5. CASE QrRead(r) \/ Written(r)
    BY <1>1, <2>5 DEF QrRead, Written, Hook, locals
  <2>6. QED BY <1>3, <2>1, <2>2, <2>3, <2>4, <2>5 DEF HookStep
<1>4. ASSUME NEW r \in Request, BarStep(r) \/ Fail(r) PROVE OwnRows(q)'
  BY <1>1, <1>4 DEF BarStep, CreateScan, CreateCommit, ActivateRead, UpdateSeasonRead,
     ActivateScan, ActivateCommit, UpdateSeason, Fail
<1>5. QED
  BY <1>1, <1>2, <1>3, <1>4 DEF Next, EndSeason, CreateDraftSeason, ActivateMedal, DisableMedal,
     SubscriptionChanges, NextDay, vars, locals

\* Who is coming stays so until its own next step.
LEMMA StaysComing ==
  ASSUME NEW q \in Request, NEW s \in Season, Coming(q, s), UNCHANGED config,
         pc'[q] = pc[q], at'[q] = at[q], version'[q] = version[q], span'[q] = span[q]
  PROVE  Coming(q, s)'
BY DEF Coming, config, seasons

\* A hook that is coming goes on until it has granted the medal.
LEMMA ComesOn ==
  ASSUME TypeOK, [Next]_vars, Owed, Owed', NEW q \in Request, Coming(q, Legend),
         UNCHANGED <<config, today>>
  PROVE  Coming(q, Legend)'
<1> USE DEF TypeOK, RequestTypes, BarTypes, Goto, Writing
<1>0. /\ Legend \in Season /\ Legend' = Legend /\ official # None /\ Running = {Legend}
      /\ ~HasMedal(Legend) /\ Eligible(official, window[Legend])
      /\ UNCHANGED <<status, window, medal, official, operational>>
  BY ConstantsOK DEF Owed, Legend, config, seasons, Running, ActiveSeasons
<1> HIDE DEF Legend
<1>1. CASE pc'[q] = pc[q] /\ at'[q] = at[q] /\ version'[q] = version[q] /\ span'[q] = span[q]
  BY <1>0, <1>1, StaysComing
<1>q. pc[q] \in Hooks /\ due' BY DEF Coming, Hooks, Evaluating, Owed
<1>2. ASSUME NEW r \in Request, HookStep(r) PROVE Coming(q, Legend)'
  <2>1. CASE q # r
    BY <1>1, <1>2, <2>1 DEF HookStep, QrFind, QrRead, ReservationFind, VisitFind, QrWrite,
       ReservationWrite, Written, Evaluate, Conditions, Unlock, Grant, Return, locals
  <2>2. CASE q = r
    <3>1. CASE QrFind(q)
      BY <1>0, <3>1 DEF QrFind, Coming
    <3>2. CASE VisitFind(q)
      BY <1>0, <3>2, FS_Singleton DEF VisitFind, Coming
    <3>3. CASE QrRead(q) \/ Written(q) \/ \E row \in rows[q] : QrWrite(q, row) \/ ReservationWrite(q, row)
      BY <1>0, <3>3 DEF QrRead, Written, QrWrite, ReservationWrite, Hook, Coming, locals
    <3>4. CASE Evaluate(q)
      BY <1>0, <3>4 DEF Evaluate, Hook, ActiveFor, Legend, Coming
    <3>5. CASE Conditions(q)
      BY <1>0, <3>5 DEF Conditions, Hook, Coming, locals
    <3>6. CASE Unlock(q)
      BY <1>0, <3>6 DEF Unlock, Hook, Eligible, Coming, locals
    <3>7. CASE Grant(q)
      <4>1. at[q] = Legend /\ <<at[q], version[q]>> \in earned'
        BY <1>0, <3>7 DEF Grant, Hook, Give, Coming
      <4>2. HasMedal(Legend)' BY <1>0, <4>1 DEF HasMedal
      <4>3. QED BY <4>2 DEF Owed
    <3>8. CASE ReservationFind(q)
      BY <3>8 DEF ReservationFind, Hook, Coming
    <3>9. QED
      BY <1>2, <2>2, <3>1, <3>2, <3>3, <3>4, <3>5, <3>6, <3>7, <3>8 DEF HookStep
  <2>3. QED BY <2>1, <2>2
<1>3. ASSUME NEW r \in Request, UserStep(r) \/ BarStep(r) PROVE Coming(q, Legend)'
  <2>1. UNCHANGED <<pc, at, version, span>> \/ q # r
    BY <1>3, <1>q DEF UserStep, Redeem, CheckIn, ConfirmReservation, Happens, BarStep,
       CreateScan, CreateCommit, ActivateRead, UpdateSeasonRead, ActivateScan, ActivateCommit,
       UpdateSeason, Hooks, Evaluating
  <2>2. QED
    BY <1>1, <1>3, <2>1 DEF UserStep, Redeem, CheckIn, ConfirmReservation, Happens, BarStep,
       CreateScan, CreateCommit, ActivateRead, UpdateSeasonRead, ActivateScan, ActivateCommit,
       UpdateSeason, Return, locals
<1>4. QED
  BY <1>1, <1>2, <1>3, <1>q DEF Next, Fail, EndSeason, CreateDraftSeason, ActivateMedal,
     DisableMedal, SubscriptionChanges, NextDay, Change, vars, locals

\* What makes a medal owed is done by a request whose hook is coming.
LEMMA DebtorComes ==
  ASSUME TypeOK, \A r \in Request : OwnRows(r), [Next]_vars, ~Owed, Owed',
         UNCHANGED <<config, today>>
  PROVE  \E r \in Request : Coming(r, Legend)'
<1> USE DEF TypeOK, RequestTypes, BarTypes, Goto, Writing
<1>0. /\ Legend' = Legend /\ official # None /\ Running = {Legend} /\ due'
      /\ UNCHANGED <<status, window, medal, official, operational>>
  BY DEF Owed, Legend, config, seasons, Running, ActiveSeasons
<1>1. UNCHANGED <<due, visits, unlocks, completed>> => ~UNCHANGED earned /\ ~(earned \subseteq earned')
  BY <1>0 DEF Owed, Legend, Eligible, CompletedFor, HasMedal, config, seasons, Within
<1>2. ASSUME NEW r \in Request, NEW d \in Drink, Redeem(r, d) PROVE Coming(r, Legend)'
  BY <1>2 DEF Redeem, Happens, Coming
<1>3. ASSUME NEW r \in Request, NEW v \in Visit, CheckIn(r, v) PROVE Coming(r, Legend)'
  BY <1>3 DEF CheckIn, Happens, Coming
<1>4. ASSUME NEW r \in Request, NEW p \in Party, ConfirmReservation(r, p) PROVE FALSE
  BY <1>1, <1>4 DEF ConfirmReservation, Happens, grants
<1>5. ASSUME NEW r \in Request, NEW row \in rows[r], QrWrite(r, row) \/ ReservationWrite(r, row)
      PROVE  Coming(r, Legend)'
  <2>1. row.season = at[r] BY DEF OwnRows
  <2>2. CASE at[r] = Legend
    BY <1>0, <1>5, <2>2 DEF QrWrite, ReservationWrite, Hook, Coming
  <2>3. CASE at[r] # Legend
    <3>1. completed' \subseteq completed \cup {row} /\ completed \subseteq completed'
      BY <1>5 DEF QrWrite, ReservationWrite
    <3>2. CompletedFor(official)' = CompletedFor(official)
      BY <1>0, <2>1, <2>3, <3>1 DEF CompletedFor, Legend
    <3>3. UNCHANGED <<due, visits, unlocks, earned, today>>
      BY <1>5 DEF QrWrite, ReservationWrite, Hook, evidence, grants
    <3>4. Owed
      BY <1>0, <3>2, <3>3 DEF Owed, Legend, Eligible, HasMedal, Running, ActiveSeasons, Within
    <3>5. QED BY <3>4
  <2>4. QED BY <2>2, <2>3
<1>6. ASSUME NEW r \in Request, ReservationFind(r) PROVE Coming(r, Legend)'
  BY <1>0, <1>1, <1>6 DEF ReservationFind, Hook, evidence, grants, Coming
<1>7. ASSUME NEW r \in Request, \/ QrFind(r) \/ QrRead(r) \/ VisitFind(r) \/ Written(r)
                                \/ Evaluate(r) \/ Conditions(r) \/ Unlock(r) \/ Grant(r)
      PROVE  FALSE
  BY <1>1, <1>7 DEF QrFind, QrRead, VisitFind, Written, Evaluate, Conditions, Unlock, Grant, Hook,
     Give, evidence, grants
<1>8. ASSUME NEW r \in Request, BarStep(r) PROVE FALSE
  BY <1>0, <1>1, <1>8 DEF BarStep, CreateScan, CreateCommit, ActivateRead, UpdateSeasonRead,
     ActivateScan, ActivateCommit, UpdateSeason, Change, Others, evidence, grants
<1>9. ASSUME NEW r \in Request, UserStep(r) \/ HookStep(r) PROVE \E q \in Request : Coming(q, Legend)'
  BY <1>2, <1>3, <1>4, <1>5, <1>6, <1>7, <1>9 DEF UserStep, HookStep
<1>10. QED
  BY <1>0, <1>1, <1>8, <1>9 DEF Next, Fail, EndSeason, CreateDraftSeason, ActivateMedal,
     DisableMedal, SubscriptionChanges, NextDay, Change, vars, evidence, grants

LEMMA RememberedStep ==
  ASSUME TypeOK, \A r \in Request : OwnRows(r), Remembered, [Next]_vars
  PROVE  Remembered'
<1> SUFFICES ASSUME Owed' PROVE \E r \in Request : Coming(r, Legend)'
  BY DEF Remembered
<1>1. UNCHANGED <<config, today>> BY DueIsCalm DEF Owed
<1>2. CASE Owed
  <2>1. PICK r \in Request : Coming(r, Legend) BY <1>2 DEF Remembered
  <2>2. QED BY <1>1, <1>2, <2>1, ComesOn
<1>3. CASE ~Owed BY <1>1, <1>3, DebtorComes
<1>4. QED BY <1>2, <1>3

\* When all hooks have come to an end, and nothing has changed or failed since
\* the user's last event, a user who meets the conditions has the medal.
THEOREM NoMissedMedalHolds == Spec => []NoMissedMedal
<1> DEFINE Inv == TypeOK /\ Remembered /\ \A r \in Request : OwnRows(r)
<1>1. Init => Inv
  <2> SUFFICES ASSUME Init PROVE Inv
    OBVIOUS
  <2>1. TypeOK BY InitTypes
  <2>2. Remembered /\ \A r \in Request : OwnRows(r)
    BY DEF Init, Remembered, Owed, OwnRows
  <2>3. QED BY <2>1, <2>2
<1>2. Inv /\ [Next]_vars => Inv'
  BY StepTypes, RememberedStep, OwnRowsStep
<1>3. Inv => NoMissedMedal
  BY DEF Remembered, Owed, Legend, Coming, NoMissedMedal, Hooks, Writing, Evaluating
<1>4. QED BY <1>1, <1>2, <1>3, PTL DEF Spec

-----------------------------------------------------------------------------
(* What is answered about medals, while hooks and changes go on *)

Page == {"bar", "again", "season"}
Shown == {"visible", "display", "displayAny", "displayed", "active", "evaluate", "subscription"}
Figures == {"unlockedUsers", "startedUsers", "breakdown"}
Existing(w) == w.version \in Version /\ medal[w.version] # None

\* What is asked for at each label.
Kinds(w) ==
  /\ w.at = "visible" => w.asks = "bar"
  /\ w.at \in {"display", "displayAny", "displayed"} => w.asks \in {"bar", "public"}
  /\ w.at \in {"progress", "active", "evaluate", "subscription"} => w.asks \in Page
  /\ w.at = "feed" => w.asks = "feed"
  /\ w.at = "medals" => w.asks = "medals"
  /\ w.at \in Figures => w.asks = "stats"

\* A page that is past the medal that was earned knows of none; a version being
\* evaluated is of the season shown, and what was found to be met stays met.
PageKnows(w) ==
  /\ w.at \in Shown \cup {"progress"} => w.told = {}
  /\ w.at \in Shown => w.had = {}
  /\ w.at \in {"progress", "unlockedUsers"} /\ w.had # {} => HasMedal(w.season)
  /\ w.at \in {"evaluate", "subscription"} => Existing(w) /\ medal[w.version].season = w.season
  /\ w.at = "subscription" /\ w.met => Meets(medal[w.version].ask, visits, unlocks, Deeds)

\* Is the user counted, by given facts?
CountedBy(w, V, U, C) ==
  LET a == medal[w.version].ask IN
  \/ a.visits > 0 /\ Cardinality(Within(V, w.span)) >= a.visits
  \/ a.drinks > 0 /\ Cardinality(Drinks(Within(U, w.span))) >= a.drinks
  \/ \E t \in a.missions \cap Template : [season |-> medal[w.version].season,
        generation |-> medal[w.version].generation, template |-> t] \in C

\* The bar's figures: whoever the facts read count has started by them.
FiguresKnow(w) ==
  /\ w.at = "unlockedUsers" => w.told = {} /\ (w.version # None => Existing(w))
  /\ w.at \in {"startedUsers", "breakdown"} =>
       Existing(w) /\ (w.had # {} => "unlocked" \in w.told)
  /\ w.at = "startedUsers" => w.told \subseteq {"unlocked"}
  /\ w.at = "breakdown" =>
       /\ w.told \subseteq {"unlocked", "started", "inProgress"}
       /\ {"unlocked", "inProgress"} \cap w.told # {"unlocked", "inProgress"}
       /\ w.saw = <<w.saw[1], w.saw[2], w.saw[3]>>
       /\ CountedBy(w, w.saw[1], w.saw[2], w.saw[3]) => "started" \in w.told

\* What the answer says (AnswersAgree).
Agrees(w) == w.at = "answered" =>
  /\ w.asks \in Page \cup {"detail"} =>
       /\ w.had # {} => "unlocked" \in w.told
       /\ "unlocked" \in w.told => <<w.season, w.version>> \in earned
       /\ "complete" \in w.told => Meets(medal[w.version].ask, visits, unlocks, Deeds)
       /\ "eligible" \in w.told => "complete" \in w.told /\ "unlocked" \notin w.told
       /\ "available" \in w.told => medal[w.version].season = w.season
  /\ w.asks = "medals" => w.had \subseteq w.saw.medals
  /\ w.asks = "feed" => \A row \in w.saw.rows : Backed(row.template)
  /\ w.asks = "stats" =>
       /\ w.had # {} => "unlocked" \in w.told /\ "inProgress" \notin w.told
       /\ "counted" \in w.told => "started" \in w.told \/ "acted" \in w.told

Fields(w) ==
  /\ w = [at |-> w.at, asks |-> w.asks, had |-> w.had, season |-> w.season, span |-> w.span,
          version |-> w.version, met |-> w.met, saw |-> w.saw, told |-> w.told]
  /\ w.met \in BOOLEAN /\ w.had \subseteq earned
  /\ w.at = "feed" => w.saw = [rows |-> w.saw.rows, medals |-> w.saw.medals]
Knowing(w) == Fields(w) /\ Kinds(w) /\ PageKnows(w) /\ FiguresKnow(w) /\ Agrees(w)


\* What is known of an answer is what AnswersAgree says of it.
LEMMA KnowingAgrees == Knowing(view) => AnswersAgree
<1> SUFFICES ASSUME Knowing(view) PROVE AnswersAgree
  OBVIOUS
<1>1. Agrees(view) BY DEF Knowing
<1>2. MedalsShown BY <1>1 DEF MedalsShown, Answered, At, Says, Agrees, Page
<1>3. ProgressShown BY <1>1 DEF ProgressShown, Answered, At, Says, Asks, Agrees, Page
<1>4. FiguresAgree BY <1>1 DEF FiguresAgree, Answered, At, Says, Agrees
<1>5. QED BY <1>2, <1>3, <1>4 DEF AnswersAgree

\* Nothing was asked yet.
LEMMA KnowingInit == view = NoView => Knowing(view)
BY DEF NoView, Knowing, Fields, Kinds, PageKnows, FiguresKnow, Agrees, Shown, Page, Figures

\* An answer only reads.
LEMMA OnlyAnswers ==
  ASSUME NEW w, UNCHANGED vars, view' = w, Knowing(w) PROVE Knowing(view)'
<1>1. UNCHANGED <<medal, visits, unlocks, parties, earned>>
  BY DEF vars, config, evidence, grants
<1>2. Deeds' = Deeds BY <1>1 DEF Deeds, Backed
<1>3. Fields(view)' /\ Kinds(view)' BY <1>1 DEF Knowing, Fields, Kinds
<1>4. PageKnows(view)' BY <1>1, <1>2 DEF Knowing, PageKnows, Existing, HasMedal
<1>5. FiguresKnow(view)' BY <1>1 DEF Knowing, FiguresKnow, Existing, CountedBy, Within, Drinks
<1>6. Agrees(view)' BY <1>1, <1>2 DEF Knowing, Agrees, Backed
<1>7. QED BY <1>3, <1>4, <1>5, <1>6 DEF Knowing

\* What is known stays known while hooks and changes go on: medals are kept,
\* versions stay as they are and what was done stays done.
LEMMA KnowingStays ==
  ASSUME IInv, [Next]_vars, Grows, Countable', ~At("answered"), UNCHANGED view, Knowing(view)
  PROVE  Knowing(view)'
<1>1. earned \subseteq earned'
  <2>1. CASE \E r \in Request : Grant(r) BY <2>1 DEF Grant, Give, grants
  <2>2. QED BY <2>1, GrantsOnlyByGrant DEF grants
<1>2. Fields(view)' /\ Kinds(view)' BY <1>1 DEF Knowing, Fields, Kinds
<1>3. Existing(view) => Existing(view)' /\ medal'[view.version] = medal[view.version]
  BY DEF Existing, Grows
<1>4. Existing(view) /\ Meets(medal[view.version].ask, visits, unlocks, Deeds) =>
        Meets(medal'[view.version].ask, visits', unlocks', Deeds')
  BY StaysMet DEF Existing, IInv
<1>5. HasMedal(view.season) => HasMedal(view.season)' BY <1>1 DEF HasMedal
<1>6. PageKnows(view)' BY <1>3, <1>4, <1>5 DEF Knowing, PageKnows
<1>7. Existing(view) => \A V, U, C : CountedBy(view, V, U, C) <=> CountedBy(view, V, U, C)'
  BY <1>3 DEF CountedBy, Within, Drinks
<1>8. FiguresKnow(view)' BY <1>3, <1>7 DEF Knowing, FiguresKnow
<1>9. Agrees(view)' BY DEF Agrees, At
<1>10. QED BY <1>2, <1>6, <1>8, <1>9 DEF Knowing

\* The version that is official for a season is one of its activated ones.
LEMMA ActiveExists ==
  ASSUME TypeOK, NEW s, ActiveFor(s)
  PROVE  official \in Version /\ medal[official] # None /\ medal[official].season = s
BY ConstantsOK DEF TypeOK, BarTypes, ActiveFor

\* A medal that is held is of an activated version of its season, and was earned.
LEMMA MedalExists ==
  ASSUME IInv, NEW m \in earned
  PROVE  /\ m[2] \in Version /\ medal[m[2]] # None /\ medal[m[2]].season = m[1]
         /\ Meets(medal[m[2]].ask, visits, unlocks, Deeds) /\ <<m[1], m[2]>> \in earned
<1>1. m \in Season \X Version BY DEF IInv, TypeOK, UserTypes
<1>2. m = <<m[1], m[2]>> BY <1>1
<1>3. QED BY <1>1, <1>2 DEF IInv, MedalOnce, MedalEarned

\* The fields of the view when nothing is asked.
LEMMA NoViewIs ==
  /\ NoView.at = "idle" /\ NoView.had = {} /\ NoView.told = {} /\ NoView.version = None
  /\ NoView.season = None /\ NoView.met = FALSE
  /\ NoView = [at |-> NoView.at, asks |-> NoView.asks, had |-> NoView.had,
       season |-> NoView.season, span |-> NoView.span, version |-> NoView.version,
       met |-> NoView.met, saw |-> NoView.saw, told |-> NoView.told]
BY DEF NoView

\* Each first query: what it reads, and where the answer goes on.
LEMMA AsksKnowing ==
  ASSUME IInv, \/ AskBar \/ AskPublic \/ AskFeed \/ AskMedals \/ AskCollection
               \/ \E m \in earned : AskDetail(m)
               \/ \E s \in Season : AskSeason(s) \/ AskStats(s),
         UNCHANGED vars
  PROVE  Knowing(view)'
<1> USE DEF Knowing, Kinds, PageKnows, FiguresKnow, Agrees, Shown, Page, Figures
<1>1. CASE AskBar
  <2>1. CASE earned = {}
    <3>0. PICK w : w = [NoView EXCEPT !.asks = "bar", !.had = earned, !.at = "visible"] OBVIOUS
    <3>1. w.at = "visible" /\ w.asks = "bar" /\ w.had = earned /\ w.told = {} /\ Fields(w)
      BY NoViewIs, <3>0 DEF Fields
    <3>2. view' = w BY <3>0, <1>1, <2>1 DEF AskBar
    <3>3. Knowing(w) BY <2>1, <3>1
    <3>4. QED BY <3>2, <3>3, OnlyAnswers
  <2>2. ASSUME NEW m \in earned,
               view' = [NoView EXCEPT !.asks = "bar", !.had = earned, !.season = m[1], !.at = "progress"]
        PROVE  Knowing(view)'
    <3>0. PICK w : w = [NoView EXCEPT !.asks = "bar", !.had = earned, !.season = m[1],
                              !.at = "progress"]
      OBVIOUS
    <3>1. /\ w.at = "progress" /\ w.asks = "bar" /\ w.told = {} /\ w.season = m[1]
          /\ Fields(w)
      BY NoViewIs, <3>0 DEF Fields
    <3>2. view' = w BY <3>0, <2>2
    <3>3. Knowing(w) BY <3>1 DEF HasMedal
    <3>4. QED BY <3>2, <3>3, OnlyAnswers
  <2>3. QED BY <1>1, <2>1, <2>2 DEF AskBar
<1>2. CASE AskPublic
  <2>0. PICK w : w = [NoView EXCEPT !.asks = "public", !.at = "display"] OBVIOUS
  <2>1. w.at = "display" /\ w.asks = "public" /\ w.had = {} /\ w.told = {} /\ Fields(w)
    BY NoViewIs, <2>0 DEF Fields
  <2>2. view' = w BY <2>0, <1>2 DEF AskPublic
  <2>3. Knowing(w) BY <2>1
  <2>4. QED BY <2>2, <2>3, OnlyAnswers
<1>3. CASE AskFeed
  <2>0. PICK w : w = [NoView EXCEPT !.asks = "feed", !.at = "feed", !.had = earned,
       !.saw = [rows |-> UNION {Row(s, missions[s]) : s \in Running},
                medals |-> {m \in earned : m[1] \in Running}]] OBVIOUS
  <2>1. w.at = "feed" /\ w.asks = "feed" /\ Fields(w)
    BY NoViewIs, <2>0 DEF Fields
  <2>2. view' = w BY <2>0, <1>3 DEF AskFeed
  <2>3. Knowing(w) BY <2>1
  <2>4. QED BY <2>2, <2>3, OnlyAnswers
<1>4. CASE AskMedals
  <2>0. PICK w : w = [NoView EXCEPT !.asks = "medals", !.at = "medals", !.had = earned] OBVIOUS
  <2>1. w.at = "medals" /\ w.asks = "medals" /\ Fields(w)
    BY NoViewIs, <2>0 DEF Fields
  <2>2. view' = w BY <2>0, <1>4 DEF AskMedals
  <2>3. Knowing(w) BY <2>1
  <2>4. QED BY <2>2, <2>3, OnlyAnswers
<1>5. CASE AskCollection
  <2>0. PICK w : w = [NoView EXCEPT !.asks = "medals", !.at = "answered", !.had = earned,
                            !.saw = [rows |-> {}, medals |-> earned]] OBVIOUS
  <2>1. w.at = "answered" /\ w.asks = "medals" /\ w.had = earned /\ w.saw.medals = earned /\ Fields(w)
    BY NoViewIs, <2>0 DEF Fields
  <2>2. view' = w BY <2>0, <1>5 DEF AskCollection
  <2>3. Knowing(w) BY <2>1
  <2>4. QED BY <2>2, <2>3, OnlyAnswers
<1>6. ASSUME NEW m \in earned, AskDetail(m) PROVE Knowing(view)'
  <2>0. PICK w : w = [NoView EXCEPT !.asks = "detail", !.at = "answered", !.had = {m},
       !.season = m[1], !.version = m[2], !.told = {"available", "unlocked", "complete"}] OBVIOUS
  <2>1. /\ w.at = "answered" /\ w.asks = "detail" /\ w.had = {m} /\ w.season = m[1]
        /\ w.version = m[2] /\ w.told = {"available", "unlocked", "complete"}
        /\ Fields(w)
    BY NoViewIs, <2>0 DEF Fields
  <2>2. view' = w BY <2>0, <1>6 DEF AskDetail
  <2>3. Knowing(w) BY <2>1, MedalExists
  <2>4. QED BY <2>2, <2>3, OnlyAnswers
<1>7. ASSUME NEW s \in Season, AskSeason(s) PROVE Knowing(view)'
  <2>0. PICK w : w = [NoView EXCEPT !.asks = "season", !.season = s, !.at = "progress",
                            !.had = {m \in earned : m[1] = s}] OBVIOUS
  <2>1. /\ w.at = "progress" /\ w.asks = "season" /\ w.had = {m \in earned : m[1] = s}
        /\ w.season = s /\ w.told = {}
        /\ Fields(w)
    BY NoViewIs, <2>0 DEF Fields
  <2>2. view' = w BY <2>0, <1>7 DEF AskSeason
  <2>3. Knowing(w) BY <2>1 DEF HasMedal
  <2>4. QED BY <2>2, <2>3, OnlyAnswers
<1>8. ASSUME NEW s \in Season, AskStats(s) PROVE Knowing(view)'
  <2>0. PICK w : w = [NoView EXCEPT !.asks = "stats", !.season = s, !.span = window[s],
       !.version = IF ActiveFor(s) THEN official ELSE None,
       !.had = {m \in earned : m[1] = s}, !.at = "unlockedUsers"] OBVIOUS
  <2>1. /\ w.at = "unlockedUsers" /\ w.asks = "stats" /\ w.had = {m \in earned : m[1] = s}
        /\ w.season = s /\ w.told = {} /\ w.version = IF ActiveFor(s) THEN official ELSE None
        /\ Fields(w)
    BY NoViewIs, <2>0 DEF Fields
  <2>2. view' = w BY <2>0, <1>8 DEF AskStats
  <2>3. w.version # None => Existing(w)
    BY <2>1, ActiveExists DEF IInv, Existing
  <2>4. w.had # {} => HasMedal(w.season) BY <2>1 DEF HasMedal
  <2>5. Knowing(w) BY <2>1, <2>3, <2>4
  <2>6. QED BY <2>2, <2>5, OnlyAnswers
<1>9. QED BY <1>1, <1>2, <1>3, <1>4, <1>5, <1>6, <1>7, <1>8


\* A page goes on: what it shows is found out in several queries.
LEMMA PageKnowing ==
  ASSUME IInv, Knowing(view), UNCHANGED vars,
         VisibleSeason \/ DisplaySeason \/ DisplayAny \/ Displayed \/ ActiveVersion
  PROVE  Knowing(view)'
<1> USE DEF Kinds, PageKnows, FiguresKnow, Agrees, Shown, Page, Figures, At
<1>f. Fields(view) /\ Kinds(view) /\ PageKnows(view) BY DEF Knowing
<1>1. ASSUME NEW l \in {"display", "displayAny"}, view' = [view EXCEPT !.at = l],
             view.at \in Shown, view.asks \in {"bar", "public"}
      PROVE  Knowing(view)'
  <2>0. PICK w : w = [view EXCEPT !.at = l] OBVIOUS
  <2>1. /\ w.at = l /\ w.asks = view.asks /\ w.had = view.had /\ w.told = view.told /\ Fields(w)
    BY <1>f, <2>0 DEF Fields
  <2>2. Knowing(w) BY <1>f, <1>1, <2>1 DEF Knowing
  <2>3. QED BY <1>1, <2>0, <2>2, OnlyAnswers
<1>2. ASSUME Unavailable, view.at \in Shown PROVE Knowing(view)'
  <2>0. PICK w : w = [view EXCEPT !.at = "answered", !.season = None, !.version = None] OBVIOUS
  <2>1. /\ w.at = "answered" /\ w.asks = view.asks /\ w.had = view.had /\ w.told = view.told
        /\ Fields(w)
    BY <1>f, <2>0 DEF Fields
  <2>2. w.had = {} /\ w.told = {} /\ w.asks \in Page \cup {"public"} BY <1>f, <1>2, <2>1
  <2>3. Knowing(w) BY <2>1, <2>2 DEF Knowing
  <2>4. QED BY <1>2, <2>0, <2>3, OnlyAnswers DEF Unavailable
<1>3. CASE VisibleSeason
  <2>1. CASE Running = {} BY <1>f, <1>1, <1>3, <2>1 DEF VisibleSeason, Goes
  <2>2. CASE Running # {}
    <3>1. PICK s \in Running : view' = [view EXCEPT !.season = s, !.at = "progress"]
      BY <1>3, <2>2 DEF VisibleSeason
    <3>2. PICK w : w = [view EXCEPT !.season = s, !.at = "progress"] OBVIOUS
    <3>3. w.at = "progress" /\ w.asks = view.asks /\ w.had = view.had /\ w.told = view.told /\ Fields(w)
      BY <1>f, <3>2 DEF Fields
    <3>4. Knowing(w) BY <1>f, <1>3, <3>3 DEF Knowing, VisibleSeason
    <3>5. QED BY <3>1, <3>2, <3>4, OnlyAnswers
  <2>3. QED BY <2>1, <2>2
<1>4. ASSUME NEW s, NEW v, view' = [view EXCEPT !.season = s, !.version = v, !.at = "displayed"],
             view.at \in {"display", "displayAny"}
      PROVE  Knowing(view)'
  <2>1. PICK w : w = [view EXCEPT !.season = s, !.version = v, !.at = "displayed"] OBVIOUS
  <2>2. w.at = "displayed" /\ w.asks = view.asks /\ w.had = view.had /\ w.told = view.told /\ Fields(w)
    BY <1>f, <2>1 DEF Fields
  <2>3. Knowing(w) BY <1>f, <1>4, <2>2 DEF Knowing
  <2>4. QED BY <1>4, <2>1, <2>3, OnlyAnswers
<1>5. CASE DisplaySeason
  <2>1. CASE Goes("displayAny") BY <1>f, <1>1, <1>5, <2>1 DEF DisplaySeason, Goes
  <2>2. CASE ~Goes("displayAny")
    <3>1. PICK s \in Running :
            view' = [view EXCEPT !.season = s, !.version = official, !.at = "displayed"]
      BY <1>5, <2>2 DEF DisplaySeason
    <3>2. QED BY <1>4, <1>5, <3>1 DEF DisplaySeason
  <2>3. QED BY <2>1, <2>2
<1>6. CASE DisplayAny BY <1>2, <1>4, <1>6 DEF DisplayAny
<1>7. CASE Displayed
  <2>1. CASE view.asks = "public"
    <3>1. PICK w : w = [view EXCEPT !.at = "answered", !.told = {"available"}] OBVIOUS
    <3>2. w.at = "answered" /\ w.asks = view.asks /\ Fields(w) BY <1>f, <3>1 DEF Fields
    <3>3. Knowing(w) BY <2>1, <3>2 DEF Knowing
    <3>4. QED BY <1>7, <2>1, <3>1, <3>3, OnlyAnswers DEF Displayed, Tells
  <2>2. CASE view.asks # "public"
    <3>1. PICK w : w = [view EXCEPT !.asks = "again", !.version = None, !.at = "progress"] OBVIOUS
    <3>2. w.at = "progress" /\ w.asks = "again" /\ w.had = view.had /\ w.told = view.told /\ Fields(w)
      BY <1>f, <3>1 DEF Fields
    <3>3. Knowing(w) BY <1>f, <1>7, <3>2 DEF Knowing, Displayed
    <3>4. QED BY <1>7, <2>2, <3>1, <3>3, OnlyAnswers DEF Displayed
  <2>3. QED BY <2>1, <2>2
<1>8. CASE ActiveVersion
  <2>1. CASE ActiveFor(view.season)
    <3>1. PICK w : w = [view EXCEPT !.at = "evaluate", !.version = official] OBVIOUS
    <3>2. /\ w.at = "evaluate" /\ w.asks = view.asks /\ w.had = view.had /\ w.told = view.told
          /\ w.version = official /\ w.season = view.season /\ Fields(w)
      BY <1>f, <3>1 DEF Fields
    <3>3. Existing(w) /\ medal[w.version].season = w.season
      BY <2>1, <3>2, ActiveExists DEF IInv, Existing
    <3>4. Knowing(w) BY <1>f, <1>8, <3>2, <3>3 DEF Knowing, ActiveVersion
    <3>5. QED BY <1>8, <2>1, <3>1, <3>4, OnlyAnswers DEF ActiveVersion
  <2>2. CASE ~ActiveFor(view.season)
    <3>1. CASE view.asks = "bar" BY <1>f, <1>1, <1>8, <2>2, <3>1 DEF ActiveVersion, Goes
    <3>2. CASE view.asks # "bar" BY <1>2, <1>8, <2>2, <3>2 DEF ActiveVersion
    <3>3. QED BY <3>1, <3>2
  <2>3. QED BY <2>1, <2>2
<1>9. QED BY <1>3, <1>5, <1>6, <1>7, <1>8

\* The season's page: the medal that was earned, or else what there is to earn.
LEMMA ProgressKnowing ==
  ASSUME IInv, Knowing(view), UNCHANGED vars, Progress \/ EvaluateVersion \/ Subscription
  PROVE  Knowing(view)'
<1> USE DEF Kinds, PageKnows, FiguresKnow, Agrees, Shown, Page, Figures, At
<1>f. Fields(view) /\ Kinds(view) /\ PageKnows(view) BY DEF Knowing
<1>1. CASE Progress /\ HasMedal(view.season)
  <2>1. PICK m \in earned : /\ m[1] = view.season
                            /\ view' = [view EXCEPT !.at = "answered", !.version = m[2],
                                          !.told = {"available", "unlocked", "complete"}]
    BY <1>1 DEF Progress
  <2>2. PICK w : w = [view EXCEPT !.at = "answered", !.version = m[2],
                        !.told = {"available", "unlocked", "complete"}] OBVIOUS
  <2>3. /\ w.at = "answered" /\ w.asks = view.asks /\ w.season = view.season /\ w.version = m[2]
        /\ w.told = {"available", "unlocked", "complete"} /\ Fields(w)
    BY <1>f, <2>2 DEF Fields
  <2>e. /\ medal[m[2]].season = m[1] /\ <<m[1], m[2]>> \in earned
        /\ Meets(medal[m[2]].ask, visits, unlocks, Deeds)
    BY MedalExists
  <2>k. view.asks \in Page \cup {"detail"} BY <1>f, <1>1 DEF Progress
  <2>4. Agrees(w) BY <2>k, <2>1, <2>3, <2>e
  <2>5. Knowing(w) BY <2>3, <2>4 DEF Knowing
  <2>6. QED BY <2>1, <2>2, <2>5, OnlyAnswers
<1>2. CASE Progress /\ ~HasMedal(view.season)
  <2>1. PICK w : w = [view EXCEPT !.at = "active", !.span = window[view.season]] OBVIOUS
  <2>2. w.at = "active" /\ w.asks = view.asks /\ w.had = view.had /\ w.told = view.told /\ Fields(w)
    BY <1>f, <2>1 DEF Fields
  <2>3. Knowing(w) BY <1>f, <1>2, <2>2 DEF Knowing, Progress
  <2>4. QED BY <1>2, <2>1, <2>3, OnlyAnswers DEF Progress
<1>3. CASE EvaluateVersion
  <2> DEFINE found == Meets(medal[view.version].ask, Within(visits, view.span),
                            Within(unlocks, view.span), CompletedFor(view.version))
  <2>1. found \in BOOLEAN BY DEF Meets
  <2>2. found => Meets(medal[view.version].ask, visits, unlocks, Deeds)
    <3>1. view.version \in Version /\ medal[view.version] # None
      BY <1>f, <1>3 DEF EvaluateVersion, Existing
    <3>2. medal[view.version].ask \in Ask BY <3>1 DEF IInv, TypeOK, BarTypes, Medals
    <3>3. CompletedFor(view.version) \subseteq Deeds
      BY DEF CompletedFor, IInv, ProgressBacked, Deeds
    <3>4. QED BY <3>2, <3>3, MeetsGrows DEF Within, IInv, Countable
  <2>3. view' = [view EXCEPT !.at = "subscription", !.met = found]
    BY <1>3 DEF EvaluateVersion
  <2> HIDE DEF found
  <2>4. PICK w : w = [view EXCEPT !.at = "subscription", !.met = found] OBVIOUS
  <2>5. /\ w.at = "subscription" /\ w.asks = view.asks /\ w.had = view.had /\ w.told = view.told
        /\ w.season = view.season /\ w.version = view.version
    BY <1>f, <2>4 DEF Fields
  <2>6. Fields(w) BY <1>f, <2>1, <2>4 DEF Fields
  <2>7. w.met => found BY <1>f, <2>4, <2>1 DEF Fields
  <2>8. Knowing(w) BY <1>f, <1>3, <2>2, <2>5, <2>6, <2>7 DEF Knowing, EvaluateVersion, Existing
  <2>9. QED BY <2>3, <2>4, <2>8, OnlyAnswers
<1>4. CASE Subscription
  <2>1. PICK words : words = {"available"} \cup {x \in {"complete"} : view.met}
                         \cup {x \in {"eligible"} : view.met /\ operational /\ today \in view.span}
    OBVIOUS
  <2>2. PICK w : w = [view EXCEPT !.at = "answered", !.told = words] OBVIOUS
  <2>3. /\ w.at = "answered" /\ w.asks = view.asks /\ w.had = view.had /\ w.told = words
        /\ w.season = view.season /\ w.version = view.version /\ Fields(w)
    BY <1>f, <2>2 DEF Fields
  <2>4. /\ "unlocked" \notin words /\ ("complete" \in words => view.met)
        /\ "eligible" \in words => "complete" \in words
    BY <2>1
  <2>5. Agrees(w) BY <1>f, <1>4, <2>3, <2>4 DEF Subscription
  <2>6. Knowing(w) BY <2>3, <2>5 DEF Knowing
  <2>7. QED BY <1>4, <2>1, <2>2, <2>6, OnlyAnswers DEF Subscription, Tells
<1>5. QED BY <1>1, <1>2, <1>3, <1>4

\* Lists of seasons and medals.
LEMMA ListKnowing ==
  ASSUME IInv, Knowing(view), UNCHANGED vars, FeedProgress \/ MedalRows \/ Close
  PROVE  Knowing(view)'
<1> USE DEF Kinds, PageKnows, FiguresKnow, Agrees, Shown, Page, Figures, At
<1>f. Fields(view) /\ Kinds(view) /\ PageKnows(view) BY DEF Knowing
<1>1. CASE FeedProgress
  <2>1. PICK w : w = [view EXCEPT !.at = "answered", !.saw.rows = @ \cap completed] OBVIOUS
  <2>2. w.at = "answered" /\ w.asks = view.asks /\ w.saw.rows \subseteq completed /\ Fields(w)
    BY <1>f, <1>1, <2>1 DEF Fields, FeedProgress
  <2>3. Knowing(w) BY <1>f, <1>1, <2>2 DEF Knowing, FeedProgress, IInv, ProgressBacked
  <2>4. QED BY <1>1, <2>1, <2>3, OnlyAnswers DEF FeedProgress
<1>2. CASE MedalRows
  <2>1. PICK w : w = [view EXCEPT !.at = "answered", !.saw = [rows |-> {}, medals |-> earned]] OBVIOUS
  <2>2. w.at = "answered" /\ w.asks = view.asks /\ w.saw.medals = earned /\ Fields(w)
    BY <1>f, <2>1 DEF Fields
  <2>3. Knowing(w) BY <1>f, <1>2, <2>2 DEF Knowing, MedalRows, Fields
  <2>4. QED BY <1>2, <2>1, <2>3, OnlyAnswers DEF MedalRows
<1>3. CASE Close
  <2>1. PICK w : w = NoView OBVIOUS
  <2>2. w.at = "idle" /\ w.had = {} /\ w.told = {} /\ Fields(w) BY <2>1, NoViewIs DEF Fields
  <2>3. Knowing(w) BY <2>2 DEF Knowing
  <2>4. QED BY <1>3, <2>1, <2>3, OnlyAnswers DEF Close
<1>4. QED BY <1>1, <1>2, <1>3


\* Who is counted for a condition has started.
LEMMA CountedStarted ==
  ASSUME IInv, Existing(view), CountedBy(view, visits, unlocks, completed)
  PROVE  Started(medal[view.version].ask) = {TRUE}
<1> DEFINE a == medal[view.version].ask
<1>1. a.visits \in Nat /\ a.drinks \in Nat /\ a.missions \subseteq Template
  <2>1. a \in Ask BY DEF Existing, IInv, TypeOK, BarTypes, Medals
  <2>2. QED BY <2>1, ConstantsOK
<1>2. Cardinality({}) = 0 BY FS_EmptySet
<1>3. a.visits > 0 /\ Cardinality(Within(visits, view.span)) >= a.visits =>
        Within(visits, view.span) # {}
  BY <1>1, <1>2
<1>4. a.drinks > 0 /\ Cardinality(Drinks(Within(unlocks, view.span))) >= a.drinks =>
        Within(unlocks, view.span) # {}
  <2>1. Drinks({}) = {} BY DEF Drinks
  <2>2. QED BY <1>1, <1>2, <2>1
<1>5. (\E t \in a.missions \cap Template : [season |-> medal[view.version].season,
        generation |-> medal[view.version].generation, template |-> t] \in completed) =>
        a.missions \cap CompletedFor(view.version) # {}
  BY DEF CompletedFor
<1>6. QED BY <1>3, <1>4, <1>5 DEF CountedBy, Started

\* The bar's figures are told from the same version and the same window, and
\* whether the facts are still the same is noted.
LEMMA FiguresKnowing ==
  ASSUME IInv, Knowing(view), UNCHANGED vars, UnlockedUsers \/ StartedUsers \/ Breakdown
  PROVE  Knowing(view)'
<1> USE DEF Kinds, PageKnows, FiguresKnow, Agrees, Shown, Page, Figures, At
<1>f. Fields(view) /\ Kinds(view) /\ PageKnows(view) /\ FiguresKnow(view) BY DEF Knowing
<1>1. CASE UnlockedUsers
  <2>1. PICK l : l = IF view.version = None THEN "answered" ELSE "startedUsers" OBVIOUS
  <2>2. PICK words : words = {x \in {"unlocked"} : HasMedal(view.season)} OBVIOUS
  <2>3. PICK w : w = [view EXCEPT !.at = l, !.told = words] OBVIOUS
  <2>4. /\ w.at = l /\ w.asks = view.asks /\ w.had = view.had /\ w.told = words
        /\ w.season = view.season /\ w.version = view.version
    BY <1>f, <2>3 DEF Fields
  <2>5. Fields(w) BY <1>f, <2>1, <2>3 DEF Fields
  <2>6. w.had # {} => "unlocked" \in words BY <1>f, <1>1, <2>2, <2>4 DEF UnlockedUsers
  <2>7. l = "startedUsers" => Existing(w) BY <1>f, <1>1, <2>1, <2>4 DEF UnlockedUsers, Existing
  <2>8. Knowing(w) BY <1>f, <1>1, <2>1, <2>2, <2>4, <2>5, <2>6, <2>7 DEF Knowing, UnlockedUsers
  <2>9. QED BY <1>1, <2>1, <2>2, <2>3, <2>8, OnlyAnswers DEF UnlockedUsers
<1>2. CASE StartedUsers
  <2>1. PICK begun \in Started(medal[view.version].ask) :
          view' = [view EXCEPT !.at = "breakdown", !.saw = Facts,
            !.told = @ \cup {x \in {"started"} : begun}
                       \cup {x \in {"inProgress"} : begun /\ "unlocked" \notin view.told}]
    BY <1>2 DEF StartedUsers
  <2>2. PICK words : words = view.told \cup {x \in {"started"} : begun}
                       \cup {x \in {"inProgress"} : begun /\ "unlocked" \notin view.told}
    OBVIOUS
  <2>3. PICK w : w = [view EXCEPT !.at = "breakdown", !.saw = Facts, !.told = words] OBVIOUS
  <2>4. /\ w.at = "breakdown" /\ w.asks = view.asks /\ w.had = view.had /\ w.told = words
        /\ w.span = view.span /\ w.version = view.version /\ w.saw = Facts /\ Fields(w)
    BY <1>f, <2>3 DEF Fields
  <2>5. Existing(view) /\ Existing(w) BY <1>f, <1>2, <2>4 DEF StartedUsers, Existing
  <2>6. CountedBy(w, visits, unlocks, completed) => "started" \in words
    <3>1. CountedBy(w, visits, unlocks, completed) => CountedBy(view, visits, unlocks, completed)
      BY <2>4 DEF CountedBy
    <3>2. CountedBy(view, visits, unlocks, completed) => begun = TRUE
      BY <2>1, <2>5, CountedStarted
    <3>3. QED BY <2>2, <3>1, <3>2
  <2>7. /\ w.saw = <<w.saw[1], w.saw[2], w.saw[3]>>
        /\ w.saw[1] = visits /\ w.saw[2] = unlocks /\ w.saw[3] = completed
    BY <2>4 DEF Facts
  <2>8. /\ words \subseteq {"unlocked", "started", "inProgress"}
        /\ "inProgress" \in words => "unlocked" \notin words
        /\ w.had # {} => "unlocked" \in words
    BY <1>f, <1>2, <2>2, <2>4 DEF StartedUsers
  <2>9. FiguresKnow(w) BY <2>4, <2>5, <2>6, <2>7, <2>8
  <2>10. Knowing(w) BY <1>f, <1>2, <2>4, <2>9 DEF Knowing, StartedUsers
  <2>11. QED BY <2>1, <2>2, <2>3, <2>10, OnlyAnswers
<1>3. CASE Breakdown
  <2>1. PICK words : words = view.told
                       \cup {x \in {"counted"} : Counted(medal[view.version].ask)}
                       \cup {x \in {"acted"} : view.saw # Facts}
    OBVIOUS
  <2>2. PICK w : w = [view EXCEPT !.at = "answered", !.saw = <<>>, !.told = words] OBVIOUS
  <2>3. /\ w.at = "answered" /\ w.asks = view.asks /\ w.had = view.had /\ w.told = words /\ Fields(w)
    BY <1>f, <2>2 DEF Fields
  <2>4. view.saw = Facts /\ Counted(medal[view.version].ask) => "started" \in words
    <3> SUFFICES ASSUME view.saw = Facts, Counted(medal[view.version].ask)
                 PROVE  "started" \in view.told
      BY <2>1
    <3>1. view.saw[1] = visits /\ view.saw[2] = unlocks /\ view.saw[3] = completed
      BY DEF Facts
    <3>2. CountedBy(view, visits, unlocks, completed)
      BY DEF CountedBy, Counted, CompletedFor
    <3>3. QED BY <1>f, <1>3, <3>1, <3>2 DEF Breakdown
  <2>5. /\ view.told \subseteq {"unlocked", "started", "inProgress"}
        /\ "inProgress" \in view.told => "unlocked" \notin view.told
        /\ view.had # {} => "unlocked" \in view.told
    BY <1>f, <1>3 DEF Breakdown
  <2>6. /\ "inProgress" \in words => "unlocked" \notin words
        /\ w.had # {} => "unlocked" \in words
        /\ "counted" \in words => "started" \in words \/ "acted" \in words
    BY <2>1, <2>3, <2>4, <2>5
  <2>7. Agrees(w) BY <1>f, <1>3, <2>3, <2>6 DEF Breakdown
  <2>8. Knowing(w) BY <2>3, <2>7 DEF Knowing
  <2>9. QED BY <1>3, <2>1, <2>2, <2>8, OnlyAnswers DEF Breakdown
<1>4. QED BY <1>1, <1>2, <1>3

\* Whoever holds a medal is told so and of which, nothing is shown as done, met or
\* due that the user did not do, and the bar's figures agree with each other.
THEOREM AnswersAgreeHolds == ViewsSpec => []AnswersAgree
<1> DEFINE Inv == IInv /\ Knowing(view)
<1>1. ViewsInit => Inv BY InitIInv, KnowingInit DEF ViewsInit
<1>2. Inv /\ [ViewsNext]_<<vars, view>> => Inv'
  <2> SUFFICES ASSUME Inv, [ViewsNext]_<<vars, view>> PROVE Inv'
    OBVIOUS
  <2>1. [Next]_vars BY DEF ViewsNext, View
  <2>2. IInv' BY <2>1, StepIInv
  <2>3. CASE ~At("answered") /\ Next /\ UNCHANGED view
    <3>1. Grows /\ Countable' BY <2>1, StepTypes, CountableStep DEF IInv
    <3>2. QED BY <2>1, <2>2, <2>3, <3>1, KnowingStays
  <2>4. CASE View
    BY <2>2, <2>4, AsksKnowing, PageKnowing, ProgressKnowing, ListKnowing, FiguresKnowing DEF View
  <2>5. CASE UNCHANGED <<vars, view>>
    <3>1. PICK w : w = view OBVIOUS
    <3>2. QED BY <2>2, <2>5, <3>1, OnlyAnswers
  <2>6. QED BY <2>3, <2>4, <2>5 DEF ViewsNext
<1>3. Inv => AnswersAgree BY KnowingAgrees
<1>4. QED BY <1>1, <1>2, <1>3, PTL DEF ViewsSpec

============================================================================
