--------------------------- MODULE QrRedeemProofs ---------------------------
(***************************************************************************)
(* Proofs about QrRedeem, for any number of users, drinks, codes and       *)
(* requests: no overlap of scans pays an unlock twice, a spent code always *)
(* has the unlock it was spent on, and the unlocks behave as PayOnce says. *)
(***************************************************************************)
EXTENDS QrRedeem, FiniteSetTheorems, TLAPS

\* Open transactions never work on the same session row or the same unlock, and
\* none of them is for an unlock that is already committed.
Exclusive ==
  /\ \A r \in Request : pc[r] = "redeeming" => drink[r] \notin unlocked[user[r]]
  /\ \A q, r \in Request : pc[q] = "redeeming" /\ pc[r] = "redeeming" /\ q # r =>
       code[q] # code[r] /\ <<user[q], drink[q]>> # <<user[r], drink[r]>>

IInv == TypeOK /\ Exclusive /\ PaidOnce /\ UsedHasUnlock

LEMMA InitIInv == Init => IInv
<1> SUFFICES ASSUME Init PROVE IInv
  OBVIOUS
<1>1. TypeOK BY DEF Init, TypeOK, Informed
<1>2. Exclusive /\ PaidOnce /\ UsedHasUnlock
  BY DEF Init, Exclusive, PaidOnce, UsedHasUnlock
<1>3. QED BY <1>1, <1>2 DEF IInv

-----------------------------------------------------------------------------
(* Type correctness, one lemma per kind of step *)

\* What TypeOK says of the requests.
LocalsOK ==
  /\ pc \in [Request -> {"idle", "create", "checked", "redeeming", "mission",
                         "upsert", "complete", "readXp", "writeXp"}]
  /\ user \in [Request -> User \cup {None}]
  /\ code \in [Request -> Code \cup {None}]
  /\ drink \in [Request -> Drink \cup {None}]
  /\ readXp \in [Request -> Nat]

\* A request that answers, and one that only moves on, leave all requests with
\* what they need to know.
LEMMA ReturnInformed ==
  ASSUME NEW r \in Request, TypeOK, Return(r), UNCHANGED <<status, drinkOf>>
  PROVE  LocalsOK' /\ \A q \in Request : Informed(q)'
<1>1. LocalsOK' BY DEF Return, Goto, TypeOK, LocalsOK
<1>2. \A q \in Request : Informed(q)' BY DEF Return, Goto, TypeOK, Informed
<1>3. QED BY <1>1, <1>2

LEMMA GotoInformed ==
  ASSUME NEW r \in Request, TypeOK, pc[r] \notin {"idle", "create"}, NEW l, Goto(r, l),
         UNCHANGED <<user, code, drink, drinkOf, status>>, l \notin {"idle", "create"}
  PROVE  \A q \in Request : Informed(q)'
BY DEF Goto, TypeOK, Informed

LEMMA StepType ==
  ASSUME NEW r \in Request, TypeOK, Step(r) \/ Fail(r)
  PROVE  TypeOK'
<1> USE DEF qr, rewards, missions, locals
<1>1. CASE RedeemBegin(r)
  <2>1. totalXp[user[r]] \in Nat /\ UNCHANGED <<qr, rewards, missions>>
    BY <1>1 DEF RedeemBegin, TypeOK, Informed
  <2>2. LocalsOK' /\ \A q \in Request : Informed(q)'
    <3>1. CASE drink[r] \in unlocked[user[r]]
      BY <1>1, <3>1, ReturnInformed DEF RedeemBegin
    <3>2. CASE drink[r] \notin unlocked[user[r]]
      <4>1. \A q \in Request : Informed(q)'
        BY <1>1, <3>2, GotoInformed DEF RedeemBegin
      <4>2. LocalsOK'
        BY <1>1, <2>1, <3>2 DEF RedeemBegin, Goto, TypeOK, LocalsOK
      <4>3. QED BY <4>1, <4>2
    <3>3. QED BY <3>1, <3>2
  <2>3. QED BY <2>1, <2>2 DEF TypeOK, LocalsOK
<1>2. CASE RedeemCommit(r)
  <2>1. user[r] \in User /\ code[r] \in Code /\ drink[r] \in Drink /\ status[code[r]] # "unborn"
    BY <1>2 DEF RedeemCommit, TypeOK, Informed
  <2>2. totalXp' \in [User -> Nat]
    BY <1>2, <2>1, RewardsAssumption DEF RedeemCommit, TypeOK
  <2>3. history' \in [User -> [Drink -> Nat]] /\ unlocked' \in [User -> SUBSET Drink]
    BY <1>2, <2>1 DEF RedeemCommit, TypeOK
  <2>4. \A q \in Request : Informed(q)'
    BY <1>2, <2>1 DEF RedeemCommit, Goto, TypeOK, Informed
  <2>5. QED BY <1>2, <2>1, <2>2, <2>3, <2>4 DEF RedeemCommit, Goto, TypeOK
<1>3. CASE MissionFind(r)
  <2>1. LocalsOK' /\ \A q \in Request : Informed(q)'
    <3>1. CASE Return(r)
      BY <1>3, <3>1, ReturnInformed DEF MissionFind
    <3>2. CASE Goto(r, "upsert") /\ UNCHANGED locals
      <4>1. \A q \in Request : Informed(q)'
        BY <1>3, <3>2, GotoInformed DEF MissionFind
      <4>2. LocalsOK'
        BY <3>2 DEF Goto, TypeOK, LocalsOK
      <4>3. QED BY <4>1, <4>2
    <3>3. QED BY <1>3, <3>1, <3>2 DEF MissionFind
  <2>2. QED BY <1>3, <2>1 DEF MissionFind, TypeOK, LocalsOK
<1>4. CASE MissionUpsert(r)
  <2>1. LocalsOK' /\ \A q \in Request : Informed(q)'
    <3>1. CASE Return(r)
      BY <1>4, <3>1, ReturnInformed DEF MissionUpsert
    <3>2. CASE Goto(r, "complete") /\ UNCHANGED locals
      <4>1. \A q \in Request : Informed(q)'
        BY <1>4, <3>2, GotoInformed DEF MissionUpsert
      <4>2. LocalsOK'
        BY <3>2 DEF Goto, TypeOK, LocalsOK
      <4>3. QED BY <4>1, <4>2
    <3>3. QED BY <1>4, <3>1, <3>2 DEF MissionUpsert
  <2>2. progress' \in [User -> Nat]
    <3>1. user[r] \in User
      BY <1>4 DEF MissionUpsert, TypeOK, Informed
    <3>2. QED BY <1>4, <3>1 DEF MissionUpsert, TypeOK
  <2>3. mission' \in [User -> {"NONE", "IN_PROGRESS", "COMPLETED", "CLAIMED"}]
    BY <1>4 DEF MissionUpsert, TypeOK
  <2>4. QED BY <1>4, <2>1, <2>2, <2>3 DEF MissionUpsert, TypeOK, LocalsOK
<1>5. CASE MissionComplete(r)
  <2>1. \A q \in Request : Informed(q)'
    BY <1>5, GotoInformed DEF MissionComplete
  <2>2. QED BY <1>5, <2>1 DEF MissionComplete, Goto, TypeOK
<1>6. CASE MissionReadXp(r)
  <2>1. \A q \in Request : Informed(q)'
    BY <1>6, GotoInformed DEF MissionReadXp
  <2>2. totalXp[user[r]] \in Nat
    BY <1>6 DEF MissionReadXp, TypeOK, Informed
  <2>3. QED BY <1>6, <2>1, <2>2 DEF MissionReadXp, Goto, TypeOK
<1>7. CASE MissionWriteXp(r)
  <2>1. LocalsOK' /\ \A q \in Request : Informed(q)'
    BY <1>7, ReturnInformed DEF MissionWriteXp
  <2>2. totalXp' \in [User -> Nat]
    <3>1. readXp[r] + MissionXp \in Nat
      BY <1>7, RewardsAssumption DEF TypeOK
    <3>2. QED BY <1>7, <3>1 DEF MissionWriteXp, TypeOK
  <2>3. QED BY <1>7, <2>1, <2>2 DEF MissionWriteXp, TypeOK, LocalsOK
<1>8. ASSUME NEW c \in Code, CreateInsert(r, c) PROVE TypeOK'
  <2>1. drink[r] \in Drink
    BY <1>8 DEF CreateInsert, TypeOK, Informed
  <2>2. \A q \in Request : Informed(q)'
    BY <1>8 DEF CreateInsert, Goto, Return, TypeOK, Informed
  <2>3. QED BY <1>8, <2>1, <2>2 DEF CreateInsert, Goto, Return, TypeOK
<1>9. CASE Fail(r)
  <2>1. LocalsOK' /\ \A q \in Request : Informed(q)'
    BY <1>9, ReturnInformed DEF Fail
  <2>2. QED BY <1>9, <2>1 DEF Fail, TypeOK, LocalsOK
<1>10. QED BY <1>1, <1>2, <1>3, <1>4, <1>5, <1>6, <1>7, <1>8, <1>9 DEF Step

LEMMA NextType == TypeOK /\ [Next]_vars => TypeOK'
<1> SUFFICES ASSUME TypeOK, [Next]_vars PROVE TypeOK'
  OBVIOUS
<1> USE DEF Goto, Informed, qr, rewards, missions, locals
<1>1. ASSUME NEW r \in Request, Step(r) \/ Fail(r) PROVE TypeOK'
  BY <1>1, StepType
<1>2. ASSUME NEW r \in Request, NEW d \in Drink, CreateExpire(r, d) PROVE TypeOK'
  BY <1>2 DEF CreateExpire, TypeOK
<1>3. ASSUME NEW r \in Request, NEW u \in User, NEW c \in Code, RedeemCheck(r, u, c)
      PROVE  TypeOK'
  BY <1>3 DEF RedeemCheck, TypeOK
<1>4. ASSUME NEW c \in Code, MarkExpired(c) \/ TimePasses(c) PROVE TypeOK'
  <2>1. CASE MarkExpired(c) BY <2>1 DEF MarkExpired, TypeOK
  <2>2. CASE TimePasses(c) BY <2>2 DEF TimePasses, TypeOK
  <2>3. QED BY <1>4, <2>1, <2>2
<1>5. ASSUME NEW d \in Drink, SetMenuItem(d) PROVE TypeOK'
  BY <1>5 DEF SetMenuItem, TypeOK
<1>6. ASSUME NEW list \in SUBSET Drink, NEW active \in SUBSET list, SetBarMenu(list, active)
      PROVE  TypeOK'
  BY <1>6 DEF SetBarMenu, TypeOK
<1>7. ASSUME NEW u \in User, Claim(u) PROVE TypeOK'
  BY <1>7 DEF Claim, TypeOK
<1>8. CASE UNCHANGED vars
  BY <1>8 DEF vars, TypeOK
<1>9. QED BY <1>1, <1>2, <1>3, <1>4, <1>5, <1>6, <1>7, <1>8 DEF Next

\* Every reachable state is well typed.
THEOREM TypeCorrect == Spec => []TypeOK
<1>1. Init => TypeOK BY DEF Init, TypeOK, Informed
<1>2. QED BY <1>1, NextType, PTL DEF Spec

-----------------------------------------------------------------------------
(* The invariant *)

\* Steps that commit no redeem and open none.
LEMMA OthersKeep ==
  ASSUME TypeOK, Exclusive, PaidOnce, UsedHasUnlock,
         UNCHANGED <<unlocked, history>>,
         \A c \in Code : status'[c] = "USED" =>
           status[c] = "USED" /\ scannedBy'[c] = scannedBy[c] /\ drinkOf'[c] = drinkOf[c],
         \A r \in Request : pc'[r] = "redeeming" =>
           /\ pc[r] = "redeeming"
           /\ user'[r] = user[r] /\ code'[r] = code[r] /\ drink'[r] = drink[r]
  PROVE  Exclusive' /\ PaidOnce' /\ UsedHasUnlock'
<1>1. Exclusive' BY DEF Exclusive
<1>2. PaidOnce' BY DEF PaidOnce
<1>3. UsedHasUnlock' BY DEF UsedHasUnlock
<1>4. QED BY <1>1, <1>2, <1>3

LEMMA NextIInv == IInv /\ [Next]_vars => IInv'
<1> SUFFICES ASSUME IInv, [Next]_vars PROVE IInv'
  OBVIOUS
<1>t. TypeOK' BY NextType DEF IInv
<1> SUFFICES Exclusive' /\ PaidOnce' /\ UsedHasUnlock'
  BY <1>t DEF IInv
<1> USE DEF Goto, qr, rewards, missions, locals
<1>1. ASSUME NEW r \in Request, RedeemBegin(r)
      PROVE  Exclusive' /\ PaidOnce' /\ UsedHasUnlock'
  <2>1. UNCHANGED <<qr, rewards>>
    BY <1>1 DEF RedeemBegin
  <2>2. PaidOnce' /\ UsedHasUnlock'
    BY <2>1 DEF IInv, PaidOnce, UsedHasUnlock
  <2>3. Exclusive'
    <3>1. CASE drink[r] \in unlocked[user[r]]
      BY <1>1, <2>1, <3>1, OthersKeep DEF RedeemBegin, Return, IInv, TypeOK
    <3>2. CASE drink[r] \notin unlocked[user[r]]
      <4>1. /\ UNCHANGED <<user, code, drink, unlocked>>
            /\ pc' = [pc EXCEPT ![r] = "redeeming"]
            /\ \A q \in Request : pc[q] = "redeeming" =>
                 code[q] # code[r] /\ <<user[q], drink[q]>> # <<user[r], drink[r]>>
        BY <1>1, <3>2 DEF RedeemBegin
      <4>2. QED BY <3>2, <4>1 DEF IInv, Exclusive, TypeOK
    <3>3. QED BY <3>1, <3>2
  <2>4. QED BY <2>2, <2>3
<1>2. ASSUME NEW r \in Request, RedeemCommit(r)
      PROVE  Exclusive' /\ PaidOnce' /\ UsedHasUnlock'
  <2>1. /\ user[r] \in User /\ code[r] \in Code /\ drink[r] = drinkOf[code[r]]
        /\ drink[r] \in Drink /\ drink[r] \notin unlocked[user[r]]
    BY <1>2 DEF RedeemCommit, IInv, TypeOK, Informed, Exclusive
  <2>2. Exclusive'
    <3>1. ASSUME NEW q \in Request, pc'[q] = "redeeming"
          PROVE  q # r /\ pc[q] = "redeeming" /\ drink[q] \notin unlocked'[user[q]]
      <4>1. q # r /\ pc[q] = "redeeming"
        BY <1>2, <3>1 DEF RedeemCommit, IInv, TypeOK
      <4>2. <<user[q], drink[q]>> # <<user[r], drink[r]>> /\ drink[q] \notin unlocked[user[q]]
        BY <1>2, <4>1 DEF RedeemCommit, IInv, Exclusive
      <4>3. user[q] \in User
        BY <4>1 DEF IInv, TypeOK, Informed
      <4>4. QED BY <1>2, <2>1, <4>1, <4>2, <4>3 DEF RedeemCommit, IInv, TypeOK
    <3>2. UNCHANGED <<user, code, drink>>
      BY <1>2 DEF RedeemCommit
    <3>3. QED BY <3>1, <3>2 DEF IInv, Exclusive
  <2>3. PaidOnce'
    BY <1>2, <2>1 DEF RedeemCommit, IInv, TypeOK, PaidOnce
  <2>4. UsedHasUnlock'
    BY <1>2, <2>1 DEF RedeemCommit, IInv, TypeOK, UsedHasUnlock
  <2>5. QED BY <2>2, <2>3, <2>4
<1>3. ASSUME NEW r \in Request,
             MissionFind(r) \/ MissionUpsert(r) \/ MissionComplete(r) \/ MissionReadXp(r)
               \/ MissionWriteXp(r) \/ Fail(r)
      PROVE  Exclusive' /\ PaidOnce' /\ UsedHasUnlock'
  <2>1. UNCHANGED <<qr, unlocked, history>>
    BY <1>3 DEF MissionFind, MissionUpsert, MissionComplete, MissionReadXp, MissionWriteXp, Fail
  <2>2. \A q \in Request : pc'[q] = "redeeming" =>
          /\ pc[q] = "redeeming"
          /\ user'[q] = user[q] /\ code'[q] = code[q] /\ drink'[q] = drink[q]
    BY <1>3 DEF MissionFind, MissionUpsert, MissionComplete, MissionReadXp, MissionWriteXp,
       Fail, Return, IInv, TypeOK
  <2>3. QED BY <2>1, <2>2, OthersKeep DEF IInv
<1>4. ASSUME NEW r \in Request, NEW c \in Code, CreateInsert(r, c)
      PROVE  Exclusive' /\ PaidOnce' /\ UsedHasUnlock'
  BY <1>4, OthersKeep DEF CreateInsert, Return, IInv, TypeOK
<1>5. ASSUME NEW r \in Request, NEW d \in Drink, CreateExpire(r, d)
      PROVE  Exclusive' /\ PaidOnce' /\ UsedHasUnlock'
  BY <1>5, OthersKeep DEF CreateExpire, IInv, TypeOK
<1>6. ASSUME NEW r \in Request, NEW u \in User, NEW c \in Code, RedeemCheck(r, u, c)
      PROVE  Exclusive' /\ PaidOnce' /\ UsedHasUnlock'
  BY <1>6, OthersKeep DEF RedeemCheck, IInv, TypeOK
<1>7. ASSUME NEW c \in Code, MarkExpired(c) \/ TimePasses(c)
      PROVE  Exclusive' /\ PaidOnce' /\ UsedHasUnlock'
  BY <1>7, OthersKeep DEF MarkExpired, TimePasses, IInv, TypeOK
<1>8. ASSUME NEW d \in Drink, SetMenuItem(d) PROVE Exclusive' /\ PaidOnce' /\ UsedHasUnlock'
  BY <1>8, OthersKeep DEF SetMenuItem, IInv
<1>9. ASSUME NEW list \in SUBSET Drink, NEW active \in SUBSET list, SetBarMenu(list, active)
      PROVE  Exclusive' /\ PaidOnce' /\ UsedHasUnlock'
  BY <1>9, OthersKeep DEF SetBarMenu, IInv
<1>10. ASSUME NEW u \in User, Claim(u) PROVE Exclusive' /\ PaidOnce' /\ UsedHasUnlock'
  BY <1>10, OthersKeep DEF Claim, IInv
<1>11. CASE UNCHANGED vars
  BY <1>11, OthersKeep DEF vars, IInv
<1>12. QED
  BY <1>1, <1>2, <1>3, <1>4, <1>5, <1>6, <1>7, <1>8, <1>9, <1>10, <1>11 DEF Next, Step

LEMMA Inductive == Spec => []IInv
<1>1. QED BY InitIInv, NextIInv, PTL DEF Spec

\* A user is paid for a drink exactly when the unlock exists, and once.
THEOREM PaidOnceHolds == Spec => []PaidOnce
<1>1. IInv => PaidOnce BY DEF IInv
<1>2. QED BY <1>1, Inductive, PTL

\* A used session always has the unlock it was spent on.
THEOREM UsedHasUnlockHolds == Spec => []UsedHasUnlock
<1>1. IInv => UsedHasUnlock BY DEF IInv
<1>2. QED BY <1>1, Inductive, PTL

\* Unlocks agree with the history and with the codes spent on them.
THEOREM UnlocksBackedHolds == Spec => []UnlocksBacked
<1>1. IInv => UnlocksBacked BY DEF IInv, UnlocksBacked
<1>2. QED BY <1>1, Inductive, PTL

\* A code that was used stays used, for the drink it was made for.
LEMMA UsedStays ==
  ASSUME TypeOK, [Next]_vars, NEW c \in Code, status[c] = "USED"
  PROVE  status'[c] = "USED" /\ drinkOf'[c] = drinkOf[c]
<1> USE DEF qr
<1>1. ASSUME NEW r \in Request, Step(r) \/ Fail(r)
      PROVE  status'[c] = "USED" /\ drinkOf'[c] = drinkOf[c]
  BY <1>1 DEF TypeOK, Step, RedeemBegin, RedeemCommit, MissionFind, MissionUpsert,
     MissionComplete, MissionReadXp, MissionWriteXp, CreateInsert, Fail
<1>2. ASSUME NEW r \in Request, NEW d \in Drink, CreateExpire(r, d)
      PROVE  status'[c] = "USED" /\ drinkOf'[c] = drinkOf[c]
  BY <1>2 DEF CreateExpire
<1>3. ASSUME NEW r \in Request, NEW u \in User, NEW e \in Code, RedeemCheck(r, u, e)
      PROVE  status'[c] = "USED" /\ drinkOf'[c] = drinkOf[c]
  BY <1>3 DEF RedeemCheck
<1>4. ASSUME NEW e \in Code, MarkExpired(e) \/ TimePasses(e)
      PROVE  status'[c] = "USED" /\ drinkOf'[c] = drinkOf[c]
  BY <1>4 DEF MarkExpired, TimePasses, TypeOK
<1>5. ASSUME NEW d \in Drink, SetMenuItem(d)
      PROVE  status'[c] = "USED" /\ drinkOf'[c] = drinkOf[c]
  BY <1>5 DEF SetMenuItem
<1>6. ASSUME NEW list \in SUBSET Drink, NEW active \in SUBSET list, SetBarMenu(list, active)
      PROVE  status'[c] = "USED" /\ drinkOf'[c] = drinkOf[c]
  BY <1>6 DEF SetBarMenu
<1>7. ASSUME NEW u \in User, Claim(u) PROVE status'[c] = "USED" /\ drinkOf'[c] = drinkOf[c]
  BY <1>7 DEF Claim
<1>8. CASE UNCHANGED vars BY <1>8 DEF vars
<1>9. QED BY <1>1, <1>2, <1>3, <1>4, <1>5, <1>6, <1>7, <1>8 DEF Next

\* No step takes a used session back to active or expired.
THEOREM UsedIsFinalHolds == Spec => UsedIsFinal
<1>1. TypeOK /\ [Next]_vars => [\A c \in Code : status[c] = "USED" => status'[c] = "USED"]_vars
  BY UsedStays
<1>2. QED BY <1>1, TypeCorrect, PTL DEF Spec, UsedIsFinal

-----------------------------------------------------------------------------
(* The refinement *)

LEMMA InitLedger == Init => Ledger!Init
<1> SUFFICES ASSUME Init PROVE Ledger!Init
  OBVIOUS
<1>1. Scanned = {} BY DEF Init, Scanned
<1>2. Unlocked = {} /\ Registered = {} BY DEF Init, Unlocked, Registered
<1>3. QED BY <1>1, <1>2 DEF Ledger!Init

LEMMA ScannedGrows == TypeOK /\ [Next]_vars => Ledger!Owe
<1> SUFFICES ASSUME TypeOK, [Next]_vars PROVE Ledger!Owe
  OBVIOUS
<1>1. Scanned \subseteq Scanned'
  <2>1. ASSUME NEW x \in Scanned PROVE x \in Scanned'
    <3>1. PICK c \in Code : status[c] = "USED" /\ drinkOf[c] = x[2]
      BY DEF Scanned
    <3>2. status'[c] = "USED" /\ drinkOf'[c] = x[2] BY <3>1, UsedStays
    <3>3. QED BY <3>2 DEF Scanned
  <2>2. QED BY <2>1
<1>2. Scanned' \subseteq User \X Drink BY DEF Scanned
<1>3. QED BY <1>1, <1>2 DEF Ledger!Owe

\* Only the commit of a redeem writes unlocks and history.
LEMMA OthersPayNothing ==
  ASSUME [Next]_vars, \A r \in Request : ~RedeemCommit(r)
  PROVE  UNCHANGED <<unlocked, history>>
<1> USE DEF qr, rewards
<1>1. ASSUME NEW r \in Request, Step(r) \/ Fail(r) PROVE UNCHANGED <<unlocked, history>>
  BY <1>1 DEF Step, RedeemBegin, MissionFind, MissionUpsert, MissionComplete, MissionReadXp,
     MissionWriteXp, CreateInsert, Fail
<1>2. QED BY <1>1 DEF Next, CreateExpire, RedeemCheck, MarkExpired, TimePasses, SetMenuItem,
       SetBarMenu, Claim, vars

\* A commit pays a debt that its code makes due and that nobody has paid.
LEMMA CommitPays ==
  ASSUME IInv, IInv', NEW r \in Request, RedeemCommit(r)
  PROVE  Ledger!Pay(<<user[r], drink[r]>>)
<1> DEFINE x == <<user[r], drink[r]>>
<1> USE DEF IInv, TypeOK
<1>1. /\ user[r] \in User /\ code[r] \in Code /\ drink[r] = drinkOf[code[r]]
      /\ drink[r] \in Drink /\ drink[r] \notin unlocked[user[r]]
  BY DEF RedeemCommit, Informed, Exclusive
<1>2. x \in Scanned'
  <2>1. status'[code[r]] = "USED" /\ drinkOf'[code[r]] = drink[r]
    BY <1>1 DEF RedeemCommit
  <2>2. QED BY <1>1, <2>1 DEF Scanned
<1>3. Unlocked' = Unlocked \cup {x} /\ x \notin Unlocked
  <2>1. \A u \in User, d \in Drink :
          d \in unlocked'[u] <=> d \in unlocked[u] \/ (u = user[r] /\ d = drink[r])
    BY <1>1 DEF RedeemCommit
  <2>2. QED BY <1>1, <2>1 DEF Unlocked
<1>4. Registered = Unlocked /\ Registered' = Unlocked'
  BY DEF Registered, Unlocked, PaidOnce
<1>5. QED BY <1>1, <1>2, <1>3, <1>4 DEF Ledger!Pay, Unlocked

\* Codes, scans and transactions implement PayOnce: each user is paid for each
\* drink once, when a code of it is used, and keeps the unlock and its history.
THEOREM UnlocksPaidOnce == Spec => LedgerSpec
<1>1. IInv /\ IInv' /\ [Next]_vars => [Ledger!Next]_(Ledger!vars)
  <2> SUFFICES ASSUME IInv, IInv', [Next]_vars PROVE Ledger!Next
    OBVIOUS
  <2>1. Ledger!Owe BY ScannedGrows DEF IInv
  <2>2. ASSUME NEW r \in Request, RedeemCommit(r) PROVE Ledger!Next
    <3>1. <<user[r], drink[r]>> \in User \X Drink
      BY <2>2 DEF RedeemCommit, IInv, TypeOK, Informed
    <3>2. QED BY <2>1, <2>2, <3>1, CommitPays DEF Ledger!Next
  <2>3. CASE \A r \in Request : ~RedeemCommit(r)
    <3>1. UNCHANGED <<unlocked, history>> BY <2>3, OthersPayNothing
    <3>2. UNCHANGED <<Unlocked, Registered>> BY <3>1 DEF Unlocked, Registered
    <3>3. QED BY <2>1, <3>2 DEF Ledger!Next
  <2>4. QED BY <2>2, <2>3
<1>2. QED BY InitLedger, Inductive, <1>1, PTL DEF Spec, LedgerSpec, Ledger!Spec

-----------------------------------------------------------------------------
(* Missions, XP and the bar's figures never exceed the unlocks *)

LEMMA Times ==
  ASSUME NEW m \in Nat, NEW a \in Nat
  PROVE  m * a \in Nat /\ m * (a + 1) = m * a + m
OBVIOUS

LEMMA TimesGrows ==
  ASSUME NEW m \in Nat, NEW a \in Nat, NEW b \in Nat, a <= b
  PROVE  m * a <= m * b
<1>1. PICK c \in Nat : b = a + c
  <2>1. b - a \in Nat /\ b = a + (b - a) OBVIOUS
  <2>2. QED BY <2>1
<1>2. m * b = m * a + m * c /\ m * c \in Nat BY <1>1
<1>3. m * a \in Nat /\ m * b \in Nat OBVIOUS
<1>4. QED BY <1>2, <1>3

LEMMA OneMore ==
  ASSUME NEW S, NEW T, NEW x, IsFiniteSet(S), T \subseteq S \cup {x}
  PROVE  IsFiniteSet(T)
<1>1. IsFiniteSet(S \cup {x}) BY FS_AddElement
<1>2. T \in SUBSET (S \cup {x}) OBVIOUS
<1>3. QED BY <1>1, <1>2, FS_Subset

LEMMA AddOne ==
  ASSUME NEW S, NEW x, IsFiniteSet(S)
  PROVE  /\ IsFiniteSet(S \cup {x})
         /\ Cardinality(S \cup {x}) <= Cardinality(S) + 1
         /\ x \notin S => Cardinality(S \cup {x}) = Cardinality(S) + 1
<1>1. Cardinality(S) \in Nat BY FS_CardinalityType
<1>2. QED BY <1>1, FS_AddElement

\* Requests at work, and those that have counted a mission and not paid it yet.
Busy == {r \in Request : pc[r] # "idle"}
Unpaid(u) == {r \in Request : user[r] = u /\ pc[r] \in {"complete", "readXp", "writeXp"}}

\* What unlocks and mission progress are worth, and how much of it is unpaid.
Worth(u) == DrinkXp * Cardinality(unlocked[u]) + MissionXp * progress[u]
Owing(u) == MissionXp * Cardinality(Unpaid(u))

Countable == IsFiniteSet(Busy) /\ \A u \in User : IsFiniteSet(unlocked[u])

\* A total, stored or read for the next update, leaves room for what is unpaid.
XpFits ==
  /\ \A u \in User : totalXp[u] + Owing(u) <= Worth(u)
  /\ \A r \in Request : pc[r] \in {"redeeming", "writeXp"} =>
       readXp[r] + Owing(user[r]) <= Worth(user[r])

\* Two codes for one drink are never used by the same user.
ScanOnce == \A c, e \in Code :
  status[c] = "USED" /\ status[e] = "USED" /\ drinkOf[c] = drinkOf[e] /\ scannedBy[c] = scannedBy[e]
    => c = e

\* The unlocks of all users can be counted.
Unlockers == {u \in User : unlocked[u] # {}}

RewardsIInv == IInv /\ Countable /\ IsFiniteSet(Unlockers) /\ MissionBacked /\ XpFits /\ ScanOnce

LEMMA Counts ==
  ASSUME Countable, TypeOK, NEW u \in User
  PROVE  /\ IsFiniteSet(Reporting(u)) /\ Cardinality(Reporting(u)) \in Nat
         /\ IsFiniteSet(Unpaid(u)) /\ Cardinality(Unpaid(u)) \in Nat
         /\ Cardinality(unlocked[u]) \in Nat /\ progress[u] \in Nat /\ totalXp[u] \in Nat
         /\ Worth(u) \in Nat /\ Owing(u) \in Nat
<1>1. Reporting(u) \subseteq Busy /\ Unpaid(u) \subseteq Busy BY DEF Reporting, Unpaid, Busy
<1>2. IsFiniteSet(Reporting(u)) /\ IsFiniteSet(Unpaid(u)) BY <1>1, FS_Subset DEF Countable
<1>3. /\ Cardinality(Reporting(u)) \in Nat /\ Cardinality(Unpaid(u)) \in Nat
      /\ Cardinality(unlocked[u]) \in Nat
  BY <1>2, FS_CardinalityType DEF Countable
<1>4. progress[u] \in Nat /\ totalXp[u] \in Nat BY DEF TypeOK
<1>5. /\ DrinkXp * Cardinality(unlocked[u]) \in Nat /\ MissionXp * progress[u] \in Nat
      /\ MissionXp * Cardinality(Unpaid(u)) \in Nat
  BY <1>3, <1>4, RewardsAssumption, Times
<1>6. QED BY <1>2, <1>3, <1>4, <1>5 DEF Worth, Owing

LEMMA CountableStep ==
  ASSUME TypeOK, Countable, IsFiniteSet(Unlockers), [Next]_vars
  PROVE  Countable' /\ IsFiniteSet(Unlockers')
<1> USE DEF TypeOK, Goto, Return
<1>1. ASSUME NEW r \in Request, Busy' \subseteq Busy \cup {r} PROVE IsFiniteSet(Busy')
  BY <1>1, OneMore DEF Countable
<1>2. CASE UNCHANGED unlocked /\ \E r \in Request : Busy' \subseteq Busy \cup {r}
  BY <1>1, <1>2 DEF Countable, Unlockers
<1>3. ASSUME NEW r \in Request, RedeemCommit(r) PROVE Countable' /\ IsFiniteSet(Unlockers')
  <2>1. user[r] \in User BY <1>3 DEF RedeemCommit, Informed
  <2>2. Busy' = Busy BY <1>3 DEF RedeemCommit, Busy
  <2>3. \A u \in User : unlocked'[u] = unlocked[u] \/ unlocked'[u] = unlocked[u] \cup {drink[r]}
    BY <1>3 DEF RedeemCommit
  <2>4. \A u \in User : unlocked'[u] \subseteq unlocked[u] \cup {drink[r]} BY <2>3
  <2>5. \A u \in User : IsFiniteSet(unlocked'[u]) BY <2>4, OneMore DEF Countable
  <2>6. Unlockers' \subseteq Unlockers \cup {user[r]} BY <1>3, <2>1 DEF RedeemCommit, Unlockers
  <2>7. IsFiniteSet(Unlockers') BY <2>6, OneMore
  <2>8. QED BY <2>2, <2>5, <2>7 DEF Countable
<1>4. ASSUME NEW r \in Request, Step(r) \/ Fail(r), ~RedeemCommit(r)
      PROVE  UNCHANGED unlocked /\ Busy' \subseteq Busy \cup {r}
  BY <1>4 DEF Step, RedeemBegin, MissionFind, MissionUpsert, MissionComplete, MissionReadXp,
     MissionWriteXp, CreateInsert, Fail, Busy, rewards
<1>5. ASSUME NEW r \in Request,
             \/ \E d \in Drink : CreateExpire(r, d)
             \/ \E u \in User, c \in Code : RedeemCheck(r, u, c)
      PROVE  UNCHANGED unlocked /\ Busy' \subseteq Busy \cup {r}
  BY <1>5 DEF CreateExpire, RedeemCheck, Busy, rewards
<1>6. CASE UNCHANGED <<unlocked, pc>> BY <1>6 DEF Countable, Unlockers, Busy
<1>7. QED
  BY <1>2, <1>3, <1>4, <1>5, <1>6 DEF Next, MarkExpired, TimePasses, SetMenuItem, SetBarMenu, Claim,
     vars, rewards

\* A step that counts nothing and pays nothing: it may end a request, or read a
\* total for its next update.
Reports == {"mission", "upsert"}
Unpaying == {"complete", "readXp", "writeXp"}
Quiet ==
  /\ UNCHANGED <<unlocked, progress, totalXp>>
  /\ \A q \in Request :
       /\ pc'[q] \in Reports => pc[q] \in Reports /\ user'[q] = user[q]
       /\ pc'[q] \in Unpaying => pc[q] \in Unpaying /\ user'[q] = user[q]
       /\ pc'[q] \in {"redeeming", "writeXp"} =>
            \/ pc'[q] = pc[q] /\ user'[q] = user[q] /\ readXp'[q] = readXp[q]
            \/ readXp'[q] = totalXp[user'[q]]

LEMMA QuietStep ==
  ASSUME TypeOK, TypeOK', Countable, Countable', MissionBacked, XpFits, Quiet
  PROVE  MissionBacked' /\ XpFits'
<1>1. ASSUME NEW u \in User
      PROVE  /\ Cardinality(Reporting(u)') <= Cardinality(Reporting(u))
             /\ Owing(u)' <= Owing(u) /\ Worth(u)' = Worth(u)
  <2>1. Reporting(u)' \subseteq Reporting(u) /\ Unpaid(u)' \subseteq Unpaid(u)
    BY DEF Quiet, Reporting, Unpaid, Reports, Unpaying
  <2>2. /\ Cardinality(Reporting(u)') <= Cardinality(Reporting(u))
        /\ Cardinality(Unpaid(u)') <= Cardinality(Unpaid(u)) /\ Cardinality(Unpaid(u)') \in Nat
    BY <2>1, Counts, FS_Subset, FS_CardinalityType
  <2>3. MissionXp * Cardinality(Unpaid(u)') <= MissionXp * Cardinality(Unpaid(u))
    BY <2>2, Counts, RewardsAssumption, TimesGrows
  <2>4. QED BY <2>2, <2>3 DEF Owing, Worth, Quiet
<1>2. \A u \in User : /\ Cardinality(Reporting(u)') \in Nat /\ Owing(u)' \in Nat
                      /\ Cardinality(Reporting(u)) \in Nat /\ Owing(u) \in Nat
                      /\ Worth(u) \in Nat /\ totalXp[u] \in Nat /\ progress[u] \in Nat
                      /\ Cardinality(unlocked[u]) \in Nat
  <2>1. \A u \in User : Cardinality(Reporting(u)') \in Nat /\ Owing(u)' \in Nat
    <3> SUFFICES ASSUME NEW u \in User
                 PROVE  Cardinality(Reporting(u)') \in Nat /\ Owing(u)' \in Nat
      OBVIOUS
    <3>1. Reporting(u)' \subseteq Busy' /\ Unpaid(u)' \subseteq Busy'
      BY DEF Reporting, Unpaid, Busy
    <3>2. Cardinality(Reporting(u)') \in Nat /\ Cardinality(Unpaid(u)') \in Nat
      BY <3>1, FS_Subset, FS_CardinalityType DEF Countable
    <3>3. QED BY <3>2, RewardsAssumption, Times DEF Owing
  <2>2. QED BY <2>1, Counts
<1>3. MissionBacked'
  BY <1>1, <1>2 DEF MissionBacked, Quiet
<1>4. \A u \in User : totalXp'[u] + Owing(u)' <= Worth(u)'
  BY <1>1, <1>2 DEF XpFits, Quiet
<1>5. ASSUME NEW q \in Request, pc'[q] \in {"redeeming", "writeXp"}
      PROVE  readXp'[q] + Owing(user[q])' <= Worth(user[q])'
  <2>1. user'[q] \in User /\ readXp'[q] \in Nat
    BY <1>5 DEF TypeOK, Informed
  <2>2. CASE readXp'[q] = totalXp[user'[q]]
    BY <1>4, <2>1, <2>2 DEF Quiet
  <2>3. CASE pc'[q] = pc[q] /\ user'[q] = user[q] /\ readXp'[q] = readXp[q]
    <3>1. readXp[q] + Owing(user[q]) <= Worth(user[q])
      BY <1>5, <2>3 DEF XpFits
    <3>2. QED BY <1>1, <1>2, <2>1, <2>3, <3>1
  <2>4. QED BY <1>5, <2>2, <2>3 DEF Quiet
<1>6. QED BY <1>3, <1>4, <1>5 DEF XpFits

\* From what a step does to the numbers of each user to the invariant.
LEMMA SumsStep ==
  ASSUME TypeOK', Countable', MissionBacked, XpFits, TypeOK, Countable,
         \A u \in User :
           /\ progress'[u] + Cardinality(Reporting(u)') - Cardinality(unlocked'[u])
                <= progress[u] + Cardinality(Reporting(u)) - Cardinality(unlocked[u])
           /\ Owing(u)' - Worth(u)' <= Owing(u) - Worth(u)
           /\ \/ totalXp'[u] = totalXp[u]
              \/ totalXp'[u] + Owing(u)' <= Worth(u)',
         \A q \in Request : pc'[q] \in {"redeeming", "writeXp"} =>
           pc'[q] = pc[q] /\ user'[q] = user[q] /\ readXp'[q] = readXp[q]
  PROVE  MissionBacked' /\ XpFits'
<1>1. \A u \in User : /\ Cardinality(Reporting(u)') \in Nat /\ Owing(u)' \in Nat
                      /\ Cardinality(unlocked'[u]) \in Nat /\ Worth(u)' \in Nat
                      /\ progress'[u] \in Nat /\ totalXp'[u] \in Nat
  <2> SUFFICES ASSUME NEW u \in User
               PROVE  /\ Cardinality(Reporting(u)') \in Nat /\ Owing(u)' \in Nat
                      /\ Cardinality(unlocked'[u]) \in Nat /\ Worth(u)' \in Nat
                      /\ progress'[u] \in Nat /\ totalXp'[u] \in Nat
    OBVIOUS
  <2>1. Reporting(u)' \subseteq Busy' /\ Unpaid(u)' \subseteq Busy'
    BY DEF Reporting, Unpaid, Busy
  <2>2. /\ Cardinality(Reporting(u)') \in Nat /\ Cardinality(Unpaid(u)') \in Nat
        /\ Cardinality(unlocked'[u]) \in Nat
    BY <2>1, FS_Subset, FS_CardinalityType DEF Countable
  <2>3. progress'[u] \in Nat /\ totalXp'[u] \in Nat BY DEF TypeOK
  <2>4. QED BY <2>2, <2>3, RewardsAssumption, Times DEF Owing, Worth
<1>2. MissionBacked'
  BY <1>1, Counts DEF MissionBacked
<1>3. \A u \in User : totalXp'[u] + Owing(u)' <= Worth(u)'
  BY <1>1, Counts DEF XpFits
<1>4. ASSUME NEW q \in Request, pc'[q] \in {"redeeming", "writeXp"}
      PROVE  readXp'[q] + Owing(user[q])' <= Worth(user[q])'
  <2>1. user'[q] \in User /\ readXp'[q] \in Nat BY <1>4 DEF TypeOK, Informed
  <2>2. pc'[q] = pc[q] /\ user'[q] = user[q] /\ readXp'[q] = readXp[q] BY <1>4
  <2>3. readXp[q] + Owing(user[q]) <= Worth(user[q]) BY <1>4, <2>2 DEF XpFits
  <2>4. QED BY <1>1, <2>1, <2>2, <2>3, Counts
<1>5. QED BY <1>2, <1>3, <1>4 DEF XpFits

LEMMA CommitSums ==
  ASSUME IInv, TypeOK', Countable, Countable', MissionBacked, XpFits,
         NEW r \in Request, RedeemCommit(r)
  PROVE  MissionBacked' /\ XpFits'
<1> USE DEF IInv, TypeOK, Goto, locals, missions
<1>1. PICK v \in User : v = user[r]
  BY DEF RedeemCommit, Informed
<1>2. drink[r] \in Drink /\ drink[r] \notin unlocked[v] /\ readXp[r] \in Nat
  BY <1>1 DEF RedeemCommit, Informed, Exclusive
<1>3. UNCHANGED <<progress, user, readXp>> /\ totalXp'[v] = readXp[r] + DrinkXp
  BY <1>1 DEF RedeemCommit
<1>4. readXp[r] + Owing(v) <= Worth(v)
  BY <1>1 DEF RedeemCommit, XpFits
<1>5. \A u \in User : Unpaid(u)' = Unpaid(u)
  BY DEF RedeemCommit, Unpaid
<1>6. Cardinality(Reporting(v)') = Cardinality(Reporting(v)) + 1
  <2>1. Reporting(v)' = Reporting(v) \cup {r} /\ r \notin Reporting(v)
    BY <1>1 DEF RedeemCommit, Reporting
  <2>2. QED BY <2>1, Counts, AddOne
<1>7. Cardinality(unlocked'[v]) = Cardinality(unlocked[v]) + 1
  <2>1. unlocked'[v] = unlocked[v] \cup {drink[r]}
    BY <1>1 DEF RedeemCommit
  <2>2. QED BY <1>2, <2>1, AddOne DEF Countable
<1>8. Owing(v)' = Owing(v) /\ Worth(v)' = Worth(v) + DrinkXp
  <2>1. DrinkXp * Cardinality(unlocked'[v]) = DrinkXp * Cardinality(unlocked[v]) + DrinkXp
    BY <1>7, Counts, RewardsAssumption, Times
  <2>2. DrinkXp * Cardinality(unlocked[v]) \in Nat /\ MissionXp * progress[v] \in Nat
    BY Counts, RewardsAssumption, Times
  <2>3. QED BY <1>3, <1>5, <2>1, <2>2, RewardsAssumption DEF Owing, Worth
<1>9. ASSUME NEW u \in User
      PROVE  /\ progress'[u] + Cardinality(Reporting(u)') - Cardinality(unlocked'[u])
                  <= progress[u] + Cardinality(Reporting(u)) - Cardinality(unlocked[u])
             /\ Owing(u)' - Worth(u)' <= Owing(u) - Worth(u)
             /\ totalXp'[u] = totalXp[u] \/ totalXp'[u] + Owing(u)' <= Worth(u)'
  <2>1. CASE u = v
    BY <1>2, <1>3, <1>4, <1>6, <1>7, <1>8, <2>1, Counts, RewardsAssumption
  <2>2. CASE u # v
    <3>1. Reporting(u)' = Reporting(u) /\ UNCHANGED <<unlocked[u], totalXp[u]>>
      BY <1>1, <2>2 DEF RedeemCommit, Reporting
    <3>2. Owing(u)' = Owing(u) /\ Worth(u)' = Worth(u)
      BY <1>3, <1>5, <3>1 DEF Owing, Worth
    <3>3. QED BY <1>3, <3>1, <3>2, Counts
  <2>3. QED BY <2>1, <2>2
<1>10. \A q \in Request : pc'[q] \in {"redeeming", "writeXp"} => pc'[q] = pc[q]
  BY DEF RedeemCommit
<1>11. QED BY <1>3, <1>9, <1>10, SumsStep

LEMMA UpsertSums ==
  ASSUME IInv, TypeOK', Countable, Countable', MissionBacked, XpFits,
         NEW r \in Request, MissionUpsert(r)
  PROVE  MissionBacked' /\ XpFits'
<1> USE DEF IInv, TypeOK, Goto, Return, locals, rewards
<1>1. PICK v \in User : v = user[r]
  BY DEF MissionUpsert, Informed
<1>2. UNCHANGED <<unlocked, totalXp>> /\ progress'[v] = progress[v] + 1
  BY <1>1 DEF MissionUpsert
<1>3. Cardinality(Reporting(v)') = Cardinality(Reporting(v)) - 1
  <2>1. Reporting(v)' = Reporting(v) \ {r} /\ r \in Reporting(v)
    BY <1>1, NoneIsNothing DEF MissionUpsert, Reporting
  <2>2. IsFiniteSet(Reporting(v)) BY Counts
  <2> HIDE DEF IInv, TypeOK
  <2>3. QED BY <2>1, <2>2, FS_RemoveElement
<1>4. Owing(v)' <= Owing(v) + MissionXp
  <2>1. Unpaid(v)' \in SUBSET (Unpaid(v) \cup {r})
    <3>1. \A q \in Request : q # r => pc'[q] = pc[q] /\ user'[q] = user[q]
      BY DEF MissionUpsert
    <3>2. QED BY <3>1 DEF Unpaid
  <2>2. IsFiniteSet(Unpaid(v) \cup {r})
        /\ Cardinality(Unpaid(v) \cup {r}) <= Cardinality(Unpaid(v)) + 1
    BY Counts, AddOne
  <2>3. /\ Cardinality(Unpaid(v)') <= Cardinality(Unpaid(v) \cup {r})
        /\ Cardinality(Unpaid(v)') \in Nat /\ Cardinality(Unpaid(v) \cup {r}) \in Nat
    BY <2>1, <2>2, FS_Subset, FS_CardinalityType
  <2>4. Cardinality(Unpaid(v)') <= Cardinality(Unpaid(v)) + 1
    BY <2>2, <2>3, Counts
  <2>5. MissionXp * Cardinality(Unpaid(v)') <= MissionXp * (Cardinality(Unpaid(v)) + 1)
    BY <2>3, <2>4, Counts, RewardsAssumption, TimesGrows
  <2>6. QED BY <2>3, <2>5, Counts, RewardsAssumption, Times DEF Owing
<1>5. Worth(v)' = Worth(v) + MissionXp /\ Owing(v)' \in Nat
  <2>1. MissionXp * progress'[v] = MissionXp * progress[v] + MissionXp
    BY <1>2, Counts, RewardsAssumption, Times
  <2>2. DrinkXp * Cardinality(unlocked[v]) \in Nat /\ MissionXp * progress[v] \in Nat
    BY Counts, RewardsAssumption, Times
  <2>3. Unpaid(v)' \in SUBSET Busy' BY DEF Unpaid, Busy
  <2>4. Owing(v)' \in Nat
    BY <2>3, FS_Subset, FS_CardinalityType, RewardsAssumption, Times DEF Countable, Owing
  <2>5. QED BY <1>2, <2>1, <2>2, <2>4, RewardsAssumption DEF Worth
<1>6. ASSUME NEW u \in User
      PROVE  /\ progress'[u] + Cardinality(Reporting(u)') - Cardinality(unlocked'[u])
                  <= progress[u] + Cardinality(Reporting(u)) - Cardinality(unlocked[u])
             /\ Owing(u)' - Worth(u)' <= Owing(u) - Worth(u)
             /\ totalXp'[u] = totalXp[u] \/ totalXp'[u] + Owing(u)' <= Worth(u)'
  <2>1. CASE u = v
    BY <1>2, <1>3, <1>4, <1>5, <2>1, Counts, RewardsAssumption
  <2>2. CASE u # v
    <3>1. Reporting(u)' = Reporting(u) /\ Unpaid(u)' = Unpaid(u) /\ progress'[u] = progress[u]
      BY <1>1, <2>2, NoneIsNothing DEF MissionUpsert, Reporting, Unpaid
    <3>2. Owing(u)' = Owing(u) /\ Worth(u)' = Worth(u)
      BY <1>2, <3>1 DEF Owing, Worth
    <3>3. QED BY <1>2, <3>1, <3>2, Counts
  <2>3. QED BY <2>1, <2>2
<1>7. \A q \in Request : pc'[q] \in {"redeeming", "writeXp"} =>
        pc'[q] = pc[q] /\ user'[q] = user[q] /\ readXp'[q] = readXp[q]
  BY DEF MissionUpsert
<1>8. QED BY <1>6, <1>7, SumsStep

LEMMA PaySums ==
  ASSUME IInv, TypeOK', Countable, Countable', MissionBacked, XpFits,
         NEW r \in Request, MissionWriteXp(r)
  PROVE  MissionBacked' /\ XpFits'
<1> USE DEF IInv, TypeOK, Goto, Return, locals, missions
<1>1. PICK v \in User : v = user[r]
  BY DEF MissionWriteXp, Informed
<1>2. UNCHANGED <<unlocked, progress>> /\ totalXp'[v] = readXp[r] + MissionXp /\ readXp[r] \in Nat
  BY <1>1 DEF MissionWriteXp
<1>3. \A u \in User : Reporting(u)' = Reporting(u)
  BY <1>1, NoneIsNothing DEF MissionWriteXp, Reporting
<1>4. readXp[r] + Owing(v) <= Worth(v)
  BY <1>1 DEF MissionWriteXp, XpFits
<1>5. Owing(v)' = Owing(v) - MissionXp
  <2>1. Unpaid(v)' = Unpaid(v) \ {r} /\ r \in Unpaid(v)
    BY <1>1, NoneIsNothing DEF MissionWriteXp, Unpaid
  <2>2. Cardinality(Unpaid(v)') = Cardinality(Unpaid(v)) - 1 /\ Cardinality(Unpaid(v)') \in Nat
    BY <2>1, Counts, FS_RemoveElement, FS_CardinalityType
  <2>3. Cardinality(Unpaid(v)) = Cardinality(Unpaid(v)') + 1
    BY <2>2, Counts
  <2>4. MissionXp * Cardinality(Unpaid(v)) = MissionXp * Cardinality(Unpaid(v)') + MissionXp
        /\ MissionXp * Cardinality(Unpaid(v)') \in Nat
    BY <2>2, <2>3, RewardsAssumption, Times
  <2>5. QED BY <2>4, RewardsAssumption DEF Owing
<1>6. ASSUME NEW u \in User
      PROVE  /\ progress'[u] + Cardinality(Reporting(u)') - Cardinality(unlocked'[u])
                  <= progress[u] + Cardinality(Reporting(u)) - Cardinality(unlocked[u])
             /\ Owing(u)' - Worth(u)' <= Owing(u) - Worth(u)
             /\ totalXp'[u] = totalXp[u] \/ totalXp'[u] + Owing(u)' <= Worth(u)'
  <2>1. Worth(u)' = Worth(u) BY <1>2 DEF Worth
  <2>2. CASE u = v
    BY <1>2, <1>3, <1>4, <1>5, <2>1, <2>2, Counts, RewardsAssumption
  <2>3. CASE u # v
    <3>1. Unpaid(u)' = Unpaid(u) /\ totalXp'[u] = totalXp[u]
      BY <1>1, <2>3, NoneIsNothing DEF MissionWriteXp, Unpaid
    <3>2. Owing(u)' = Owing(u) BY <3>1 DEF Owing
    <3>3. QED BY <1>2, <1>3, <2>1, <3>1, <3>2, Counts
  <2>4. QED BY <2>2, <2>3
<1>7. \A q \in Request : pc'[q] \in {"redeeming", "writeXp"} =>
        pc'[q] = pc[q] /\ user'[q] = user[q] /\ readXp'[q] = readXp[q]
  BY DEF MissionWriteXp
<1>8. QED BY <1>6, <1>7, SumsStep

LEMMA SumsNext ==
  ASSUME RewardsIInv, TypeOK', Countable', [Next]_vars
  PROVE  MissionBacked' /\ XpFits'
<1> USE DEF RewardsIInv, IInv, TypeOK, Goto, Return, locals, rewards, missions, Quiet, Reports, Unpaying
<1>q. Quiet => MissionBacked' /\ XpFits' BY QuietStep
<1>1. ASSUME NEW r \in Request, RedeemCommit(r) \/ MissionUpsert(r) \/ MissionWriteXp(r)
      PROVE  MissionBacked' /\ XpFits'
  BY <1>1, CommitSums, UpsertSums, PaySums
<1>2. ASSUME NEW r \in Request, RedeemBegin(r) PROVE Quiet
  BY <1>2 DEF RedeemBegin
<1>3. ASSUME NEW r \in Request, MissionFind(r) \/ MissionComplete(r) \/ Fail(r) PROVE Quiet
  BY <1>3 DEF MissionFind, MissionComplete, Fail
<1>4. ASSUME NEW r \in Request, MissionReadXp(r) PROVE Quiet
  BY <1>4 DEF MissionReadXp
<1>5. ASSUME NEW r \in Request, NEW c \in Code, CreateInsert(r, c) PROVE Quiet
  BY <1>5 DEF CreateInsert
<1>6. ASSUME NEW r \in Request, NEW d \in Drink, CreateExpire(r, d) PROVE Quiet
  BY <1>6 DEF CreateExpire
<1>7. ASSUME NEW r \in Request, NEW u \in User, NEW c \in Code, RedeemCheck(r, u, c) PROVE Quiet
  BY <1>7 DEF RedeemCheck
<1>8. CASE UNCHANGED <<unlocked, progress, totalXp, pc, user, readXp>>
  BY <1>q, <1>8
<1>9. QED
  BY <1>q, <1>1, <1>2, <1>3, <1>4, <1>5, <1>6, <1>7, <1>8 DEF Next, Step, MarkExpired, TimePasses,
     SetMenuItem, SetBarMenu, Claim, vars

LEMMA ScanOnceStep == IInv /\ ScanOnce /\ [Next]_vars => ScanOnce'
<1> SUFFICES ASSUME IInv, ScanOnce, [Next]_vars PROVE ScanOnce'
  OBVIOUS
<1> USE DEF IInv, ScanOnce, TypeOK, qr
<1>1. CASE \A c \in Code : status'[c] = "USED" =>
             status[c] = "USED" /\ scannedBy'[c] = scannedBy[c] /\ drinkOf'[c] = drinkOf[c]
  BY <1>1
<1>2. ASSUME NEW r \in Request, RedeemCommit(r) PROVE ScanOnce'
  <2>1. /\ code[r] \in Code /\ drink[r] = drinkOf[code[r]] /\ user[r] \in User
        /\ drink[r] \notin unlocked[user[r]]
    BY <1>2 DEF RedeemCommit, Informed, Exclusive
  <2>2. \A c \in Code : status[c] = "USED" /\ drinkOf[c] = drink[r] => scannedBy[c] # user[r]
    BY <2>1 DEF UsedHasUnlock
  <2>3. QED BY <1>2, <2>1, <2>2 DEF RedeemCommit
<1>3. ASSUME NEW r \in Request, NEW c \in Code, CreateInsert(r, c) PROVE ScanOnce'
  BY <1>1, <1>3 DEF CreateInsert
<1>4. ASSUME NEW r \in Request, Step(r) \/ Fail(r) PROVE ScanOnce'
  BY <1>1, <1>2, <1>3, <1>4 DEF Step, RedeemBegin, MissionFind, MissionUpsert, MissionComplete,
     MissionReadXp, MissionWriteXp, Fail
<1>5. QED
  BY <1>1, <1>4 DEF Next, CreateExpire, RedeemCheck, MarkExpired, TimePasses, SetMenuItem,
     SetBarMenu, Claim, vars

\* The bar's figures stay behind the unlocks since no two used codes of a drink
\* were used by one user, and each has its unlock.
LEMMA FiguresFollow == RewardsIInv => ScansUnlock
<1> SUFFICES ASSUME RewardsIInv PROVE ScansUnlock
  OBVIOUS
<1> USE DEF RewardsIInv, IInv, TypeOK
<1> DEFINE used == {c \in Code : status[c] = "USED"}
<1>1. ASSUME NEW d \in Drink
      PROVE  Cardinality({c \in used : drinkOf[c] = d}) <= Cardinality({u \in User : d \in unlocked[u]})
  <2> DEFINE S == {c \in used : drinkOf[c] = d}
             T == {u \in User : d \in unlocked[u]}
             f == [c \in S |-> scannedBy[c]]
  <2>1. T \in SUBSET Unlockers BY DEF Unlockers
  <2>2. IsFiniteSet(T) BY <2>1, FS_Subset
  <2>3. f \in [S -> T] BY DEF UsedHasUnlock
  <2>4. \A c, e \in S : f[c] = f[e] => c = e BY DEF ScanOnce
  <2>5. f \in Injection(S, T) BY <2>3, <2>4 DEF Injection, IsInjective
  <2> HIDE DEF S, T, f
  <2>6. Cardinality(S) <= Cardinality(T) BY <2>2, <2>5, FS_Injection
  <2>7. QED BY <2>6 DEF S, T
<1>2. Cardinality({scannedBy[c] : c \in used} \ {None}) <= Cardinality(Unlockers)
  <2>1. {scannedBy[c] : c \in used} \ {None} \in SUBSET Unlockers BY DEF UsedHasUnlock, Unlockers
  <2>2. QED BY <2>1, FS_Subset
<1>3. QED BY <1>1, <1>2 DEF ScansUnlock, Analytics, Unlockers

\* Missions, XP and the bar's figures never exceed what the unlocks justify.
THEOREM RewardsBackedHolds == Spec => []RewardsBacked
<1>1. Init => RewardsIInv
  <2> SUFFICES ASSUME Init PROVE RewardsIInv
    OBVIOUS
  <2>1. IInv BY InitIInv
  <2>2. Busy = {} /\ Unlockers = {} /\ \A u \in User : Reporting(u) = {} /\ Unpaid(u) = {}
    BY DEF Init, Busy, Unlockers, Reporting, Unpaid
  <2>3. Countable /\ IsFiniteSet(Unlockers)
    BY <2>2, FS_EmptySet DEF Init, Countable
  <2>4. MissionBacked
    <3>1. \A u \in User : progress[u] = 0 /\ unlocked[u] = {}
      BY DEF Init
    <3>2. QED BY <2>2, <3>1, FS_EmptySet DEF MissionBacked
  <2>5. DrinkXp * 0 = 0 /\ MissionXp * 0 = 0
    BY RewardsAssumption
  <2>6. XpFits
    <3>1. \A u \in User : unlocked[u] = {} /\ progress[u] = 0 /\ totalXp[u] = 0
      BY DEF Init
    <3>2. \A u \in User : Owing(u) = 0 /\ Worth(u) = 0
      BY <2>2, <2>5, <3>1, FS_EmptySet DEF Owing, Worth
    <3>3. \A r \in Request : pc[r] = "idle" BY DEF Init
    <3>4. QED BY <3>1, <3>2, <3>3 DEF XpFits
  <2>7. ScanOnce BY DEF Init, ScanOnce
  <2>8. QED BY <2>1, <2>3, <2>4, <2>6, <2>7 DEF RewardsIInv
<1>2. RewardsIInv /\ [Next]_vars => RewardsIInv'
  <2> SUFFICES ASSUME RewardsIInv, [Next]_vars PROVE RewardsIInv'
    OBVIOUS
  <2>1. IInv' BY NextIInv DEF RewardsIInv
  <2>2. Countable' /\ IsFiniteSet(Unlockers') BY CountableStep DEF RewardsIInv, IInv
  <2>3. MissionBacked' /\ XpFits' BY <2>1, <2>2, SumsNext DEF IInv
  <2>4. ScanOnce' BY ScanOnceStep DEF RewardsIInv
  <2>5. QED BY <2>1, <2>2, <2>3, <2>4 DEF RewardsIInv
<1>3. RewardsIInv => RewardsBacked
  <2> SUFFICES ASSUME RewardsIInv PROVE RewardsBacked
    OBVIOUS
  <2>1. XpBacked
    <3> SUFFICES ASSUME NEW u \in User PROVE totalXp[u] <= Worth(u)
      BY DEF XpBacked, Worth
    <3>1. totalXp[u] + Owing(u) <= Worth(u) BY DEF RewardsIInv, XpFits
    <3>2. QED BY <3>1, Counts DEF RewardsIInv, IInv
  <2>2. QED BY <2>1, FiguresFollow DEF RewardsIInv, RewardsBacked
<1>4. QED BY <1>1, <1>2, <1>3, PTL DEF Spec
=============================================================================
