------------------------------ MODULE QrRedeem ------------------------------
(***************************************************************************)
(* QR codes of one bar: QrService.createSession and redeem over the rows   *)
(* of qr_sessions, user_drink_unlocks, drink_history and users.total_xp,   *)
(* and MissionsService.increment and claim, which redeem calls once its    *)
(* transaction has committed.  There is one mission with the qr_unlock     *)
(* trigger.                                                                *)
(*                                                                         *)
(* A request takes one step per await that reads or writes shared rows.    *)
(* The transaction of redeem is two steps: by the first it has written the *)
(* session row and the unique key (user, drink), so it holds both against  *)
(* other transactions, and has read totalXp; the second is the commit.     *)
(***************************************************************************)
EXTENDS Naturals, FiniteSets

CONSTANTS
  User, Drink,
  Code,        \* qr_sessions rows that can be created
  Request,     \* requests the server may be working on at once
  DrinkXp,     \* drinks.xp_reward
  MissionXp,   \* missions.xp_reward
  Target,      \* missions.target_count
  None

ASSUME NoneIsNothing == None \notin User \cup Drink \cup Code \cup Request
ASSUME RewardsAssumption == DrinkXp \in Nat /\ MissionXp \in Nat /\ Target \in Nat \ {0}

VARIABLES
  status,     \* status[c] : qr_sessions.status, or "unborn"
  drinkOf,    \* qr_sessions.drink_id
  scannedBy,  \* qr_sessions.scanned_by_id
  overdue,    \* sessions whose expires_at has passed
  menu,       \* menu[d] : the bar_menu_items row: ACTIVE, INACTIVE, or DELETED by an admin
  unlocked,   \* unlocked[u] : drinks with a user_drink_unlocks row
  history,    \* history[u][d] : number of drink_history rows
  totalXp,    \* users.total_xp
  mission,    \* mission[u] : status of the user_missions row
  progress,   \* progress[u] : user_missions.progress
  pc, user, code, drink,   \* of a request: where it is and what it works on
  readXp      \* readXp[r] : totalXp it read before its next update

qr == <<status, drinkOf, scannedBy, overdue, menu>>
rewards == <<unlocked, history, totalXp>>
missions == <<mission, progress>>
locals == <<user, code, drink, readXp>>
vars == <<qr, rewards, missions, pc, locals>>

-----------------------------------------------------------------------------

Init ==
  /\ status = [c \in Code |-> "unborn"]
  /\ drinkOf = [c \in Code |-> None]
  /\ scannedBy = [c \in Code |-> None]
  /\ overdue = {}
  /\ menu = [d \in Drink |-> "ACTIVE"]
  /\ unlocked = [u \in User |-> {}]
  /\ history = [u \in User |-> [d \in Drink |-> 0]]
  /\ totalXp = [u \in User |-> 0]
  /\ mission = [u \in User |-> "NONE"]
  /\ progress = [u \in User |-> 0]
  /\ pc = [r \in Request |-> "idle"]
  /\ user = [r \in Request |-> None]
  /\ code = [r \in Request |-> None]
  /\ drink = [r \in Request |-> None]
  /\ readXp = [r \in Request |-> 0]

Goto(r, l) == pc' = [pc EXCEPT ![r] = l]

\* The request ends; its local variables are gone.
Return(r) ==
  /\ Goto(r, "idle")
  /\ user' = [user EXCEPT ![r] = None]
  /\ code' = [code EXCEPT ![r] = None]
  /\ drink' = [drink EXCEPT ![r] = None]
  /\ readXp' = [readXp EXCEPT ![r] = 0]

-----------------------------------------------------------------------------
(* createSession: the menu is checked, the active codes of the drink are   *)
(* expired, and only then is the new one inserted.                         *)

CreateExpire(r, d) ==
  /\ pc[r] = "idle"
  /\ menu[d] = "ACTIVE"
  /\ \A q \in Request : pc[q] = "redeeming" => drinkOf[code[q]] # d   \* row locks
  /\ status' = [c \in Code |->
       IF drinkOf[c] = d /\ status[c] = "ACTIVE" THEN "EXPIRED" ELSE status[c]]
  /\ Goto(r, "create")
  /\ drink' = [drink EXCEPT ![r] = d]
  /\ UNCHANGED <<drinkOf, scannedBy, overdue, menu, rewards, missions, user, code, readXp>>

\* Mutant: the row is inserted without its drink.
CreateInsertBare(r, c) ==
  /\ pc[r] = "create"
  /\ status[c] = "unborn"
  /\ status' = [status EXCEPT ![c] = "ACTIVE"]
  /\ Return(r)
  /\ UNCHANGED <<drinkOf, scannedBy, overdue, menu, rewards, missions>>

CreateInsert(r, c) ==
  /\ pc[r] = "create"
  /\ status[c] = "unborn"
  /\ status' = [status EXCEPT ![c] = "ACTIVE"]
  /\ drinkOf' = [drinkOf EXCEPT ![c] = drink[r]]
  /\ Return(r)
  /\ UNCHANGED <<scannedBy, overdue, menu, rewards, missions>>

\* setMenuItem(active true or false) by the bar's owner.  It leaves deletedAt as
\* it is, so a drink an admin has taken off stays off.
SetMenuItem(d) ==
  /\ menu[d] # "DELETED"
  /\ menu' = [menu EXCEPT ![d] = IF @ = "ACTIVE" THEN "INACTIVE" ELSE "ACTIVE"]
  /\ UNCHANGED <<status, drinkOf, scannedBy, overdue, rewards, missions, pc, locals>>

\* setBarMenu: an admin gives the whole list, some of it active; what is not on
\* it is deleted.  The plan limits the active ones of the list, if at all.
SetBarMenu(list, active) ==
  /\ menu' = [d \in Drink |-> IF d \in active THEN "ACTIVE"
                             ELSE IF d \in list THEN "INACTIVE" ELSE "DELETED"]
  /\ UNCHANGED <<status, drinkOf, scannedBy, overdue, rewards, missions, pc, locals>>

-----------------------------------------------------------------------------
(* redeem *)

\* Mutant: markExpired updates by id, without "status: ACTIVE".
MarkExpiredById(c) ==
  /\ status[c] # "unborn"
  /\ \A q \in Request : pc[q] = "redeeming" => code[q] # c
  /\ status' = [status EXCEPT ![c] = "EXPIRED"]
  /\ UNCHANGED <<drinkOf, scannedBy, overdue, menu, rewards, missions, pc, locals>>

\* The client's copy of expiresAt says the code is late: markExpired.
MarkExpired(c) ==
  /\ status[c] = "ACTIVE"
  /\ \A q \in Request : pc[q] = "redeeming" => code[q] # c
  /\ status' = [status EXCEPT ![c] = "EXPIRED"]
  /\ UNCHANGED <<drinkOf, scannedBy, overdue, menu, rewards, missions, pc, locals>>

\* Every test redeem makes, all of them before its transaction.
RedeemCheck(r, u, c) ==
  /\ pc[r] = "idle"
  /\ status[c] = "ACTIVE" /\ c \notin overdue
  /\ menu[drinkOf[c]] = "ACTIVE"
  /\ drinkOf[c] \notin unlocked[u]
  /\ Goto(r, "checked")
  /\ user' = [user EXCEPT ![r] = u]
  /\ code' = [code EXCEPT ![r] = c]
  /\ drink' = [drink EXCEPT ![r] = drinkOf[c]]
  /\ UNCHANGED <<qr, rewards, missions, readXp>>

\* Mutant: no unique index on (user_id, drink_id).
RedeemBeginNoIndex(r) ==
  /\ pc[r] = "checked"
  /\ \A q \in Request : pc[q] = "redeeming" => code[q] # code[r]
  /\ Goto(r, "redeeming")
  /\ readXp' = [readXp EXCEPT ![r] = totalXp[user[r]]]
  /\ UNCHANGED <<qr, rewards, missions, user, code, drink>>

\* Mutant: the session is marked used before the transaction, not in it.
RedeemBeginMarks(r) ==
  /\ pc[r] = "checked"
  /\ status' = [status EXCEPT ![code[r]] = "USED"]
  /\ scannedBy' = [scannedBy EXCEPT ![code[r]] = user[r]]
  /\ Goto(r, "redeeming")
  /\ readXp' = [readXp EXCEPT ![r] = totalXp[user[r]]]
  /\ UNCHANGED <<drinkOf, overdue, menu, rewards, missions, user, code, drink>>

\* The transaction has written the session and the unlock and read totalXp.
\* A unique key that is already committed (P2002) rolls it back.
RedeemBegin(r) ==
  /\ pc[r] = "checked"
  /\ \A q \in Request : pc[q] = "redeeming" =>
       code[q] # code[r] /\ <<user[q], drink[q]>> # <<user[r], drink[r]>>
  /\ IF drink[r] \in unlocked[user[r]]
       THEN Return(r)
       ELSE /\ Goto(r, "redeeming")
            /\ readXp' = [readXp EXCEPT ![r] = totalXp[user[r]]]
            /\ UNCHANGED <<user, code, drink>>
  /\ UNCHANGED <<qr, rewards, missions>>

RedeemCommit(r) ==
  /\ pc[r] = "redeeming"
  /\ status' = [status EXCEPT ![code[r]] = "USED"]
  /\ scannedBy' = [scannedBy EXCEPT ![code[r]] = user[r]]
  /\ unlocked' = [unlocked EXCEPT ![user[r]] = @ \cup {drink[r]}]
  /\ history' = [history EXCEPT ![user[r]][drink[r]] = @ + 1]
  /\ totalXp' = [totalXp EXCEPT ![user[r]] = readXp[r] + DrinkXp]
  /\ Goto(r, "mission")
  /\ UNCHANGED <<drinkOf, overdue, menu, missions, locals>>

-----------------------------------------------------------------------------
(* MissionsService.increment, no transaction around it *)

MissionFind(r) ==
  /\ pc[r] = "mission"
  /\ IF mission[user[r]] \in {"COMPLETED", "CLAIMED"} THEN Return(r)
     ELSE Goto(r, "upsert") /\ UNCHANGED locals
  /\ UNCHANGED <<qr, rewards, missions>>

\* The row upsert returns decides whether the mission is completed.
MissionUpsert(r) ==
  LET u == user[r] IN
  /\ pc[r] = "upsert"
  /\ progress' = [progress EXCEPT ![u] = @ + 1]
  /\ mission' = [mission EXCEPT ![u] = IF @ = "NONE" THEN "IN_PROGRESS" ELSE @]
  /\ IF progress'[u] >= Target /\ mission'[u] # "COMPLETED"
       THEN Goto(r, "complete") /\ UNCHANGED locals
       ELSE Return(r)
  /\ UNCHANGED <<qr, rewards>>

MissionComplete(r) ==
  /\ pc[r] = "complete"
  /\ mission' = [mission EXCEPT ![user[r]] = "COMPLETED"]
  /\ Goto(r, "readXp")
  /\ UNCHANGED <<qr, rewards, progress, locals>>

MissionReadXp(r) ==
  /\ pc[r] = "readXp"
  /\ readXp' = [readXp EXCEPT ![r] = totalXp[user[r]]]
  /\ Goto(r, "writeXp")
  /\ UNCHANGED <<qr, rewards, missions, user, code, drink>>

\* Mutant: the award is retried although the write went through.
MissionWriteXpRetried(r) ==
  /\ pc[r] = "writeXp"
  /\ totalXp' = [totalXp EXCEPT ![user[r]] = readXp[r] + MissionXp]
  /\ Goto(r, "readXp")
  /\ totalXp[user[r]] < 20          \* a bound on the retries
  /\ UNCHANGED <<qr, unlocked, history, missions, locals>>

MissionWriteXp(r) ==
  /\ pc[r] = "writeXp"
  /\ totalXp' = [totalXp EXCEPT ![user[r]] = readXp[r] + MissionXp]
  /\ Return(r)
  /\ UNCHANGED <<qr, unlocked, history, missions>>

Claim(u) ==
  /\ mission[u] = "COMPLETED"
  /\ mission' = [mission EXCEPT ![u] = "CLAIMED"]
  /\ UNCHANGED <<qr, rewards, progress, pc, locals>>

-----------------------------------------------------------------------------
(* Failure and time *)

\* A query fails or the process stops: an open transaction is rolled back,
\* what was committed stays, and the remaining steps never happen.
Fail(r) ==
  /\ pc[r] # "idle"
  /\ Return(r)
  /\ UNCHANGED <<qr, rewards, missions>>

TimePasses(c) ==
  /\ status[c] # "unborn" /\ c \notin overdue
  /\ overdue' = overdue \cup {c}
  /\ UNCHANGED <<status, drinkOf, scannedBy, menu, rewards, missions, pc, locals>>

Step(r) ==
  \/ RedeemBegin(r) \/ RedeemCommit(r)
  \/ MissionFind(r) \/ MissionUpsert(r) \/ MissionComplete(r)
  \/ MissionReadXp(r) \/ MissionWriteXp(r)
  \/ \E c \in Code : CreateInsert(r, c)

Next ==
  \/ \E r \in Request : Step(r) \/ Fail(r)
  \/ \E r \in Request, d \in Drink : CreateExpire(r, d)
  \/ \E r \in Request, u \in User, c \in Code : RedeemCheck(r, u, c)
  \/ \E c \in Code : MarkExpired(c) \/ TimePasses(c)
  \/ \E d \in Drink : SetMenuItem(d)
  \/ \E list \in SUBSET Drink : \E active \in SUBSET list : SetBarMenu(list, active)
  \/ \E u \in User : Claim(u)

Spec == Init /\ [][Next]_vars

-----------------------------------------------------------------------------
(* Properties *)

Informed(r) ==
  /\ pc[r] = "create" => drink[r] \in Drink
  /\ pc[r] \notin {"idle", "create"} =>
       /\ user[r] \in User /\ code[r] \in Code
       /\ status[code[r]] # "unborn" /\ drink[r] = drinkOf[code[r]]

\* Types; a session that exists has a drink, and a request that has passed
\* redeem's tests works for a user, on a session, for that session's drink.
TypeOK ==
  /\ status \in [Code -> {"unborn", "ACTIVE", "USED", "EXPIRED"}]
  /\ drinkOf \in [Code -> Drink \cup {None}]
  /\ scannedBy \in [Code -> User \cup {None}]
  /\ overdue \in SUBSET Code
  /\ menu \in [Drink -> {"ACTIVE", "INACTIVE", "DELETED"}]
  /\ unlocked \in [User -> SUBSET Drink]
  /\ history \in [User -> [Drink -> Nat]]
  /\ totalXp \in [User -> Nat]
  /\ mission \in [User -> {"NONE", "IN_PROGRESS", "COMPLETED", "CLAIMED"}]
  /\ progress \in [User -> Nat]
  /\ pc \in [Request -> {"idle", "create", "checked", "redeeming", "mission",
                         "upsert", "complete", "readXp", "writeXp"}]
  /\ user \in [Request -> User \cup {None}]
  /\ code \in [Request -> Code \cup {None}]
  /\ drink \in [Request -> Drink \cup {None}]
  /\ readXp \in [Request -> Nat]
  /\ \A c \in Code : status[c] # "unborn" => drinkOf[c] \in Drink
  /\ \A r \in Request : Informed(r)

\* However scans of the same and of different codes overlap, fail and repeat, a
\* user is paid for a drink exactly when the unlock exists, and once.
PaidOnce == \A u \in User, d \in Drink :
  history[u][d] = IF d \in unlocked[u] THEN 1 ELSE 0

\* A used session is never left without the unlock it was spent on.
UsedHasUnlock == \A c \in Code : status[c] = "USED" =>
  scannedBy[c] \in User /\ drinkOf[c] \in unlocked[scannedBy[c]]

\* Unlocks agree with what was paid for them and with the codes spent on them,
\* whichever scans overlap and wherever a transaction fails.
UnlocksBacked == PaidOnce /\ UsedHasUnlock

\* Neither a late client nor the owner asking for a new code takes a used
\* session back, even while another scan of it is being committed.
UsedIsFinal == [][\A c \in Code : status[c] = "USED" => status'[c] = "USED"]_vars

\* Mission progress never runs ahead of the unlocks, counting the redeems that
\* have committed and not yet reported: every unlock is reported at most once.
Reporting(u) == {r \in Request : user[r] = u /\ pc[r] \in {"mission", "upsert"}}
MissionBacked == \A u \in User :
  progress[u] + Cardinality(Reporting(u)) <= Cardinality(unlocked[u])

\* Overlapping awards may lose XP (each is read, added to and written back),
\* but none invents XP: the total never exceeds what unlocks and mission
\* progress can have paid.
XpBacked == \A u \in User :
  totalXp[u] <= DrinkXp * Cardinality(unlocked[u]) + MissionXp * progress[u]

\* What the bar is shown of its used codes, all plans' parts of it but the times.
Analytics ==
  LET used == {c \in Code : status[c] = "USED"} IN
  [totalScans |-> Cardinality(used),
   uniqueUsers |-> Cardinality({scannedBy[c] : c \in used} \ {None}),
   scansOf |-> [d \in Drink |-> Cardinality({c \in used : drinkOf[c] = d})]]

\* The bar's figures never run ahead of its users' unlocks: two codes for one
\* drink are not both counted for a user, nor one whose unlock was rolled back.
\* They may stay behind, where one code was redeemed by two at once.
ScansUnlock ==
  /\ \A d \in Drink : Analytics.scansOf[d] <= Cardinality({u \in User : d \in unlocked[u]})
  /\ Analytics.uniqueUsers <= Cardinality({u \in User : unlocked[u] # {}})

\* Missions, XP and the bar's figures never exceed what unlocks justify, however
\* redeems and their reports overlap or stop half-way.
RewardsBacked == MissionBacked /\ XpBacked /\ ScansUnlock

\* An unlock is owed to whoever the code of its drink may have been used by (the
\* row only names the last one), and its receipt is one row of drink_history.
Scanned == {x \in User \X Drink : \E c \in Code : status[c] = "USED" /\ drinkOf[c] = x[2]}
Unlocked == {x \in User \X Drink : x[2] \in unlocked[x[1]]}
Registered == {x \in User \X Drink : history[x[1]][x[2]] = 1}
Ledger == INSTANCE PayOnce WITH
  Debt <- User \X Drink, KeyOf <- [x \in User \X Drink |-> x],
  owed <- Scanned, paid <- Unlocked, receipts <- Registered

\* Codes, sessions and transactions, whichever overlap, pay each user for each
\* drink once, when a code of it is used, with its row of history.
LedgerSpec == Ledger!Spec

\* "Este código ya fue utilizado": a used session is not redeemed again.
CodeIsSingleUse == [][\A c \in Code :
  status[c] = "USED" => scannedBy'[c] = scannedBy[c]]_vars
=============================================================================
