----------------------------- MODULE BarMissions -----------------------------
(***************************************************************************)
(* The mission seasons of one bar and the medal one user can earn there.   *)
(* Redeemed codes, visits and confirmed reservations are committed first;  *)
(* then a hook of the same request updates the progress of the missions,   *)
(* evaluates the conditions of the season's ACTIVE medal version and, if   *)
(* they hold, grants the medal with its XP and its notification.  Hooks of *)
(* several requests overlap, and so do the bar's and the administrators'   *)
(* requests that change seasons, missions, medal and subscription.         *)
(*                                                                         *)
(* A hook that fails is only logged: nobody runs it again.                 *)
(***************************************************************************)
EXTENDS Integers, FiniteSets

CONSTANTS
  Season,      \* seasons the bar can create
  Version,     \* medal versions that can become ACTIVE
  Drink,       \* drinks of the bar: a user unlocks each once
  Visit,       \* check-ins the user can make
  Party,       \* reservations for two or more
  Request,     \* requests the server may be working on at once
  Triple,      \* sets of three templates a season may be given
  Window,      \* sets of days a season may run
  Ask,         \* what a medal version may ask for, and whether it pays XP
  MaxDay,      \* bound: days
  MaxChanges,  \* bound: changes made by the bar and the administrators
  None

Day == 1..MaxDay
Template == {"SCAN_ONCE", "SCAN_TWO_DAYS", "SCAN_TWO_DRINKS", "RESERVE_PARTY_OF_TWO"}
Mode == {"ALL", "ANY"}

Medals == [season : Season, generation : Nat, ask : Ask]

ASSUME ConstantsOK ==
  /\ Triple \subseteq SUBSET Template
  /\ Window \subseteq SUBSET Day
  /\ Ask \subseteq 
       [mode : Mode, visits : Nat, drinks : Nat, missions : SUBSET Template, xp : BOOLEAN]
  /\ \A a \in Ask : a.visits > 0 \/ a.drinks > 0 \/ a.missions # {}
  /\ MaxDay \in Nat
  /\ MaxChanges \in Nat
  /\ None \notin Season \cup Version \cup Medals

VARIABLES
  status,      \* status[s] : bar_mission_seasons.status, or "unborn"
  window,      \* window[s] : the days from starts_at to ends_at
  missions,    \* missions[s] : templates of its bar_missions rows
  generation,  \* generation[s] : how often these rows were replaced
  medal,       \* medal[v] : what version v asks, of which season; or None
  official,    \* the bar's ACTIVE version
  operational, \* evaluateLegendMedalOperational of the bar's subscription
  today,
  unlocks,     \* <<drink, day>>: user_drink_unlocks and qr_sessions USED
  visits,      \* <<visit, day>>: place_visits
  parties,     \* reservations the bar has confirmed
  completed,   \* mission rows with a completed_at
  earned,      \* <<season, version>>: user_bar_medals
  ledger,      \* medals paid by a gamification_rewards row
  notified,    \* medals with a notification, by its dedupe key
  pc,
  at,          \* at[r] : the season request r works on
  rows,        \* rows[r] : mission rows still to be written
  seen,        \* seen[r] : the unlocks the hook has read
  span,        \* span[r] : the window of the season it has read
  version,     \* version[r] : the ACTIVE version it has read
  plan,        \* plan[r] : the missions the bar asked for, or None
  ending,      \* ending[r] : seasons its transaction is going to end
  changes,     \* bound: changes so far
  due          \* history: something happened since the last change or failure

seasons == <<status, window, missions, generation>>
config == <<seasons, medal, official, operational>>
evidence == <<unlocks, visits, parties>>
grants == <<earned, ledger, notified>>
locals == <<at, rows, seen, span, version, plan, ending>>
vars == <<config, today, evidence, completed, grants, pc, locals, changes, due>>

-----------------------------------------------------------------------------

Scan(T) == T \ {"RESERVE_PARTY_OF_TWO"}
Row(s, T) == {[season |-> s, generation |-> generation[s], template |-> t] : t \in T}
Exists(row) == row \in Row(row.season, missions[row.season])
ActiveSeasons == {s \in Season : status[s] = "ACTIVE"}
Running == {s \in ActiveSeasons : today \in window[s]}
Within(E, days) == {e \in E : e[2] \in days}

\* computeScanProgress compared with the template's target.
Done(t, U) ==
  CASE t = "SCAN_ONCE"       -> U # {}
    [] t = "SCAN_TWO_DRINKS" -> \E u, w \in U : u[1] # w[1]
    [] t = "SCAN_TWO_DAYS"   -> \E u, w \in U : u[2] # w[2]
    [] OTHER                 -> FALSE

Drinks(U) == {d \in Drink : \E u \in U : u[1] = d}

\* evaluateConditions and combine, over given visits, unlocks and missions.
Meets(a, V, U, T) ==
  IF a.mode = "ALL"
    THEN Cardinality(V) >= a.visits /\ Cardinality(Drinks(U)) >= a.drinks /\ a.missions \subseteq T
    ELSE \/ a.visits > 0 /\ Cardinality(V) >= a.visits
         \/ a.drinks > 0 /\ Cardinality(Drinks(U)) >= a.drinks
         \/ a.missions \cap T # {}

\* The missions the version refers to that the user has completed.
CompletedFor(v) ==
  {t \in Template :
    [season |-> medal[v].season, generation |-> medal[v].generation, template |-> t] \in completed}

Eligible(v, days) ==
  /\ Meets(medal[v].ask, Within(visits, days), Within(unlocks, days), CompletedFor(v))
  /\ operational
  /\ today \in days

Init ==
  /\ status = [s \in Season |-> "unborn"]
  /\ window = [s \in Season |-> {}]
  /\ missions = [s \in Season |-> {}]
  /\ generation = [s \in Season |-> 0]
  /\ medal = [v \in Version |-> None]
  /\ official = None
  /\ operational = TRUE
  /\ today = 1
  /\ unlocks = {} /\ visits = {} /\ parties = {}
  /\ completed = {}
  /\ earned = {} /\ ledger = {} /\ notified = {}
  /\ pc = [r \in Request |-> "idle"]
  /\ at = [r \in Request |-> None]
  /\ rows = [r \in Request |-> {}]
  /\ seen = [r \in Request |-> {}]
  /\ span = [r \in Request |-> {}]
  /\ version = [r \in Request |-> None]
  /\ plan = [r \in Request |-> None]
  /\ ending = [r \in Request |-> {}]
  /\ changes = 0
  /\ due = FALSE

Goto(r, l) == pc' = [pc EXCEPT ![r] = l]

\* The request ends and its local variables are gone.
Return(r) ==
  /\ Goto(r, "idle")
  /\ at' = [at EXCEPT ![r] = None]
  /\ rows' = [rows EXCEPT ![r] = {}]
  /\ seen' = [seen EXCEPT ![r] = {}]
  /\ span' = [span EXCEPT ![r] = {}]
  /\ version' = [version EXCEPT ![r] = None]
  /\ plan' = [plan EXCEPT ![r] = None]
  /\ ending' = [ending EXCEPT ![r] = {}]

-----------------------------------------------------------------------------
(* What the user does: committed before the hook starts. *)

Happens(r, l) ==
  /\ pc[r] = "idle"
  /\ Goto(r, l)
  /\ UNCHANGED <<config, today, completed, grants, locals, changes>>

Redeem(r, d) ==
  /\ d \notin Drinks(unlocks)
  /\ unlocks' = unlocks \cup {<<d, today>>}
  /\ Happens(r, "qrUnlock")
  /\ due' = TRUE
  /\ UNCHANGED <<visits, parties>>

CheckIn(r, v) ==
  /\ \A w \in visits : w[1] # v
  /\ visits' = visits \cup {<<v, today>>}
  /\ Happens(r, "visit")
  /\ due' = TRUE
  /\ UNCHANGED <<unlocks, parties>>

ConfirmReservation(r, p) ==
  /\ p \notin parties
  /\ parties' = parties \cup {p}
  /\ Happens(r, "reservation")
  /\ UNCHANGED <<unlocks, visits, due>>

-----------------------------------------------------------------------------
(* The hooks: progress of the missions *)

Hook(r, l) ==
  /\ pc[r] = l
  /\ UNCHANGED <<config, today, evidence, changes>>

\* onQrUnlock finds an ACTIVE season of the bar and its missions ...
QrFind(r) ==
  /\ Hook(r, "qrUnlock")
  /\ IF Running = {}
       THEN Return(r)
       ELSE /\ \E s \in Running :
                 /\ at' = [at EXCEPT ![r] = s]
                 /\ span' = [span EXCEPT ![r] = window[s]]
                 /\ rows' = [rows EXCEPT ![r] = Row(s, Scan(missions[s]))]
            /\ Goto(r, "qrRead")
            /\ UNCHANGED <<seen, version, plan, ending>>
  /\ UNCHANGED <<due, completed, grants>>

\* ... reads the user's unlocks in its window once ...
QrRead(r) ==
  /\ Hook(r, "qrRead")
  /\ seen' = [seen EXCEPT ![r] = Within(unlocks, span[r])]
  /\ Goto(r, "qrWrite")
  /\ UNCHANGED <<due, completed, grants, at, rows, span, version, plan, ending>>

\* Mutant: a mission that the old read does not complete loses its completed_at.
QrWriteClears(r, row) ==
  /\ Hook(r, "qrWrite")
  /\ row \in rows[r] /\ Exists(row)
  /\ completed' = IF Done(row.template, seen[r]) THEN completed \cup {row} ELSE completed \ {row}
  /\ rows' = [rows EXCEPT ![r] = @ \ {row}]
  /\ UNCHANGED <<due, grants, pc, at, seen, span, version, plan, ending>>

\* ... and upserts the progress of one mission after the other.
QrWrite(r, row) ==
  /\ Hook(r, "qrWrite")
  /\ row \in rows[r] /\ Exists(row)
  /\ completed' = IF Done(row.template, seen[r]) THEN completed \cup {row} ELSE completed
  /\ rows' = [rows EXCEPT ![r] = @ \ {row}]
  /\ UNCHANGED <<due, grants, pc, at, seen, span, version, plan, ending>>

\* onReservationConfirmed stops if that season has no mission for reservations.
ReservationFind(r) ==
  /\ Hook(r, "reservation")
  /\ \/ /\ \/ Running = {}
           \/ \E s \in Running : "RESERVE_PARTY_OF_TWO" \notin missions[s]
        /\ Return(r)
        /\ UNCHANGED due
     \/ \E s \in Running :
          /\ "RESERVE_PARTY_OF_TWO" \in missions[s]
          /\ at' = [at EXCEPT ![r] = s]
          /\ rows' = [rows EXCEPT ![r] = Row(s, {"RESERVE_PARTY_OF_TWO"})]
          /\ Goto(r, "reservationWrite")
          /\ due' = TRUE
          /\ UNCHANGED <<seen, span, version, plan, ending>>
  /\ UNCHANGED <<completed, grants>>

ReservationWrite(r, row) ==
  /\ Hook(r, "reservationWrite")
  /\ row \in rows[r] /\ Exists(row)
  /\ completed' = completed \cup {row}
  /\ rows' = [rows EXCEPT ![r] = @ \ {row}]
  /\ UNCHANGED <<due, grants, pc, at, seen, span, version, plan, ending>>

\* Mutant: onReservationConfirmed does not evaluate the medal.
WrittenOnly(r) ==
  /\ \E l \in {"qrWrite", "reservationWrite"} : Hook(r, l)
  /\ rows[r] = {}
  /\ IF pc[r] = "qrWrite" THEN Goto(r, "evaluate") /\ UNCHANGED locals ELSE Return(r)
  /\ UNCHANGED <<due, completed, grants>>

Written(r) ==
  /\ \E l \in {"qrWrite", "reservationWrite"} : Hook(r, l)
  /\ rows[r] = {}
  /\ Goto(r, "evaluate")
  /\ UNCHANGED <<due, completed, grants, locals>>

\* onVisitRegistered: with two ACTIVE seasons resolveSeasonForBar gives up.
VisitFind(r) ==
  /\ Hook(r, "visit")
  /\ IF Cardinality(Running) = 1
       THEN /\ \E s \in Running : at' = [at EXCEPT ![r] = s]
            /\ Goto(r, "evaluate")
            /\ UNCHANGED <<rows, seen, span, version, plan, ending>>
       ELSE Return(r)
  /\ UNCHANGED <<due, completed, grants>>

-----------------------------------------------------------------------------
(* The hooks: evaluateAndMaybeUnlock *)

HasMedal(s) == \E m \in earned : m[1] = s

\* Mutant: the bar's ACTIVE version, of whatever season.
ActiveForBar(s) == official # None
ActiveFor(s) == official # None /\ medal[official].season = s

\* No medal yet, and the season has an ACTIVE version.
Evaluate(r) ==
  /\ Hook(r, "evaluate")
  /\ IF ~HasMedal(at[r]) /\ ActiveFor(at[r])
       THEN /\ version' = [version EXCEPT ![r] = official]
            /\ span' = [span EXCEPT ![r] = window[at[r]]]
            /\ Goto(r, "conditions")
            /\ UNCHANGED <<at, rows, seen, plan, ending>>
       ELSE Return(r)
  /\ UNCHANGED <<due, completed, grants>>

Conditions(r) ==
  /\ Hook(r, "conditions")
  /\ IF Eligible(version[r], span[r])
       THEN Goto(r, "unlock") /\ UNCHANGED locals
       ELSE Return(r)
  /\ UNCHANGED <<due, completed, grants>>

\* Mutant: the transaction grants whatever version is ACTIVE by now.
UnlockWhatever(r) ==
  /\ Hook(r, "unlock")
  /\ IF ~HasMedal(at[r]) /\ ActiveFor(at[r]) /\ operational
       THEN /\ version' = [version EXCEPT ![r] = official]
            /\ Goto(r, "grant")
            /\ UNCHANGED <<at, rows, seen, span, plan, ending>>
       ELSE Return(r)
  /\ UNCHANGED <<due, completed, grants>>

\* The transaction looks again: medal, ACTIVE version, subscription.
Unlock(r) ==
  /\ Hook(r, "unlock")
  /\ IF ~HasMedal(at[r]) /\ official = version[r] /\ operational
       THEN Goto(r, "grant") /\ UNCHANGED locals
       ELSE Return(r)
  /\ UNCHANGED <<due, completed, grants>>

Give(m) ==
  /\ earned' = earned \cup {m}
  /\ ledger' = IF medal[m[2]].ask.xp THEN ledger \cup {m} ELSE ledger
  /\ notified' = notified \cup {m}

\* Mutant: no unique index on (user_id, season_id).
GrantNoIndex(r) ==
  /\ Hook(r, "grant")
  /\ Give(<<at[r], version[r]>>)
  /\ Return(r)
  /\ UNCHANGED <<due, completed>>

\* Medal, ledger and notification commit together, or another request won.
Grant(r) ==
  /\ Hook(r, "grant")
  /\ IF HasMedal(at[r]) THEN UNCHANGED grants ELSE Give(<<at[r], version[r]>>)
  /\ Return(r)
  /\ UNCHANGED <<due, completed>>

-----------------------------------------------------------------------------
(* The bar and the administrators *)

Change ==
  /\ changes < MaxChanges
  /\ changes' = changes + 1
  /\ due' = FALSE

Others == <<today, evidence, grants>>

CreateDraftSeason(s, T, days) ==
  /\ status[s] = "unborn" /\ Change
  /\ status' = [status EXCEPT ![s] = "DRAFT"]
  /\ window' = [window EXCEPT ![s] = days]
  /\ missions' = [missions EXCEPT ![s] = T]
  /\ UNCHANGED <<generation, medal, official, operational, completed, Others, pc, locals>>

\* createSeason and activateSeason end the ACTIVE seasons that their updateMany
\* sees, which are not those another transaction has not committed yet.
CreateScan(r, T, days) ==
  /\ pc[r] = "idle"
  /\ changes < MaxChanges
  /\ plan' = [plan EXCEPT ![r] = [missions |-> T, window |-> days]]
  /\ ending' = [ending EXCEPT ![r] = ActiveSeasons]
  /\ Goto(r, "create")
  /\ UNCHANGED <<config, completed, Others, at, rows, seen, span, version, changes, due>>

\* The transaction commits: s is ACTIVE, and those in ending are ENDED.
StatusAfter(r, s) ==
  [z \in Season |-> IF z = s THEN "ACTIVE"
                    ELSE IF z \in ending[r] \cap ActiveSeasons THEN "ENDED" ELSE status[z]]

CreateCommit(r, s) ==
  /\ pc[r] = "create" /\ status[s] = "unborn" /\ Change
  /\ status' = StatusAfter(r, s)
  /\ window' = [window EXCEPT ![s] = plan[r].window]
  /\ missions' = [missions EXCEPT ![s] = plan[r].missions]
  /\ Return(r)
  /\ UNCHANGED <<generation, medal, official, operational, completed, Others>>

ActivateRead(r, s) ==
  /\ pc[r] = "idle"
  /\ status[s] \in {"DRAFT", "ACTIVE"}
  /\ changes < MaxChanges
  /\ at' = [at EXCEPT ![r] = s]
  /\ Goto(r, "activate")
  /\ UNCHANGED <<config, completed, Others, rows, seen, span, version, plan, ending, changes, due>>

ActivateScan(r) ==
  /\ pc[r] = "activate"
  /\ ending' = [ending EXCEPT ![r] = ActiveSeasons \ {at[r]}]
  /\ Goto(r, "activating")
  /\ UNCHANGED <<config, completed, Others, at, rows, seen, span, version, plan, changes, due>>

ActivateCommit(r) ==
  /\ pc[r] = "activating" /\ Change
  /\ status' = StatusAfter(r, at[r])
  /\ Return(r)
  /\ UNCHANGED <<window, missions, generation, medal, official, operational, completed, Others>>

\* updateSeason reads the season; only a DRAFT may be given other missions.
UpdateSeasonRead(r, s, T, days) ==
  /\ pc[r] = "idle"
  /\ status[s] \in {"DRAFT", "ACTIVE"}
  /\ T # None => status[s] = "DRAFT"
  /\ changes < MaxChanges
  /\ at' = [at EXCEPT ![r] = s]
  /\ plan' = [plan EXCEPT ![r] = [missions |-> T, window |-> days]]
  /\ Goto(r, "update")
  /\ UNCHANGED <<config, completed, Others, rows, seen, span, version, ending, changes, due>>

\* Deleting the rows deletes the user's progress in them.
UpdateSeason(r) ==
  /\ pc[r] = "update" /\ Change
  /\ window' = [window EXCEPT ![at[r]] = plan[r].window]
  /\ IF plan[r].missions = None
       THEN UNCHANGED <<missions, generation, completed>>
       ELSE /\ missions' = [missions EXCEPT ![at[r]] = plan[r].missions]
            /\ generation' = [generation EXCEPT ![at[r]] = @ + 1]
            /\ completed' = {row \in completed : row.season # at[r]}
  /\ Return(r)
  /\ UNCHANGED <<status, medal, official, operational, Others>>

EndSeason(s) ==
  /\ status[s] \in {"DRAFT", "ACTIVE", "ENDED"} /\ Change
  /\ status' = [status EXCEPT ![s] = "ENDED"]
  /\ UNCHANGED <<window, missions, generation, medal, official, operational, completed, Others, pc, locals>>

\* validateConditions, of the text the version was written with: there is one at
\* least, and the missions are this season's.
ValidConditions(s, a) ==
  /\ a.visits > 0 \/ a.drinks > 0 \/ a.missions # {}
  /\ a.missions \subseteq missions[s]

\* An administrator activates a version: see MedalVersions for how.
ActivateMedal(v, s, a) ==
  /\ medal[v] = None /\ Change
  /\ status[s] # "unborn"
  /\ today \in window[s] /\ operational
  /\ ValidConditions(s, a)
  /\ official # None => medal[official].season = s
  /\ medal' = [medal EXCEPT ![v] = [season |-> s, generation |-> generation[s], ask |-> a]]
  /\ official' = v
  /\ UNCHANGED <<seasons, operational, completed, Others, pc, locals>>

DisableMedal ==
  /\ official # None /\ Change
  /\ official' = None
  /\ UNCHANGED <<seasons, medal, operational, completed, Others, pc, locals>>

\* The subscription lapses or is renewed.
SubscriptionChanges ==
  /\ Change
  /\ operational' = ~operational
  /\ UNCHANGED <<seasons, medal, official, completed, Others, pc, locals>>

-----------------------------------------------------------------------------

\* A query fails (a mission row is gone, the connection is lost) or the process
\* stops: an open transaction is rolled back.
Fail(r) ==
  /\ pc[r] # "idle"
  /\ due' = FALSE
  /\ Return(r)
  /\ UNCHANGED <<config, completed, Others, changes>>

NextDay ==
  /\ today < MaxDay
  /\ today' = today + 1
  /\ due' = FALSE
  /\ UNCHANGED <<config, evidence, completed, grants, pc, locals, changes>>

UserStep(r) ==
  \/ \E d \in Drink : Redeem(r, d)
  \/ \E v \in Visit : CheckIn(r, v)
  \/ \E p \in Party : ConfirmReservation(r, p)

HookStep(r) ==
  \/ QrFind(r) \/ QrRead(r) \/ ReservationFind(r) \/ VisitFind(r)
  \/ \E row \in rows[r] : QrWrite(r, row) \/ ReservationWrite(r, row)
  \/ Written(r) \/ Evaluate(r) \/ Conditions(r) \/ Unlock(r) \/ Grant(r)

BarStep(r) ==
  \/ \E T \in Triple, days \in Window : CreateScan(r, T, days)
  \/ \E s \in Season : CreateCommit(r, s)
  \/ \E s \in Season : ActivateRead(r, s)
  \/ \E s \in Season, T \in Triple \cup {None}, days \in Window : UpdateSeasonRead(r, s, T, days)
  \/ ActivateScan(r) \/ ActivateCommit(r) \/ UpdateSeason(r)

Next ==
  \/ \E r \in Request : UserStep(r) \/ HookStep(r) \/ BarStep(r) \/ Fail(r)
  \/ \E s \in Season : EndSeason(s)
  \/ \E s \in Season, T \in Triple, days \in Window : CreateDraftSeason(s, T, days)
  \/ \E v \in Version, s \in Season, a \in Ask : ActivateMedal(v, s, a)
  \/ DisableMedal \/ SubscriptionChanges \/ NextDay

Spec == Init /\ [][Next]_vars
-----------------------------------------------------------------------------
(* Properties *)

Writing == {"qrWrite", "reservationWrite"}
Evaluating == {"evaluate", "conditions", "unlock", "grant"}
Hooks == {"qrUnlock", "visit", "reservation", "qrRead"} \cup Writing \cup Evaluating
BarWork == {"create", "activate", "activating", "update"}
Rows == [season : Season, generation : Nat, template : Template]
Plans == [missions : (SUBSET Template) \cup {None}, window : SUBSET Day]

BarTypes ==
  /\ status \in [Season -> {"unborn", "DRAFT", "ACTIVE", "ENDED"}]
  /\ window \in [Season -> SUBSET Day]
  /\ missions \in [Season -> SUBSET Template]
  /\ generation \in [Season -> Nat]
  /\ medal \in [Version -> Medals \cup {None}]
  /\ official \in {v \in Version : medal[v] # None} \cup {None}
  /\ operational \in BOOLEAN

UserTypes ==
  /\ today \in Nat /\ changes \in Nat /\ due \in BOOLEAN
  /\ unlocks \subseteq Drink \X Nat /\ visits \subseteq Visit \X Nat /\ parties \subseteq Party
  /\ completed \subseteq Rows
  /\ earned \subseteq Season \X Version

RequestTypes ==
  /\ pc \in [Request -> Hooks \cup BarWork \cup {"idle"}]
  /\ at \in [Request -> Season \cup {None}]
  /\ rows \in [Request -> SUBSET Rows]
  /\ seen \in [Request -> SUBSET unlocks]
  /\ span \in [Request -> SUBSET Day]
  /\ version \in [Request -> Version \cup {None}]
  /\ plan \in [Request -> Plans \cup {None}]
  /\ ending \in [Request -> SUBSET Season]

Phase(r) ==
  /\ pc[r] \in Writing \cup Evaluating \cup {"qrRead", "activate", "activating", "update"}
       => at[r] \in Season
  /\ pc[r] \in {"conditions", "unlock", "grant"} =>
       /\ version[r] \in Version
       /\ medal[version[r]] # None
       /\ medal[version[r]].season = at[r]
  /\ pc[r] \in {"create", "update"} => plan[r] \in Plans
  /\ pc[r] = "create" => plan[r].missions \subseteq Template

\* Types; a request past its first reads knows its season, its plan, and a
\* version of that very season.
TypeOK == BarTypes /\ UserTypes /\ RequestTypes /\ \A r \in Request : Phase(r)

\* What a template asks of the user, judged by everything the user ever did.
Backed(t) == IF t = "RESERVE_PARTY_OF_TWO" THEN parties # {} ELSE Done(t, unlocks)
Deeds == {t \in Template : Backed(t)}

\* A completed mission is one its season has, and the user did what it asks:
\* stale reads and replaced missions never leave a completion behind.
ProgressBacked == \A row \in completed : Exists(row) /\ Backed(row.template)

\* "Solo setear completedAt la primera vez (no pisar con null)": a hook that has
\* read the unlocks long ago takes no completion back, it only goes with its row.
CompletionStays == [][\A row \in completed : row \in completed' \/ ~Exists(row)']_vars

\* "Una medalla por temporada del local. Conserva la versión exacta obtenida":
\* overlapping hooks grant one medal of one version of that season, and the XP
\* and the notification that belong to it are there exactly when it is.
MedalOnce ==
  /\ \A m, n \in earned : m[1] = n[1] => m = n
  /\ \A m \in earned : medal[m[2]] # None /\ medal[m[2]].season = m[1]
  /\ ledger = {m \in earned : medal[m[2]].ask.xp}
  /\ notified = earned

\* Whoever holds a medal has done what that version asks, although versions,
\* missions and windows change between the evaluation and the grant.
MedalEarned == \A m \in earned :
  Meets(medal[m[2]].ask, visits, unlocks, Deeds)

\* What is on record was done, the completions and the medals of the user, and
\* each medal is on record once, with all that belongs to it.
RecordsBacked == ProgressBacked /\ MedalOnce /\ MedalEarned

\* A medal is owed from when its version exists and what the user did meets it;
\* its receipts are the notification and, if it pays XP, the row of the ledger.
Met == {m \in Season \X Version :
  /\ medal[m[2]] # None /\ medal[m[2]].season = m[1]
  /\ Meets(medal[m[2]].ask, visits, unlocks, Deeds)}
Receipted == {m \in notified : m \in ledger <=> medal[m[2]].ask.xp}
Ledger == INSTANCE PayOnce WITH
  Debt <- Season \X Version, KeyOf <- [m \in Season \X Version |-> m[1]],
  owed <- Met, paid <- earned, receipts <- Receipted

\* Hooks that overlap, with each other and with changes of seasons, missions and
\* versions, give one medal of each season, when it is owed, with its receipts.
LedgerSpec == Ledger!Spec

\* Nobody is forgotten: of two hooks that overlap, one sees what both have
\* written.  When no hook is running, none has failed and nothing was changed
\* since the user's last event, a user who meets the conditions of the running
\* season's medal has it.
NoMissedMedal ==
  (/\ due
   /\ \A r \in Request : pc[r] \notin Hooks
   /\ official # None
   /\ Running = {medal[official].season}
   /\ Eligible(official, window[medal[official].season]))
    => HasMedal(medal[official].season)
=============================================================================
