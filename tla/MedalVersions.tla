--------------------------- MODULE MedalVersions ---------------------------
(***************************************************************************)
(* The official medal of one bar: the rows of bar_mission_medal_versions,  *)
(* written by the bar (BarMissionMedalService) and by the administration   *)
(* (AdminBarMissionMedalService).  A version is drafted, submitted,        *)
(* corrected, approved, activated and disabled; users can earn the ACTIVE  *)
(* one.                                                                    *)
(*                                                                         *)
(* Every handler reads the row, tests its status, and later updates the    *)
(* row by its id: two steps of a request.  Only an activation is           *)
(* serialised, by SELECT ... FOR UPDATE on the bar.  A handler may also    *)
(* refuse at any point (the plan, the season's dates, the text, the        *)
(* conditions or the artwork are not in order), which here is Fail.        *)
(***************************************************************************)
EXTENDS Integers

CONSTANTS
  Season,    \* seasons of the bar
  Version,   \* version rows that can be created
  Request,   \* requests the server may be working on at once
  Copy,      \* what a version says: text, conditions, XP, artwork
  None

ASSUME NoneIsNew == None \notin Season \cup Version \cup Request \cup Copy

VARIABLES
  status,    \* status[v] : bar_mission_medal_versions.status, or "unborn"
  season,    \* season_id
  number,    \* version, counted from 1 in each season
  copy,      \* text, conditions, xp_reward, artwork
  current,   \* current[s] : bar_mission_seasons.current_medal_version_id
  rowLock,   \* rowLock[v] : request whose open transaction has written row v
  barLock,   \* request whose open transaction has locked the bar's row
  pc,
  version,   \* version[r] : the version request r was given
  inSeason,  \* inSeason[r] : the season it creates a version in
  draft,     \* draft[r] : what it is going to write
  next,      \* next[r] : the version number it has computed
  attempt    \* attempt[r] : attempts of createNextVersion so far

rows == <<status, season, number, copy, current>>
locks == <<rowLock, barLock>>
locals == <<version, inSeason, draft, next, attempt>>
vars == <<rows, locks, pc, locals>>

-----------------------------------------------------------------------------

Open == {"DRAFT", "CHANGES_REQUESTED", "PENDING_REVIEW", "APPROVED"}
Of(s) == {v \in Version : season[v] = s}
Active == {v \in Version : status[v] = "ACTIVE"}

\* assertCanStartOfficialDraft: the canonical version, if there is one, refuses.
CanStartDraft(s) ==
  /\ \A v \in Version : status[v] \in {"unborn", "DISABLED"}
  /\ Of(s) = {}

\* assertSingleOfficialMedalWorkflow, then the test for an open draft.
CanStartNext(s) ==
  /\ \A v \in Version : season[v] # s => status[v] \in {"unborn", "DISABLED"}
  /\ \A v \in Of(s) : status[v] \notin Open

\* The version a new one is cloned from: the ACTIVE one, or else the newest.
IsSource(v, s) ==
  /\ v \in Of(s)
  /\ \/ status[v] = "ACTIVE"
     \/ /\ Of(s) \cap Active = {}
        /\ \A w \in Of(s) : number[w] <= number[v]

\* The statuses in which a handler accepts the version it has read.
Accepts(o) ==
  CASE o \in {"update", "submit"}                      -> {"DRAFT", "CHANGES_REQUESTED"}
    [] o \in {"approve", "correct", "approveActivate"} -> {"PENDING_REVIEW"}
    [] o \in {"reward", "artwork"}                     -> Open
    [] o = "activate"                                  -> {"APPROVED"}
    [] o = "disable"                                   -> {"ACTIVE"}

Writes == {"update", "submit", "approve", "correct", "reward", "artwork", "disable"}
Activations == {"approveActivate", "activate"}

Init ==
  /\ status = [v \in Version |-> "unborn"]
  /\ season = [v \in Version |-> None]
  /\ number = [v \in Version |-> 0]
  /\ copy = [v \in Version |-> None]
  /\ current = [s \in Season |-> None]
  /\ rowLock = [v \in Version |-> None]
  /\ barLock = None
  /\ pc = [r \in Request |-> "idle"]
  /\ version = [r \in Request |-> None]
  /\ inSeason = [r \in Request |-> None]
  /\ draft = [r \in Request |-> None]
  /\ next = [r \in Request |-> 0]
  /\ attempt = [r \in Request |-> 0]

Goto(r, l) == pc' = [pc EXCEPT ![r] = l]

\* The request ends and its local variables are gone.
Return(r) ==
  /\ Goto(r, "idle")
  /\ version' = [version EXCEPT ![r] = None]
  /\ inSeason' = [inSeason EXCEPT ![r] = None]
  /\ draft' = [draft EXCEPT ![r] = None]
  /\ next' = [next EXCEPT ![r] = 0]
  /\ attempt' = [attempt EXCEPT ![r] = 0]

-----------------------------------------------------------------------------
(* The bar starts a version. *)

\* Mutant: the season is pointed at the row, the row has no season_id.
InsertWithoutSeason(v, s, n, c) ==
  /\ status[v] = "unborn"
  /\ status' = [status EXCEPT ![v] = "DRAFT"]
  /\ number' = [number EXCEPT ![v] = n]
  /\ copy' = [copy EXCEPT ![v] = c]
  /\ current' = [current EXCEPT ![s] = v]
  /\ UNCHANGED season

\* The row is inserted and becomes the current version of its season.
Insert(v, s, n, c) ==
  /\ status[v] = "unborn"
  /\ status' = [status EXCEPT ![v] = "DRAFT"]
  /\ season' = [season EXCEPT ![v] = s]
  /\ number' = [number EXCEPT ![v] = n]
  /\ copy' = [copy EXCEPT ![v] = c]
  /\ current' = [current EXCEPT ![s] = v]

\* The unique index on (season_id, version).
Taken(s, n) == \E v \in Of(s) : number[v] = n

CreateDraftCheck(r, s, c) ==
  /\ pc[r] = "idle"
  /\ CanStartDraft(s)
  /\ Goto(r, "createDraft")
  /\ inSeason' = [inSeason EXCEPT ![r] = s]
  /\ draft' = [draft EXCEPT ![r] = c]
  /\ UNCHANGED <<rows, locks, version, next, attempt>>

CreateDraft(r, v) ==
  /\ pc[r] = "createDraft"
  /\ ~Taken(inSeason[r], 1)
  /\ Insert(v, inSeason[r], 1, draft[r])
  /\ Return(r)
  /\ UNCHANGED locks

CreateNextCheck(r, s, source) ==
  /\ pc[r] = "idle"
  /\ CanStartNext(s)
  /\ IsSource(source, s)
  /\ Goto(r, "nextNumber")
  /\ inSeason' = [inSeason EXCEPT ![r] = s]
  /\ draft' = [draft EXCEPT ![r] = copy[source]]
  /\ UNCHANGED <<rows, locks, version, next, attempt>>

\* In the transaction: one more than the largest number of the season.
NextNumber(r) ==
  /\ pc[r] = "nextNumber"
  /\ \E n \in {0} \cup {number[v] : v \in Of(inSeason[r])} :
       /\ \A v \in Of(inSeason[r]) : number[v] <= n
       /\ next' = [next EXCEPT ![r] = n + 1]
  /\ Goto(r, "createNext")
  /\ UNCHANGED <<rows, locks, version, inSeason, draft, attempt>>

\* Mutant: no unique index on (season_id, version).
CreateNextNoIndex(r, v) ==
  /\ pc[r] = "createNext"
  /\ Insert(v, inSeason[r], next[r], draft[r])
  /\ Return(r)
  /\ UNCHANGED locks

CreateNext(r, v) ==
  /\ pc[r] = "createNext"
  /\ ~Taken(inSeason[r], next[r])
  /\ Insert(v, inSeason[r], next[r], draft[r])
  /\ Return(r)
  /\ UNCHANGED locks

\* P2002: another request took the number; at most three attempts.
CreateNextRetry(r) ==
  /\ pc[r] = "createNext"
  /\ Taken(inSeason[r], next[r])
  /\ IF attempt[r] < 2
       THEN /\ Goto(r, "nextNumber")
            /\ attempt' = [attempt EXCEPT ![r] = @ + 1]
            /\ next' = [next EXCEPT ![r] = 0]
            /\ UNCHANGED <<version, inSeason, draft>>
       ELSE Return(r)
  /\ UNCHANGED <<rows, locks>>

-----------------------------------------------------------------------------
(* Handlers that read the version, test its status and update it by id.    *)

\* The read and the tests; c is what an editing handler is asked to write.
Read(r, o, v, c) ==
  /\ pc[r] = "idle"
  /\ status[v] \in Accepts(o)
  /\ Goto(r, o)
  /\ version' = [version EXCEPT ![r] = v]
  /\ draft' = [draft EXCEPT ![r] = c]
  /\ UNCHANGED <<rows, locks, inSeason, next, attempt>>

\* The update waits for a transaction that has written the row.
UpdateRow(r, o) ==
  /\ pc[r] = o
  /\ rowLock[version[r]] = None
  /\ UNCHANGED <<season, number, locks>>

Edit(r) == copy' = [copy EXCEPT ![version[r]] = draft[r]]
Becomes(r, st) == status' = [status EXCEPT ![version[r]] = st]
PointSeason(r) == current' = [current EXCEPT ![season[version[r]]] = version[r]]

UpdateDraft(r) ==
  UpdateRow(r, "update") /\ Edit(r) /\ PointSeason(r) /\ Return(r) /\ UNCHANGED status

\* submit writes the version and then, on its own, the season.
Submit(r) ==
  /\ UpdateRow(r, "submit") /\ Becomes(r, "PENDING_REVIEW")
  /\ Goto(r, "submitted")
  /\ UNCHANGED <<copy, current, locals>>

SubmitSeason(r) ==
  /\ pc[r] = "submitted"
  /\ PointSeason(r) /\ Return(r)
  /\ UNCHANGED <<status, season, number, copy, locks>>

Approve(r) ==
  UpdateRow(r, "approve") /\ Becomes(r, "APPROVED") /\ Return(r) /\ UNCHANGED <<copy, current>>

\* requestChanges and reject.
CorrectionRequired(r) ==
  /\ UpdateRow(r, "correct") /\ Becomes(r, "CHANGES_REQUESTED")
  /\ Return(r) /\ UNCHANGED <<copy, current>>

SetReward(r) ==
  UpdateRow(r, "reward") /\ Edit(r) /\ Return(r) /\ UNCHANGED <<status, current>>

SetArtwork(r) ==
  UpdateRow(r, "artwork") /\ Edit(r) /\ Return(r) /\ UNCHANGED <<status, current>>

Disable(r) ==
  UpdateRow(r, "disable") /\ Becomes(r, "DISABLED") /\ Return(r) /\ UNCHANGED <<copy, current>>

-----------------------------------------------------------------------------
(* Activation *)

\* approveAndActivate tests the status again inside its transaction ...
ApproveReload(r) ==
  /\ pc[r] = "approveActivate"
  /\ status[version[r]] = "PENDING_REVIEW"
  /\ Goto(r, "approveInTx")
  /\ UNCHANGED <<rows, locks, locals>>

\* ... and writes APPROVED, which nobody sees but which holds the row.
ApproveInTx(r) ==
  /\ pc[r] = "approveInTx"
  /\ rowLock[version[r]] = None
  /\ rowLock' = [rowLock EXCEPT ![version[r]] = r]
  /\ Goto(r, "lockBar")
  /\ UNCHANGED <<rows, barLock, locals>>

\* activate opens its transaction and does not look at the status again.
ActivateBegin(r) ==
  /\ pc[r] = "activate"
  /\ Goto(r, "lockBar")
  /\ UNCHANGED <<rows, locks, locals>>

\* Mutant: the bar's row is not locked before the test.
LockBarForgotten(r) ==
  /\ pc[r] = "lockBar"
  /\ \A w \in Active : w = version[r] \/ season[w] = season[version[r]]
  /\ Goto(r, "activating")
  /\ UNCHANGED <<rows, locks, locals>>

\* Mutant: the ACTIVE medals of other seasons are not looked for.
LockBarOnly(r) ==
  /\ pc[r] = "lockBar"
  /\ barLock = None
  /\ barLock' = r
  /\ Goto(r, "activating")
  /\ UNCHANGED <<rows, rowLock, locals>>

\* assertNoOtherActiveOfficialMedalForBar
LockBar(r) ==
  /\ pc[r] = "lockBar"
  /\ barLock = None
  /\ \A w \in Active : w = version[r] \/ season[w] = season[version[r]]
  /\ barLock' = r
  /\ Goto(r, "activating")
  /\ UNCHANGED <<rows, rowLock, locals>>

\* The season's other ACTIVE versions are disabled, this one is ACTIVE; commit.
Activate(r) ==
  LET v == version[r]
      others == (Of(season[v]) \cap Active) \ {v}
  IN
  /\ pc[r] = "activating"
  /\ \A w \in others \cup {v} : rowLock[w] \in {None, r}
  /\ status' = [w \in Version |-> IF w = v THEN "ACTIVE"
                                  ELSE IF w \in others THEN "DISABLED" ELSE status[w]]
  /\ current' = [current EXCEPT ![season[v]] = v]
  /\ rowLock' = [w \in Version |-> IF rowLock[w] = r THEN None ELSE rowLock[w]]
  /\ barLock' = None
  /\ Return(r)
  /\ UNCHANGED <<season, number, copy>>

-----------------------------------------------------------------------------

\* The handler refuses, a query fails, PostgreSQL breaks a deadlock, or the
\* process stops: the open transaction is rolled back.
Fail(r) ==
  /\ pc[r] # "idle"
  /\ rowLock' = [v \in Version |-> IF rowLock[v] = r THEN None ELSE rowLock[v]]
  /\ barLock' = IF barLock = r THEN None ELSE barLock
  /\ Return(r)
  /\ UNCHANGED rows

Arrive(r) ==
  \/ \E s \in Season, c \in Copy : CreateDraftCheck(r, s, c)
  \/ \E s \in Season, v \in Version : CreateNextCheck(r, s, v)
  \/ \E o \in {"update", "reward", "artwork"}, v \in Version, c \in Copy : Read(r, o, v, c)
  \/ \E o \in (Writes \ {"update", "reward", "artwork"}) \cup Activations, v \in Version :
       Read(r, o, v, None)

Step(r) ==
  \/ \E v \in Version : CreateDraft(r, v) \/ CreateNext(r, v)
  \/ NextNumber(r) \/ CreateNextRetry(r)
  \/ UpdateDraft(r) \/ Submit(r) \/ SubmitSeason(r) \/ Approve(r) \/ CorrectionRequired(r)
  \/ SetReward(r) \/ SetArtwork(r) \/ Disable(r)
  \/ ApproveReload(r) \/ ApproveInTx(r) \/ ActivateBegin(r) \/ LockBar(r) \/ Activate(r)

Next == \E r \in Request : Arrive(r) \/ Step(r) \/ Fail(r)

Spec == Init /\ [][Next]_vars

-----------------------------------------------------------------------------
(* Properties *)

Creating == {"createDraft", "nextNumber", "createNext"}
OnVersion == Writes \cup Activations \cup {"submitted", "approveInTx", "lockBar", "activating"}

RowsOK ==
  /\ status \in [Version -> Open \cup {"unborn", "ACTIVE", "DISABLED"}]
  /\ season \in [Version -> Season \cup {None}]
  /\ number \in [Version -> Nat]
  /\ copy \in [Version -> Copy \cup {None}]
  /\ current \in [Season -> Version \cup {None}]
  /\ \A v \in Version : (status[v] = "unborn") <=> (season[v] = None)
  /\ \A s \in Season : current[s] # None => season[current[s]] = s
LocksOK ==
  /\ rowLock \in [Version -> Request \cup {None}]
  /\ barLock \in Request \cup {None}
LocalsOK ==
  /\ pc \in [Request -> Creating \cup OnVersion \cup {"idle"}]
  /\ version \in [Request -> Version \cup {None}]
  /\ inSeason \in [Request -> Season \cup {None}]
  /\ draft \in [Request -> Copy \cup {None}]
  /\ next \in [Request -> Nat]
  /\ attempt \in [Request -> 0..2]
Informed(r) ==
  /\ pc[r] \in Creating => inSeason[r] \in Season
  /\ pc[r] \in OnVersion => version[r] \in Version /\ season[version[r]] # None

\* Types; a version that exists belongs to a season, a season's current version
\* is one of its own, and a request past its tests knows what it works on.
TypeOK == RowsOK /\ LocksOK /\ LocalsOK /\ \A r \in Request : Informed(r)

\* "Máximo una medalla oficial ACTIVE por establecimiento (todas las
\* temporadas)": although every test of a status may be stale, two activations
\* never leave the bar with two medals, in one season or in two.
OneOfficialMedal == \A v, w \in Active : v = w

\* However creations collide and retry, the versions of a season are numbered
\* 1, 2, ... without a gap or a repetition.
Numbering == \A s \in Season :
  /\ \A v \in Of(s) : number[v] = 1 \/ (number[v] > 1 /\ Taken(s, number[v] - 1))
  /\ \A v, w \in Of(s) : number[v] = number[w] => v = w

\* The official medal passes from one version to another of the same season; to
\* move to another season the bar must first be left without one.
NoSilentMove == [][\A v \in Active, w \in Version :
    status'[w] = "ACTIVE" => season[w] = season[v]]_vars

\* "Versión inmutable (cuando ACTIVE)": what an ACTIVE version asks and gives is
\* never edited.
ActiveIsImmutable == [][\A v \in Active : copy'[v] = copy[v]]_vars
=============================================================================
