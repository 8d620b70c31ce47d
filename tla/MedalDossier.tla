---------------------------- MODULE MedalDossier -----------------------------
(***************************************************************************)
(* What the bar and the administration are shown of the versions that      *)
(* MedalVersions describes, and the record of their moderation.            *)
(*                                                                         *)
(* The record is kept inside design_config: a handler reads the column,    *)
(* appends an event and writes the whole column back, so that it can write *)
(* over events it has not seen.  Versions older than the visual system     *)
(* have no design_config; the request that shows the medal of a season     *)
(* gives them one, by the id of a row it has read before.                  *)
(***************************************************************************)
EXTENDS MedalVersions

VARIABLES
  audit,    \* audit[v] : last event in design_config; "NULL" without the column, or
            \* "LOST" once a request has written over what it had not read
  held,     \* held[r] : that of the row request r has read
  healing   \* versions that requests for a season's medal have read without a design

record == <<audit, held, healing>>
dossier == <<vars, record>>

Event == {"RESUBMITTED", "CHANGES_REQUESTED", "ACTIVATED"}

-----------------------------------------------------------------------------
(* What is shown *)

\* pickCanonicalOfficialWorkflowVersion; of equals, the one touched last.
WorkflowPriority ==
  [PENDING_REVIEW |-> 50, APPROVED |-> 40, CHANGES_REQUESTED |-> 30, DRAFT |-> 20]
InWorkflow == {v \in Version : status[v] \in Open}
Canonical ==
  IF Active # {}
    THEN Active
    ELSE {v \in InWorkflow : \A w \in InWorkflow :
           WorkflowPriority[status[w]] <= WorkflowPriority[status[v]]}

\* getOfficialLegendMedalDossier, for the canonical version or none.
UiState(v, suspended) ==
  CASE status[v] = "ACTIVE"            -> IF suspended THEN "SUSPENDED" ELSE "ACTIVE"
    [] status[v] = "PENDING_REVIEW"    -> "PENDING"
    [] status[v] = "CHANGES_REQUESTED" -> "CORRECTION_REQUIRED"
    [] status[v] = "APPROVED"          -> "APPROVED_AWAITING_ACTIVATION"
    [] OTHER                           -> "PREPARATION"

\* listOffice: one file for each bar, in one of three buckets.
OfficePriority == [ACTIVE |-> 100, PENDING_REVIEW |-> 80, APPROVED |-> 70]
InOffice == {v \in Version : status[v] \in DOMAIN OfficePriority}
File ==
  {v \in InOffice : \A w \in InOffice : OfficePriority[status[w]] <= OfficePriority[status[v]]}
Bucket(v, suspended) ==
  IF status[v] # "ACTIVE" THEN "PENDING" ELSE IF suspended THEN "SUSPENDED" ELSE "ACTIVE"

\* list, of one status; getDetail also shows what an activation of v disables.
Listed(st) == {v \in Version : status[v] = st}
ActiveSibling(v) == (Of(season[v]) \cap Active) \ {v}

\* getCurrent: the season's current version, or else the newest.
Newest(s) == {v \in Of(s) : \A w \in Of(s) : number[w] <= number[v]}
Current(s) == IF current[s] # None THEN {current[s]} ELSE Newest(s)

-----------------------------------------------------------------------------
(* The record *)

\* The handlers that write the column with what they have read.
Recording == {"update", "submit", "correct", "activating"}

Sees(r, v) == held' = [held EXCEPT ![r] = audit[v]]
Forgets(r) == held' = [held EXCEPT ![r] = "NONE"]

\* The row is no longer what the handler has tested, or the column what it has read.
Expected(r) ==
  CASE pc[r] = "submitted"  -> {"PENDING_REVIEW"}
    [] pc[r] = "activating" -> {"PENDING_REVIEW", "APPROVED"}
    [] OTHER                -> Accepts(pc[r])
Overtaken(r) ==
  \/ status[version[r]] \notin Expected(r)
  \/ pc[r] \in Recording /\ audit[version[r]] # held[r]

\* The request writes the row: its last event is now e, unless something was lost.
Writing(r, e) ==
  audit' = [audit EXCEPT ![version[r]] = IF @ = "LOST" \/ Overtaken(r) THEN "LOST" ELSE e]
Keeps(r) == Writing(r, audit[version[r]])

\* appendModerationAuditEvent and mergeDesignConfigPreservingModerationAudit keep
\* what the handler has read.
Kept(e) == IF e \in Event THEN e ELSE "NONE"

\* The handlers of MedalVersions, with what they do to the record.
Arriving(r) ==
  /\ \/ \E s \in Season, c \in Copy : CreateDraftCheck(r, s, c) /\ UNCHANGED held
     \/ \E s \in Season, v \in Version : CreateNextCheck(r, s, v) /\ Sees(r, v)
     \/ \E o \in {"update", "reward", "artwork"}, v \in Version, c \in Copy :
          Read(r, o, v, c) /\ IF o \in Recording THEN Sees(r, v) ELSE UNCHANGED held
     \/ \E o \in (Writes \ {"update", "reward", "artwork"}) \cup Activations, v \in Version :
          Read(r, o, v, None) /\ IF o \in Recording THEN Sees(r, v) ELSE UNCHANGED held
  /\ UNCHANGED audit

\* A version cloned from another brings the record of that one.
Starting(r) ==
  \/ \E v \in Version :
       /\ CreateDraft(r, v) \/ CreateNext(r, v)
       /\ LET s == inSeason[r]
              stands == IF pc[r] = "createDraft" THEN CanStartDraft(s) ELSE CanStartNext(s)
          IN audit' = [audit EXCEPT ![v] = IF stands THEN Kept(held[r]) ELSE "LOST"]
       /\ Forgets(r)
  \/ NextNumber(r) /\ UNCHANGED <<audit, held>>
  \/ CreateNextRetry(r) /\ UNCHANGED audit
     /\ IF attempt[r] < 2 THEN UNCHANGED held ELSE Forgets(r)

\* Only an update that brings a design writes the column.
Updating(r) ==
  UpdateDraft(r) /\ Forgets(r) /\ (Keeps(r) \/ Writing(r, Kept(held[r])))

\* Mutant: the version is submitted, the event is not recorded.
SubmittingQuietly(r) ==
  \/ Submit(r) /\ Keeps(r) /\ Forgets(r)
  \/ SubmitSeason(r) /\ Keeps(r) /\ UNCHANGED held
Submitting(r) ==
  \/ Submit(r) /\ Writing(r, "RESUBMITTED") /\ Forgets(r)
  \/ SubmitSeason(r) /\ Keeps(r) /\ UNCHANGED held

\* approve, setReward, setArtwork and disable record nothing.
Moderating(r) ==
  /\ \/ CorrectionRequired(r) /\ Writing(r, "CHANGES_REQUESTED")
     \/ (Approve(r) \/ Disable(r) \/ SetReward(r) \/ SetArtwork(r)) /\ Keeps(r)
  /\ Forgets(r)

\* The transaction reads the row again; its first update is not seen by others.
Activating(r) ==
  \/ (ApproveReload(r) \/ ActivateBegin(r)) /\ Sees(r, version[r]) /\ UNCHANGED audit
  \/ (ApproveInTx(r) \/ LockBar(r)) /\ UNCHANGED <<audit, held>>
  \/ Activate(r) /\ Writing(r, "ACTIVATED") /\ Forgets(r)

Failing(r) == Fail(r) /\ Forgets(r) /\ UNCHANGED audit

\* The event that put a version where it is; approve records none.
Trail ==
  [PENDING_REVIEW |-> {"RESUBMITTED"}, APPROVED |-> {"RESUBMITTED"},
   CHANGES_REQUESTED |-> {"CHANGES_REQUESTED"}, ACTIVE |-> {"ACTIVATED"}, DISABLED |-> {"ACTIVATED"}]

-----------------------------------------------------------------------------
(* getCurrent gives an old version the design it lacks. *)

HealRead(s) ==
  /\ \E v \in Current(s) :
       /\ audit[v] = "NULL"
       /\ healing' = healing \cup {v}
  /\ UNCHANGED <<vars, audit, held>>

\* It writes the row by its id, whatever the row has become; the decisions taken
\* before there was a record stay unrecorded.
HealWrite(v) ==
  /\ v \in healing
  /\ rowLock[v] = None
  /\ audit' = [audit EXCEPT ![v] =
       IF @ = "NULL" /\ status[v] \notin DOMAIN Trail THEN "NONE" ELSE "LOST"]
  /\ healing' \in {healing, healing \ {v}}
  /\ UNCHANGED <<vars, held>>

\* A bar that had a version before the visual system and the record, drafted or
\* already ACTIVE, which its season may not point to.
Older(v, s, c, st) ==
  /\ status = [w \in Version |-> IF w = v THEN st ELSE "unborn"]
  /\ season = [w \in Version |-> IF w = v THEN s ELSE None]
  /\ number = [w \in Version |-> IF w = v THEN 1 ELSE 0]
  /\ copy = [w \in Version |-> IF w = v THEN c ELSE None]
  /\ current \in {[t \in Season |-> None], [t \in Season |-> IF t = s THEN v ELSE None]}
  /\ audit = [w \in Version |-> IF w = v THEN "NULL" ELSE "NONE"]
Idle ==
  /\ rowLock = [v \in Version |-> None]
  /\ barLock = None
  /\ pc = [r \in Request |-> "idle"]
  /\ version = [r \in Request |-> None]
  /\ inSeason = [r \in Request |-> None]
  /\ draft = [r \in Request |-> None]
  /\ next = [r \in Request |-> 0]
  /\ attempt = [r \in Request |-> 0]

DossierInit ==
  /\ \/ Init /\ audit = [v \in Version |-> "NONE"]
     \/ Idle /\ \E v \in Version, s \in Season, c \in Copy, st \in {"DRAFT", "ACTIVE"} :
          Older(v, s, c, st)
  /\ held = [r \in Request |-> "NONE"]
  /\ healing = {}

DossierNext ==
  \/ \E r \in Request :
       /\ Arriving(r) \/ Starting(r) \/ Updating(r) \/ Submitting(r) \/ Moderating(r)
          \/ Activating(r) \/ Failing(r)
       /\ UNCHANGED healing
  \/ \E s \in Season : HealRead(s)
  \/ \E v \in Version : HealWrite(v)

DossierSpec == DossierInit /\ [][DossierNext]_dossier

-----------------------------------------------------------------------------
(* Properties *)

\* The record ends with the decision that the status shows.
AuditTellsStatus ==
  \A v \in Version : status[v] \in DOMAIN Trail => audit[v] \in Trail[status[v]] \cup {"LOST", "NULL"}

\* "versión más reciente de configuración/trabajo de la temporada"
CurrentIsNewest ==
  \A s \in Season : Of(s) # {} /\ (\A v \in Of(s) : audit[v] # "LOST") => Current(s) = Newest(s)

\* The office and the bar speak of the same version, whether or not the bar's
\* subscription suspends it.
OfficeAgrees ==
  /\ File = Canonical \cap InOffice
  /\ \A v \in Listed("APPROVED") \cup Listed("PENDING_REVIEW") : ActiveSibling(v) \subseteq File
  /\ \A v \in File, suspended \in BOOLEAN :
       (Bucket(v, suspended) = "PENDING")
         <=> (UiState(v, suspended) \in {"PENDING", "APPROVED_AWAITING_ACTIVATION"})

\* But for requests that wrote over what they had not read, the moderation
\* record of a version ends with the decision its status shows and the bar is
\* shown the newest version of a season; and the bar and the office are always
\* shown the same version, in the same stage.
DossierStands == AuditTellsStatus /\ CurrentIsNewest /\ OfficeAgrees
=============================================================================
