----------------------------- MODULE Proposals ------------------------------
(***************************************************************************)
(* The artwork of one version of a bar's medal, when an admin proposes     *)
(* designs and the bar picks one (admin-bar-medal-design-proposal and      *)
(* bar-medal-design-proposal-bar services), or the admin sets it directly  *)
(* (setArtwork).  A version has one batch: it never stops being open.      *)
(*                                                                         *)
(* The version's own status (MedalVersions), the plan and the checks of    *)
(* the uploaded file only refuse a request: Fail stands for them.          *)
(***************************************************************************)
EXTENDS Integers, FiniteSets

CONSTANTS
  Request,
  Position,     \* the five places of a batch
  Image,
  MaxServed,    \* bound: requests served in all
  None

VARIABLES
  flow,        \* usesDesignProposalFlow
  batch,       \* NONE, DRAFT or SENT
  proposal,    \* proposal[p] : the image at position p
  selected,    \* selectedProposalId; set with designSelectionConfirmedAt
  artwork,     \* the version's image
  served,      \* bound
  pc,
  place,       \* place[r] : the position r works on
  image,       \* image[r] : the image r has read or brings
  overtaken,   \* history: what r tested has been written since
  late,        \* history: positions written after the batch was sent
  mixed        \* history: setArtwork wrote over a version in the flow

tables == <<flow, batch, proposal, selected, artwork>>
locals == <<pc, place, image>>
history == <<overtaken, late, mixed>>
vars == <<tables, served, locals, history>>

Label == {"idle", "create", "assign", "read", "send", "confirm", "select", "setArtwork"}

Complete == \A p \in Position : proposal[p] # None

-----------------------------------------------------------------------------

\* A version without a batch, or one whose batch lacks a position or none.
Init ==
  /\ batch \in {"NONE", "DRAFT", "SENT"} /\ flow = (batch # "NONE")
  /\ \E i \in Image : \E missing \in SUBSET Position :
       /\ batch = "NONE" => missing = Position
       /\ batch = "SENT" => missing = {}
       /\ proposal = [p \in Position |-> IF p \in missing THEN None ELSE i]
  /\ selected = None /\ artwork = None
  /\ served \in 0..MaxServed
  /\ pc = [r \in Request |-> "idle"]
  /\ place = [r \in Request |-> None] /\ image = [r \in Request |-> None]
  /\ overtaken = {} /\ late = {} /\ mixed = FALSE

Begin(r, p, i, l) ==
  /\ pc[r] = "idle"
  /\ served < MaxServed /\ served' = served + 1
  /\ pc' = [pc EXCEPT ![r] = l]
  /\ place' = [place EXCEPT ![r] = p]
  /\ image' = [image EXCEPT ![r] = i]
  /\ overtaken' = overtaken \ {r}
  /\ UNCHANGED <<tables, late, mixed>>

Return(r) ==
  /\ pc' = [pc EXCEPT ![r] = "idle"]
  /\ place' = [place EXCEPT ![r] = None]
  /\ image' = [image EXCEPT ![r] = None]

\* The requests that are between a test and the write it was for.
Overtakes(ls) == overtaken' = overtaken \cup {q \in Request : pc[q] \in ls}

-----------------------------------------------------------------------------
(* The admin *)

BeginCreate(r) == selected = None /\ Begin(r, None, None, "create")

\* createBatch: a second one is refused by the transaction's own query or,
\* at the latest, by the unique index on open batches.
CreateBatch(r) ==
  /\ pc[r] = "create" /\ batch = "NONE"
  /\ batch' = "DRAFT" /\ flow' = TRUE
  /\ Overtakes({"setArtwork"})
  /\ Return(r)
  /\ UNCHANGED <<proposal, selected, artwork, served, late, mixed>>

\* requireDraftBatch, then the version and the file are looked up.
BeginAssign(r, p, i) ==
  /\ batch = "DRAFT" /\ selected = None
  /\ Begin(r, p, i, "assign")

Assign(r) ==
  /\ pc[r] = "assign"
  /\ proposal' = [proposal EXCEPT ![place[r]] = image[r]]
  /\ late' = IF batch = "SENT" THEN late \cup {place[r]} ELSE late
  /\ Return(r)
  /\ UNCHANGED <<flow, batch, selected, artwork, served, overtaken, mixed>>

BeginSend(r) ==
  /\ batch = "DRAFT" /\ selected = None
  /\ Begin(r, None, None, "read")

\* Every position is there; the images themselves are not read again.
ReadProposals(r) ==
  /\ pc[r] = "read"
  /\ Complete
  /\ pc' = [pc EXCEPT ![r] = "send"]
  /\ UNCHANGED <<tables, served, place, image, history>>

Send(r) ==
  /\ pc[r] = "send"
  /\ batch' = "SENT"
  /\ Overtakes({"assign"})
  /\ Return(r)
  /\ UNCHANGED <<flow, proposal, selected, artwork, served, late, mixed>>

BeginSetArtwork(r, i) == ~flow /\ Begin(r, None, i, "setArtwork")

SetArtwork(r) ==
  /\ pc[r] = "setArtwork"
  /\ artwork' = image[r]
  /\ mixed' = (mixed \/ flow)
  /\ Return(r)
  /\ UNCHANGED <<flow, batch, proposal, selected, served, overtaken, late>>

-----------------------------------------------------------------------------
(* The bar: confirmSelection *)

BeginConfirm(r, p) ==
  /\ flow /\ selected = None
  /\ proposal[p] # None   \* the proposal has an id
  /\ Begin(r, p, None, "confirm")

\* In the transaction: not confirmed yet, the batch sent, the proposal read ...
ReadProposal(r) ==
  /\ pc[r] = "confirm"
  /\ selected = None /\ batch = "SENT"
  /\ pc' = [pc EXCEPT ![r] = "select"]
  /\ image' = [image EXCEPT ![r] = proposal[place[r]]]
  /\ UNCHANGED <<tables, served, place, history>>

\* Mutant of Select: the update is not conditional.
SelectAnyway(r) ==
  /\ pc[r] = "select"
  /\ selected' = place[r] /\ artwork' = image[r]
  /\ Return(r)
  /\ UNCHANGED <<flow, batch, proposal, served, history>>

\* ... and written where nothing is selected; otherwise a conflict, or the
\* same answer again.
Select(r) ==
  /\ pc[r] = "select" /\ selected = None
  /\ selected' = place[r] /\ artwork' = image[r]
  /\ Return(r)
  /\ UNCHANGED <<flow, batch, proposal, served, history>>

\* A test refuses the request, a query fails or the process dies.
Fail(r) ==
  /\ pc[r] # "idle"
  /\ Return(r)
  /\ UNCHANGED <<tables, served, history>>

\* Requests that may arrive, while the bound allows, and those at work.
Arriving == {r \in Request : pc[r] = "idle" /\ served < MaxServed}
Working == {r \in Request : pc[r] # "idle"}

Next ==
  \/ \E r \in Arriving :
       \/ BeginCreate(r) \/ BeginSend(r)
       \/ \E p \in Position, i \in Image : BeginAssign(r, p, i)
       \/ \E i \in Image : BeginSetArtwork(r, i)
       \/ \E p \in Position : BeginConfirm(r, p)
  \/ \E r \in Working :
       \/ CreateBatch(r) \/ Assign(r) \/ ReadProposals(r) \/ Send(r)
       \/ SetArtwork(r) \/ ReadProposal(r) \/ Select(r)
       \/ Fail(r)

-----------------------------------------------------------------------------

TypeOK ==
  /\ flow \in BOOLEAN /\ batch \in {"NONE", "DRAFT", "SENT"}
  /\ proposal \in [Position -> Image \cup {None}]
  /\ selected \in Position \cup {None} /\ artwork \in Image \cup {None}
  /\ served \in 0..MaxServed
  /\ pc \in [Request -> Label]
  /\ place \in [Request -> Position \cup {None}]
  /\ image \in [Request -> Image \cup {None}]
  /\ overtaken \subseteq Request /\ late \subseteq Position /\ mixed \in BOOLEAN

\* "inmutable tras designSelectionConfirmedAt" (schema.prisma): a selection
\* and its artwork do not change, nor does a proposal once it was sent, but
\* for an assignment that had found the batch a draft and a setArtwork that
\* had found the version outside the flow.
SelectionStands ==
  /\ selected # None =>
       /\ selected' = selected
       /\ artwork' # artwork => \E r \in overtaken : pc[r] = "setArtwork"
  /\ batch = "SENT" =>
       /\ batch' = "SENT"
       /\ \A p \in Position : proposal'[p] # proposal[p] =>
            \E r \in overtaken : pc[r] = "assign" /\ place[r] = p

\* What the bar has selected was sent, with every position filled, and is the
\* version's artwork, unless one of those two came late.
ArtworkChosen ==
  selected # None =>
    /\ batch = "SENT" /\ Complete
    /\ mixed \/ selected \in late \/ artwork = proposal[selected]
=============================================================================
