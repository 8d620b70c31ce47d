------------------------------ MODULE Magazine ------------------------------
(***************************************************************************)
(* The two sections of the magazine (magazine.service.ts) as one bar fills *)
(* them.  Its owner, on the legend plan, has a number of pieces published  *)
(* in each section: they are counted and then one is written.  An editor   *)
(* creates, moves, publishes and removes pieces of any bar or of none,     *)
(* without counting.                                                       *)
(***************************************************************************)
EXTENDS Integers, FiniteSets

CONSTANTS
  Request, Piece,
  PieceLimit,   \* pieces of a bar published at once in a section
  MaxServed,    \* bound: requests served in all
  None

VARIABLES
  legend,     \* the bar is on the legend plan: Offers'
  piece,      \* piece[i] : section, whether it is the bar's, published or removed
  served,     \* bound
  pc,
  at,         \* at[r] : the piece r works on
  had,        \* had[r] : its row as r has read it, or what r is going to insert
  new,        \* new[r] : the value r has for published, or KEEP
  jumped,     \* history: a piece was published or changed since r counted or read
  excused     \* history: pieces no undisturbed count has let through

locals == <<pc, at, had, new>>
vars == <<piece, served, locals, jumped, excused>>

Section == {"STRONG", "PARA_DATE"}
Label == {"idle", "countNew", "insert", "count", "update", "remove", "edit", "discard"}
Change == {"YES", "NO", "KEEP"}
Row == [section : Section, ours : BOOLEAN, published : BOOLEAN, removed : BOOLEAN]
NoPiece == [section |-> "STRONG", ours |-> FALSE, published |-> FALSE, removed |-> TRUE]

Unused(i) == piece[i] = NoPiece
Ours(s) == {i \in Piece : piece[i].ours /\ piece[i].section = s /\ ~piece[i].removed}
Shown(s) == {i \in Ours(s) : piece[i].published}

\* The row with published as the request has it.
Republished(row, c) == [row EXCEPT !.published = IF c = "KEEP" THEN @ ELSE c = "YES"]

-----------------------------------------------------------------------------

\* A bar that has published up to the limit, and the editor some more.
Init ==
  /\ piece \in [Piece -> {NoPiece} \cup [section : Section, ours : {TRUE}, published : BOOLEAN,
                                         removed : {FALSE}]]
  /\ excused \in SUBSET {i \in Piece : piece[i].published}
  /\ \A s \in Section : Cardinality(Shown(s) \ excused) <= PieceLimit
  /\ served \in 0..MaxServed
  /\ pc = [r \in Request |-> "idle"] /\ at = [r \in Request |-> None]
  /\ had = [r \in Request |-> NoPiece] /\ new = [r \in Request |-> "KEEP"]
  /\ jumped = {}

\* A request about piece i arrives, knows row for it and goes on to l.
Begin(r, i, row, c, l) ==
  /\ pc[r] = "idle"
  /\ served < MaxServed /\ served' = served + 1
  /\ pc' = [pc EXCEPT ![r] = l]
  /\ at' = [at EXCEPT ![r] = i]
  /\ had' = [had EXCEPT ![r] = row]
  /\ new' = [new EXCEPT ![r] = c]
  /\ jumped' = jumped \ {r}
  /\ UNCHANGED <<piece, excused>>

Return(r) ==
  /\ pc' = [pc EXCEPT ![r] = "idle"]
  /\ at' = [at EXCEPT ![r] = None]
  /\ had' = [had EXCEPT ![r] = NoPiece]
  /\ new' = [new EXCEPT ![r] = "KEEP"]

\* r writes row as piece i; counted : it has counted, if i is to be shown anew.
Writes(r, i, row, counted) ==
  /\ piece' = [piece EXCEPT ![i] = row]
  /\ jumped' = IF row = piece[i] THEN jumped \ {r} ELSE Request \ {r}
  /\ excused' = IF row = piece[i] THEN excused
                ELSE IF row.published /\ ~(counted /\ r \notin jumped) THEN excused \cup {i}
                ELSE excused \ {i}
  /\ Return(r)
  /\ UNCHANGED <<served>>

-----------------------------------------------------------------------------
(* The owner, in the section s *)

BeginCreate(r, s, c) ==
  /\ legend /\ c # "KEEP"
  /\ \E i \in Piece :
       /\ Unused(i) /\ \A q \in Request : at[q] # i
       /\ Begin(r, i, [section |-> s, ours |-> TRUE, published |-> FALSE, removed |-> FALSE], c,
                "countNew")

\* assertStrongQuota, assertParaDateQuota: also for a piece that will not be shown.
Passes(r, l, others) ==
  /\ Cardinality(Shown(had[r].section) \ others) < PieceLimit
  /\ pc' = [pc EXCEPT ![r] = l]
  /\ jumped' = IF piece[at[r]] \in {NoPiece, had[r]} THEN jumped \ {r} ELSE jumped \cup {r}
  /\ UNCHANGED <<piece, served, at, had, new, excused>>

CountNew(r) == pc[r] = "countNew" /\ Passes(r, "insert", {})

Insert(r, s) ==
  /\ pc[r] = "insert" /\ had[r].section = s
  /\ Writes(r, at[r], Republished(had[r], new[r]), TRUE)

CreateStrong(r) == Insert(r, "STRONG")
CreateParaDate(r) == Insert(r, "PARA_DATE")

\* Publishing a piece that was not published when it was read is counted.
BeginUpdate(r, s, i, c) ==
  /\ legend /\ i \in Ours(s)
  /\ Begin(r, i, piece[i], c, IF c = "YES" /\ ~piece[i].published THEN "count" ELSE "update")

Count(r) == pc[r] = "count" /\ Passes(r, "update", {at[r]})

\* By id: whatever section, bar or mark the piece has by now.
Update(r, s) ==
  /\ pc[r] = "update" /\ had[r].section = s
  /\ Writes(r, at[r], Republished(piece[at[r]], new[r]), TRUE)

UpdateStrong(r) == Update(r, "STRONG")
UpdateParaDate(r) == Update(r, "PARA_DATE")

BeginRemove(r, s, i) == legend /\ i \in Ours(s) /\ Begin(r, i, piece[i], "NO", "remove")

Marks(r) == Writes(r, at[r], [piece[at[r]] EXCEPT !.removed = TRUE, !.published = FALSE], TRUE)
Remove(r, s) == pc[r] = "remove" /\ had[r].section = s /\ Marks(r)

RemoveStrong(r) == Remove(r, "STRONG")
RemoveParaDate(r) == Remove(r, "PARA_DATE")

-----------------------------------------------------------------------------
(* The editor *)

CreateEditorial(r) ==
  /\ pc[r] = "idle" /\ served < MaxServed /\ served' = served + 1
  /\ \E i \in Piece, s \in Section, ours, published \in BOOLEAN :
       /\ Unused(i) /\ \A q \in Request : at[q] # i
       /\ piece' = [piece EXCEPT ![i] = [section |-> s, ours |-> ours, published |-> published,
                                         removed |-> FALSE]]
       /\ excused' = IF published THEN excused \cup {i} ELSE excused
  /\ jumped' = Request
  /\ UNCHANGED <<locals>>

BeginEdit(r, i, s, ours, c) ==
  /\ ~piece[i].removed
  /\ Begin(r, i, [section |-> s, ours |-> ours, published |-> FALSE, removed |-> FALSE], c, "edit")

\* section, barId and published are written if the request has them.
EditEditorial(r) ==
  /\ pc[r] = "edit"
  /\ Writes(r, at[r], Republished([piece[at[r]] EXCEPT !.section = had[r].section,
                                                       !.ours = had[r].ours], new[r]), FALSE)

BeginDiscard(r, i) == ~piece[i].removed /\ Begin(r, i, piece[i], "NO", "discard")
RemoveEditorial(r) == pc[r] = "discard" /\ Marks(r)

\* The request is refused, a query fails or the process dies.
Fail(r) ==
  /\ pc[r] # "idle"
  /\ Return(r)
  /\ UNCHANGED <<piece, served, jumped, excused>>

\* Requests that may arrive, while the bound allows, and those at work.
Arriving == {r \in Request : pc[r] = "idle" /\ served < MaxServed}
Working == {r \in Request : pc[r] # "idle"}

Next ==
  \/ \E r \in Arriving :
       \/ \E s \in Section, c \in Change : BeginCreate(r, s, c)
       \/ \E s \in Section, i \in Piece, c \in Change : BeginUpdate(r, s, i, c)
       \/ \E s \in Section, i \in Piece : BeginRemove(r, s, i)
       \/ CreateEditorial(r)
       \/ \E i \in Piece, s \in Section, ours \in BOOLEAN, c \in Change : BeginEdit(r, i, s, ours, c)
       \/ \E i \in Piece : BeginDiscard(r, i)
  \/ \E r \in Working :
       \/ CountNew(r) \/ Count(r)
       \/ CreateStrong(r) \/ UpdateStrong(r) \/ RemoveStrong(r)
       \/ CreateParaDate(r) \/ UpdateParaDate(r) \/ RemoveParaDate(r)
       \/ EditEditorial(r) \/ RemoveEditorial(r)
       \/ Fail(r)

-----------------------------------------------------------------------------

TypeOK ==
  /\ legend \in BOOLEAN /\ piece \in [Piece -> Row]
  /\ served \in 0..MaxServed
  /\ pc \in [Request -> Label] /\ at \in [Request -> Piece \cup {None}]
  /\ had \in [Request -> Row] /\ new \in [Request -> Change]
  /\ jumped \subseteq Request /\ excused \subseteq Piece

\* A section shows no more pieces of the bar than its limit, not counting those
\* the editor published and those written after another piece was, since the
\* count.
SectionsHold == \A s \in Section : Cardinality(Shown(s) \ excused) <= PieceLimit
=============================================================================
