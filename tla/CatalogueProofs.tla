-------------------------- MODULE CatalogueProofs --------------------------
(***************************************************************************)
(* Proofs about the tables of Venue that VenueProofs leaves: what was      *)
(* proposed, selected, reviewed and published, the sections of the         *)
(* magazine, places, what bars offer and how many of it a user or a bar    *)
(* may have; then the types, limits and decisions of the parts together.   *)
(***************************************************************************)
EXTENDS VenueProofs

-----------------------------------------------------------------------------
(* Proposals: what was selected *)

\* What is written was brought or read by the request that writes it.
Brought ==
  \A r \in Request :
    /\ ppc[r] \in {"assign", "confirm", "select"} => place[r] \in Position
    /\ ppc[r] \in {"assign", "select", "setArtwork"} => image[r] \in Image

\* A sent batch is complete and stays so; who is about to write into it, or past
\* it, has been overtaken.
Sent ==
  /\ batch # "NONE" => flow
  /\ batch = "SENT" => D!Complete
  /\ selected # None => batch = "SENT"
  /\ \A r \in Request :
       /\ ppc[r] \in {"read", "send"} => batch # "NONE"
       /\ ppc[r] = "send" => D!Complete
       /\ ppc[r] = "select" => /\ batch = "SENT"
                               /\ place[r] \in after \/ image[r] = proposal[place[r]]
       /\ ppc[r] = "assign" => batch # "NONE" /\ (batch = "SENT" => r \in belated)
       /\ ppc[r] = "setArtwork" /\ flow => r \in belated

DesignIInv == D!TypeOK /\ Brought /\ Sent /\ D!ArtworkChosen

LEMMA NoneOutside == None \notin Image /\ None \notin Position
BY ConstantsOK

LEMMA DesignInit == D!Init => DesignIInv
<1> SUFFICES ASSUME D!Init PROVE DesignIInv
  OBVIOUS
<1>1. PICK i \in Image : \E missing \in SUBSET Position :
        /\ batch = "NONE" => missing = Position
        /\ batch = "SENT" => missing = {}
        /\ proposal = [p \in Position |-> IF p \in missing THEN None ELSE i]
  BY DEF D!Init
<1>2. D!TypeOK BY <1>1 DEF D!Init, D!TypeOK, D!Label
<1>3. batch = "SENT" => D!Complete BY <1>1, NoneOutside DEF D!Complete
<1>4. QED BY <1>2, <1>3 DEF D!Init, DesignIInv, Brought, Sent, D!ArtworkChosen

\* A request arrives: nobody else is concerned.
LEMMA DesignArrives ==
  ASSUME DesignIInv, NEW r \in D!Arriving,
         \/ D!BeginCreate(r) \/ D!BeginSend(r)
         \/ \E p \in Position, i \in Image : D!BeginAssign(r, p, i)
         \/ \E i \in Image : D!BeginSetArtwork(r, i)
         \/ \E p \in Position : D!BeginConfirm(r, p)
  PROVE  DesignIInv'
<1>1. PICK p \in Position \cup {None}, i \in Image \cup {None},
           l \in {"create", "read", "assign", "setArtwork", "confirm"} :
        /\ D!Begin(r, p, i, l)
        /\ l = "assign" => p \in Position /\ i \in Image /\ batch = "DRAFT"
        /\ l = "read" => batch = "DRAFT"
        /\ l = "setArtwork" => i \in Image /\ ~flow
        /\ l = "confirm" => p \in Position
  BY DEF D!BeginCreate, D!BeginSend, D!BeginAssign, D!BeginSetArtwork, D!BeginConfirm
<1>2. /\ r \in Request /\ ppc[r] = "idle"
      /\ ppc' = [ppc EXCEPT ![r] = l] /\ place' = [place EXCEPT ![r] = p]
      /\ image' = [image EXCEPT ![r] = i] /\ belated' = belated \ {r}
      /\ UNCHANGED <<flow, batch, proposal, selected, artwork, after, mixed>>
  BY <1>1 DEF D!Arriving, D!Begin, D!tables
<1>3. D!TypeOK'
  <2>1. pserved' \in 0..MaxDesigned BY <1>1, ConstantsOK DEF D!Begin, DesignIInv, D!TypeOK
  <2>2. QED BY <1>2, <2>1 DEF DesignIInv, D!TypeOK, D!Label
<1>4. Brought' BY <1>1, <1>2 DEF DesignIInv, Brought, D!TypeOK
<1>5. D!Complete' <=> D!Complete BY <1>2 DEF D!Complete
<1>6. Sent' BY <1>1, <1>2, <1>5 DEF DesignIInv, Sent, D!TypeOK
<1>7. D!ArtworkChosen' BY <1>2, <1>5 DEF DesignIInv, D!ArtworkChosen
<1>8. QED BY <1>3, <1>4, <1>6, <1>7 DEF DesignIInv

\* A request goes on or is done.
LEMMA DesignWorks ==
  ASSUME DesignIInv, NEW r \in D!Working,
         \/ D!CreateBatch(r) \/ D!Assign(r) \/ D!ReadProposals(r) \/ D!Send(r)
         \/ D!SetArtwork(r) \/ D!ReadProposal(r) \/ D!Select(r) \/ D!Fail(r)
  PROVE  DesignIInv'
<1>r. r \in Request BY DEF D!Working
<1>1. CASE D!CreateBatch(r)
  <2>1. D!TypeOK'
    BY <1>r, <1>1 DEF D!CreateBatch, D!Return, D!Overtakes, DesignIInv, D!TypeOK, D!Label
  <2>2. Brought' BY <1>r, <1>1 DEF D!CreateBatch, D!Return, DesignIInv, D!TypeOK, Brought
  <2>3. selected = None BY <1>1 DEF D!CreateBatch, DesignIInv, Sent
  <2>4. D!ArtworkChosen' BY <1>1, <2>3 DEF D!CreateBatch, D!ArtworkChosen
  <2>5. Sent'
    <3>1. /\ flow' = TRUE /\ batch' = "DRAFT" /\ UNCHANGED <<proposal, selected, after>>
          /\ batch = "NONE"
      BY <1>1 DEF D!CreateBatch
    <3>2. D!Complete' <=> D!Complete BY <3>1 DEF D!Complete
    <3>3. ASSUME NEW q \in Request, q # r
          PROVE  /\ ppc'[q] = ppc[q] /\ place'[q] = place[q] /\ image'[q] = image[q]
                 /\ (q \in belated => q \in belated') /\ (ppc[q] = "setArtwork" => q \in belated')
      BY <1>r, <1>1, <3>3 DEF D!CreateBatch, D!Return, D!Overtakes, DesignIInv, D!TypeOK
    <3>4. ppc'[r] = "idle" BY <1>r, <1>1 DEF D!CreateBatch, D!Return, DesignIInv, D!TypeOK
    <3>5. QED BY <2>3, <3>1, <3>2, <3>3, <3>4 DEF DesignIInv, Sent
  <2>6. QED BY <2>1, <2>2, <2>4, <2>5 DEF DesignIInv
<1>2. CASE D!Assign(r)
  <2> DEFINE p == place[r]  i == image[r]
  <2>1. /\ ppc[r] = "assign" /\ p \in Position /\ i \in Image
        /\ proposal' = [proposal EXCEPT ![p] = i]
        /\ after' = IF batch = "SENT" THEN after \cup {p} ELSE after
        /\ ppc' = [ppc EXCEPT ![r] = "idle"]
        /\ place' = [place EXCEPT ![r] = None] /\ image' = [image EXCEPT ![r] = None]
        /\ UNCHANGED <<flow, batch, selected, artwork, pserved, belated, mixed>>
    BY <1>r, <1>2 DEF D!Assign, D!Return, DesignIInv, Brought
  <2> HIDE DEF p, i
  <2>2. D!TypeOK' BY <1>r, <2>1 DEF DesignIInv, D!TypeOK, D!Label
  <2>3. Brought' BY <1>r, <2>1 DEF DesignIInv, D!TypeOK, Brought
  <2>4. D!Complete => D!Complete' BY <2>1, NoneOutside DEF D!Complete, DesignIInv, D!TypeOK
  <2>5. Sent'
    <3>1. ASSUME NEW q \in Request, ppc'[q] = "select"
          PROVE  batch' = "SENT" /\ (place'[q] \in after' \/ image'[q] = proposal'[place'[q]])
      <4>1. q # r /\ ppc[q] = "select" /\ place'[q] = place[q] /\ image'[q] = image[q]
            /\ place[q] \in Position
        BY <1>r, <2>1, <3>1 DEF DesignIInv, D!TypeOK, Brought
      <4>2. batch = "SENT" /\ (place[q] \in after \/ image[q] = proposal[place[q]])
        BY <4>1 DEF DesignIInv, Sent
      <4>3. CASE place[q] = p BY <2>1, <4>1, <4>2, <4>3
      <4>4. CASE place[q] # p BY <2>1, <4>1, <4>2, <4>4 DEF DesignIInv, D!TypeOK
      <4>5. QED BY <4>3, <4>4
    <3>2. \A q \in Request : ppc'[q] # "idle" => ppc'[q] = ppc[q] /\ q # r
      BY <1>r, <2>1 DEF DesignIInv, D!TypeOK
    <3>3. QED BY <2>1, <2>4, <3>1, <3>2 DEF DesignIInv, Sent
  <2>6. D!ArtworkChosen'
    <3>1. CASE selected = None BY <2>1, <3>1 DEF D!ArtworkChosen
    <3>2. CASE selected # None
      <4>1. batch = "SENT" /\ D!Complete'
            /\ (mixed \/ selected \in after \/ artwork = proposal[selected])
        BY <2>4, <3>2 DEF DesignIInv, D!ArtworkChosen
      <4>2. selected = p \/ proposal'[selected] = proposal[selected]
        BY <2>1, <3>2 DEF DesignIInv, D!TypeOK
      <4>3. QED BY <2>1, <4>1, <4>2 DEF D!ArtworkChosen
    <3>3. QED BY <3>1, <3>2
  <2>7. QED BY <2>2, <2>3, <2>5, <2>6 DEF DesignIInv
<1>3. CASE D!ReadProposals(r)
  <2>1. /\ D!Complete /\ ppc[r] = "read" /\ ppc' = [ppc EXCEPT ![r] = "send"]
        /\ UNCHANGED <<flow, batch, proposal, selected, artwork, pserved, place, image, belated, after, mixed>>
    BY <1>3 DEF D!ReadProposals, D!tables, D!history
  <2>2. D!Complete' BY <2>1 DEF D!Complete
  <2>3. D!TypeOK' /\ Brought' BY <1>r, <2>1 DEF DesignIInv, D!TypeOK, D!Label, Brought
  <2>4. Sent' BY <1>r, <2>1, <2>2 DEF DesignIInv, D!TypeOK, Sent
  <2>5. D!ArtworkChosen' BY <2>1, <2>2 DEF DesignIInv, D!ArtworkChosen
  <2>6. QED BY <2>3, <2>4, <2>5 DEF DesignIInv
<1>4. CASE D!Send(r)
  <2>1. /\ ppc[r] = "send" /\ batch' = "SENT" /\ D!Complete
        /\ belated' = belated \cup {q \in Request : ppc[q] = "assign"}
        /\ ppc' = [ppc EXCEPT ![r] = "idle"]
        /\ place' = [place EXCEPT ![r] = None] /\ image' = [image EXCEPT ![r] = None]
        /\ UNCHANGED <<flow, proposal, selected, artwork, pserved, after, mixed>>
    BY <1>r, <1>4 DEF D!Send, D!Overtakes, D!Return, DesignIInv, Sent
  <2>2. D!Complete' BY <2>1 DEF D!Complete
  <2>f. flow = TRUE
    BY <1>r, <2>1 DEF DesignIInv, Sent
  <2>3. D!TypeOK' /\ Brought' BY <1>r, <2>1 DEF DesignIInv, D!TypeOK, D!Label, Brought
  <2>4. Sent' BY <1>r, <2>1, <2>2, <2>f DEF DesignIInv, D!TypeOK, Sent
  <2>5. D!ArtworkChosen' BY <2>1, <2>2 DEF DesignIInv, D!ArtworkChosen
  <2>6. QED BY <2>3, <2>4, <2>5 DEF DesignIInv
<1>5. CASE D!SetArtwork(r)
  <2>1. /\ ppc[r] = "setArtwork" /\ artwork' = image[r] /\ mixed' = (mixed \/ flow)
        /\ ppc' = [ppc EXCEPT ![r] = "idle"]
        /\ place' = [place EXCEPT ![r] = None] /\ image' = [image EXCEPT ![r] = None]
        /\ UNCHANGED <<flow, batch, proposal, selected, pserved, belated, after>>
    BY <1>5 DEF D!SetArtwork, D!Return
  <2>2. D!Complete' <=> D!Complete BY <2>1 DEF D!Complete
  <2>m. mixed' \in BOOLEAN BY <2>1 DEF DesignIInv, D!TypeOK
  <2>3. D!TypeOK' /\ Brought' BY <1>r, <2>1, <2>m DEF DesignIInv, D!TypeOK, D!Label, Brought
  <2>4. Sent' BY <1>r, <2>1, <2>2 DEF DesignIInv, D!TypeOK, Sent
  <2>5. selected # None => flow BY DEF DesignIInv, Sent
  <2>6. flow => mixed' BY <2>1, Zenon
  <2>7. D!ArtworkChosen' BY <2>1, <2>2, <2>5, <2>6 DEF DesignIInv, D!ArtworkChosen
  <2>8. QED BY <2>3, <2>4, <2>7 DEF DesignIInv
<1>6. CASE D!ReadProposal(r)
  <2>1. /\ ppc[r] = "confirm" /\ batch = "SENT"
        /\ ppc' = [ppc EXCEPT ![r] = "select"]
        /\ image' = [image EXCEPT ![r] = proposal[place[r]]]
        /\ UNCHANGED <<flow, batch, proposal, selected, artwork, pserved, place, belated, after, mixed>>
    BY <1>6 DEF D!ReadProposal, D!tables, D!history
  <2>2. D!Complete' <=> D!Complete BY <2>1 DEF D!Complete
  <2>3. proposal[place[r]] \in Image
    BY <1>r, <2>1 DEF DesignIInv, Sent, Brought, D!Complete, D!TypeOK
  <2>4. D!TypeOK' /\ Brought' BY <1>r, <2>1, <2>3 DEF DesignIInv, D!TypeOK, D!Label, Brought
  <2>5. Sent' BY <1>r, <2>1, <2>2 DEF DesignIInv, D!TypeOK, Sent
  <2>6. D!ArtworkChosen' BY <2>1, <2>2 DEF DesignIInv, D!ArtworkChosen
  <2>7. QED BY <2>4, <2>5, <2>6 DEF DesignIInv
<1>7. CASE D!Select(r)
  <2>1. /\ ppc[r] = "select" /\ selected' = place[r] /\ artwork' = image[r]
        /\ ppc' = [ppc EXCEPT ![r] = "idle"]
        /\ place' = [place EXCEPT ![r] = None] /\ image' = [image EXCEPT ![r] = None]
        /\ UNCHANGED <<flow, batch, proposal, pserved, belated, after, mixed>>
    BY <1>7 DEF D!Select, D!Return, D!history
  <2>2. D!Complete' <=> D!Complete BY <2>1 DEF D!Complete
  <2>3. /\ place[r] \in Position /\ image[r] \in Image /\ batch = "SENT"
        /\ place[r] \in after \/ image[r] = proposal[place[r]]
    BY <1>r, <2>1 DEF DesignIInv, Sent, Brought
  <2>4. D!TypeOK' /\ Brought' BY <1>r, <2>1, <2>3 DEF DesignIInv, D!TypeOK, D!Label, Brought
  <2>5. Sent' BY <1>r, <2>1, <2>2, <2>3 DEF DesignIInv, D!TypeOK, Sent
  <2>6. D!Complete BY <2>3 DEF DesignIInv, Sent
  <2>7. D!ArtworkChosen' BY <2>1, <2>2, <2>3, <2>6 DEF D!ArtworkChosen
  <2>8. QED BY <2>4, <2>5, <2>7 DEF DesignIInv
<1>8. CASE D!Fail(r)
  <2>1. /\ ppc' = [ppc EXCEPT ![r] = "idle"]
        /\ place' = [place EXCEPT ![r] = None] /\ image' = [image EXCEPT ![r] = None]
        /\ UNCHANGED <<flow, batch, proposal, selected, artwork, pserved, belated, after, mixed>>
    BY <1>8 DEF D!Fail, D!Return, D!tables, D!history
  <2>2. D!Complete' <=> D!Complete BY <2>1 DEF D!Complete
  <2>3. D!TypeOK' /\ Brought' BY <1>r, <2>1 DEF DesignIInv, D!TypeOK, D!Label, Brought
  <2>4. Sent' BY <1>r, <2>1, <2>2 DEF DesignIInv, D!TypeOK, Sent
  <2>5. D!ArtworkChosen' BY <2>1, <2>2 DEF DesignIInv, D!ArtworkChosen
  <2>6. QED BY <2>3, <2>4, <2>5 DEF DesignIInv
<1>9. QED BY <1>1, <1>2, <1>3, <1>4, <1>5, <1>6, <1>7, <1>8

LEMMA DesignStep == DesignIInv /\ D!Next => DesignIInv'
BY DesignArrives, DesignWorks DEF D!Next
LEMMA DesignsUntouched == DesignIInv /\ UNCHANGED designs => DesignIInv'
<1> SUFFICES ASSUME DesignIInv, UNCHANGED designs PROVE DesignIInv'
  OBVIOUS
<1>1. D!Complete' <=> D!Complete BY DEF designs, D!Complete
<1>2. QED
  BY <1>1 DEF designs, DesignIInv, D!TypeOK, Brought, Sent, D!ArtworkChosen

\* The selection and what was sent stand in every step.
LEMMA SelectionKept == DesignIInv /\ (D!Next \/ UNCHANGED designs) => D!SelectionStands
<1> SUFFICES ASSUME DesignIInv, D!Next \/ UNCHANGED designs PROVE D!SelectionStands
  OBVIOUS
<1>1. CASE UNCHANGED designs
  BY <1>1 DEF designs, D!SelectionStands
<1>2. ASSUME NEW r \in D!Arriving, UNCHANGED D!tables PROVE D!SelectionStands
  BY <1>2 DEF D!tables, D!SelectionStands
<1>3. ASSUME NEW r \in D!Working,
             \/ D!CreateBatch(r) \/ D!Assign(r) \/ D!ReadProposals(r) \/ D!Send(r)
             \/ D!SetArtwork(r) \/ D!ReadProposal(r) \/ D!Select(r) \/ D!Fail(r)
      PROVE  D!SelectionStands
  <2>r. r \in Request BY DEF D!Working
  <2>1. CASE D!Assign(r)
    <3>1. /\ ppc[r] = "assign" /\ batch = "SENT" => r \in belated
          /\ ppc[r] = "assign" /\ \A p \in Position : proposal'[p] # proposal[p] => place[r] = p
          /\ UNCHANGED <<batch, selected, artwork>>
      BY <2>r, <2>1 DEF D!Assign, DesignIInv, Sent, D!TypeOK
    <3>2. QED BY <2>r, <3>1 DEF D!SelectionStands
  <2>2. CASE D!SetArtwork(r)
    <3>1. /\ ppc[r] = "setArtwork" /\ (flow => r \in belated) /\ (selected # None => flow)
          /\ UNCHANGED <<batch, selected, proposal>>
      BY <2>r, <2>2 DEF D!SetArtwork, DesignIInv, Sent
    <3>2. QED BY <2>r, <3>1 DEF D!SelectionStands
  <2>3. CASE D!CreateBatch(r) \/ D!ReadProposals(r) \/ D!Send(r) \/ D!ReadProposal(r)
             \/ D!Select(r) \/ D!Fail(r)
    <3>1. CASE D!CreateBatch(r)
      BY <3>1 DEF D!CreateBatch, D!SelectionStands, DesignIInv, Sent
    <3>2. CASE D!Select(r)
      BY <3>2 DEF D!Select, D!SelectionStands
    <3>3. CASE D!ReadProposals(r) \/ D!ReadProposal(r) \/ D!Fail(r)
      BY <3>3 DEF D!ReadProposals, D!ReadProposal, D!Fail, D!tables, D!SelectionStands
    <3>4. CASE D!Send(r)
      BY <3>4 DEF D!Send, D!SelectionStands
    <3>5. QED BY <2>3, <3>1, <3>2, <3>3, <3>4
  <2>4. QED BY <1>3, <2>1, <2>2, <2>3
<1>4. QED
  BY <1>1, <1>2, <1>3
  DEF D!Next, D!BeginCreate, D!BeginSend, D!BeginAssign, D!BeginSetArtwork, D!BeginConfirm, D!Begin

-----------------------------------------------------------------------------
(* Magazine: sections keep to their limit *)

MagazineCounts == \A S : M!Cardinality(S) = Cardinality(S)

LEMMA SamePieceCounts == MagazineCounts
BY Zenon DEF MagazineCounts, M!Cardinality, Cardinality

\* A request that nobody has outpaced finds its piece as it knew it, and, if it is
\* going to show it anew, room in the section it has counted.
Room(s, i) == Cardinality(M!Shown(s) \ {i}) < PieceLimit

PiecesKnown ==
  \A r \in Request :
    /\ mpc[r] # "idle" => page[r] \in Piece
    /\ r \notin outpaced =>
         /\ mpc[r] = "insert" => Room(kept[r].section, page[r])
         /\ mpc[r] = "update" =>
              \/ piece[page[r]] = M!NoPiece
              \/ /\ piece[page[r]] = kept[r]
                 /\ change[r] = "YES" /\ ~kept[r].published => Room(kept[r].section, page[r])

MagazineIInv == M!TypeOK /\ PiecesKnown /\ M!SectionsHold

LEMMA ShownFinite ==
  \A s : /\ M!Shown(s) \subseteq Piece /\ IsFiniteSet(M!Shown(s))
         /\ \A S : IsFiniteSet(M!Shown(s) \ S) /\ Cardinality(M!Shown(s) \ S) \in Nat
<1>1. \A s : M!Shown(s) \subseteq Piece
  BY DEF M!Shown, M!Ours
<1>2. \A s, S : IsFiniteSet(M!Shown(s)) /\ IsFiniteSet(M!Shown(s) \ S)
  BY <1>1, ConstantsOK, FS_Subset, FS_Difference
<1>3. QED BY <1>1, <1>2, FS_CardinalityType

LEMMA RowShapes ==
  /\ M!NoPiece \in M!Row
  /\ \A w \in M!Row, c \in M!Change : M!Republished(w, c) \in M!Row
BY DEF M!NoPiece, M!Row, M!Section, M!Republished, M!Change

\* One piece written: no section has more that count, unless the piece is shown
\* where there was room.
LEMMA OnePieceMore ==
  ASSUME M!TypeOK, M!SectionsHold, NEW i \in Piece, NEW w \in M!Row,
         piece' = [piece EXCEPT ![i] = w],
         edited \ {i} \subseteq edited',
         i \in edited' \/ ~w.published \/ w.removed \/ Room(w.section, i)
  PROVE  M!SectionsHold'
<1> SUFFICES ASSUME NEW s \in M!Section
             PROVE  (Cardinality(M!Shown(s) \ edited) <= PieceLimit)'
  BY SamePieceCounts DEF M!SectionsHold, MagazineCounts
<1> DEFINE old == M!Shown(s) \ edited
           now == M!Shown(s)' \ edited'
<1>1. \A j \in Piece : piece'[j] = IF j = i THEN w ELSE piece[j]
  BY DEF M!TypeOK
<1>2. \A j \in M!Shown(s)' : j \in Piece /\ (j # i => j \in M!Shown(s))
  BY <1>1 DEF M!Shown, M!Ours
<1>3. IsFiniteSet(old) /\ Cardinality(old) \in Nat /\ Cardinality(old) <= PieceLimit
  BY ShownFinite, SamePieceCounts DEF M!SectionsHold, MagazineCounts
<1>4. PieceLimit \in Nat BY ConstantsOK
<1>5. CASE i \in now
  <2>1. w.published /\ ~w.removed /\ w.section = s /\ i \notin edited'
    BY <1>1, <1>5 DEF M!Shown, M!Ours
  <2>2. Cardinality(M!Shown(s) \ {i}) < PieceLimit
    BY <2>1 DEF Room
  <2>3. now \subseteq (M!Shown(s) \ {i}) \cup {i}
    BY <1>2
  <2> HIDE DEF now
  <2>4. /\ IsFiniteSet(M!Shown(s) \ {i}) /\ Cardinality(M!Shown(s) \ {i}) \in Nat
        /\ i \notin M!Shown(s) \ {i}
    BY ShownFinite
  <2>5. /\ Cardinality((M!Shown(s) \ {i}) \cup {i}) = Cardinality(M!Shown(s) \ {i}) + 1
        /\ IsFiniteSet((M!Shown(s) \ {i}) \cup {i})
    BY <2>4, FS_AddElement
  <2>6. Cardinality(now) <= Cardinality(M!Shown(s) \ {i}) + 1 /\ Cardinality(now) \in Nat
    BY <2>3, <2>5, FS_Subset, FS_CardinalityType
  <2>7. Cardinality(now) <= PieceLimit BY <1>4, <2>2, <2>4, <2>6
  <2>8. QED BY <2>7 DEF now
<1>6. CASE i \notin now
  <2>1. now \subseteq old BY <1>2, <1>6
  <2> HIDE DEF now, old
  <2>2. Cardinality(now) <= Cardinality(old) /\ Cardinality(now) \in Nat
    BY <1>3, <2>1, FS_Subset, FS_CardinalityType
  <2>3. Cardinality(now) <= PieceLimit BY <1>3, <1>4, <2>2
  <2>4. QED BY <2>3 DEF now
<1>7. QED BY <1>5, <1>6

LEMMA MagazineInit == M!Init => MagazineIInv
<1> SUFFICES ASSUME M!Init PROVE MagazineIInv
  OBVIOUS
<1>1. M!TypeOK
  <2>1. piece \in [Piece -> M!Row] /\ edited \subseteq Piece
    BY RowShapes DEF M!Init, M!Row
  <2>2. QED BY <2>1, RowShapes DEF M!Init, M!TypeOK, M!Label, M!Change
<1>2. QED BY <1>1 DEF M!Init, MagazineIInv, PiecesKnown, M!SectionsHold

\* Nobody's piece, and no row, changes but what r knows.
LEMMA PiecesStay ==
  ASSUME MagazineIInv, NEW r \in Request, UNCHANGED <<piece, edited>>,
         \A q \in Request \ {r} : /\ mpc'[q] = mpc[q] /\ page'[q] = page[q] /\ kept'[q] = kept[q]
                                  /\ change'[q] = change[q] /\ (q \notin outpaced' => q \notin outpaced),
         mpc'[r] # "idle" => page'[r] \in Piece,
         r \notin outpaced' =>
           /\ mpc'[r] = "insert" => Room(kept'[r].section, page'[r])
           /\ mpc'[r] = "update" =>
                \/ piece[page'[r]] = M!NoPiece
                \/ /\ piece[page'[r]] = kept'[r]
                   /\ change'[r] = "YES" /\ ~kept'[r].published => Room(kept'[r].section, page'[r])
  PROVE  PiecesKnown' /\ M!SectionsHold'
<1>1. \A s : M!Shown(s)' = M!Shown(s) BY DEF M!Shown, M!Ours
<1>2. \A s, i : Room(s, i)' <=> Room(s, i) BY <1>1 DEF Room
<1>3. M!SectionsHold' BY <1>1 DEF MagazineIInv, M!SectionsHold
<1>4. ASSUME NEW q \in Request
      PROVE  /\ mpc'[q] # "idle" => page'[q] \in Piece
             /\ q \notin outpaced' =>
                  /\ mpc'[q] = "insert" => Room(kept'[q].section, page'[q])
                  /\ mpc'[q] = "update" =>
                       \/ piece'[page'[q]] = M!NoPiece
                       \/ /\ piece'[page'[q]] = kept'[q]
                          /\ change'[q] = "YES" /\ ~kept'[q].published => Room(kept'[q].section, page'[q])
  <2>1. CASE q = r BY <2>1
  <2>2. CASE q # r BY <2>2 DEF MagazineIInv, PiecesKnown
  <2>3. QED BY <2>1, <2>2
<1>5. ASSUME NEW q \in Request
      PROVE  (/\ mpc[q] # "idle" => page[q] \in Piece
              /\ q \notin outpaced =>
                  /\ mpc[q] = "insert" => Room(kept[q].section, page[q])
                  /\ mpc[q] = "update" =>
                       \/ piece[page[q]] = M!NoPiece
                       \/ /\ piece[page[q]] = kept[q]
                          /\ change[q] = "YES" /\ ~kept[q].published => Room(kept[q].section, page[q]))'
  BY <1>1, <1>4 DEF Room
<1>6. QED BY <1>3, <1>5 DEF PiecesKnown

LEMMA MagazineArrives ==
  ASSUME MagazineIInv, NEW r \in M!Arriving, NEW i \in Piece, NEW w \in M!Row, NEW c \in M!Change,
         NEW l \in M!Label, M!Begin(r, i, w, c, l), l # "insert",
         l = "update" => w = piece[i] /\ ~(c = "YES" /\ ~w.published)
  PROVE  MagazineIInv'
<1>1. /\ r \in Request /\ mpc[r] = "idle"
      /\ mpc' = [mpc EXCEPT ![r] = l] /\ page' = [page EXCEPT ![r] = i]
      /\ kept' = [kept EXCEPT ![r] = w] /\ change' = [change EXCEPT ![r] = c]
      /\ outpaced' = outpaced \ {r} /\ UNCHANGED <<piece, edited>>
  BY DEF M!Arriving, M!Begin
<1>2. M!TypeOK'
  <2>1. mserved' \in 0..MaxPrinted BY ConstantsOK DEF M!Begin, MagazineIInv, M!TypeOK
  <2>2. QED BY <1>1, <2>1 DEF MagazineIInv, M!TypeOK
<1>3. PiecesKnown' /\ M!SectionsHold'
  BY <1>1, PiecesStay DEF MagazineIInv, M!TypeOK
<1>4. QED BY <1>2, <1>3 DEF MagazineIInv

\* r has counted.
LEMMA MagazinePasses ==
  ASSUME MagazineIInv, NEW r \in M!Working, M!CountNew(r) \/ M!Count(r)
  PROVE  MagazineIInv'
<1>1. PICK l \in {"insert", "update"}, others \in {{}, {page[r]}} :
        /\ M!Passes(r, l, others) /\ mpc[r] # "idle"
        /\ l = "insert" => others = {}
        /\ l = "update" => others = {page[r]}
  BY DEF M!CountNew, M!Count
<1>2. /\ r \in Request /\ mpc' = [mpc EXCEPT ![r] = l] /\ page[r] \in Piece
      /\ outpaced' = IF piece[page[r]] \in {M!NoPiece, kept[r]} THEN outpaced \ {r} ELSE outpaced \cup {r}
      /\ UNCHANGED <<piece, mserved, page, kept, change, edited>>
      /\ Cardinality(M!Shown(kept[r].section) \ others) < PieceLimit
  BY <1>1, SamePieceCounts DEF M!Working, M!Passes, MagazineCounts, MagazineIInv, PiecesKnown
<1>3. Room(kept[r].section, page[r])
  <2> DEFINE S == M!Shown(kept[r].section)
  <2>1. CASE others = {page[r]} BY <1>2, <2>1 DEF Room
  <2>2. CASE others = {}
    <3>1. IsFiniteSet(S) /\ S \ {} = S /\ S \ {page[r]} \subseteq S
      BY ShownFinite
    <3> HIDE DEF S
    <3>2. Cardinality(S \ {page[r]}) <= Cardinality(S) /\ Cardinality(S) \in Nat
          /\ Cardinality(S \ {page[r]}) \in Nat
      BY <3>1, FS_Subset, FS_CardinalityType
    <3>3. Cardinality(S) < PieceLimit BY <1>2, <2>2, <3>1 DEF S
    <3>4. Cardinality(S \ {page[r]}) < PieceLimit BY <3>2, <3>3, ConstantsOK
    <3>5. QED BY <3>4 DEF Room, S
  <2>3. QED BY <2>1, <2>2
<1>4. M!TypeOK' BY <1>2 DEF MagazineIInv, M!TypeOK, M!Label
<1>5. PiecesKnown' /\ M!SectionsHold'
  BY <1>2, <1>3, PiecesStay DEF MagazineIInv, M!TypeOK
<1>6. QED BY <1>4, <1>5 DEF MagazineIInv

\* r writes its piece: whoever knew anything else of the magazine is outpaced.
LEMMA MagazineWrites ==
  ASSUME MagazineIInv, NEW r \in M!Working, NEW w \in M!Row, NEW fair \in BOOLEAN,
         M!Writes(r, page[r], w, fair),
         w # piece[page[r]] /\ w.published /\ fair /\ r \notin outpaced =>
           w.removed \/ Room(w.section, page[r])
  PROVE  MagazineIInv'
<1> DEFINE i == page[r]
<1>1. /\ r \in Request /\ mpc[r] # "idle" /\ i \in Piece
      /\ piece' = [piece EXCEPT ![i] = w]
      /\ outpaced' = IF w = piece[i] THEN outpaced \ {r} ELSE Request \ {r}
      /\ edited' = IF w = piece[i] THEN edited
                   ELSE IF w.published /\ ~(fair /\ r \notin outpaced) THEN edited \cup {i}
                   ELSE edited \ {i}
      /\ mpc' = [mpc EXCEPT ![r] = "idle"] /\ page' = [page EXCEPT ![r] = None]
      /\ kept' = [kept EXCEPT ![r] = M!NoPiece] /\ change' = [change EXCEPT ![r] = "KEEP"]
      /\ mserved' = mserved
  BY DEF M!Working, M!Writes, M!Return, MagazineIInv, PiecesKnown
<1>t. page[r] \in Piece BY <1>1
<1>2. M!TypeOK'
  BY <1>1, RowShapes DEF MagazineIInv, M!TypeOK, M!Label, M!Change
<1>3. CASE w = piece[i]
  <2>1. piece' = piece BY <1>1, <1>3 DEF MagazineIInv, M!TypeOK
  <2>2. PiecesKnown' /\ M!SectionsHold'
    BY <1>1, <1>3, <2>1, PiecesStay DEF MagazineIInv, M!TypeOK
  <2>3. QED BY <1>2, <2>2 DEF MagazineIInv
<1>4. CASE w # piece[i]
  <2>1. outpaced' = Request \ {r} /\ mpc'[r] = "idle"
    BY <1>1, <1>4 DEF MagazineIInv, M!TypeOK
  <2>2. ASSUME NEW q \in Request PROVE mpc'[q] # "idle" => page'[q] \in Piece /\ q # r
    BY <1>1 DEF MagazineIInv, M!TypeOK, PiecesKnown
  <2>3. PiecesKnown' BY <2>1, <2>2 DEF PiecesKnown
  <2>4. edited \ {i} \subseteq edited' /\ (i \in edited' \/ ~w.published \/ w.removed \/ Room(w.section, i))
    BY <1>1, <1>4
  <2> HIDE DEF i
  <2>5. M!SectionsHold'
    BY <1>1, <2>4, OnePieceMore DEF MagazineIInv
  <2>6. QED BY <1>2, <2>3, <2>5 DEF MagazineIInv
<1>5. QED BY <1>3, <1>4

LEMMA RowRepublished ==
  ASSUME NEW w \in M!Row, NEW c \in M!Change
  PROVE  /\ M!Republished(w, c).section = w.section /\ M!Republished(w, c).removed = w.removed
         /\ c = "KEEP" => M!Republished(w, c) = w
         /\ c = "NO" => ~M!Republished(w, c).published
         /\ c = "YES" /\ w.published => M!Republished(w, c) = w
BY DEF M!Republished, M!Row, M!Change

\* The owner's and the editor's writes of a piece they work on.
LEMMA PieceWritten ==
  ASSUME MagazineIInv, NEW r \in M!Working,
         \/ M!CreateStrong(r) \/ M!UpdateStrong(r) \/ M!RemoveStrong(r)
         \/ M!CreateParaDate(r) \/ M!UpdateParaDate(r) \/ M!RemoveParaDate(r)
         \/ M!EditEditorial(r) \/ M!RemoveEditorial(r)
  PROVE  MagazineIInv'
<1>1. /\ r \in Request /\ page[r] \in Piece /\ kept[r] \in M!Row /\ change[r] \in M!Change
      /\ piece[page[r]] \in M!Row
  BY DEF M!Working, MagazineIInv, M!TypeOK, PiecesKnown
<1>2. CASE M!CreateStrong(r) \/ M!CreateParaDate(r)
  <2>1. mpc[r] = "insert" /\ M!Writes(r, page[r], M!Republished(kept[r], change[r]), TRUE)
    BY <1>2 DEF M!CreateStrong, M!CreateParaDate, M!Insert
  <2>2. r \notin outpaced => Room(M!Republished(kept[r], change[r]).section, page[r])
    BY <1>1, <2>1, RowRepublished DEF MagazineIInv, PiecesKnown
  <2>3. QED BY <1>1, <2>1, <2>2, RowShapes, MagazineWrites
<1>3. CASE M!UpdateStrong(r) \/ M!UpdateParaDate(r)
  <2> DEFINE old == piece[page[r]]  w == M!Republished(old, change[r])
  <2>1. mpc[r] = "update" /\ M!Writes(r, page[r], w, TRUE)
    BY <1>3 DEF M!UpdateStrong, M!UpdateParaDate, M!Update
  <2>2. w \in M!Row /\ w.section = old.section /\ w.removed = old.removed
    BY <1>1, RowShapes, RowRepublished
  <2>3. ASSUME w # old, w.published, r \notin outpaced
        PROVE  w.removed \/ Room(w.section, page[r])
    <3>1. change[r] = "YES" /\ ~old.published
      BY <1>1, <2>3, RowRepublished DEF M!Change
    <3>2. CASE old = M!NoPiece BY <2>2, <3>2 DEF M!NoPiece
    <3>3. CASE old # M!NoPiece
      BY <1>1, <2>1, <2>2, <2>3, <3>1, <3>3 DEF MagazineIInv, PiecesKnown
    <3>4. QED BY <3>2, <3>3
  <2> HIDE DEF w
  <2>4. QED BY <2>1, <2>2, <2>3, MagazineWrites
<1>4. CASE M!RemoveStrong(r) \/ M!RemoveParaDate(r) \/ M!RemoveEditorial(r)
  <2> DEFINE w == [piece[page[r]] EXCEPT !.removed = TRUE, !.published = FALSE]
  <2>1. M!Writes(r, page[r], w, TRUE)
    BY <1>4 DEF M!RemoveStrong, M!RemoveParaDate, M!Remove, M!RemoveEditorial, M!Marks
  <2>2. w \in M!Row /\ ~w.published BY <1>1 DEF M!Row
  <2> HIDE DEF w
  <2>3. QED BY <2>1, <2>2, MagazineWrites
<1>5. CASE M!EditEditorial(r)
  <2> DEFINE w == M!Republished([piece[page[r]] EXCEPT !.section = kept[r].section,
                                                       !.ours = kept[r].ours], change[r])
  <2>1. M!Writes(r, page[r], w, FALSE)
    BY <1>5 DEF M!EditEditorial
  <2>2. [piece[page[r]] EXCEPT !.section = kept[r].section, !.ours = kept[r].ours] \in M!Row
    BY <1>1 DEF M!Row
  <2>3. w \in M!Row BY <1>1, <2>2, RowShapes
  <2> HIDE DEF w
  <2>4. QED BY <2>1, <2>3, MagazineWrites
<1>6. QED BY <1>2, <1>3, <1>4, <1>5

\* The editor's new piece may be published without counting.
LEMMA EditorialCreated ==
  ASSUME MagazineIInv, NEW r \in M!Arriving, M!CreateEditorial(r)
  PROVE  MagazineIInv'
<1>1. PICK i \in Piece, s \in M!Section, ours \in BOOLEAN, published \in BOOLEAN :
        /\ piece' = [piece EXCEPT ![i] = [section |-> s, ours |-> ours, published |-> published,
                                          removed |-> FALSE]]
        /\ edited' = IF published THEN edited \cup {i} ELSE edited
  BY DEF M!CreateEditorial
<1> DEFINE w == [section |-> s, ours |-> ours, published |-> published, removed |-> FALSE]
<1>2. w \in M!Row /\ w.published = published BY DEF M!Row
<1>3. piece' = [piece EXCEPT ![i] = w] BY <1>1
<1> HIDE DEF w
<1>4. outpaced' = Request /\ UNCHANGED <<mpc, page, kept, change>> /\ mserved' \in 0..MaxPrinted
  BY ConstantsOK DEF M!CreateEditorial, M!locals, MagazineIInv, M!TypeOK
<1>5. M!TypeOK' BY <1>1, <1>2, <1>3, <1>4 DEF MagazineIInv, M!TypeOK
<1>6. PiecesKnown' BY <1>4 DEF MagazineIInv, PiecesKnown
<1>7. edited \ {i} \subseteq edited' /\ (i \in edited' \/ ~w.published) BY <1>1, <1>2
<1>8. M!SectionsHold' BY <1>2, <1>3, <1>7, OnePieceMore DEF MagazineIInv
<1>9. QED BY <1>5, <1>6, <1>8 DEF MagazineIInv

LEMMA MagazineStep == MagazineIInv /\ M!Next => MagazineIInv'
<1> SUFFICES ASSUME MagazineIInv, M!Next PROVE MagazineIInv'
  OBVIOUS
<1>p. \A i \in Piece : piece[i] \in M!Row BY DEF MagazineIInv, M!TypeOK
<1>c. "YES" \in M!Change /\ "NO" \in M!Change /\ {"countNew", "count", "update", "remove", "edit", "discard"} \subseteq M!Label
  BY DEF M!Change, M!Label
<1>1. ASSUME NEW r \in M!Arriving, NEW s \in M!Section, NEW c \in M!Change, M!BeginCreate(r, s, c)
      PROVE  MagazineIInv'
  <2>1. PICK i \in Piece :
          M!Begin(r, i, [section |-> s, ours |-> TRUE, published |-> FALSE, removed |-> FALSE], c, "countNew")
    BY <1>1 DEF M!BeginCreate
  <2>2. [section |-> s, ours |-> TRUE, published |-> FALSE, removed |-> FALSE] \in M!Row
    BY DEF M!Row
  <2>3. QED BY <1>1, <1>c, <2>1, <2>2, MagazineArrives
<1>2. ASSUME NEW r \in M!Arriving, NEW s \in M!Section, NEW i \in Piece, NEW c \in M!Change,
             M!BeginUpdate(r, s, i, c)
      PROVE  MagazineIInv'
  <2>1. CASE c = "YES" /\ ~piece[i].published
    <3>1. M!Begin(r, i, piece[i], c, "count") BY <1>2, <2>1 DEF M!BeginUpdate
    <3>2. QED BY <1>2, <1>c, <1>p, <3>1, MagazineArrives
  <2>2. CASE ~(c = "YES" /\ ~piece[i].published)
    <3>1. M!Begin(r, i, piece[i], c, "update") BY <1>2, <2>2 DEF M!BeginUpdate
    <3>2. QED BY <1>2, <1>c, <1>p, <2>2, <3>1, MagazineArrives
  <2>3. QED BY <2>1, <2>2
<1>3. ASSUME NEW r \in M!Arriving, NEW i \in Piece,
             M!BeginDiscard(r, i) \/ \E s \in M!Section : M!BeginRemove(r, s, i)
      PROVE  MagazineIInv'
  <2>1. PICK l \in {"remove", "discard"} : M!Begin(r, i, piece[i], "NO", l)
    BY <1>3 DEF M!BeginDiscard, M!BeginRemove
  <2>2. QED BY <1>3, <1>c, <1>p, <2>1, MagazineArrives
<1>4. ASSUME NEW r \in M!Arriving, NEW i \in Piece, NEW s \in M!Section, NEW ours \in BOOLEAN,
             NEW c \in M!Change, M!BeginEdit(r, i, s, ours, c)
      PROVE  MagazineIInv'
  <2>1. M!Begin(r, i, [section |-> s, ours |-> ours, published |-> FALSE, removed |-> FALSE], c, "edit")
    BY <1>4 DEF M!BeginEdit
  <2>2. [section |-> s, ours |-> ours, published |-> FALSE, removed |-> FALSE] \in M!Row
    BY DEF M!Row
  <2>3. QED BY <1>4, <1>c, <2>1, <2>2, MagazineArrives
<1>5. ASSUME NEW r \in M!Working, M!Fail(r) PROVE MagazineIInv'
  <2>1. /\ r \in Request /\ mpc' = [mpc EXCEPT ![r] = "idle"] /\ page' = [page EXCEPT ![r] = None]
        /\ kept' = [kept EXCEPT ![r] = M!NoPiece] /\ change' = [change EXCEPT ![r] = "KEEP"]
        /\ UNCHANGED <<piece, mserved, outpaced, edited>>
    BY <1>5 DEF M!Fail, M!Return, M!Working
  <2>2. M!TypeOK' BY <2>1, RowShapes DEF MagazineIInv, M!TypeOK, M!Label, M!Change
  <2>3. PiecesKnown' /\ M!SectionsHold' BY <2>1, PiecesStay DEF MagazineIInv, M!TypeOK
  <2>4. QED BY <2>2, <2>3 DEF MagazineIInv
<1>6. QED
  BY <1>1, <1>2, <1>3, <1>4, <1>5, EditorialCreated, PieceWritten, MagazinePasses DEF M!Next

\* What the plan of a bar is bears on who may begin, not on the sections.
LEMMA MagazineUntouched == MagazineIInv /\ UNCHANGED pages => MagazineIInv'
<1> SUFFICES ASSUME MagazineIInv, UNCHANGED pages PROVE MagazineIInv'
  OBVIOUS
<1>1. UNCHANGED <<piece, mserved, mpc, page, kept, change, outpaced, edited>> BY DEF pages
<1>2. \A s : M!Shown(s)' = M!Shown(s) BY <1>1 DEF M!Shown, M!Ours
<1>3. \A s, i : Room(s, i)' <=> Room(s, i) BY <1>2 DEF Room
<1>4. M!TypeOK' BY <1>1 DEF MagazineIInv, M!TypeOK
<1>5. M!SectionsHold' BY <1>1, <1>2 DEF MagazineIInv, M!SectionsHold
<1>6. PiecesKnown' BY <1>1, <1>2 DEF MagazineIInv, PiecesKnown, Room
<1>7. QED BY <1>4, <1>5, <1>6 DEF MagazineIInv

-----------------------------------------------------------------------------
(* Places: visits, reviews and what is shown *)

PlaceLabel == {"idle", "find", "clear", "fetch", "store", "settle", "prior", "insert", "stub",
               "addStub", "write", "look", "create", "update", "seeds", "rank"}
Looking == {"find", "clear", "fetch", "store"}
Reviewing == {"stub", "addStub", "write", "look", "create", "update"}

Errand ==
  [at : PlaceLabel, kind : {None, "visit", "review", "nearby", "page"}, user : User \cup {None},
   spot : Spot \cup {None}, g : Google \cup {None}, bar : Bar \cup {None}, row : Google \cup {None},
   key : P!Key \cup {None}, day : 0..MaxDate, stars : Stars \cup {0}, bars : SUBSET Bar,
   found : SUBSET Google, seeds : SUBSET Google, calls : 0..MaxResolve,
   loaded : BOOLEAN, first : BOOLEAN, late : BOOLEAN]

\* A bar that has an id at Google stands for that place and for no other.
Stands(b, key) == b # None /\ GoogleOf[b] # None => key = GoogleOf[b]

\* What a request knows of the place it works on.
Placed(e) ==
  /\ e.at \in Looking => e.g \in Google
  /\ e.at = "store" => e.row \in Google
  /\ e.at = "settle" => e.kind = "visit"
  /\ e.at \in {"seeds", "rank"} => e.kind = "nearby"
  /\ e.kind = "visit" /\ e.at \in Looking \cup {"settle"} =>
       /\ e.user \in User /\ e.key \in P!Key
       /\ e.g # None => e.key = e.g
       /\ IF e.loaded THEN e.bar \in Bar /\ e.key = P!KeyOf(e.bar) ELSE e.g \in Google
  /\ e.at \in {"prior", "insert"} => e.user \in User /\ e.key \in P!Key /\ Stands(e.bar, e.key)
  /\ e.at \in Reviewing => e.user \in User /\ e.key \in P!Key /\ e.stars \in Stars
  /\ e.at \in {"stub", "addStub"} => e.key \in Google

\* Who would clear fresh content, or write a second first visit, is late.
Cleared(e) == e.at = "clear" /\ cache[e.g] = "fresh" => e.late
Early(e) == e.at = "insert" /\ e.first => e.late \/ P!Visits(e.user, e.key) = {}

\* The bar a place's reviews name, unless the place is odd.
BarFor(key) == IF key \in Google THEN P!OwnerIn(Bar, key) ELSE key
Named(e) == e.at \in Reviewing => e.key \in odd \/ e.bar = BarFor(e.key)

Known(e) == Placed(e) /\ Cleared(e) /\ Early(e) /\ Named(e)
Errands == errand \in [Request -> Errand] /\ \A r \in Request : Known(errand[r])

VisitRow == [user : User, key : P!Key, bar : Bar \cup {None}, day : 0..MaxDate,
             first : BOOLEAN, late : BOOLEAN]
VisitRows == \A v \in visited : v \in VisitRow /\ Stands(v.bar, v.key)

ReviewRows ==
  /\ review \in [User \X P!Key -> [bar : Bar \cup {None}, stars : Stars \cup {0}]]
  /\ \A u \in User, key \in P!Key \ odd :
       review[<<u, key>>] # P!NoReview => review[<<u, key>>].bar = BarFor(key)

PlaceRows ==
  /\ cache \in [Google -> {"none", "stub", "fresh", "old"}]
  /\ doors \in [Bar -> {"open", "hidden", "deleted"}]
  /\ date \in 0..MaxDate /\ trips \in 0..MaxTrips

PlacesIInv == PlaceRows /\ VisitRows /\ ReviewRows /\ Errands /\ P!FirstOnce /\ P!ShownOnce

LEMMA IdleErrand == P!Idle \in Errand /\ P!Idle.at = "idle" /\ Placed(P!Idle)
<1>1. P!Idle.at = "idle" /\ P!Idle \in Errand
  BY PlacesOK DEF P!Idle, Errand, PlaceLabel
<1>2. QED BY <1>1 DEF Placed, Looking, Reviewing

\* One field of an errand at a time.
LEMMA Fields ==
  ASSUME NEW e \in Errand
  PROVE  /\ \A x \in PlaceLabel : [e EXCEPT !.at = x] \in Errand
         /\ \A x \in {None, "visit", "review", "nearby", "page"} : [e EXCEPT !.kind = x] \in Errand
         /\ \A x \in User \cup {None} : [e EXCEPT !.user = x] \in Errand
         /\ \A x \in Spot \cup {None} : [e EXCEPT !.spot = x] \in Errand
         /\ \A x \in Google \cup {None} : [e EXCEPT !.g = x] \in Errand
         /\ \A x \in Bar \cup {None} : [e EXCEPT !.bar = x] \in Errand
         /\ \A x \in Google \cup {None} : [e EXCEPT !.row = x] \in Errand
         /\ \A x \in P!Key \cup {None} : [e EXCEPT !.key = x] \in Errand
         /\ \A x \in 0..MaxDate : [e EXCEPT !.day = x] \in Errand
         /\ \A x \in Stars \cup {0} : [e EXCEPT !.stars = x] \in Errand
         /\ \A x \in SUBSET Bar : [e EXCEPT !.bars = x] \in Errand
         /\ \A x \in SUBSET Google : [e EXCEPT !.found = x] \in Errand
         /\ \A x \in SUBSET Google : [e EXCEPT !.seeds = x] \in Errand
         /\ \A x \in 0..MaxResolve : [e EXCEPT !.calls = x] \in Errand
         /\ \A x \in BOOLEAN : [e EXCEPT !.loaded = x] \in Errand
         /\ \A x \in BOOLEAN : [e EXCEPT !.first = x] \in Errand
         /\ \A x \in BOOLEAN : [e EXCEPT !.late = x] \in Errand
<1>1. \A x \in PlaceLabel : [e EXCEPT !.at = x] \in Errand BY DEF Errand
<1>2. \A x \in {None, "visit", "review", "nearby", "page"} : [e EXCEPT !.kind = x] \in Errand BY DEF Errand
<1>3. \A x \in User \cup {None} : [e EXCEPT !.user = x] \in Errand BY DEF Errand
<1>4. \A x \in Spot \cup {None} : [e EXCEPT !.spot = x] \in Errand BY DEF Errand
<1>5. \A x \in Google \cup {None} : [e EXCEPT !.g = x] \in Errand BY DEF Errand
<1>6. \A x \in Bar \cup {None} : [e EXCEPT !.bar = x] \in Errand BY DEF Errand
<1>7. \A x \in Google \cup {None} : [e EXCEPT !.row = x] \in Errand BY DEF Errand
<1>8. \A x \in P!Key \cup {None} : [e EXCEPT !.key = x] \in Errand BY DEF Errand
<1>9. \A x \in 0..MaxDate : [e EXCEPT !.day = x] \in Errand BY DEF Errand
<1>10. \A x \in Stars \cup {0} : [e EXCEPT !.stars = x] \in Errand BY DEF Errand
<1>11. \A x \in SUBSET Bar : [e EXCEPT !.bars = x] \in Errand BY DEF Errand
<1>12. \A x \in SUBSET Google : [e EXCEPT !.found = x] \in Errand BY DEF Errand
<1>13. \A x \in SUBSET Google : [e EXCEPT !.seeds = x] \in Errand BY DEF Errand
<1>14. \A x \in 0..MaxResolve : [e EXCEPT !.calls = x] \in Errand BY DEF Errand
<1>15. \A x \in BOOLEAN : [e EXCEPT !.loaded = x] \in Errand BY DEF Errand
<1>16. \A x \in BOOLEAN : [e EXCEPT !.first = x] \in Errand BY DEF Errand
<1>17. \A x \in BOOLEAN : [e EXCEPT !.late = x] \in Errand BY DEF Errand
<1>18. QED
  BY <1>1, <1>2, <1>3, <1>4, <1>5, <1>6, <1>7, <1>8, <1>9, <1>10, <1>11, <1>12, <1>13, <1>14, <1>15, <1>16, <1>17

LEMMA Harmless ==
  \A e \in Errand : e.at \notin {"clear", "insert"} \cup Reviewing => Cleared(e) /\ Early(e) /\ Named(e)
BY DEF Cleared, Early, Named

\* One request moves on and no table changes that the others' knowledge is about.
LEMMA ErrandMoves ==
  ASSUME Errands, NEW r \in Request, NEW e \in Errand, errand' = [errand EXCEPT ![r] = e],
         UNCHANGED <<cache, visited>>, odd \subseteq odd',
         Placed(e), Cleared(e), Early(e), e.at \in Reviewing => e.key \in odd' \/ e.bar = BarFor(e.key)
  PROVE  Errands'
<1>1. errand' \in [Request -> Errand] BY DEF Errands
<1>2. ASSUME NEW q \in Request
      PROVE  Known(errand[q])'
  <2>1. CASE q = r BY <2>1 DEF Errands, Known, Placed, Cleared, Early, Named, P!Visits
  <2>2. CASE q # r BY <2>2 DEF Errands, Known, Placed, Cleared, Early, Named, P!Visits
  <2>3. QED BY <2>1, <2>2
<1>3. QED BY <1>1, <1>2 DEF Errands

LEMMA TablesStay ==
  ASSUME PlacesIInv, UNCHANGED <<cache, doors, visited, review, shown>>, odd \subseteq odd',
         date' \in 0..MaxDate, trips' \in 0..MaxTrips
  PROVE  PlaceRows' /\ VisitRows' /\ ReviewRows' /\ P!FirstOnce' /\ P!ShownOnce'
<1>1. PlaceRows' BY DEF PlacesIInv, PlaceRows
<1>2. VisitRows' BY DEF PlacesIInv, VisitRows
<1>3. ReviewRows' BY DEF PlacesIInv, ReviewRows
<1>4. P!FirstOnce' /\ P!ShownOnce' BY DEF PlacesIInv, P!FirstOnce, P!ShownOnce
<1>5. QED BY <1>1, <1>2, <1>3, <1>4

\* A request goes on to e and nothing else happens.
LEMMA GoesOn ==
  ASSUME PlacesIInv, NEW r \in Request, NEW e \in Errand, errand' = [errand EXCEPT ![r] = e],
         UNCHANGED <<P!rows, date, odd>>, trips' \in 0..MaxTrips, Known(e)
  PROVE  PlacesIInv'
<1>1. UNCHANGED <<cache, doors, visited, review, shown, odd, date>> BY DEF P!rows
<1>2. date' \in 0..MaxDate BY <1>1 DEF PlacesIInv, PlaceRows
<1>3. Errands' BY <1>1, ErrandMoves DEF PlacesIInv, Known, Named
<1>4. QED BY <1>1, <1>2, <1>3, TablesStay DEF PlacesIInv

LEMMA Owners ==
  ASSUME NEW S \in SUBSET Bar, NEW g
  PROVE  /\ P!OwnerIn(S, g) \in S \cup {None}
         /\ P!OwnerIn(S, g) # None => GoogleOf[P!OwnerIn(S, g)] = g
         /\ \A b \in S : GoogleOf[b] = g /\ g # None => P!OwnerIn(S, g) = b
<1>1. CASE \E b \in S : GoogleOf[b] = g
  <2>1. P!OwnerIn(S, g) \in S /\ GoogleOf[P!OwnerIn(S, g)] = g
    BY <1>1 DEF P!OwnerIn
  <2>2. QED BY <2>1, PlacesOK
<1>2. CASE ~ \E b \in S : GoogleOf[b] = g
  BY <1>2 DEF P!OwnerIn
<1>3. QED BY <1>1, <1>2

LEMMA KeyTypes ==
  \A b \in Bar : /\ P!KeyOf(b) \in P!Key /\ Stands(b, P!KeyOf(b)) /\ b # None
                 /\ P!KeyOf(b) = IF GoogleOf[b] = None THEN b ELSE GoogleOf[b]
                 /\ P!KeyOf(b) \in Google <=> GoogleOf[b] # None
BY PlacesOK DEF P!KeyOf, P!Key, Stands

LEMMA Resolves ==
  ASSUME NEW e \in Errand, Placed(e), e.at \in {"find", "store"}, NEW g \in Google
  PROVE  P!Resolved(e, g) \in Errand /\ Known(P!Resolved(e, g))
<1> DEFINE d == P!Resolved(e, g)
<1>1. CASE e.kind = "visit"
  <2>1. d = [e EXCEPT !.at = "settle", !.row = g] BY <1>1 DEF P!Resolved
  <2>2. /\ d \in Errand /\ d.at = "settle" /\ d.kind = "visit" /\ d.user = e.user /\ d.key = e.key
        /\ d.g = e.g /\ d.bar = e.bar /\ d.loaded = e.loaded
    BY <1>1, <2>1 DEF Errand, PlaceLabel
  <2> HIDE DEF d
  <2>3. Placed(d) BY <1>1, <2>2 DEF Placed, Looking, Reviewing
  <2>4. QED BY <2>2, <2>3, Harmless DEF Known, Reviewing, d
<1>2. CASE e.kind = "nearby"
  <2>1. d = [e EXCEPT !.at = "seeds", !.found = @ \cup {g}, !.g = None] BY <1>2 DEF P!Resolved
  <2>f. e.found \cup {g} \in SUBSET Google BY DEF Errand
  <2>2. d \in Errand /\ d.at = "seeds" /\ d.kind = "nearby"
    BY <1>2, <2>1, <2>f DEF Errand, PlaceLabel
  <2> HIDE DEF d
  <2>3. Placed(d) BY <2>2 DEF Placed, Looking, Reviewing
  <2>4. QED BY <2>2, <2>3, Harmless DEF Known, Reviewing, d
<1>3. CASE e.kind \notin {"visit", "nearby"}
  <2>1. d = P!Idle BY <1>3 DEF P!Resolved
  <2>2. QED BY <2>1, IdleErrand, Harmless DEF Known, Reviewing
<1>4. QED BY <1>1, <1>2, <1>3

LEMMA LookStep ==
  ASSUME PlacesIInv, NEW r \in Request, P!Find(r) \/ P!Fetch(r)
  PROVE  PlacesIInv'
<1> DEFINE e == errand[r]
<1>1. e \in Errand /\ Known(e) /\ trips \in 0..MaxTrips
  BY DEF PlacesIInv, Errands, PlaceRows
<1>2. CASE P!Find(r)
  <2>1. e.at = "find" /\ e.g \in Google /\ UNCHANGED <<P!rows, date, trips, odd>>
    BY <1>1, <1>2 DEF P!Find, P!At, Known, Placed, Looking
  <2>2. CASE cache[e.g] = "fresh"
    <3>1. errand' = [errand EXCEPT ![r] = P!Resolved(e, e.g)] BY <1>2, <2>2 DEF P!Find
    <3>2. P!Resolved(e, e.g) \in Errand /\ Known(P!Resolved(e, e.g))
      BY <1>1, <2>1, Resolves DEF Known
    <3>3. QED BY <1>1, <2>1, <3>1, <3>2, GoesOn
  <2>3. CASE cache[e.g] # "fresh"
    <3> DEFINE l == IF cache[e.g] = "none" THEN "fetch" ELSE "clear"
               d == [e EXCEPT !.at = l, !.late = FALSE]
    <3>1. errand' = [errand EXCEPT ![r] = d] BY <1>2, <2>3 DEF P!Find, PlacesIInv, Errands
    <3>l. l \in {"fetch", "clear"} OBVIOUS
    <3> HIDE DEF l
    <3>2. /\ d \in Errand /\ d.at \in {"fetch", "clear"} /\ d.g = e.g /\ d.kind = e.kind
          /\ d.user = e.user /\ d.key = e.key /\ d.bar = e.bar /\ d.loaded = e.loaded
      <4>1. d = [[e EXCEPT !.at = l] EXCEPT !.late = FALSE] OBVIOUS
      <4>2. d \in Errand BY <1>1, <3>l, <4>1, Fields DEF PlaceLabel
      <4>3. QED BY <1>1, <3>l, <4>2 DEF Errand
    <3> HIDE DEF d
    <3>3. Placed(d) BY <1>1, <2>1, <3>2 DEF Known, Placed, Looking, Reviewing
    <3>4. Cleared(d) /\ Early(d) /\ Named(d)
      BY <2>1, <2>3, <3>2 DEF Cleared, Early, Named, Reviewing
    <3>5. QED BY <1>1, <2>1, <3>1, <3>2, <3>3, <3>4, GoesOn DEF Known
  <2>4. QED BY <2>2, <2>3
<1>3. CASE P!Fetch(r)
  <2>1. e.at = "fetch" /\ e.g \in Google /\ UNCHANGED <<P!rows, date, trips, odd>>
    BY <1>1, <1>3 DEF P!Fetch, P!At, Known, Placed, Looking
  <2>2. CASE Answer[e.g] # None /\ errand' = [errand EXCEPT ![r].at = "store", ![r].row = Answer[e.g]]
    <3> DEFINE d == [e EXCEPT !.at = "store", !.row = Answer[e.g]]
    <3>1. errand' = [errand EXCEPT ![r] = d] BY <2>2 DEF PlacesIInv, Errands
    <3>2. /\ d \in Errand /\ d.at = "store" /\ d.g = e.g /\ d.kind = e.kind /\ d.row \in Google
          /\ d.user = e.user /\ d.key = e.key /\ d.bar = e.bar /\ d.loaded = e.loaded
      BY <1>1, <2>1, <2>2, PlacesOK DEF Errand, PlaceLabel
    <3> HIDE DEF d
    <3>3. Placed(d) BY <1>1, <2>1, <3>2 DEF Known, Placed, Looking, Reviewing
    <3>4. QED BY <1>1, <2>1, <3>1, <3>2, <3>3, Harmless, GoesOn DEF Known, Reviewing
  <2>3. CASE errand' = [errand EXCEPT ![r] = P!Unresolved(e)]
    <3> DEFINE d == P!Unresolved(e)
    <3>1. d \in Errand /\ ((d.at = "seeds" /\ d.kind = "nearby") \/ d.at = "idle")
      <4>1. CASE e.kind = "nearby" /\ d = [e EXCEPT !.at = "seeds", !.g = None]
        <5> HIDE DEF d
        <5>1. QED BY <1>1, <4>1 DEF Errand, PlaceLabel
      <4>2. CASE d = P!Idle
        BY <4>2, IdleErrand
      <4>3. QED BY <4>1, <4>2 DEF P!Unresolved
    <3> HIDE DEF d
    <3>2. Placed(d) BY <3>1 DEF Placed, Looking, Reviewing
    <3>3. QED BY <1>1, <2>1, <2>3, <3>1, <3>2, Harmless, GoesOn DEF Known, Reviewing, d
  <2>4. QED BY <1>3, <2>2, <2>3 DEF P!Fetch
<1>4. QED BY <1>2, <1>3

\* A step of r back to nothing, or to a place where it only waits.
LEMMA GoesHome ==
  ASSUME PlacesIInv, NEW r \in Request, errand' = [errand EXCEPT ![r] = P!Idle],
         UNCHANGED <<P!rows, date, trips, odd>>
  PROVE  PlacesIInv'
<1>1. Known(P!Idle) BY IdleErrand, Harmless DEF Known, Reviewing
<1>2. trips' \in 0..MaxTrips BY DEF PlacesIInv, PlaceRows
<1>3. QED BY <1>1, <1>2, IdleErrand, GoesOn

LEMMA VisitStep ==
  ASSUME PlacesIInv, NEW r \in Request, P!Settle(r) \/ P!Prior(r)
  PROVE  PlacesIInv'
<1> DEFINE e == errand[r]
<1>1. e \in Errand /\ Known(e) /\ trips \in 0..MaxTrips
  BY DEF PlacesIInv, Errands, PlaceRows
<1>2. CASE P!Settle(r)
  <2> DEFINE b == IF e.bar # None THEN e.bar ELSE P!OwnerIn(P!Opened, e.g)
             d == [P!Idle EXCEPT !.at = "prior", !.kind = "visit", !.user = e.user, !.key = e.key,
                     !.bar = b, !.day = e.day]
  <2>1. e.at = "settle" /\ UNCHANGED <<P!rows, date, trips, odd>>
    BY <1>2 DEF P!Settle, P!At
  <2>2. /\ e.user \in User /\ e.key \in P!Key /\ (e.g # None => e.key = e.g)
        /\ IF e.loaded THEN e.bar \in Bar /\ e.key = P!KeyOf(e.bar) ELSE e.g \in Google
    BY <1>1, <2>1 DEF Known, Placed, Looking
  <2>3. CASE errand' = [errand EXCEPT ![r] = P!Idle] BY <2>1, <2>3, GoesHome
  <2>4. CASE /\ errand' = [errand EXCEPT ![r] = d]
             /\ e.bar # None /\ ~e.loaded => e.bar \in P!Opened /\ GoogleOf[e.bar] \in {None, e.g}
    <3>1. b \in Bar \cup {None} /\ Stands(b, e.key)
      <4>1. CASE e.bar # None /\ e.loaded BY <2>2, <4>1, KeyTypes
      <4>2. CASE e.bar # None /\ ~e.loaded
        BY <1>1, <2>2, <2>4, <4>2 DEF Errand, Stands
      <4>3. CASE e.bar = None
        <5>1. e.g \in Google /\ e.key = e.g BY <2>2, <4>3, PlacesOK
        <5>2. P!Opened \in SUBSET Bar BY DEF P!Opened
        <5>3. QED BY <4>3, <5>1, <5>2, Owners DEF Stands
      <4>4. QED BY <4>1, <4>2, <4>3
    <3> HIDE DEF b
    <3>2. /\ d \in Errand /\ d.at = "prior" /\ d.user = e.user /\ d.key = e.key /\ d.bar = b
      <4>1. /\ e.user \in User \cup {None} /\ e.key \in P!Key \cup {None} /\ e.day \in 0..MaxDate
            /\ b \in Bar \cup {None} /\ "prior" \in PlaceLabel
        BY <1>1, <3>1 DEF Errand, PlaceLabel
      <4>2. d = [[[[[[P!Idle EXCEPT !.at = "prior"] EXCEPT !.kind = "visit"] EXCEPT !.user = e.user]
                     EXCEPT !.key = e.key] EXCEPT !.bar = b] EXCEPT !.day = e.day]
        OBVIOUS
      <4>3. d \in Errand BY <4>1, <4>2, IdleErrand, Fields
      <4>4. d.at = "prior" /\ d.user = e.user /\ d.key = e.key /\ d.bar = b BY DEF P!Idle
      <4>5. QED BY <4>3, <4>4
    <3> HIDE DEF d
    <3>3. Placed(d) BY <2>2, <3>1, <3>2 DEF Placed, Looking, Reviewing
    <3>4. QED BY <1>1, <2>1, <2>4, <3>2, <3>3, Harmless, GoesOn DEF Known, Reviewing
  <2>5. QED BY <1>2, <2>3, <2>4 DEF P!Settle, P!Return
<1>3. CASE P!Prior(r)
  <2>z. PICK z \in BOOLEAN : z = (P!Visits(e.user, e.key) = {})
    OBVIOUS
  <2> DEFINE d == [e EXCEPT !.at = "insert", !.first = z, !.late = FALSE]
  <2>1. e.at = "prior" /\ UNCHANGED <<P!rows, date, trips, odd>>
    BY <1>3 DEF P!Prior, P!At
  <2>2. CASE errand' = [errand EXCEPT ![r] = P!Idle] BY <2>1, <2>2, GoesHome
  <2>3. CASE errand' = [errand EXCEPT ![r].at = "insert",
                                      ![r].first = P!Visits(e.user, e.key) = {}, ![r].late = FALSE]
    <3>1. errand' = [errand EXCEPT ![r] = d] BY <2>3, <2>z DEF PlacesIInv, Errands
    <3>2. /\ d \in Errand /\ d.at = "insert" /\ d.user = e.user /\ d.key = e.key /\ d.bar = e.bar
          /\ d.first = z
      <4>1. d = [[[e EXCEPT !.at = "insert"] EXCEPT !.first = z] EXCEPT !.late = FALSE] OBVIOUS
      <4>2. d \in Errand BY <1>1, <4>1, Fields DEF PlaceLabel
      <4>3. d.at = "insert" /\ d.user = e.user /\ d.key = e.key /\ d.bar = e.bar /\ d.first = z
        BY <1>1 DEF Errand
      <4>4. QED BY <4>2, <4>3
    <3> HIDE DEF d
    <3>3. Placed(d) BY <1>1, <2>1, <3>2 DEF Known, Placed, Looking, Reviewing
    <3>4. Cleared(d) /\ Early(d) /\ Named(d) BY <2>z, <3>2 DEF Cleared, Early, Named, Reviewing
    <3>5. QED BY <1>1, <2>1, <3>1, <3>2, <3>3, <3>4, GoesOn DEF Known
  <2>4. QED BY <1>3, <2>2, <2>3 DEF P!Prior, P!Return
<1>4. QED BY <1>2, <1>3

\* r goes on within the writing of a review, or between seeds.
LEMMA LabelMoves ==
  ASSUME PlacesIInv, NEW r \in Request, NEW l \in PlaceLabel, P!Goto(r, l),
         UNCHANGED <<P!rows, date, trips, odd>>,
         \/ errand[r].at \in Reviewing /\ l \in Reviewing \ {"stub", "addStub"}
         \/ errand[r].at \in {"stub", "addStub"} /\ l \in Reviewing
         \/ errand[r].at = "seeds" /\ l = "rank"
  PROVE  PlacesIInv'
<1> DEFINE e == errand[r]
           d == [e EXCEPT !.at = l]
<1>1. e \in Errand /\ Known(e) /\ trips \in 0..MaxTrips
  BY DEF PlacesIInv, Errands, PlaceRows
<1>2. errand' = [errand EXCEPT ![r] = d] BY DEF P!Goto, PlacesIInv, Errands
<1>3. d \in Errand BY <1>1, Fields
<1>4. /\ d.at = l /\ d.user = e.user /\ d.key = e.key /\ d.bar = e.bar /\ d.stars = e.stars
        /\ d.kind = e.kind
  BY <1>1 DEF Errand
<1> HIDE DEF d
<1>5. Placed(d) BY <1>1, <1>4 DEF Known, Placed, Looking, Reviewing
<1>6. Cleared(d) /\ Early(d) /\ Named(d)
  BY <1>1, <1>4 DEF Known, Cleared, Early, Named, Reviewing
<1>7. QED BY <1>1, <1>2, <1>3, <1>5, <1>6, GoesOn DEF Known

LEMMA SeedStep ==
  ASSUME PlacesIInv, NEW r \in Request, P!NextSeed(r)
  PROVE  PlacesIInv'
<1> DEFINE e == errand[r]
<1>1. e \in Errand /\ Known(e) /\ trips \in 0..MaxTrips /\ e.at = "seeds"
  BY DEF PlacesIInv, Errands, PlaceRows, P!NextSeed, P!At
<1>2. UNCHANGED <<P!rows, date, trips, odd>> BY DEF P!NextSeed
<1>3. CASE e.seeds = {}
  <2>1. P!Goto(r, "rank") BY <1>3 DEF P!NextSeed
  <2>2. QED BY <1>1, <1>2, <2>1, LabelMoves DEF PlaceLabel
<1>4. CASE e.seeds # {}
  <2>1. PICK g \in e.seeds :
          errand' = [errand EXCEPT ![r] =
            IF cache[g] = "fresh" THEN [[e EXCEPT !.seeds = @ \ {g}] EXCEPT !.found = @ \cup {g}]
            ELSE IF e.calls = MaxResolve THEN [e EXCEPT !.seeds = @ \ {g}]
            ELSE [[e EXCEPT !.seeds = @ \ {g}] EXCEPT !.at = "find", !.g = g, !.calls = @ + 1]]
    BY <1>4 DEF P!NextSeed
  <2> DEFINE m == [e EXCEPT !.seeds = e.seeds \ {g}]
  <2>2. g \in Google /\ e.seeds \ {g} \in SUBSET Google /\ e.found \cup {g} \in SUBSET Google
    BY <1>1 DEF Errand
  <2>3. m \in Errand BY <1>1, <2>2, Fields
  <2>4. m.at = e.at /\ m.found = e.found /\ m.calls = e.calls /\ m.kind = e.kind
    BY <1>1 DEF Errand
  <2>5. \/ errand' = [errand EXCEPT ![r] = [m EXCEPT !.found = e.found \cup {g}]]
        \/ errand' = [errand EXCEPT ![r] = m]
        \/ e.calls # MaxResolve /\
             errand' = [errand EXCEPT ![r] = [m EXCEPT !.at = "find", !.g = g, !.calls = e.calls + 1]]
    BY <1>1, <2>1 DEF Errand
  <2> HIDE DEF m
  <2>k. e.kind = "nearby" BY <1>1 DEF Known, Placed
  <2>6. ASSUME NEW d \in Errand, d.at = "seeds", d.kind = "nearby", errand' = [errand EXCEPT ![r] = d] 
        PROVE  PlacesIInv'
    <3>1. Known(d) BY <2>6, Harmless DEF Known, Placed, Looking, Reviewing
    <3>2. QED BY <1>1, <1>2, <2>6, <3>1, GoesOn
  <2>7. CASE errand' = [errand EXCEPT ![r] = m] BY <1>1, <2>3, <2>4, <2>6, <2>7, <2>k
  <2>8. CASE errand' = [errand EXCEPT ![r] = [m EXCEPT !.found = e.found \cup {g}]]
    <3>1. [m EXCEPT !.found = e.found \cup {g}] \in Errand BY <2>2, <2>3, Fields
    <3>2. /\ [m EXCEPT !.found = e.found \cup {g}].at = "seeds"
          /\ [m EXCEPT !.found = e.found \cup {g}].kind = "nearby"
      BY <1>1, <2>3, <2>4, <2>k DEF Errand
    <3>3. QED BY <2>6, <2>8, <3>1, <3>2
  <2>9. CASE e.calls # MaxResolve /\
             errand' = [errand EXCEPT ![r] = [m EXCEPT !.at = "find", !.g = g, !.calls = e.calls + 1]]
    <3> DEFINE d == [m EXCEPT !.at = "find", !.g = g, !.calls = e.calls + 1]
    <3>1. e.calls + 1 \in 0..MaxResolve BY <1>1, <2>9, PlacesOK DEF Errand
    <3>2. d = [[[m EXCEPT !.at = "find"] EXCEPT !.g = g] EXCEPT !.calls = e.calls + 1] OBVIOUS
    <3>3. d \in Errand BY <2>2, <2>3, <3>1, <3>2, Fields DEF PlaceLabel
    <3>4. d.at = "find" /\ d.g = g /\ d.kind = e.kind BY <2>3, <2>4 DEF Errand
    <3> HIDE DEF d
    <3>6. Known(d) BY <2>2, <2>k, <3>3, <3>4, Harmless DEF Known, Placed, Looking, Reviewing
    <3>7. QED BY <1>1, <1>2, <2>9, <3>3, <3>6, GoesOn DEF d
  <2>10. QED BY <2>5, <2>7, <2>8, <2>9
<1>5. QED BY <1>3, <1>4

\* The steps of a review that only read.
LEMMA ReviewReads ==
  ASSUME PlacesIInv, NEW r \in Request,
         \/ P!Stub(r) \/ P!WriteFails(r) \/ P!Look(r)
         \/ P!At(r, "create") /\ P!Goto(r, "update") /\ UNCHANGED <<P!rows, date, trips, odd>>
  PROVE  PlacesIInv'
<1>1. UNCHANGED <<P!rows, date, trips, odd>> BY DEF P!Stub, P!WriteFails, P!Look
<1>2. CASE P!Stub(r)
  <2>1. PICK l \in {"write", "addStub"} : P!Goto(r, l) /\ errand[r].at = "stub"
    BY <1>2 DEF P!Stub, P!At
  <2>2. QED BY <1>1, <2>1, LabelMoves DEF PlaceLabel, Reviewing
<1>3. CASE P!WriteFails(r)
  BY <1>1, <1>3, LabelMoves DEF P!WriteFails, P!At, PlaceLabel, Reviewing
<1>4. CASE P!Look(r)
  <2>1. PICK l \in {"update", "create"} : P!Goto(r, l) /\ errand[r].at = "look"
    BY <1>4 DEF P!Look, P!At
  <2>2. QED BY <1>1, <2>1, LabelMoves DEF PlaceLabel, Reviewing
<1>5. CASE P!At(r, "create") /\ P!Goto(r, "update")
  BY <1>1, <1>5, LabelMoves DEF P!At, PlaceLabel, Reviewing
<1>6. QED BY <1>2, <1>3, <1>4, <1>5

\* What is known of e outlives a step after which no more content is fresh.
LEMMA StillKnown ==
  ASSUME NEW e \in Errand, Known(e), UNCHANGED visited, odd \subseteq odd',
         \A g \in Google : cache'[g] = "fresh" => cache[g] = "fresh"
  PROVE  Known(e)'
<1>1. Placed(e)' /\ Early(e)' /\ Named(e)' BY DEF Known, Placed, Early, Named, P!Visits
<1>2. Cleared(e)' BY DEF Known, Placed, Cleared, Looking
<1>3. QED BY <1>1, <1>2 DEF Known

LEMMA CacheStep ==
  ASSUME PlacesIInv, NEW r \in Request, NEW e \in Errand, errand' = [errand EXCEPT ![r] = e],
         UNCHANGED <<doors, visited, review, shown, date, trips, odd>>,
         NEW g \in Google, cache' = [cache EXCEPT ![g] = "stub"],
         Known(e)
  PROVE  PlacesIInv'
<1>1. PlaceRows' /\ \A h \in Google : cache'[h] = "fresh" => cache[h] = "fresh"
  BY DEF PlacesIInv, PlaceRows
<1>2. VisitRows' BY DEF PlacesIInv, VisitRows
<1>3. ReviewRows' BY DEF PlacesIInv, ReviewRows
<1>4. P!FirstOnce' /\ P!ShownOnce' BY DEF PlacesIInv, P!FirstOnce, P!ShownOnce
<1>5. ASSUME NEW q \in Request
      PROVE  Known(errand[q])'
  <2>1. PICK x \in Errand : x = errand'[q] /\ Known(x) BY DEF PlacesIInv, Errands
  <2>2. Known(x)' BY <1>1, <2>1, StillKnown
  <2>3. QED BY <2>1, <2>2 DEF Known, Placed, Cleared, Early, Named, P!Visits
<1>6. errand' \in [Request -> Errand] BY DEF PlacesIInv, Errands
<1>7. QED BY <1>1, <1>2, <1>3, <1>4, <1>5, <1>6 DEF PlacesIInv, Errands

LEMMA StubStep ==
  ASSUME PlacesIInv, NEW r \in Request, P!Clear(r) \/ P!AddStub(r)
  PROVE  PlacesIInv'
<1> DEFINE e == errand[r]
<1>1. e \in Errand /\ Known(e) BY DEF PlacesIInv, Errands
<1>2. CASE P!Clear(r)
  <2> DEFINE d == [e EXCEPT !.at = "fetch"]
  <2>1. e.at = "clear" /\ e.g \in Google BY <1>1, <1>2 DEF P!Clear, P!At, Known, Placed, Looking
  <2>2. errand' = [errand EXCEPT ![r] = d] BY <1>2 DEF P!Clear, P!Goto, PlacesIInv, Errands
  <2>3. d \in Errand BY <1>1, Fields DEF PlaceLabel
  <2>4. /\ d.at = "fetch" /\ d.user = e.user /\ d.key = e.key /\ d.bar = e.bar /\ d.g = e.g
        /\ d.kind = e.kind /\ d.loaded = e.loaded
    BY <1>1 DEF Errand
  <2> HIDE DEF d
  <2>5. Placed(d) BY <1>1, <2>1, <2>4 DEF Known, Placed, Looking, Reviewing
  <2>6. Known(d) BY <2>3, <2>4, <2>5, Harmless DEF Known, Reviewing
  <2> HIDE DEF e
  <2>7. PICK g \in Google : g = e.g BY <2>1
  <2>8. cache' = [cache EXCEPT ![g] = "stub"] /\ UNCHANGED <<doors, visited, review, shown, date, trips, odd>>
    BY <1>2, <2>7 DEF P!Clear, e
  <2>9. QED BY <2>2, <2>3, <2>6, <2>8, CacheStep
<1>3. CASE P!AddStub(r)
  <2>1. e.at = "addStub" /\ e.key \in Google BY <1>1, <1>3 DEF P!AddStub, P!At, Known, Placed
  <2>2. CASE cache[e.key] = "none"
    <3> DEFINE d == [e EXCEPT !.at = "write"]
    <3>1. errand' = [errand EXCEPT ![r] = d] /\ cache' = [cache EXCEPT ![e.key] = "stub"]
      BY <1>3, <2>2 DEF P!AddStub, P!Goto, PlacesIInv, Errands
    <3>2. d \in Errand BY <1>1, Fields DEF PlaceLabel
    <3>3. /\ d.at = "write" /\ d.user = e.user /\ d.key = e.key /\ d.bar = e.bar
          /\ d.kind = e.kind /\ d.stars = e.stars
      BY <1>1 DEF Errand
    <3> HIDE DEF d
    <3>4. Placed(d) BY <1>1, <2>1, <3>3 DEF Known, Placed, Looking, Reviewing
    <3>5. Cleared(d) /\ Early(d) /\ Named(d)
      BY <1>1, <2>1, <3>3 DEF Known, Cleared, Early, Named, Reviewing
    <3> HIDE DEF e
    <3>6. PICK g \in Google : g = e.key BY <2>1
    <3>7. cache' = [cache EXCEPT ![g] = "stub"] BY <3>1, <3>6
    <3>8. UNCHANGED <<doors, visited, review, shown, date, trips, odd>> BY <1>3 DEF P!AddStub
    <3>9. QED BY <3>1, <3>2, <3>4, <3>5, <3>7, <3>8, CacheStep DEF Known
  <2>3. CASE cache[e.key] # "none"
    <3>1. errand' = [errand EXCEPT ![r] = P!Idle] /\ UNCHANGED <<P!rows, date, trips, odd>>
      BY <1>3, <2>3 DEF P!AddStub, P!Return, P!rows
    <3>2. QED BY <3>1, GoesHome
  <2>4. QED BY <2>2, <2>3
<1>4. QED BY <1>2, <1>3

\* The steps of no request.
LEMMA DayStep ==
  ASSUME PlacesIInv,
         \/ P!Tomorrow
         \/ \E g \in Google : P!Expire(g)
         \/ \E b \in Bar : \E d \in {"open", "hidden", "deleted"} : P!SetDoors(b, d)
  PROVE  PlacesIInv'
<1>1. UNCHANGED <<visited, review, shown, errand, odd>>
  BY DEF P!Tomorrow, P!Expire, P!SetDoors, P!rows
<1>2. PlaceRows' /\ \A h \in Google : cache'[h] = "fresh" => cache[h] = "fresh"
  <2>1. CASE P!Tomorrow BY <2>1, PlacesOK DEF P!Tomorrow, P!rows, PlacesIInv, PlaceRows
  <2>2. CASE \E g \in Google : P!Expire(g) BY <2>2 DEF P!Expire, PlacesIInv, PlaceRows
  <2>3. CASE \E b \in Bar : \E d \in {"open", "hidden", "deleted"} : P!SetDoors(b, d)
    BY <2>3, PlacesOK DEF P!SetDoors, PlacesIInv, PlaceRows
  <2>4. QED BY <2>1, <2>2, <2>3
<1>3. VisitRows' BY <1>1 DEF PlacesIInv, VisitRows
<1>4. ReviewRows' BY <1>1 DEF PlacesIInv, ReviewRows
<1>5. P!FirstOnce' /\ P!ShownOnce' BY <1>1 DEF PlacesIInv, P!FirstOnce, P!ShownOnce
<1>6. ASSUME NEW q \in Request
      PROVE  Known(errand[q])'
  <2>1. PICK x \in Errand : x = errand'[q] /\ Known(x) BY <1>1 DEF PlacesIInv, Errands
  <2>2. Known(x)' BY <1>1, <1>2, <2>1, StillKnown
  <2>3. QED BY <2>1, <2>2 DEF Known, Placed, Cleared, Early, Named, P!Visits
<1>7. errand' \in [Request -> Errand] BY <1>1 DEF PlacesIInv, Errands
<1>8. QED BY <1>2, <1>3, <1>4, <1>5, <1>6, <1>7 DEF PlacesIInv, Errands

\* What another stores makes those late who are about to clear it.
LEMMA StoreStep ==
  ASSUME PlacesIInv, NEW r \in Request, P!Store(r)
  PROVE  PlacesIInv'
<1>1. errand[r] \in Errand /\ Known(errand[r]) /\ errand[r].at = "store"
  BY DEF PlacesIInv, Errands, P!Store, P!At
<1>2. PICK g \in Google : g = errand[r].row BY <1>1 DEF Known, Placed
<1>3. cache' = [cache EXCEPT ![g] = "fresh"]
  BY <1>2 DEF P!Store
<1>4. UNCHANGED <<doors, visited, review, shown, date, trips, odd>> BY DEF P!Store
<1>5. PlaceRows' BY <1>3, <1>4 DEF PlacesIInv, PlaceRows
<1>6. VisitRows' BY <1>4 DEF PlacesIInv, VisitRows
<1>7. ReviewRows' BY <1>4 DEF PlacesIInv, ReviewRows
<1>8. P!FirstOnce' /\ P!ShownOnce' BY <1>4 DEF PlacesIInv, P!FirstOnce, P!ShownOnce
<1>9. errand' = [q \in Request |->
        IF q = r THEN P!Resolved(errand[r], g)
        ELSE [errand[q] EXCEPT !.late = errand[q].late \/ (errand[q].at = "clear" /\ errand[q].g = g)]]
  BY <1>2, Zenon DEF P!Store, P!At
<1>10. ASSUME NEW q \in Request
       PROVE  errand'[q] \in Errand /\ Known(errand[q])'
  <2>1. CASE q = r
    <3>1. PICK x \in Errand : x = P!Resolved(errand[r], g) /\ Known(x)
                              /\ x.at \notin {"clear", "insert"} \cup Reviewing
      <4>1. P!Resolved(errand[r], g) \in Errand /\ Known(P!Resolved(errand[r], g))
        BY <1>1, Resolves DEF Known
      <4>2. P!Resolved(errand[r], g).at \in {"settle", "seeds", "idle"}
        BY <1>1, IdleErrand DEF P!Resolved, Errand
      <4>3. QED BY <4>1, <4>2 DEF Reviewing
    <3>2. errand'[q] = x BY <1>9, <2>1, <3>1
    <3>3. QED BY <3>1, <3>2 DEF Known, Placed, Cleared, Early, Named, Reviewing
  <2>2. CASE q # r
    <3>1. PICK x \in Errand : x = errand[q] /\ Known(x) BY DEF PlacesIInv, Errands
    <3>2. PICK w \in BOOLEAN : w = (x.late \/ (x.at = "clear" /\ x.g = g)) OBVIOUS
    <3> DEFINE y == [x EXCEPT !.late = w]
    <3>3. errand'[q] = y BY <1>9, <2>2, <3>1, <3>2, Zenon
    <3>4. /\ y \in Errand /\ y.at = x.at /\ y.kind = x.kind /\ y.user = x.user /\ y.g = x.g
          /\ y.bar = x.bar /\ y.row = x.row /\ y.key = x.key /\ y.stars = x.stars
          /\ y.loaded = x.loaded /\ y.first = x.first /\ y.late = w
      BY DEF Errand
    <3> HIDE DEF y
    <3>5. Placed(y)' BY <3>1, <3>4 DEF Known, Placed
    <3>6. Early(y)' BY <1>4, <3>1, <3>2, <3>4 DEF Known, Early, P!Visits
    <3>7. Named(y)' BY <1>4, <3>1, <3>4 DEF Known, Named
    <3>8. Cleared(y)'
      BY <1>3, <3>1, <3>2, <3>4 DEF Known, Cleared, Placed, Looking, PlacesIInv, PlaceRows
    <3>9. QED BY <3>3, <3>4, <3>5, <3>6, <3>7, <3>8 DEF Known, Placed, Cleared, Early, Named, P!Visits
  <2>3. QED BY <2>1, <2>2
<1>11. errand' \in [Request -> Errand] BY <1>9, <1>10
<1>12. QED BY <1>5, <1>6, <1>7, <1>8, <1>10, <1>11 DEF PlacesIInv, Errands

\* Who writes a visit makes those late who have looked for one before.
LEMMA InsertStep ==
  ASSUME PlacesIInv, NEW r \in Request, P!Insert(r)
  PROVE  PlacesIInv'
<1>1. PICK e \in Errand : e = errand[r] /\ Known(e) /\ e.at = "insert"
  BY DEF PlacesIInv, Errands, P!Insert, P!At
<1> DEFINE v == [user |-> e.user, key |-> e.key, bar |-> e.bar, day |-> e.day,
                 first |-> e.first, late |-> e.late]
<1>2. v \in VisitRow /\ Stands(v.bar, v.key)
  BY <1>1 DEF Known, Placed, Errand, VisitRow
<1>v. /\ v.user = e.user /\ v.key = e.key /\ v.first = e.first /\ v.late = e.late OBVIOUS
<1>3. visited' = visited \/ visited' = visited \cup {v} BY <1>1 DEF P!Insert
<1> HIDE DEF v
<1>4. UNCHANGED <<cache, doors, review, shown, date, trips, odd>> BY DEF P!Insert
<1>5. PlaceRows' BY <1>4 DEF PlacesIInv, PlaceRows
<1>6. VisitRows' BY <1>2, <1>3 DEF PlacesIInv, VisitRows
<1>7. ReviewRows' BY <1>4 DEF PlacesIInv, ReviewRows
<1>8. P!ShownOnce' BY <1>4 DEF PlacesIInv, P!ShownOnce
<1>9. P!FirstOnce'
  <2>1. v.first => v.late \/ \A w \in visited : ~(w.user = v.user /\ w.key = v.key)
    BY <1>1, <1>v DEF Known, Early, P!Visits
  <2>2. ASSUME NEW a \in visited', NEW b \in visited', a.first, b.first, a.user = b.user, a.key = b.key
        PROVE  a = b \/ a.late \/ b.late
    <3>1. /\ a \in visited \/ a = v
          /\ b \in visited \/ b = v
      BY <1>3, <2>2
    <3>2. CASE a \in visited /\ b \in visited BY <2>2, <3>2 DEF PlacesIInv, P!FirstOnce
    <3>3. CASE a = v /\ b \in visited BY <2>1, <2>2, <3>3
    <3>4. CASE a \in visited /\ b = v BY <2>1, <2>2, <3>4
    <3>5. QED BY <3>1, <3>2, <3>3, <3>4
  <2>3. QED BY <2>2 DEF P!FirstOnce
<1>10. errand' = [q \in Request |->
        IF q = r THEN P!Idle
        ELSE [errand[q] EXCEPT !.late = errand[q].late \/
                (errand[q].at = "insert" /\ errand[q].user = e.user /\ errand[q].key = e.key)]]
  BY <1>1, Zenon DEF P!Insert, P!At
<1>11. ASSUME NEW q \in Request
       PROVE  errand'[q] \in Errand /\ Known(errand[q])'
  <2>1. CASE q = r
    <3>1. PICK x \in Errand : x = P!Idle /\ Placed(x) /\ x.at = "idle"
      BY IdleErrand
    <3>2. errand'[q] = x BY <1>10, <2>1, <3>1
    <3>3. QED BY <3>1, <3>2 DEF Known, Placed, Cleared, Early, Named, Reviewing
  <2>2. CASE q # r
    <3>1. PICK x \in Errand : x = errand[q] /\ Known(x) BY DEF PlacesIInv, Errands
    <3>2. PICK w \in BOOLEAN : w = (x.late \/ (x.at = "insert" /\ x.user = e.user /\ x.key = e.key))
      OBVIOUS
    <3> DEFINE y == [x EXCEPT !.late = w]
    <3>3. errand'[q] = y BY <1>10, <2>2, <3>1, <3>2, Zenon
    <3>4. /\ y \in Errand /\ y.at = x.at /\ y.kind = x.kind /\ y.user = x.user /\ y.g = x.g
          /\ y.bar = x.bar /\ y.row = x.row /\ y.key = x.key /\ y.stars = x.stars
          /\ y.loaded = x.loaded /\ y.first = x.first /\ y.late = w
      BY DEF Errand
    <3> HIDE DEF y
    <3>5. Placed(y)' BY <3>1, <3>4 DEF Known, Placed
    <3>6. Early(y)'
      BY <1>3, <1>v, <3>1, <3>2, <3>4 DEF Known, Early, P!Visits
    <3>7. Named(y)' BY <1>4, <3>1, <3>4 DEF Known, Named
    <3>8. Cleared(y)' BY <1>4, <3>1, <3>2, <3>4 DEF Known, Cleared
    <3>9. QED BY <3>3, <3>4, <3>5, <3>6, <3>7, <3>8 DEF Known, Placed, Cleared, Early, Named, P!Visits
  <2>3. QED BY <2>1, <2>2
<1>12. errand' \in [Request -> Errand] BY <1>10, <1>11
<1>13. QED BY <1>5, <1>6, <1>7, <1>8, <1>9, <1>11, <1>12 DEF PlacesIInv, Errands

LEMMA WriteStep ==
  ASSUME PlacesIInv, NEW r \in Request, P!Write(r) \/ P!CreateReview(r) \/ P!UpdateReview(r)
  PROVE  PlacesIInv'
<1>1. PICK e \in Errand : e = errand[r] /\ Known(e) BY DEF PlacesIInv, Errands
<1>2. CASE P!At(r, "create") /\ P!Goto(r, "update") /\ UNCHANGED <<P!rows, date, trips, odd>>
  BY <1>2, ReviewReads
<1>3. CASE errand[r].at \in {"write", "create", "update"} /\ P!WriteReview(r)
  <2>1. e.user \in User /\ e.key \in P!Key /\ e.stars \in Stars /\ e.bar \in Bar \cup {None}
        /\ (e.key \in odd \/ e.bar = BarFor(e.key))
    BY <1>1, <1>3 DEF Known, Placed, Named, Reviewing, Errand
  <2>2. /\ review' = [review EXCEPT ![<<e.user, e.key>>] = [bar |-> e.bar, stars |-> e.stars]]
        /\ errand' = [errand EXCEPT ![r] = P!Idle]
        /\ UNCHANGED <<cache, doors, visited, shown, date, trips, odd>>
    BY <1>1, <1>3 DEF P!WriteReview, P!Return
  <2>3. ReviewRows'
    <3>1. review' \in [User \X P!Key -> [bar : Bar \cup {None}, stars : Stars \cup {0}]]
      BY <2>1, <2>2 DEF PlacesIInv, ReviewRows
    <3>2. ASSUME NEW u \in User, NEW k \in P!Key \ odd, review'[<<u, k>>] # P!NoReview
          PROVE  review'[<<u, k>>].bar = BarFor(k)
      <4>1. CASE <<u, k>> = <<e.user, e.key>>
        BY <2>1, <2>2, <4>1 DEF PlacesIInv, ReviewRows
      <4>2. CASE <<u, k>> # <<e.user, e.key>>
        BY <2>1, <2>2, <3>2, <4>2 DEF PlacesIInv, ReviewRows
      <4>3. QED BY <4>1, <4>2
    <3>3. QED BY <2>2, <3>1, <3>2 DEF ReviewRows
  <2>4. PlaceRows' BY <2>2 DEF PlacesIInv, PlaceRows
  <2>5. VisitRows' BY <2>2 DEF PlacesIInv, VisitRows
  <2>6. P!FirstOnce' /\ P!ShownOnce' BY <2>2 DEF PlacesIInv, P!FirstOnce, P!ShownOnce
  <2>7. Known(P!Idle) BY IdleErrand, Harmless DEF Known, Reviewing
  <2>8. Errands' BY <2>2, <2>7, IdleErrand, ErrandMoves DEF PlacesIInv, Known, Reviewing
  <2>9. QED BY <2>3, <2>4, <2>5, <2>6, <2>8 DEF PlacesIInv
<1>4. QED BY <1>2, <1>3 DEF P!Write, P!CreateReview, P!UpdateReview, P!At

\* What is shown as a bar is not shown as a place of Google's too.
LEMMA RankStep ==
  ASSUME PlacesIInv, NEW r \in Request, P!Rank(r)
  PROVE  PlacesIInv'
<1>1. PICK e \in Errand : e = errand[r] BY DEF PlacesIInv, Errands
<1>2. /\ shown' = {P!RankedBar(b) : b \in e.bars} \cup
                  {P!RankedPlace(g) : g \in e.found \ {GoogleOf[b] : b \in e.bars}}
      /\ errand' = [errand EXCEPT ![r] = P!Idle]
      /\ UNCHANGED <<cache, doors, visited, review, date, trips, odd>>
  BY <1>1 DEF P!Rank, P!Return
<1>3. e.bars \in SUBSET Bar /\ e.found \in SUBSET Google BY DEF Errand
<1>4. P!ShownOnce'
  <2>1. \A b, c \in Bar : P!KeyOf(b) = P!KeyOf(c) => b = c
    BY PlacesOK DEF P!KeyOf
  <2>2. \A b \in Bar, g \in Google : P!KeyOf(b) = g => GoogleOf[b] = g
    BY PlacesOK DEF P!KeyOf
  <2>3. ASSUME NEW x \in shown', NEW y \in shown', x.key = y.key
        PROVE  x = y
    <3>1. CASE \E b, c \in e.bars : x = P!RankedBar(b) /\ y = P!RankedBar(c)
      BY <1>3, <2>1, <2>3, <3>1 DEF P!RankedBar
    <3>2. CASE \E b \in e.bars : \E g \in e.found \ {GoogleOf[d] : d \in e.bars} :
                 \/ x = P!RankedBar(b) /\ y = P!RankedPlace(g)
                 \/ y = P!RankedBar(b) /\ x = P!RankedPlace(g)
      BY <1>3, <2>2, <2>3, <3>2 DEF P!RankedBar, P!RankedPlace
    <3>3. CASE \E g, h \in e.found : x = P!RankedPlace(g) /\ y = P!RankedPlace(h)
      BY <2>3, <3>3 DEF P!RankedPlace
    <3>4. QED BY <1>2, <3>1, <3>2, <3>3
  <2>4. QED BY <2>3 DEF P!ShownOnce
<1>5. PlaceRows' BY <1>2 DEF PlacesIInv, PlaceRows
<1>6. VisitRows' BY <1>2 DEF PlacesIInv, VisitRows
<1>7. ReviewRows' BY <1>2 DEF PlacesIInv, ReviewRows
<1>8. P!FirstOnce' BY <1>2 DEF PlacesIInv, P!FirstOnce
<1>9. Known(P!Idle) BY IdleErrand, Harmless DEF Known, Reviewing
<1>10. Errands' BY <1>2, <1>9, IdleErrand, ErrandMoves DEF PlacesIInv, Known, Reviewing
<1>11. QED BY <1>4, <1>5, <1>6, <1>7, <1>8, <1>10 DEF PlacesIInv

\* A request arrives.
LEMMA Opens ==
  ASSUME PlacesIInv, NEW r \in Request, trips < MaxTrips, NEW e \in Errand, P!Begins(r, e),
         odd \subseteq odd', Placed(e), e.at \notin {"clear", "insert"},
         e.at \in Reviewing => e.key \in odd' \/ e.bar = BarFor(e.key)
  PROVE  PlacesIInv'
<1>1. /\ errand' = [errand EXCEPT ![r] = e] /\ trips' = trips + 1
      /\ UNCHANGED <<cache, doors, visited, review, shown, date>>
  BY DEF P!Begins, P!rows
<1>2. trips' \in 0..MaxTrips /\ date' \in 0..MaxDate
  BY <1>1, PlacesOK DEF PlacesIInv, PlaceRows
<1>3. Cleared(e) /\ Early(e) BY DEF Cleared, Early
<1>4. Errands' BY <1>1, <1>3, ErrandMoves DEF PlacesIInv
<1>5. QED BY <1>1, <1>2, <1>4, TablesStay DEF PlacesIInv

LEMMA VisitBegins ==
  ASSUME PlacesIInv, NEW r \in Request, trips < MaxTrips, NEW u \in User, NEW f, NEW s \in Spot,
         NEW g \in Google \cup {None}, NEW b \in Bar \cup {None}, P!BeginVisit(r, u, f, s, g, b)
  PROVE  PlacesIInv'
<1> DEFINE e == [P!Idle EXCEPT !.kind = "visit", !.user = u, !.spot = s, !.bar = b, !.day = date]
<1>1. e \in Errand
  <2>1. e = [[[[[P!Idle EXCEPT !.kind = "visit"] EXCEPT !.user = u] EXCEPT !.spot = s]
               EXCEPT !.bar = b] EXCEPT !.day = date]
    OBVIOUS
  <2>2. date \in 0..MaxDate BY DEF PlacesIInv, PlaceRows
  <2>3. QED BY <2>1, <2>2, IdleErrand, Fields
<1>2. e.kind = "visit" /\ e.user = u /\ e.bar = b /\ e.loaded = FALSE BY DEF P!Idle
<1>o. odd' = odd BY DEF P!BeginVisit
<1>3. CASE g # None /\ P!Begins(r, [e EXCEPT !.at = "find", !.g = g, !.key = g])
  <2> DEFINE d == [e EXCEPT !.at = "find", !.g = g, !.key = g]
  <2>0. P!Begins(r, d) BY <1>3
  <2> HIDE DEF e
  <2>1. d = [[[e EXCEPT !.at = "find"] EXCEPT !.g = g] EXCEPT !.key = g] OBVIOUS
  <2>2. "find" \in PlaceLabel /\ g \in P!Key \cup {None} BY DEF P!Key, PlaceLabel
  <2>3. d \in Errand BY <1>1, <2>1, <2>2, Fields
  <2>4. d.at = "find" /\ d.g = g /\ d.key = g /\ d.user = u /\ d.loaded = FALSE
    BY <1>1, <1>2 DEF Errand
  <2> HIDE DEF d
  <2>5. Placed(d) BY <1>3, <2>4 DEF Placed, Looking, Reviewing, P!Key
  <2>6. QED BY <1>o, <2>0, <2>3, <2>4, <2>5, Opens DEF Reviewing
<1>4. CASE /\ g = None /\ b # None
           /\ P!Begins(r, [e EXCEPT !.at = IF GoogleOf[b] # None THEN "find" ELSE "settle",
                                    !.g = GoogleOf[b], !.key = P!KeyOf(b), !.loaded = TRUE])
  <2>1. PICK l \in {"find", "settle"} : l = IF GoogleOf[b] # None THEN "find" ELSE "settle"
    OBVIOUS
  <2>k. PICK k \in P!Key : k = P!KeyOf(b) BY <1>4, KeyTypes
  <2> DEFINE d == [e EXCEPT !.at = l, !.g = GoogleOf[b], !.key = k, !.loaded = TRUE]
  <2>0. P!Begins(r, d) BY <1>4, <2>1, <2>k
  <2> HIDE DEF e
  <2>2. GoogleOf[b] \in Google \cup {None} /\ b \in Bar BY <1>4, PlacesOK
  <2>3. d = [[[[e EXCEPT !.at = l] EXCEPT !.g = GoogleOf[b]] EXCEPT !.key = k] EXCEPT !.loaded = TRUE]
    OBVIOUS
  <2>4. d \in Errand BY <1>1, <2>1, <2>2, <2>k, <2>3, Fields DEF PlaceLabel
  <2>5. /\ d.at = l /\ d.g = GoogleOf[b] /\ d.key = k /\ d.user = u /\ d.loaded = TRUE
        /\ d.kind = "visit" /\ d.bar = b
    BY <1>1, <1>2 DEF Errand
  <2> HIDE DEF d
  <2>6. GoogleOf[b] # None => k = GoogleOf[b] BY <2>2, <2>k, KeyTypes
  <2>7. Placed(d) BY <2>1, <2>2, <2>5, <2>6, <2>k DEF Placed, Looking, Reviewing
  <2>8. QED BY <1>o, <2>0, <2>1, <2>4, <2>5, <2>7, Opens DEF Reviewing
<1>5. QED BY <1>3, <1>4 DEF P!BeginVisit

\* Named as the key asks for, or the key is odd from now on.
LEMMA ReviewBegins ==
  ASSUME PlacesIInv, NEW r \in Request, trips < MaxTrips, NEW u \in User, NEW stars \in Stars,
         NEW g \in Google \cup {None}, NEW b \in Bar \cup {None}, P!BeginReview(r, u, g, b, stars)
  PROVE  PlacesIInv'
<1>k. PICK k : k = IF g # None THEN g ELSE P!KeyOf(b) OBVIOUS
<1>b. PICK n : n = IF b # None THEN b ELSE P!OwnerIn(P!Kept, g) OBVIOUS
<1>l. PICK l \in {"stub", "write"} : l = IF k \in Google THEN "stub" ELSE "write" OBVIOUS
<1> DEFINE e == [P!Idle EXCEPT !.at = l, !.kind = "review", !.user = u, !.bar = n, !.key = k,
                   !.stars = stars]
<1>1. /\ g # None \/ b # None
      /\ P!Begins(r, e)
      /\ odd' = IF (IF b # None THEN P!KeyOf(b) # k ELSE P!OwnerIn(Bar, g) # n)
                  THEN odd \cup {k} ELSE odd
  BY <1>k, <1>b, <1>l DEF P!BeginReview
<1>2. k \in P!Key BY <1>1, <1>k, KeyTypes DEF P!Key
<1>3. n \in Bar \cup {None}
  <2>1. P!Kept \in SUBSET Bar BY DEF P!Kept
  <2>2. P!OwnerIn(P!Kept, g) \in P!Kept \cup {None} BY <2>1, Owners
  <2>3. QED BY <1>b, <2>1, <2>2
<1>4. k \in odd' \/ n = BarFor(k)
  <2>1. CASE b # None /\ P!KeyOf(b) = k
    <3>1. b \in Bar /\ n = b BY <1>b, <2>1
    <3>2. CASE k \in Google
      <4>1. GoogleOf[b] = k /\ k # None BY <2>1, <3>1, <3>2, KeyTypes, PlacesOK
      <4>2. P!OwnerIn(Bar, k) = b BY <3>1, <4>1, Owners
      <4>3. QED BY <3>1, <3>2, <4>2 DEF BarFor
    <3>3. CASE k \notin Google
      BY <2>1, <3>1, <3>3, KeyTypes, PlacesOK DEF BarFor
    <3>4. QED BY <3>2, <3>3
  <2>2. CASE b = None /\ P!OwnerIn(Bar, g) = n
    BY <1>1, <1>k, <2>2 DEF BarFor
  <2>3. CASE \/ b # None /\ P!KeyOf(b) # k
             \/ b = None /\ P!OwnerIn(Bar, g) # n
    BY <1>1, <2>3
  <2>4. QED BY <2>1, <2>2, <2>3
<1>5. odd \subseteq odd' BY <1>1
<1>6. e \in Errand
  <2>1. e = [[[[[[P!Idle EXCEPT !.at = l] EXCEPT !.kind = "review"] EXCEPT !.user = u]
                EXCEPT !.bar = n] EXCEPT !.key = k] EXCEPT !.stars = stars]
    OBVIOUS
  <2>2. QED BY <1>2, <1>3, <2>1, IdleErrand, Fields DEF PlaceLabel
<1>7. e.at = l /\ e.kind = "review" /\ e.user = u /\ e.bar = n /\ e.key = k /\ e.stars = stars
  BY DEF P!Idle
<1> HIDE DEF e
<1>8. Placed(e) BY <1>2, <1>7, <1>l DEF Placed, Looking, Reviewing
<1>9. QED BY <1>1, <1>4, <1>5, <1>6, <1>7, <1>8, <1>l, Opens

LEMMA SearchBegins ==
  ASSUME PlacesIInv, NEW r \in Request, trips < MaxTrips,
         \/ \E seeds \in SUBSET Google : P!BeginNearby(r, seeds)
         \/ \E g \in Google : P!BeginPage(r, g)
  PROVE  PlacesIInv'
<1>1. ASSUME NEW seeds \in SUBSET Google, P!BeginNearby(r, seeds)
      PROVE  PlacesIInv'
  <2>1. PICK bs \in SUBSET Bar : bs = {b \in P!Opened : BarAt[b] # None} BY DEF P!Opened
  <2>2. PICK gs \in SUBSET Google : gs = {g \in Google : cache[g] = "fresh"} OBVIOUS
  <2> DEFINE d == [P!Idle EXCEPT !.at = "seeds", !.kind = "nearby", !.seeds = seeds,
                     !.bars = bs, !.found = gs]
  <2>3. P!Begins(r, d) /\ odd' = odd BY <1>1, <2>1, <2>2 DEF P!BeginNearby
  <2>4. d \in Errand
    <3>1. d = [[[[[P!Idle EXCEPT !.at = "seeds"] EXCEPT !.kind = "nearby"] EXCEPT !.seeds = seeds]
                 EXCEPT !.bars = bs] EXCEPT !.found = gs]
      OBVIOUS
    <3>2. QED BY <3>1, IdleErrand, Fields DEF PlaceLabel
  <2>5. d.at = "seeds" /\ d.kind = "nearby" BY DEF P!Idle
  <2> HIDE DEF d
  <2>6. Placed(d) BY <2>5 DEF Placed, Looking, Reviewing
  <2>7. QED BY <2>3, <2>4, <2>5, <2>6, Opens DEF Reviewing
<1>2. ASSUME NEW g \in Google, P!BeginPage(r, g)
      PROVE  PlacesIInv'
  <2> DEFINE d == [P!Idle EXCEPT !.at = "find", !.kind = "page", !.g = g]
  <2>1. P!Begins(r, d) /\ odd' = odd BY <1>2 DEF P!BeginPage
  <2>2. d \in Errand
    <3>1. d = [[[P!Idle EXCEPT !.at = "find"] EXCEPT !.kind = "page"] EXCEPT !.g = g] OBVIOUS
    <3>2. QED BY <3>1, IdleErrand, Fields DEF PlaceLabel
  <2>3. d.at = "find" /\ d.kind = "page" /\ d.g = g BY DEF P!Idle
  <2> HIDE DEF d
  <2>4. Placed(d) BY <2>3 DEF Placed, Looking, Reviewing
  <2>5. QED BY <2>1, <2>2, <2>3, <2>4, Opens DEF Reviewing
<1>3. QED BY <1>1, <1>2

LEMMA PlacesInit == P!Init => PlacesIInv
<1> SUFFICES ASSUME P!Init PROVE PlacesIInv
  OBVIOUS
<1>1. PlaceRows BY DEF P!Init, PlaceRows
<1>2. VisitRows /\ P!FirstOnce /\ P!ShownOnce BY DEF P!Init, VisitRows, P!FirstOnce, P!ShownOnce
<1>3. ReviewRows
  <2>1. P!NoReview \in [bar : Bar \cup {None}, stars : Stars \cup {0}] BY DEF P!NoReview
  <2>2. QED BY <2>1 DEF P!Init, ReviewRows
<1>4. Errands
  <2>1. Known(P!Idle) BY IdleErrand, Harmless DEF Known, Reviewing
  <2>2. QED BY <2>1, IdleErrand DEF P!Init, Errands
<1>5. QED BY <1>1, <1>2, <1>3, <1>4 DEF PlacesIInv

LEMMA PlacesStepHolds == PlacesIInv /\ P!Next => PlacesIInv'
<1> SUFFICES ASSUME PlacesIInv, P!Next PROVE PlacesIInv'
  OBVIOUS
<1>1. ASSUME NEW r \in P!Free, NEW g \in Google \cup {None}, NEW b \in Bar \cup {None}, NEW u \in User,
             \/ \E f \in Fix, s \in Spot : P!BeginVisit(r, u, f, s, g, b)
             \/ \E stars \in Stars : P!BeginReview(r, u, g, b, stars)
      PROVE  PlacesIInv'
  BY <1>1, VisitBegins, ReviewBegins DEF P!Free
<1>2. ASSUME NEW r \in P!Free,
             \/ \E seeds \in SUBSET Google : P!BeginNearby(r, seeds)
             \/ \E g \in Google : P!BeginPage(r, g)
      PROVE  PlacesIInv'
  BY <1>2, SearchBegins DEF P!Free
<1>3. ASSUME NEW r \in P!Busy,
             \/ P!Find(r) \/ P!Clear(r) \/ P!Fetch(r) \/ P!Store(r)
             \/ P!Settle(r) \/ P!Prior(r) \/ P!Insert(r)
             \/ P!Stub(r) \/ P!AddStub(r) \/ P!Write(r) \/ P!WriteFails(r) \/ P!Look(r)
             \/ P!CreateReview(r) \/ P!UpdateReview(r)
             \/ P!NextSeed(r) \/ P!Rank(r) \/ P!Fail(r)
      PROVE  PlacesIInv'
  <2>1. r \in Request BY DEF P!Busy
  <2>2. CASE P!Fail(r) BY <2>1, <2>2, GoesHome DEF P!Fail, P!Return
  <2>3. CASE P!Stub(r) \/ P!WriteFails(r) \/ P!Look(r) BY <2>1, <2>3, ReviewReads
  <2>4. CASE P!Find(r) \/ P!Fetch(r) BY <2>1, <2>4, LookStep
  <2>5. CASE P!Settle(r) \/ P!Prior(r) BY <2>1, <2>5, VisitStep
  <2>6. CASE P!Clear(r) \/ P!AddStub(r) BY <2>1, <2>6, StubStep
  <2>7. CASE P!Write(r) \/ P!CreateReview(r) \/ P!UpdateReview(r) BY <2>1, <2>7, WriteStep
  <2>8. CASE P!Store(r) BY <2>1, <2>8, StoreStep
  <2>9. CASE P!Insert(r) BY <2>1, <2>9, InsertStep
  <2>10. CASE P!NextSeed(r) BY <2>1, <2>10, SeedStep
  <2>11. CASE P!Rank(r) BY <2>1, <2>11, RankStep
  <2>12. QED
    BY <1>3, <2>2, <2>3, <2>4, <2>5, <2>6, <2>7, <2>8, <2>9, <2>10, <2>11
<1>4. CASE \/ P!Tomorrow
           \/ \E g \in Google : P!Expire(g)
           \/ \E b \in Bar : \E d \in {"open", "hidden", "deleted"} : P!SetDoors(b, d)
  BY <1>4, DayStep
<1>5. QED BY <1>1, <1>2, <1>3, <1>4 DEF P!Next

LEMMA PlacesUntouched == PlacesIInv /\ UNCHANGED places => PlacesIInv'
<1> SUFFICES ASSUME PlacesIInv, UNCHANGED places PROVE PlacesIInv'
  OBVIOUS
<1>1. UNCHANGED <<cache, doors, visited, review, shown, date, trips, errand, odd>> BY DEF places
<1>2. date' \in 0..MaxDate /\ trips' \in 0..MaxTrips BY <1>1 DEF PlacesIInv, PlaceRows
<1>3. Errands'
  BY <1>1 DEF PlacesIInv, Errands, Known, Placed, Cleared, Early, Named, P!Visits
<1>4. QED BY <1>1, <1>2, <1>3, TablesStay DEF PlacesIInv

\* Of visits some of which are kept there is a last day.
LEMMA LastVisit ==
  ASSUME NEW S, S # {}, \A v \in S : v \in VisitRow
  PROVE  \E v \in S : \A w \in S : w.day <= v.day
<1> DEFINE T == {MaxDate - v.day : v \in S}
<1>1. \A v \in S : v.day \in Nat /\ v.day <= MaxDate /\ MaxDate - v.day \in Nat
  BY PlacesOK DEF VisitRow
<1>2. T \subseteq Nat /\ T # {} BY <1>1
<1> HIDE DEF T
<1>3. PICK m \in T : \A k \in T : <<k, m>> \notin OpToRel(<, Nat)
  BY <1>2, WFMin, NatLessThanWellFounded, Zenon
<1>4. \A k \in T : ~(k < m)
  BY <1>2, <1>3, Zenon DEF OpToRel
<1>5. PICK v \in S : m = MaxDate - v.day BY DEF T
<1>6. ASSUME NEW w \in S PROVE w.day <= v.day
  <2>1. MaxDate - w.day \in T BY DEF T
  <2>2. ~(MaxDate - w.day < MaxDate - v.day) BY <1>4, <1>5, <2>1
  <2>3. w.day \in Nat /\ v.day \in Nat BY <1>1
  <2>4. QED BY <2>2, <2>3, PlacesOK
<1>7. QED BY <1>6

\* The bar a place on a user's list is named after stands for no other place.
LEMMA MyPlaceStands ==
  ASSUME PlacesIInv, NEW u \in User, NEW k \in P!Key
  PROVE  P!MyPlace(u, k).key = k /\ Stands(P!MyPlace(u, k).bar, k)
<1> DEFINE mine == P!Visits(u, k)
           named == {v \in mine : v.bar # None}
           newest == {v \in named : \A w \in named : w.day <= v.day}
           owner == IF k \in Google THEN P!OwnerIn(P!Kept, k) ELSE None
<1>1. /\ P!MyPlace(u, k).key = k
      /\ P!MyPlace(u, k).bar = IF owner # None \/ named = {} THEN owner
                               ELSE (CHOOSE v \in newest : TRUE).bar
  BY DEF P!MyPlace
<1>2. owner # None => k = GoogleOf[owner]
  <2>1. P!Kept \in SUBSET Bar BY DEF P!Kept
  <2>2. QED BY <2>1, Owners
<1>3. CASE owner # None \/ named = {}
  BY <1>1, <1>2, <1>3 DEF Stands
<1>4. CASE owner = None /\ named # {}
  <2>1. \A v \in named : v \in VisitRow /\ Stands(v.bar, k)
    BY DEF PlacesIInv, VisitRows, P!Visits
  <2>2. newest # {} BY <1>4, <2>1, LastVisit
  <2>3. (CHOOSE v \in newest : TRUE) \in named BY <2>2
  <2> HIDE DEF named, newest, owner
  <2>4. QED BY <1>1, <1>4, <2>1, <2>3
<1>5. QED BY <1>3, <1>4

LEMMA PlacesCollected == PlacesIInv => P!CollectedOnce
<1> SUFFICES ASSUME PlacesIInv, NEW u \in User, NEW p \in P!MyPlaces(u), NEW q \in P!MyPlaces(u),
                    p.bar # None, p.bar = q.bar
             PROVE  p = q \/ GoogleOf[p.bar] = None
  BY DEF P!CollectedOnce
<1>1. PICK k \in P!Key : p = P!MyPlace(u, k)
  BY DEF P!MyPlaces, PlacesIInv, VisitRows, VisitRow
<1>2. PICK l \in P!Key : q = P!MyPlace(u, l)
  BY DEF P!MyPlaces, PlacesIInv, VisitRows, VisitRow
<1>3. Stands(p.bar, k) /\ Stands(q.bar, l) BY <1>1, <1>2, MyPlaceStands
<1>4. QED BY <1>1, <1>2, <1>3 DEF Stands

LEMMA RatingsStand == PlacesIInv => P!RatingsAgree
<1> SUFFICES ASSUME PlacesIInv, NEW k \in P!Key \ odd, NEW s \in P!Groups(k)
             PROVE  s = P!Reviewers(k)
  BY DEF P!RatingsAgree, P!Largest
<1>1. PICK b \in Bar \cup {None} : s = {u \in P!Reviewers(k) : review[<<u, k>>].bar = b} /\ s # {}
  BY Zenon DEF P!Groups
<1>2. \A u \in P!Reviewers(k) : review[<<u, k>>].bar = BarFor(k)
  BY DEF PlacesIInv, ReviewRows, P!Reviewers
<1>3. QED BY <1>1, <1>2

\* Only who had found it old clears content, and is late if it has become fresh.
LEMMA ClearingsLate == PlacesIInv /\ (P!Next \/ UNCHANGED places) => P!ClearedLate
<1> SUFFICES ASSUME PlacesIInv, P!Next \/ UNCHANGED places, NEW g \in Google,
                    cache[g] = "fresh", cache'[g] = "stub"
             PROVE  \E r \in Request : P!At(r, "clear") /\ errand[r].g = g /\ errand[r].late
  BY DEF P!ClearedLate
<1>1. cache' # cache OBVIOUS
<1>2. PICK r \in Request : P!Clear(r) \/ P!AddStub(r) \/ P!Store(r)
  <2>0. CASE UNCHANGED places BY <1>1, <2>0 DEF places
  <2>1. CASE P!Next
    <3>1. ~ \E r \in P!Free, h \in Google \cup {None}, b \in Bar \cup {None}, u \in User :
               \/ \E f \in Fix, s \in Spot : P!BeginVisit(r, u, f, s, h, b)
               \/ \E stars \in Stars : P!BeginReview(r, u, h, b, stars)
      <4>1. ASSUME NEW r, NEW e, P!Begins(r, e) PROVE FALSE
        BY <1>1, <4>1 DEF P!Begins, P!rows
      <4>2. ASSUME NEW r, NEW u, NEW f, NEW s, NEW h, NEW b, P!BeginVisit(r, u, f, s, h, b) PROVE FALSE
        BY <4>1, <4>2, Zenon DEF P!BeginVisit
      <4>3. ASSUME NEW r, NEW u, NEW h, NEW b, NEW stars, P!BeginReview(r, u, h, b, stars) PROVE FALSE
        BY <4>1, <4>3, Zenon DEF P!BeginReview
      <4>4. QED BY <4>2, <4>3, Zenon
    <3>2. ~ \E r \in P!Free : \/ \E seeds \in SUBSET Google : P!BeginNearby(r, seeds)
                             \/ \E h \in Google : P!BeginPage(r, h)
      BY <1>1 DEF P!BeginNearby, P!BeginPage, P!Begins, P!rows
    <3>3. ~ (P!Tomorrow \/ \E b \in Bar : \E d \in {"open", "hidden", "deleted"} : P!SetDoors(b, d))
      BY <1>1 DEF P!Tomorrow, P!SetDoors, P!rows
    <3>4. ~ \E h \in Google : P!Expire(h) BY DEF P!Expire, PlacesIInv, PlaceRows
    <3>5. PICK r \in P!Busy :
            \/ P!Find(r) \/ P!Clear(r) \/ P!Fetch(r) \/ P!Store(r)
            \/ P!Settle(r) \/ P!Prior(r) \/ P!Insert(r)
            \/ P!Stub(r) \/ P!AddStub(r) \/ P!Write(r) \/ P!WriteFails(r) \/ P!Look(r)
            \/ P!CreateReview(r) \/ P!UpdateReview(r)
            \/ P!NextSeed(r) \/ P!Rank(r) \/ P!Fail(r)
      BY <2>1, <3>1, <3>2, <3>3, <3>4, Zenon DEF P!Next
    <3>6. ~(P!Find(r) \/ P!Fetch(r) \/ P!Settle(r) \/ P!Prior(r) \/ P!Insert(r))
      BY <1>1 DEF P!Find, P!Fetch, P!Settle, P!Prior, P!Insert, P!rows
    <3>7. ~(P!Stub(r) \/ P!Write(r) \/ P!WriteFails(r) \/ P!Look(r) \/ P!CreateReview(r)
            \/ P!UpdateReview(r))
      BY <1>1
      DEF P!Stub, P!Write, P!WriteReview, P!WriteFails, P!Look, P!CreateReview, P!UpdateReview, P!rows
    <3>8. ~(P!NextSeed(r) \/ P!Rank(r) \/ P!Fail(r))
      BY <1>1 DEF P!NextSeed, P!Rank, P!Fail, P!rows
    <3>9. QED BY <3>5, <3>6, <3>7, <3>8 DEF P!Busy
  <2>2. QED BY <2>0, <2>1
<1>3. cache \in [Google -> {"none", "stub", "fresh", "old"}] BY DEF PlacesIInv, PlaceRows
<1>5. ~P!Store(r) BY <1>3 DEF P!Store
<1>6. ~P!AddStub(r) BY <1>3 DEF P!AddStub
<1>7. P!Clear(r) BY <1>2, <1>5, <1>6
<1>8. errand[r].g = g /\ P!At(r, "clear") BY <1>3, <1>7 DEF P!Clear
<1>9. Cleared(errand[r]) BY DEF PlacesIInv, Errands, Known
<1>10. QED BY <1>8, <1>9 DEF Cleared, P!At

LEMMA PlaceTypes == PlacesIInv => P!TypeOK
<1> SUFFICES ASSUME PlacesIInv PROVE P!TypeOK
  OBVIOUS
<1>1. \A r \in Request : errand[r].calls \in 0..MaxResolve
  BY DEF PlacesIInv, Errands, Errand
<1>2. QED BY <1>1 DEF PlacesIInv, PlaceRows, VisitRows, VisitRow, ReviewRows, P!TypeOK

LEMMA PlacesIInvStep == PlacesIInv /\ [Next]_vars => PlacesIInv'
<1>1. ASSUME PlacesIInv, PlacesStep PROVE PlacesIInv'
  BY <1>1, PlacesStepHolds DEF PlacesStep
<1>2. ASSUME PlacesIInv, \/ RewardsStep \/ OffersStep \/ BookingsStep \/ CampaignsStep
                         \/ DesignsStep \/ PagesStep \/ UNCHANGED vars
      PROVE  PlacesIInv'
  BY <1>2, PlacesUntouched
  DEF RewardsStep, OffersStep, BookingsStep, CampaignsStep, DesignsStep, PagesStep, vars
<1>3. QED BY <1>1, <1>2 DEF Next

\* However check-ins, reviews, searches and the clearing of old content
\* interleave: a user's first visit to a place is recorded once, but for
\* check-ins that overlapped; a bar with an id at Google is one of a user's
\* places at most; nearby shows a place once; and the rating discovery shows is
\* that of the page, but for places reviewed under another bar's name.
THEOREM PlacesStandHolds == Spec => []PlacesStand
<1>1. Init => PlacesIInv
  BY PlacesInit DEF Init
<1>2. Spec => []PlacesIInv
  BY <1>1, PlacesIInvStep, PTL DEF Spec
<1>3. PlacesIInv => PlacesStand
  BY PlacesCollected, RatingsStand DEF PlacesIInv, PlacesStand
<1>4. QED BY <1>2, <1>3, PTL

-----------------------------------------------------------------------------
(* Offers: reviews, quotas and terraces *)

\* Requests that work on a row that exists, and on a terrace.
Existing == {"menuOff", "edit", "countActive", "activate", "pause", "resubmit", "delete",
             "approve", "reject", "flag", "remove"}
OnTerrace == {"declare", "withdraw", "verify", "refuse"}

\* What a request works on, and what it has found there.
Task(r) ==
  /\ opc[r] \in {"countRarity", "countAll", "menuOff"} => item[r] \in Special
  /\ opc[r] = "countActive" => item[r] \in Promo
  /\ opc[r] \in Existing \cup {"insert"} => item[r] \in O!Item
  /\ opc[r] \in OnTerrace => item[r] \in O!Owner
  /\ opc[r] \in Existing => had[r].status # "UNBORN"
  /\ opc[r] = "resubmit" => had[r].approval \in O!Sanctioned
  /\ opc[r] \in {"countActive", "activate"} /\ item[r] \in Promo => had[r].approval = "APPROVED"
  /\ opc[r] \in {"verify", "refuse"} => saw[r] = "PENDING"
  /\ opc[r] = "withdraw" => saw[r] # "APPROVED"

\* Who was not overtaken finds things as he read them ...
Current(r) ==
  opc[r] # "idle" =>
    /\ item[r] \in O!Item /\ had[r].status # "UNBORN" => row[item[r]].status # "UNBORN"
    /\ item[r] \in O!Item /\ r \notin overtaken => row[item[r]] = had[r] /\ item[r] \notin gone
    /\ item[r] \in O!Owner /\ r \notin overtaken => terrace[item[r]] = saw[r]

\* ... and, before he edits a drink that is to be reviewed anew, off the menu.
OffMenu(r) ==
  opc[r] = "edit" /\ item[r] \in Special /\ O!NeedsReview(r) /\ r \notin overtaken =>
    item[r] \notin menu

\* The slot he has counted is free while nobody takes one.
Counted(r) ==
  /\ item[r] \in Special
  /\ \/ opc[r] \in {"countAll", "insert"}
     \/ opc[r] \in {"menuOff", "edit"} /\ want[r] # had[r].rarity
FreeSlot(r) ==
  r \notin jumped \cup overtaken =>
    /\ Counted(r) =>
         Cardinality(O!OfRarity(BarOf[item[r]], want[r]) \ {item[r]}) < Quota[under[r]][want[r]]
    /\ opc[r] = "activate" /\ item[r] \in Promo /\ O!PromosLimited(under[r]) =>
         Cardinality(O!ActivePromos(BarOf[item[r]]) \ {item[r]}) < ActiveLimit

Engaged(r) == Task(r) /\ Current(r) /\ OffMenu(r) /\ FreeSlot(r)

Reviewed(i) ==
  i \in (Special \cup Package) \ crossed /\ O!Live(i) /\ row[i].approval = "APPROVED" =>
    row[i].text = reviewed[i]
Scannable(i) == i \in menu \ crossed => O!Live(i) /\ row[i].approval = "APPROVED"
Judged(i) == i \in Promo \ crossed /\ O!Live(i) => row[i].approval = "APPROVED"
Accepted(i) == i \in Event /\ O!EventShown(i) => i \in accepted
Sound(i) == Reviewed(i) /\ Scannable(i) /\ Judged(i) /\ Accepted(i)

Items == \A i \in O!Item : Sound(i) /\ (i \in gone => row[i].status # "UNBORN")
Terraces == \A b \in O!Owner \ crossed : b \in outdoor <=> terrace[b] # "NONE"
Requests == \A r \in Request : Engaged(r)

OffersIInv == O!TypeOK /\ Items /\ Terraces /\ Requests /\ O!QuotasHold

LEMMA SameOffers ==
  \A S : O!Cardinality(S) = Cardinality(S)
BY Zenon DEF O!Cardinality, Cardinality

LEMMA Kinds ==
  /\ O!Item = Promo \cup Special \cup Package \cup Event
  /\ \A i \in O!Item : BarOf[i] \in O!Owner /\ i \notin O!Owner /\ i # None
  /\ \A b \in O!Owner : b \notin O!Item /\ b # None
  /\ Promo \cap Special = {} /\ Promo \cap Package = {} /\ Promo \cap Event = {}
  /\ Special \cap Package = {} /\ Special \cap Event = {} /\ Package \cap Event = {}
<1>1. O!Item = Promo \cup Special \cup Package \cup Event BY DEF O!Item
<1>2. \A i \in O!Item : BarOf[i] \in O!Owner BY DEF O!Owner
<1>3. \A b \in O!Owner : b \notin O!Item /\ b # None BY <1>1, RowsOK DEF O!Owner
<1>4. None \notin O!Item BY <1>1, ConstantsOK
<1>5. QED BY <1>1, <1>2, <1>3, <1>4, RowsOK

LEMMA Subcount ==
  ASSUME NEW S \in (SUBSET Special) \cup (SUBSET Promo), NEW T \in SUBSET S
  PROVE  Cardinality(T) \in Nat /\ Cardinality(S) \in Nat /\ Cardinality(T) <= Cardinality(S)
<1>1. IsFiniteSet(S)
  <2>1. CASE S \in SUBSET Special BY <2>1, ConstantsOK, FS_Subset
  <2>2. CASE S \in SUBSET Promo BY <2>2, ConstantsOK, FS_Subset
  <2>3. QED BY <2>1, <2>2
<1>2. QED BY <1>1, FS_Subset, FS_CardinalityType

LEMMA OffersStand == OffersIInv => O!NothingUnreviewed /\ O!QuotasHold
<1> SUFFICES ASSUME OffersIInv PROVE O!NothingUnreviewed
  BY DEF OffersIInv
<1>1. \A i \in O!Item : Reviewed(i) /\ Scannable(i) /\ Judged(i) /\ Accepted(i)
  BY DEF OffersIInv, Items, Sound
<1>2. menu \subseteq O!Item BY Kinds DEF OffersIInv, O!TypeOK
<1>3. ASSUME NEW i \in (Special \cup Package) \ crossed,
             (O!DrinkShown(i) /\ i \in Special) \/ (O!PackageShown(i) /\ i \in Package)
      PROVE  row[i].text = reviewed[i]
  BY <1>1, <1>3, Kinds DEF Reviewed, O!DrinkShown, O!PackageShown
<1>4. \A i \in menu \ crossed : O!Live(i) /\ row[i].approval = "APPROVED"
  BY <1>1, <1>2 DEF Scannable
<1>5. \A b \in O!Owner : \A i \in O!ActivePromos(b) \ crossed : row[i].approval = "APPROVED"
  BY <1>1, Kinds DEF Judged, O!ActivePromos, O!Live
<1>6. \A i \in Event : O!EventShown(i) => i \in accepted BY <1>1, Kinds DEF Accepted
<1>7. Terraces BY DEF OffersIInv
<1>8. QED BY <1>3, <1>4, <1>5, <1>6, <1>7 DEF O!NothingUnreviewed, Terraces

\* What a request knows outlives a step that leaves the request alone and that
\* changes what it has read or counted only by overtaking it.
LEMMA StaysEngaged ==
  ASSUME O!TypeOK, NEW q \in Request, Engaged(q), NEW i, NEW p, NEW w,
         i = item[q], p = under[q], w = want[q],
         opc'[q] = opc[q], item'[q] = i, under'[q] = p, had'[q] = had[q], saw'[q] = saw[q],
         want'[q] = w, q \in overtaken => q \in overtaken', q \in jumped => q \in jumped',
         opc[q] # "idle" /\ i \in O!Item =>
           /\ row[i].status # "UNBORN" => row'[i].status # "UNBORN"
           /\ q \notin overtaken' => /\ row'[i] = row[i]
                                     /\ i \in gone' => i \in gone
                                     /\ i \in menu' => i \in menu,
         opc[q] # "idle" /\ i \in O!Owner /\ q \notin overtaken' => terrace'[i] = terrace[i],
         opc[q] # "idle" /\ q \notin jumped' /\ i \in Special =>
           O!OfRarity(BarOf[i], w)' \subseteq O!OfRarity(BarOf[i], w) \cup {i},
         opc[q] # "idle" /\ q \notin jumped' /\ i \in Promo =>
           O!ActivePromos(BarOf[i])' \subseteq O!ActivePromos(BarOf[i]) \cup {i}
  PROVE  Engaged(q)'
<1>1. Task(q)' BY DEF Engaged, Task
<1>2. Current(q)' BY DEF Engaged, Current
<1>3. OffMenu(q)' BY Kinds DEF Engaged, OffMenu, O!NeedsReview
<1>4. FreeSlot(q)'
  <2> SUFFICES ASSUME q \notin jumped' \cup overtaken'
               PROVE  /\ Counted(q)' =>
                         Cardinality(O!OfRarity(BarOf[i], w)' \ {i}) < Quota[p][w]
                      /\ opc[q] = "activate" /\ i \in Promo /\ O!PromosLimited(p) =>
                         Cardinality(O!ActivePromos(BarOf[i])' \ {i}) < ActiveLimit
    BY DEF FreeSlot, O!OfRarity, O!ActivePromos, O!PromosLimited
  <2>1. q \notin jumped \cup overtaken OBVIOUS
  <2>n. p \in {"EXPLORER", "INTERMEDIATE", "LEGEND"} /\ w \in Rarity BY DEF O!TypeOK, O!Plan
  <2>2. ASSUME Counted(q)' PROVE Cardinality(O!OfRarity(BarOf[i], w)' \ {i}) < Quota[p][w]
    <3>1. Counted(q) /\ i \in Special /\ opc[q] # "idle" BY <2>2 DEF Counted
    <3>2. Cardinality(O!OfRarity(BarOf[i], w) \ {i}) < Quota[p][w]
      BY <2>1, <3>1 DEF Engaged, FreeSlot
    <3>3. O!OfRarity(BarOf[i], w)' \ {i} \subseteq O!OfRarity(BarOf[i], w) \ {i} BY <3>1
    <3>4. O!OfRarity(BarOf[i], w) \ {i} \subseteq Special BY DEF O!OfRarity
    <3> DEFINE S == O!OfRarity(BarOf[i], w) \ {i}
               T == O!OfRarity(BarOf[i], w)' \ {i}
    <3>5. T \subseteq S /\ S \subseteq Special /\ Cardinality(S) < Quota[p][w] BY <3>2, <3>3, <3>4
    <3> HIDE DEF S, T
    <3>6. Cardinality(T) < Quota[p][w]
      <4>1. Cardinality(T) <= Cardinality(S) /\ Cardinality(T) \in Nat /\ Cardinality(S) \in Nat
        BY <3>5, Subcount
      <4>2. Quota[p][w] \in Nat BY <2>n, ConstantsOK
      <4>3. QED BY <3>5, <4>1, <4>2
    <3>7. QED BY <3>6 DEF T
  <2>3. ASSUME opc[q] = "activate", i \in Promo, O!PromosLimited(p)
        PROVE  Cardinality(O!ActivePromos(BarOf[i])' \ {i}) < ActiveLimit
    <3>1. opc[q] # "idle" BY <2>3
    <3>2. Cardinality(O!ActivePromos(BarOf[i]) \ {i}) < ActiveLimit
      BY <2>1, <2>3 DEF Engaged, FreeSlot
    <3> DEFINE S == O!ActivePromos(BarOf[i]) \ {i}
               T == O!ActivePromos(BarOf[i])' \ {i}
    <3>3. T \subseteq S /\ S \subseteq Promo /\ Cardinality(S) < ActiveLimit
      BY <2>3, <3>1, <3>2 DEF O!ActivePromos
    <3> HIDE DEF S, T
    <3>4. Cardinality(T) < ActiveLimit
      <4>1. Cardinality(T) <= Cardinality(S) /\ Cardinality(T) \in Nat /\ Cardinality(S) \in Nat
        BY <3>3, Subcount
      <4>2. ActiveLimit \in Nat BY ConstantsOK
      <4>3. QED BY <3>3, <4>1, <4>2
    <3>5. QED BY <3>4 DEF T
  <2>4. QED BY <2>2, <2>3
<1>5. QED BY <1>1, <1>2, <1>3, <1>4 DEF Engaged

\* A request that waits for nothing.
LEMMA AtRest ==
  ASSUME NEW q \in Request, opc'[q] = "idle" PROVE Engaged(q)'
BY DEF Engaged, Task, Current, OffMenu, FreeSlot, Counted, Existing, OnTerrace

\* Limits hold for what was counted anew and for what has only lost members.
LEMMA LimitsKept ==
  ASSUME O!QuotasHold, O!TypeOK,
         \A b \in O!Owner, w \in Rarity :
           \/ plan'[b] = plan[b] /\ (O!OfRarity(b, w) \ excused)' \subseteq O!OfRarity(b, w) \ excused
           \/ Cardinality((O!OfRarity(b, w) \ excused)') <= Quota[plan'[b]][w],
         \A b \in O!Owner :
           \/ plan'[b] = plan[b] /\ (O!ActivePromos(b) \ excused)' \subseteq O!ActivePromos(b) \ excused
           \/ O!PromosLimited(plan'[b]) => Cardinality((O!ActivePromos(b) \ excused)') <= ActiveLimit
  PROVE  O!QuotasHold'
<1>1. ASSUME NEW b \in O!Owner, NEW w \in Rarity, plan'[b] = plan[b],
             (O!OfRarity(b, w) \ excused)' \subseteq O!OfRarity(b, w) \ excused
      PROVE  Cardinality((O!OfRarity(b, w) \ excused)') <= Quota[plan'[b]][w]
  <2>1. Cardinality(O!OfRarity(b, w) \ excused) <= Quota[plan[b]][w]
    BY SameOffers, Zenon DEF O!QuotasHold
  <2>2. O!OfRarity(b, w) \ excused \subseteq Special BY DEF O!OfRarity
  <2>3. Quota[plan[b]][w] \in Nat BY ConstantsOK DEF O!TypeOK, O!Plan
  <2> DEFINE S == O!OfRarity(b, w) \ excused
             T == (O!OfRarity(b, w) \ excused)'
  <2>4. T \subseteq S /\ S \subseteq Special /\ Cardinality(S) <= Quota[plan[b]][w] BY <1>1, <2>1, <2>2
  <2> HIDE DEF S, T
  <2>5. Cardinality(T) <= Quota[plan[b]][w] BY <2>3, <2>4, Subcount
  <2>6. QED BY <1>1, <2>5 DEF T
<1>2. ASSUME NEW b \in O!Owner, plan'[b] = plan[b], O!PromosLimited(plan'[b]),
             (O!ActivePromos(b) \ excused)' \subseteq O!ActivePromos(b) \ excused
      PROVE  Cardinality((O!ActivePromos(b) \ excused)') <= ActiveLimit
  <2>0. O!PromosLimited(plan[b]) BY <1>2
  <2>1. Cardinality(O!ActivePromos(b) \ excused) <= ActiveLimit
    BY <2>0, SameOffers, Zenon DEF O!QuotasHold
  <2> DEFINE S == O!ActivePromos(b) \ excused
             T == (O!ActivePromos(b) \ excused)'
  <2>2. T \subseteq S /\ S \subseteq Promo /\ Cardinality(S) <= ActiveLimit
    BY <1>2, <2>1 DEF O!ActivePromos
  <2> HIDE DEF S, T
  <2>3. Cardinality(T) <= ActiveLimit
    <3>1. Cardinality(T) <= Cardinality(S) /\ Cardinality(T) \in Nat /\ Cardinality(S) \in Nat
      BY <2>2, Subcount
    <3>2. ActiveLimit \in Nat BY ConstantsOK
    <3>3. QED BY <2>2, <3>1, <3>2
  <2>4. QED BY <2>3 DEF T
<1>3. \A b \in O!Owner, w \in Rarity : Cardinality((O!OfRarity(b, w) \ excused)') <= Quota[plan'[b]][w]
  BY <1>1
<1>4. \A b \in O!Owner : O!PromosLimited(plan'[b]) =>
        Cardinality((O!ActivePromos(b) \ excused)') <= ActiveLimit
  BY <1>2
<1>5. QED BY <1>3, <1>4, SameOffers DEF O!QuotasHold, O!PromosLimited

\* r writes n over the row of i; the other tables change at most at i.
Puts(r, i, n) ==
  /\ i = item[r] /\ opc[r] # "idle" /\ O!Put(r, n)
  /\ gone' \in {gone, gone \cup {i}}
  /\ menu' \in {menu, menu \ {i}, menu \cup {i}} /\ menu' \subseteq Special
  /\ accepted' \in {accepted, accepted \ {i}, accepted \cup {i}} /\ accepted' \subseteq Event
  /\ reviewed' \in [O!Item -> Nat] /\ \A j \in O!Item \ {i} : reviewed'[j] = reviewed[j]
  /\ crossed' \in {crossed, crossed \cup {i}, crossed \ {i}}

\* The write takes no slot, or one that is counted or excused.
TakesNone(i, n) ==
  /\ UNCHANGED O!slots
  /\ i \in Special => row[i].status # "UNBORN" /\ n.rarity = row[i].rarity
  /\ i \in Promo /\ n.status = "ACTIVE" => row[i].status = "ACTIVE"

TakesFree(r, i, n, granted) ==
  /\ O!TakesSlot(r, granted) /\ i \in Special \cup Promo
  /\ granted /\ r \notin jumped \cup overtaken =>
       /\ i \in Special =>
            Cardinality(O!OfRarity(BarOf[i], n.rarity) \ {i}) < Quota[under[r]][n.rarity]
       /\ i \in Promo /\ n.status = "ACTIVE" /\ O!PromosLimited(under[r]) =>
            Cardinality(O!ActivePromos(BarOf[i]) \ {i}) < ActiveLimit

LEMMA ReturnedTypes ==
  ASSUME O!TypeOK, NEW r \in Request, O!Return(r)
  PROVE  /\ opc' \in [Request -> O!Label] /\ item' \in [Request -> O!Item \cup O!Owner \cup {None}]
         /\ under' \in [Request -> O!Plan] /\ had' \in [Request -> O!Rows]
         /\ saw' \in [Request -> O!Terrace] /\ want' \in [Request -> Rarity]
<1>1. O!SomeRarity \in Rarity BY ConstantsOK DEF O!SomeRarity
<1>2. O!NoRow \in O!Rows BY <1>1 DEF O!NoRow, O!Rows, O!Statuses, O!Approvals
<1>3. "idle" \in O!Label /\ "EXPLORER" \in O!Plan /\ "NONE" \in O!Terrace
  BY DEF O!Label, O!Plan, O!Terrace
<1>4. QED BY <1>1, <1>2, <1>3 DEF O!TypeOK, O!Return

LEMMA PutTypes ==
  ASSUME OffersIInv, NEW r \in Request, NEW i \in O!Item, NEW n \in O!Rows, Puts(r, i, n),
         jumped' \subseteq Request, excused' \subseteq O!Item
  PROVE  O!TypeOK'
<1>1. row' = [row EXCEPT ![i] = n] /\ UNCHANGED <<plan, terrace, outdoor, oserved>> /\ O!Return(r)
      /\ overtaken' = (overtaken \cup O!Busy(i)) \ {r}
  BY DEF Puts, O!Put
<1>2. O!TypeOK BY DEF OffersIInv
<1>3. row' \in [O!Item -> O!Rows] BY <1>1, <1>2 DEF O!TypeOK
<1>4. overtaken' \subseteq Request BY <1>1, <1>2 DEF O!Busy, O!TypeOK
<1>5. gone' \subseteq O!Item /\ crossed' \subseteq O!Item \cup O!Owner BY <1>2 DEF Puts, O!TypeOK
<1>6. QED BY <1>1, <1>2, <1>3, <1>4, <1>5, ReturnedTypes DEF O!TypeOK, Puts

LEMMA PutItems ==
  ASSUME OffersIInv, NEW r \in Request, NEW i \in O!Item, NEW n \in O!Rows, Puts(r, i, n),
         n.status # "UNBORN", Sound(i)'
  PROVE  Items' /\ Terraces'
<1>1. row' = [row EXCEPT ![i] = n] /\ UNCHANGED <<plan, terrace, outdoor>>
  BY DEF Puts, O!Put
<1>2. row \in [O!Item -> O!Rows] BY DEF OffersIInv, O!TypeOK
<1>3. ASSUME NEW j \in O!Item PROVE Sound(j)' /\ (j \in gone' => row'[j].status # "UNBORN")
  <2>1. CASE j = i BY <1>1, <1>2, <2>1
  <2>2. CASE j # i
    <3>1. Sound(j) /\ (j \in gone => row[j].status # "UNBORN") BY DEF OffersIInv, Items
    <3>2. /\ row'[j] = row[j] /\ reviewed'[j] = reviewed[j]
          /\ j \in gone' <=> j \in gone
          /\ j \in menu' <=> j \in menu
          /\ j \in accepted' <=> j \in accepted
          /\ j \in crossed' <=> j \in crossed
      BY <1>1, <1>2, <2>2 DEF Puts
    <3>3. QED
      BY <3>1, <3>2 DEF Sound, Reviewed, Scannable, Judged, Accepted, O!Live, O!EventShown
  <2>3. QED BY <2>1, <2>2
<1>4. Terraces'
  <2>1. \A b \in O!Owner : b # i BY Kinds
  <2>2. \A b \in O!Owner : b \in crossed' <=> b \in crossed BY <2>1 DEF Puts
  <2>3. Terraces BY DEF OffersIInv
  <2>4. QED BY <1>1, <2>2, <2>3 DEF Terraces, O!Owner
<1>5. QED BY <1>3, <1>4 DEF Items

\* Which rows count for a limit after the write.
LEMMA PutCounts ==
  ASSUME OffersIInv, NEW r \in Request, NEW i \in O!Item, NEW n \in O!Rows, Puts(r, i, n)
  PROVE  /\ \A b, w : O!OfRarity(b, w)' \subseteq
                        IF i \in Special \ gone /\ BarOf[i] = b /\ n.rarity = w /\ n.status # "UNBORN"
                          THEN (O!OfRarity(b, w) \ {i}) \cup {i} ELSE O!OfRarity(b, w) \ {i}
         /\ \A b : O!ActivePromos(b)' \subseteq
                     IF i \in Promo \ gone /\ BarOf[i] = b /\ n.status = "ACTIVE"
                       THEN (O!ActivePromos(b) \ {i}) \cup {i} ELSE O!ActivePromos(b) \ {i}
<1>1. row' = [row EXCEPT ![i] = n] /\ gone \subseteq gone' BY DEF Puts, O!Put
<1>2. row \in [O!Item -> O!Rows] BY DEF OffersIInv, O!TypeOK
<1>3. \A j \in O!Item : row'[j] = IF j = i THEN n ELSE row[j] BY <1>1, <1>2
<1>4. Special \subseteq O!Item /\ Promo \subseteq O!Item BY Kinds
<1>5. ASSUME NEW b, NEW w, NEW j \in O!OfRarity(b, w)'
      PROVE  \/ j = i /\ i \in Special \ gone /\ BarOf[i] = b /\ n.rarity = w /\ n.status # "UNBORN"
             \/ j # i /\ j \in O!OfRarity(b, w)
  BY <1>1, <1>3, <1>4 DEF O!OfRarity
<1>6. ASSUME NEW b, NEW j \in O!ActivePromos(b)'
      PROVE  \/ j = i /\ i \in Promo \ gone /\ BarOf[i] = b /\ n.status = "ACTIVE"
             \/ j # i /\ j \in O!ActivePromos(b)
  BY <1>1, <1>3, <1>4 DEF O!ActivePromos
<1>7. QED BY <1>5, <1>6

LEMMA PutRequests ==
  ASSUME OffersIInv, NEW r \in Request, NEW i \in O!Item, NEW n \in O!Rows, Puts(r, i, n),
         n.status # "UNBORN", TakesNone(i, n) \/ \E granted \in BOOLEAN : TakesFree(r, i, n, granted)
  PROVE  Requests'
<1>1. /\ row' = [row EXCEPT ![i] = n] /\ UNCHANGED <<plan, terrace, outdoor>> /\ O!Return(r)
      /\ overtaken' = (overtaken \cup O!Busy(i)) \ {r} /\ i = item[r]
      /\ gone' \in {gone, gone \cup {i}} /\ menu' \in {menu, menu \ {i}, menu \cup {i}}
  BY DEF Puts, O!Put
<1>2. O!TypeOK /\ row \in [O!Item -> O!Rows] BY DEF OffersIInv, O!TypeOK
<1>3. ASSUME NEW q \in Request PROVE Engaged(q)'
  <2>1. CASE q = r
    <3>1. opc'[q] = "idle" BY <1>1, <1>2, <2>1 DEF O!Return, O!TypeOK
    <3>2. QED BY <3>1, AtRest
  <2>2. CASE q # r
    <3>1. PICK x, p, w : x = item[q] /\ p = under[q] /\ w = want[q] OBVIOUS
    <3>2. /\ opc'[q] = opc[q] /\ item'[q] = x /\ under'[q] = p /\ had'[q] = had[q]
          /\ saw'[q] = saw[q] /\ want'[q] = w
      BY <1>1, <1>2, <2>2, <3>1 DEF O!Return, O!TypeOK
    <3>3. q \in overtaken => q \in overtaken' BY <1>1, <2>2
    <3>4. q \in jumped => q \in jumped' BY <2>2 DEF TakesNone, TakesFree, O!TakesSlot, O!slots
    <3>5. ASSUME opc[q] # "idle", x \in O!Item
          PROVE  /\ row[x].status # "UNBORN" => row'[x].status # "UNBORN"
                 /\ q \notin overtaken' => /\ row'[x] = row[x]
                                           /\ x \in gone' => x \in gone
                                           /\ x \in menu' => x \in menu
      <4>1. CASE x = i BY <1>1, <1>2, <2>2, <3>1, <3>5, <4>1 DEF O!Busy
      <4>2. CASE x # i BY <1>1, <1>2, <3>5, <4>2
      <4>3. QED BY <4>1, <4>2
    <3>6. ASSUME opc[q] # "idle", q \notin jumped', x \in Special
          PROVE  O!OfRarity(BarOf[x], w)' \subseteq O!OfRarity(BarOf[x], w) \cup {x}
      <4>1. CASE i \in Special \ gone /\ BarOf[i] = BarOf[x] /\ n.rarity = w
        <5>1. CASE TakesNone(i, n)
          <6>1. i \in O!OfRarity(BarOf[x], w) BY <4>1, <5>1 DEF TakesNone, O!OfRarity
          <6>2. QED BY <4>1, <6>1, PutCounts
        <5>2. CASE \E granted \in BOOLEAN : TakesFree(r, i, n, granted)
          <6>1. q \in O!Rivals(i) BY <3>1, <3>6, <4>1 DEF O!Rivals
          <6>2. QED BY <1>1, <2>2, <3>6, <5>2, <6>1 DEF TakesFree, O!TakesSlot
        <5>3. QED BY <5>1, <5>2
      <4>2. CASE ~(i \in Special \ gone /\ BarOf[i] = BarOf[x] /\ n.rarity = w)
        BY <4>2, PutCounts
      <4>3. QED BY <4>1, <4>2
    <3>7. ASSUME opc[q] # "idle", q \notin jumped', x \in Promo
          PROVE  O!ActivePromos(BarOf[x])' \subseteq O!ActivePromos(BarOf[x]) \cup {x}
      <4>1. CASE i \in Promo \ gone /\ BarOf[i] = BarOf[x] /\ n.status = "ACTIVE"
        <5>1. CASE TakesNone(i, n)
          <6>1. i \in O!ActivePromos(BarOf[x]) BY <4>1, <5>1 DEF TakesNone, O!ActivePromos
          <6>2. QED BY <4>1, <6>1, PutCounts
        <5>2. CASE \E granted \in BOOLEAN : TakesFree(r, i, n, granted)
          <6>1. q \in O!Rivals(i) BY <3>1, <3>7, <4>1 DEF O!Rivals
          <6>2. QED BY <1>1, <2>2, <3>7, <5>2, <6>1 DEF TakesFree, O!TakesSlot
        <5>3. QED BY <5>1, <5>2
      <4>2. CASE ~(i \in Promo \ gone /\ BarOf[i] = BarOf[x] /\ n.status = "ACTIVE")
        BY <4>2, PutCounts
      <4>3. QED BY <4>1, <4>2
    <3>8. Engaged(q) BY DEF OffersIInv, Requests
    <3>9. QED BY <1>1, <1>2, <3>1, <3>2, <3>3, <3>4, <3>5, <3>6, <3>7, <3>8, StaysEngaged
  <2>3. QED BY <2>1, <2>2
<1>4. QED BY <1>3 DEF Requests

LEMMA OneSlot ==
  ASSUME NEW S \in (SUBSET Special) \cup (SUBSET Promo), NEW i, NEW k \in Nat,
         Cardinality(S) < k, i \notin S, NEW T \in SUBSET (S \cup {i})
  PROVE  Cardinality(T) <= k
<1>1. IsFiniteSet(S) /\ Cardinality(S) \in Nat
  <2>1. IsFiniteSet(S)
    <3>1. CASE S \in SUBSET Special BY <3>1, ConstantsOK, FS_Subset
    <3>2. CASE S \in SUBSET Promo BY <3>2, ConstantsOK, FS_Subset
    <3>3. QED BY <3>1, <3>2
  <2>2. QED BY <2>1, FS_CardinalityType
<1>2. IsFiniteSet(S \cup {i}) /\ Cardinality(S \cup {i}) = Cardinality(S) + 1
  BY <1>1, FS_AddElement
<1>3. Cardinality(T) <= Cardinality(S \cup {i}) /\ Cardinality(T) \in Nat
  BY <1>2, FS_Subset, FS_CardinalityType
<1>4. QED BY <1>1, <1>2, <1>3

LEMMA PutQuotas ==
  ASSUME OffersIInv, NEW r \in Request, NEW i \in O!Item, NEW n \in O!Rows, Puts(r, i, n),
         TakesNone(i, n) \/ \E granted \in BOOLEAN : TakesFree(r, i, n, granted)
  PROVE  O!QuotasHold'
<1>1. UNCHANGED plan /\ i = item[r] BY DEF Puts, O!Put
<1>2. O!TypeOK /\ O!QuotasHold BY DEF OffersIInv
<1>3. CASE TakesNone(i, n)
  <2>1. excused' = excused BY <1>3 DEF TakesNone, O!slots
  <2>2. ASSUME NEW b \in O!Owner, NEW w \in Rarity
        PROVE  O!OfRarity(b, w)' \subseteq O!OfRarity(b, w)
    <3>1. CASE i \in Special \ gone /\ BarOf[i] = b /\ n.rarity = w
      <4>1. i \in O!OfRarity(b, w) BY <1>3, <3>1 DEF TakesNone, O!OfRarity
      <4>2. QED BY <4>1, PutCounts
    <3>2. QED BY <3>1, PutCounts
  <2>3. ASSUME NEW b \in O!Owner
        PROVE  O!ActivePromos(b)' \subseteq O!ActivePromos(b)
    <3>1. CASE i \in Promo \ gone /\ BarOf[i] = b /\ n.status = "ACTIVE"
      <4>1. i \in O!ActivePromos(b) BY <1>3, <3>1 DEF TakesNone, O!ActivePromos
      <4>2. QED BY <4>1, PutCounts
    <3>2. QED BY <3>1, PutCounts
  <2>4. QED BY <1>1, <1>2, <2>1, <2>2, <2>3, LimitsKept
<1>4. ASSUME NEW granted \in BOOLEAN, TakesFree(r, i, n, granted)
      PROVE  O!QuotasHold'
  <2>1. CASE granted /\ r \notin jumped \cup overtaken /\ under[r] = plan[BarOf[i]]
    <3>1. excused' = excused \ {i} BY <1>1, <1>4, <2>1 DEF TakesFree, O!TakesSlot
    <3>2. ASSUME NEW b \in O!Owner, NEW w \in Rarity
          PROVE  \/ (O!OfRarity(b, w) \ excused)' \subseteq O!OfRarity(b, w) \ excused
                 \/ Cardinality((O!OfRarity(b, w) \ excused)') <= Quota[plan[b]][w]
      <4>1. CASE i \in Special \ gone /\ BarOf[i] = b /\ n.rarity = w
        <5> DEFINE S == O!OfRarity(b, w) \ {i}
                   T == (O!OfRarity(b, w) \ excused)'
        <5>1. Cardinality(S) < Quota[plan[b]][w] BY <1>4, <2>1, <4>1 DEF TakesFree
        <5>2. S \subseteq Special /\ i \notin S BY DEF O!OfRarity
        <5>3. O!OfRarity(b, w)' \subseteq S \cup {i} BY <4>1, PutCounts
        <5>4. T \subseteq S \cup {i} BY <5>3
        <5>5. Quota[plan[b]][w] \in Nat BY <1>2, ConstantsOK DEF O!TypeOK, O!Plan
        <5> HIDE DEF S, T
        <5>6. Cardinality(T) <= Quota[plan[b]][w] BY <5>1, <5>2, <5>4, <5>5, OneSlot
        <5>7. QED BY <5>6 DEF T
      <4>2. CASE ~(i \in Special \ gone /\ BarOf[i] = b /\ n.rarity = w)
        <5>1. O!OfRarity(b, w)' \subseteq O!OfRarity(b, w) \ {i} BY <4>2, PutCounts
        <5>2. QED BY <3>1, <5>1
      <4>3. QED BY <4>1, <4>2
    <3>3. ASSUME NEW b \in O!Owner, O!PromosLimited(plan[b])
          PROVE  \/ (O!ActivePromos(b) \ excused)' \subseteq O!ActivePromos(b) \ excused
                 \/ Cardinality((O!ActivePromos(b) \ excused)') <= ActiveLimit
      <4>1. CASE i \in Promo \ gone /\ BarOf[i] = b /\ n.status = "ACTIVE"
        <5> DEFINE S == O!ActivePromos(b) \ {i}
                   T == (O!ActivePromos(b) \ excused)'
        <5>0. O!PromosLimited(under[r]) BY <2>1, <3>3, <4>1
        <5>1. Cardinality(S) < ActiveLimit BY <1>4, <2>1, <4>1, <5>0 DEF TakesFree
        <5>2. S \subseteq Promo /\ i \notin S BY DEF O!ActivePromos
        <5>3. O!ActivePromos(b)' \subseteq S \cup {i} BY <4>1, PutCounts
        <5>4. T \subseteq S \cup {i} BY <5>3
        <5>5. ActiveLimit \in Nat BY ConstantsOK
        <5> HIDE DEF S, T
        <5>6. Cardinality(T) <= ActiveLimit BY <5>1, <5>2, <5>4, <5>5, OneSlot
        <5>7. QED BY <5>6 DEF T
      <4>2. CASE ~(i \in Promo \ gone /\ BarOf[i] = b /\ n.status = "ACTIVE")
        <5>1. O!ActivePromos(b)' \subseteq O!ActivePromos(b) \ {i} BY <4>2, PutCounts
        <5>2. QED BY <3>1, <5>1
      <4>3. QED BY <4>1, <4>2
    <3>4. QED BY <1>1, <1>2, <3>2, <3>3, LimitsKept
  <2>2. CASE ~(granted /\ r \notin jumped \cup overtaken /\ under[r] = plan[BarOf[i]])
    <3>1. excused' = excused \cup {i} BY <1>1, <1>4, <2>2 DEF TakesFree, O!TakesSlot
    <3>2. \A b, w : (O!OfRarity(b, w) \ excused)' \subseteq O!OfRarity(b, w) \ excused
      BY <3>1, PutCounts
    <3>3. \A b : (O!ActivePromos(b) \ excused)' \subseteq O!ActivePromos(b) \ excused
      BY <3>1, PutCounts
    <3>4. QED BY <1>1, <1>2, <3>2, <3>3, LimitsKept
  <2>3. QED BY <2>1, <2>2
<1>5. QED BY <1>3, <1>4

LEMMA PutStep ==
  ASSUME OffersIInv, NEW r \in Request, NEW i \in O!Item, NEW n \in O!Rows, Puts(r, i, n),
         n.status # "UNBORN", Sound(i)',
         TakesNone(i, n) \/ \E granted \in BOOLEAN : TakesFree(r, i, n, granted)
  PROVE  OffersIInv'
<1>1. i = item[r] BY DEF Puts
<1>2. jumped' \subseteq Request /\ excused' \subseteq O!Item
  BY <1>1 DEF TakesNone, TakesFree, O!TakesSlot, O!slots, O!Rivals, OffersIInv, O!TypeOK
<1>3. O!TypeOK' BY <1>2, PutTypes
<1>4. Items' /\ Terraces' BY PutItems
<1>5. Requests' BY PutRequests
<1>6. O!QuotasHold' BY PutQuotas
<1>7. QED BY <1>3, <1>4, <1>5, <1>6 DEF OffersIInv

\* Who was not overtaken writes over the row he has read.
LEMMA AsWasRead ==
  ASSUME OffersIInv, NEW r \in Request, opc[r] # "idle", NEW i \in O!Item, i = item[r]
  PROVE  /\ Sound(i) /\ Engaged(r) /\ row[i] \in O!Rows /\ had[r] \in O!Rows
         /\ want[r] \in Rarity /\ i \notin O!Owner
         /\ had[r].status # "UNBORN" => row[i].status # "UNBORN"
         /\ r \notin overtaken => row[i] = had[r] /\ i \notin gone
<1>1. Sound(i) /\ Engaged(r) BY DEF OffersIInv, Items, Requests
<1>2. row[i] \in O!Rows /\ had[r] \in O!Rows /\ want[r] \in Rarity BY DEF OffersIInv, O!TypeOK
<1>3. QED BY <1>1, <1>2, Kinds DEF Engaged, Current

\* A row with one or two fields changed.
Like(y, s, a, t, w) ==
  y \in O!Rows /\ y.status = s /\ y.approval = a /\ y.text = t /\ y.rarity = w

LEMMA OneField ==
  ASSUME NEW x \in O!Rows
  PROVE  /\ \A s \in O!Statuses : Like([x EXCEPT !.status = s], s, x.approval, x.text, x.rarity)
         /\ \A a \in O!Approvals : Like([x EXCEPT !.approval = a], x.status, a, x.text, x.rarity)
         /\ \A t \in Nat : Like([x EXCEPT !.text = t], x.status, x.approval, t, x.rarity)
         /\ \A w \in Rarity : Like([x EXCEPT !.rarity = w], x.status, x.approval, x.text, w)
BY DEF Like, O!Rows

LEMMA RowFields ==
  ASSUME NEW x \in O!Rows
  PROVE  /\ \A t \in Nat, a \in O!Approvals :
              Like([x EXCEPT !.text = t, !.approval = a], x.status, a, t, x.rarity)
         /\ \A t \in Nat, w \in Rarity :
              Like([x EXCEPT !.text = t, !.rarity = w], x.status, x.approval, t, w)
         /\ \A t \in Nat, s \in O!Statuses :
              Like([x EXCEPT !.text = t, !.status = s], s, x.approval, t, x.rarity)
         /\ \A a \in O!Approvals, s \in O!Statuses :
              Like([x EXCEPT !.approval = a, !.status = s], s, a, x.text, x.rarity)
         /\ \A s \in O!Statuses, a \in O!Approvals :
              Like([x EXCEPT !.status = s, !.approval = a], s, a, x.text, x.rarity)
         /\ x.text \in Nat /\ x.text + 1 \in Nat /\ x.status \in O!Statuses
         /\ x.approval \in O!Approvals /\ x.rarity \in Rarity
<1>1. x.text \in Nat /\ x.text + 1 \in Nat /\ x.status \in O!Statuses
      /\ x.approval \in O!Approvals /\ x.rarity \in Rarity
  BY DEF O!Rows
<1>2. ASSUME NEW t \in Nat, NEW a \in O!Approvals
      PROVE  Like([x EXCEPT !.text = t, !.approval = a], x.status, a, t, x.rarity)
  <2>1. PICK y : y = [x EXCEPT !.text = t] OBVIOUS
  <2>2. y \in O!Rows /\ y.status = x.status /\ y.approval = x.approval /\ y.text = t /\ y.rarity = x.rarity
    BY <2>1, OneField DEF Like
  <2>3. PICK z : z = [y EXCEPT !.approval = a] OBVIOUS
  <2>4. z \in O!Rows /\ z.status = x.status /\ z.approval = a /\ z.text = t /\ z.rarity = x.rarity
    BY <2>2, <2>3, OneField DEF Like
  <2>5. z = [x EXCEPT !.text = t, !.approval = a] BY <2>1, <2>3
  <2>6. QED BY <2>4, <2>5 DEF Like
<1>3. ASSUME NEW t \in Nat, NEW w \in Rarity
      PROVE  Like([x EXCEPT !.text = t, !.rarity = w], x.status, x.approval, t, w)
  <2>1. PICK y : y = [x EXCEPT !.text = t] OBVIOUS
  <2>2. y \in O!Rows /\ y.status = x.status /\ y.approval = x.approval /\ y.text = t /\ y.rarity = x.rarity
    BY <2>1, OneField DEF Like
  <2>3. PICK z : z = [y EXCEPT !.rarity = w] OBVIOUS
  <2>4. z \in O!Rows /\ z.status = x.status /\ z.approval = x.approval /\ z.text = t /\ z.rarity = w
    BY <2>2, <2>3, OneField DEF Like
  <2>5. z = [x EXCEPT !.text = t, !.rarity = w] BY <2>1, <2>3
  <2>6. QED BY <2>4, <2>5 DEF Like
<1>4. ASSUME NEW t \in Nat, NEW s \in O!Statuses
      PROVE  Like([x EXCEPT !.text = t, !.status = s], s, x.approval, t, x.rarity)
  <2>1. PICK y : y = [x EXCEPT !.text = t] OBVIOUS
  <2>2. y \in O!Rows /\ y.status = x.status /\ y.approval = x.approval /\ y.text = t /\ y.rarity = x.rarity
    BY <2>1, OneField DEF Like
  <2>3. PICK z : z = [y EXCEPT !.status = s] OBVIOUS
  <2>4. z \in O!Rows /\ z.status = s /\ z.approval = x.approval /\ z.text = t /\ z.rarity = x.rarity
    BY <2>2, <2>3, OneField DEF Like
  <2>5. z = [x EXCEPT !.text = t, !.status = s] BY <2>1, <2>3
  <2>6. QED BY <2>4, <2>5 DEF Like
<1>5. ASSUME NEW a \in O!Approvals, NEW s \in O!Statuses
      PROVE  Like([x EXCEPT !.approval = a, !.status = s], s, a, x.text, x.rarity)
  <2>1. PICK y : y = [x EXCEPT !.approval = a] OBVIOUS
  <2>2. y \in O!Rows /\ y.status = x.status /\ y.approval = a /\ y.text = x.text /\ y.rarity = x.rarity
    BY <2>1, OneField DEF Like
  <2>3. PICK z : z = [y EXCEPT !.status = s] OBVIOUS
  <2>4. z \in O!Rows /\ z.status = s /\ z.approval = a /\ z.text = x.text /\ z.rarity = x.rarity
    BY <2>2, <2>3, OneField DEF Like
  <2>5. z = [x EXCEPT !.approval = a, !.status = s] BY <2>1, <2>3
  <2>6. QED BY <2>4, <2>5 DEF Like
<1>6. ASSUME NEW s \in O!Statuses, NEW a \in O!Approvals
      PROVE  Like([x EXCEPT !.status = s, !.approval = a], s, a, x.text, x.rarity)
  <2>1. PICK y : y = [x EXCEPT !.status = s] OBVIOUS
  <2>2. y \in O!Rows /\ y.status = s /\ y.approval = x.approval /\ y.text = x.text /\ y.rarity = x.rarity
    BY <2>1, OneField DEF Like
  <2>3. PICK z : z = [y EXCEPT !.approval = a] OBVIOUS
  <2>4. z \in O!Rows /\ z.status = s /\ z.approval = a /\ z.text = x.text /\ z.rarity = x.rarity
    BY <2>2, <2>3, OneField DEF Like
  <2>5. z = [x EXCEPT !.status = s, !.approval = a] BY <2>1, <2>3
  <2>6. QED BY <2>4, <2>5 DEF Like
<1>7. QED BY <1>1, <1>2, <1>3, <1>4, <1>5, <1>6

LEMMA CreatingStep ==
  ASSUME OffersIInv, NEW r \in Request,
         O!CreatePromotion(r) \/ O!CreatePackage(r) \/ O!CreateEvent(r) \/ O!CreateDrink(r)
  PROVE  OffersIInv'
<1>1. O!Inserts(r) /\ opc[r] = "insert"
  BY DEF O!CreatePromotion, O!CreatePackage, O!CreateEvent, O!CreateDrink, O!Inserts
<1>2. PICK i \in O!Item : i = item[r]
  BY <1>1 DEF OffersIInv, Requests, Engaged, Task
<1>3. Sound(i) /\ Engaged(r) /\ want[r] \in Rarity BY <1>1, <1>2, AsWasRead
<1> DEFINE n == O!Fresh(i, want[r])
<1>4. n \in O!Rows /\ n.status = "DRAFT" /\ n.rarity = want[r]
  BY <1>3 DEF O!Fresh, O!Rows, O!Statuses, O!Approvals
<1>5. O!Put(r, n) /\ row[i].status = "UNBORN" /\ UNCHANGED <<gone, menu, accepted, reviewed, crossed>>
  BY <1>1, <1>2 DEF O!Inserts
<1> HIDE DEF n
<1>6. Puts(r, i, n)
  BY <1>1, <1>2, <1>5 DEF Puts, OffersIInv, O!TypeOK
<1>7. row'[i] = n BY <1>5, <1>2 DEF O!Put, OffersIInv, O!TypeOK
<1>8. Sound(i)'
  BY <1>3, <1>4, <1>5, <1>7
  DEF Sound, Reviewed, Scannable, Judged, Accepted, O!Live, O!EventShown
<1>9. TakesNone(i, n) \/ \E granted \in BOOLEAN : TakesFree(r, i, n, granted)
  <2>1. CASE O!CreateDrink(r)
    <3>1. O!TakesSlot(r, TRUE) /\ i \in Special BY <1>2, <2>1 DEF O!CreateDrink
    <3>2. Counted(r) BY <1>1, <1>2, <3>1 DEF Counted
    <3>3. TakesFree(r, i, n, TRUE)
      BY <1>2, <1>3, <1>4, <3>1, <3>2, Kinds DEF TakesFree, Engaged, FreeSlot
    <3>4. QED BY <3>3
  <2>2. CASE O!CreatePromotion(r) \/ O!CreatePackage(r) \/ O!CreateEvent(r)
    <3>1. UNCHANGED O!slots /\ i \notin Special
      BY <1>2, <2>2, Kinds DEF O!CreatePromotion, O!CreatePackage, O!CreateEvent
    <3>2. TakesNone(i, n) BY <1>4, <3>1 DEF TakesNone
    <3>3. QED BY <3>2
  <2>3. QED BY <2>1, <2>2
<1>10. QED BY <1>4, <1>6, <1>8, <1>9, PutStep

\* An approved promotion stays approved through an edit.
LEMMA EditPromotionStep ==
  ASSUME OffersIInv, NEW r \in Request, O!EditPromotion(r)
  PROVE  OffersIInv'
<1>1. opc[r] = "edit" /\ item[r] \in Promo BY DEF O!EditPromotion
<1>2. PICK i \in O!Item : i = item[r] /\ i \in Promo BY <1>1, Kinds
<1>3. /\ Sound(i) /\ Engaged(r) /\ row[i] \in O!Rows /\ had[r] \in O!Rows
      /\ row[i].status # "UNBORN"
      /\ r \notin overtaken => row[i] = had[r] /\ i \notin gone
  BY <1>1, <1>2, AsWasRead DEF Engaged, Task, Existing
<1> DEFINE n == [row[i] EXCEPT !.text = @ + 1,
                   !.approval = IF had[r].approval \in O!Sanctioned THEN "PENDING" ELSE @]
<1>4. /\ n \in O!Rows /\ n.status = row[i].status /\ n.rarity = row[i].rarity
      /\ n.approval = IF had[r].approval \in O!Sanctioned THEN "PENDING" ELSE row[i].approval
  <2>1. PICK x \in O!Rows : x = row[i] BY <1>3
  <2>2. PICK a \in O!Approvals : a = IF had[r].approval \in O!Sanctioned THEN "PENDING" ELSE x.approval
    BY <2>1, RowFields DEF O!Approvals
  <2>3. n = [x EXCEPT !.text = x.text + 1, !.approval = a] BY <2>1, <2>2
  <2> HIDE DEF n
  <2>4. Like(n, x.status, a, x.text + 1, x.rarity) BY <2>3, RowFields
  <2>5. QED BY <2>1, <2>2, <2>4 DEF Like
<1>5. O!Put(r, n) /\ O!Edits(r) /\ UNCHANGED <<gone, menu, accepted, reviewed, O!slots>>
  BY <1>2 DEF O!EditPromotion
<1> HIDE DEF n
<1>6. crossed' = IF r \in overtaken THEN crossed \cup {i} ELSE crossed BY <1>2, <1>5 DEF O!Edits
<1>7. Puts(r, i, n) BY <1>1, <1>2, <1>5, <1>6 DEF Puts, OffersIInv, O!TypeOK
<1>8. row'[i] = n BY <1>2, <1>5 DEF O!Put, OffersIInv, O!TypeOK
<1>9. Sound(i)'
  <2>1. i \notin Special \cup Package \cup Event BY <1>2, Kinds
  <2>2. i \notin menu' BY <1>5, <2>1 DEF OffersIInv, O!TypeOK
  <2>3. Judged(i)'
    BY <1>3, <1>4, <1>5, <1>6, <1>8 DEF Sound, Judged, O!Live, O!Sanctioned
  <2>4. QED BY <2>1, <2>2, <2>3 DEF Sound, Reviewed, Scannable, Accepted
<1>10. TakesNone(i, n) BY <1>2, <1>4, <1>5, Kinds DEF TakesNone
<1>11. QED BY <1>3, <1>4, <1>7, <1>9, <1>10, PutStep

\* A drink or package an admin has judged is reviewed anew.
LEMMA EditListingStep ==
  ASSUME OffersIInv, NEW r \in Request, O!EditDrink(r) \/ O!EditPackage(r)
  PROVE  OffersIInv'
<1>1. opc[r] = "edit" /\ item[r] \in Special \cup Package /\ O!EditsListing(r, O!NeedsReview(r))
  BY DEF O!EditDrink, O!EditPackage, O!EditsListing
<1>2. PICK i \in O!Item : i = item[r] /\ i \in Special \cup Package BY <1>1, Kinds
<1>3. /\ Sound(i) /\ Engaged(r) /\ row[i] \in O!Rows /\ had[r] \in O!Rows /\ want[r] \in Rarity
      /\ row[i].status # "UNBORN"
      /\ r \notin overtaken => row[i] = had[r] /\ i \notin gone
  BY <1>1, <1>2, AsWasRead DEF Engaged, Task, Existing
<1> DEFINE m == [row[i] EXCEPT !.text = @ + 1, !.rarity = want[r]]
           n == IF O!NeedsReview(r) THEN [m EXCEPT !.approval = "PENDING", !.status = "DRAFT"] ELSE m
<1>4. /\ n \in O!Rows /\ n.status # "UNBORN" /\ n.rarity = want[r]
      /\ O!NeedsReview(r) => n.approval = "PENDING" /\ n.status = "DRAFT"
      /\ ~O!NeedsReview(r) => n.approval = row[i].approval
  <2>1. /\ m \in O!Rows /\ m.status = row[i].status /\ m.rarity = want[r]
        /\ m.approval = row[i].approval
    <3>1. PICK x \in O!Rows : x = row[i] BY <1>3
    <3>2. PICK w \in Rarity : w = want[r] BY <1>3
    <3>3. m = [x EXCEPT !.text = x.text + 1, !.rarity = w] BY <3>1, <3>2
    <3> HIDE DEF m
    <3>4. Like(m, x.status, x.approval, x.text + 1, w) BY <3>3, RowFields
    <3>5. QED BY <3>1, <3>2, <3>4 DEF Like
  <2> HIDE DEF m
  <2>2. CASE O!NeedsReview(r)
    <3>1. n = [m EXCEPT !.approval = "PENDING", !.status = "DRAFT"] BY <2>2
    <3> HIDE DEF n
    <3>2. QED BY <2>1, <2>2, <3>1 DEF O!Rows, O!Approvals, O!Statuses
  <2>3. CASE ~O!NeedsReview(r)
    <3>1. n = m BY <2>3
    <3> HIDE DEF n
    <3>2. QED BY <1>3, <2>1, <2>3, <3>1
  <2>4. QED BY <2>2, <2>3
<1>5. O!Put(r, n) /\ O!Edits(r) /\ UNCHANGED <<gone, menu, accepted, reviewed>>
  BY <1>1, <1>2 DEF O!EditsListing
<1> HIDE DEF n
<1>6. crossed' = IF r \in overtaken THEN crossed \cup {i} ELSE crossed BY <1>2, <1>5 DEF O!Edits
<1>7. Puts(r, i, n) BY <1>1, <1>2, <1>5, <1>6 DEF Puts, OffersIInv, O!TypeOK
<1>8. row'[i] = n BY <1>2, <1>5 DEF O!Put, OffersIInv, O!TypeOK
<1>9. Sound(i)'
  <2>1. i \notin Promo \cup Event BY <1>2, Kinds
  <2>2. r \notin overtaken /\ ~O!NeedsReview(r) => row[i].approval # "APPROVED"
    BY <1>3 DEF O!NeedsReview
  <2>3. r \notin overtaken => n.approval # "APPROVED" BY <1>4, <2>2
  <2>4. Reviewed(i)' BY <1>6, <1>8, <2>3 DEF Reviewed
  <2>5. Scannable(i)'
    <3>1. CASE r \in overtaken BY <1>6, <3>1 DEF Scannable
    <3>2. CASE r \notin overtaken /\ i \in menu
      <4>1. i \in Special BY <3>2 DEF OffersIInv, O!TypeOK
      <4>2. ~O!NeedsReview(r) BY <1>1, <1>2, <1>3, <3>2, <4>1 DEF Engaged, OffMenu
      <4>3. i \in crossed BY <1>3, <2>2, <3>2, <4>2 DEF Sound, Scannable
      <4>4. QED BY <1>6, <3>2, <4>3 DEF Scannable
    <3>3. CASE i \notin menu BY <1>5, <3>3 DEF Scannable
    <3>4. QED BY <3>1, <3>2, <3>3
  <2>6. QED BY <2>1, <2>4, <2>5 DEF Sound, Judged, Accepted
<1>10. TakesNone(i, n) \/ \E granted \in BOOLEAN : TakesFree(r, i, n, granted)
  <2>1. CASE O!EditPackage(r)
    BY <1>2, <2>1, Kinds DEF TakesNone, O!EditPackage
  <2>2. CASE O!EditDrink(r) /\ want[r] = row[i].rarity
    <3>1. UNCHANGED O!slots /\ i \in Special BY <1>2, <2>2 DEF O!EditDrink
    <3>2. TakesNone(i, n) BY <1>3, <1>4, <2>2, <3>1, Kinds DEF TakesNone
    <3>3. QED BY <3>2
  <2>3. CASE O!EditDrink(r) /\ want[r] # row[i].rarity
    <3>1. O!TakesSlot(r, TRUE) /\ i \in Special BY <1>2, <2>3 DEF O!EditDrink
    <3>2. r \notin overtaken => Counted(r) BY <1>1, <1>2, <1>3, <2>3, <3>1 DEF Counted
    <3>3. TakesFree(r, i, n, TRUE)
      BY <1>2, <1>3, <1>4, <3>1, <3>2, Kinds DEF TakesFree, Engaged, FreeSlot
    <3>4. QED BY <3>3
  <2>4. QED BY <2>1, <2>2, <2>3
<1>11. QED BY <1>4, <1>7, <1>9, <1>10, PutStep

LEMMA EditEventStep ==
  ASSUME OffersIInv, NEW r \in Request, O!EditEvent(r)
  PROVE  OffersIInv'
<1>1. opc[r] = "edit" /\ item[r] \in Event BY DEF O!EditEvent
<1>2. PICK i \in O!Item : i = item[r] /\ i \in Event BY <1>1, Kinds
<1>3. Sound(i) /\ row[i] \in O!Rows /\ row[i].status # "UNBORN"
  BY <1>1, <1>2, AsWasRead DEF Engaged, Task, Existing
<1>x. PICK x \in O!Rows : x = row[i] BY <1>3
<1>s. PICK s \in O!Statuses : s = IF had[r].approval = "REMOVED" THEN "DRAFT" ELSE x.status
  BY <1>x, RowFields DEF O!Statuses
<1> DEFINE n == [x EXCEPT !.text = x.text + 1, !.status = s]
<1>4. Like(n, s, x.approval, x.text + 1, x.rarity) BY RowFields
<1>5. O!Put(r, n) /\ UNCHANGED <<gone, menu, reviewed, O!slots>> /\ O!Edits(r)
      /\ accepted' = IF had[r].approval = "REMOVED" THEN accepted \ {i} ELSE accepted
  BY <1>2, <1>x, <1>s DEF O!EditEvent
<1> HIDE DEF n
<1>6. crossed' = IF r \in overtaken THEN crossed \cup {i} ELSE crossed BY <1>2, <1>5 DEF O!Edits
<1>7. Puts(r, i, n) BY <1>1, <1>2, <1>5, <1>6 DEF Puts, OffersIInv, O!TypeOK
<1>8. row'[i] = n BY <1>2, <1>4, <1>5 DEF O!Put, OffersIInv, O!TypeOK
<1>9. Sound(i)'
  <2>1. i \notin Special \cup Package \cup Promo BY <1>2, Kinds
  <2>2. i \notin menu' BY <1>5, <2>1 DEF OffersIInv, O!TypeOK
  <2>3. Accepted(i)'
    BY <1>3, <1>4, <1>5, <1>8, <1>x, <1>s DEF Sound, Accepted, O!EventShown, O!Live, Like
  <2>4. QED BY <2>1, <2>2, <2>3 DEF Sound, Reviewed, Scannable, Judged
<1>10. TakesNone(i, n) BY <1>2, <1>5, Kinds DEF TakesNone
<1>11. n \in O!Rows /\ n.status # "UNBORN" BY <1>3, <1>4, <1>x, <1>s DEF Like
<1>12. QED BY <1>7, <1>9, <1>10, <1>11, PutStep

LEMMA ActivateStep ==
  ASSUME OffersIInv, NEW r \in Request, O!ActivatePromotion(r) \/ O!ActivateEvent(r)
  PROVE  OffersIInv'
<1>1. opc[r] = "activate" /\ item[r] \in Promo \cup Event
  BY DEF O!ActivatePromotion, O!ActivateEvent
<1>2. PICK i \in O!Item : i = item[r] BY <1>1, Kinds
<1>3. /\ Sound(i) /\ Engaged(r) /\ row[i] \in O!Rows /\ row[i].status # "UNBORN"
      /\ r \notin overtaken => row[i] = had[r] /\ i \notin gone
  BY <1>1, <1>2, AsWasRead DEF Engaged, Task, Existing
<1>x. PICK x \in O!Rows : x = row[i] BY <1>3
<1>s. "ACTIVE" \in O!Statuses /\ "VISIBLE" \in O!Approvals BY DEF O!Statuses, O!Approvals
<1>4. CASE O!ActivatePromotion(r)
  <2> DEFINE n == [x EXCEPT !.status = "ACTIVE"]
  <2>1. Like(n, "ACTIVE", x.approval, x.text, x.rarity) BY <1>s, OneField
  <2>2. /\ O!Put(r, n) /\ UNCHANGED <<gone, menu, accepted, reviewed>> /\ i \in Promo
        /\ O!Edits(r) /\ O!TakesSlot(r, TRUE)
    BY <1>2, <1>4, <1>x DEF O!ActivatePromotion
  <2> HIDE DEF n
  <2>3. crossed' = IF r \in overtaken THEN crossed \cup {i} ELSE crossed BY <1>2, <2>2 DEF O!Edits
  <2>4. Puts(r, i, n) BY <1>1, <1>2, <2>2, <2>3 DEF Puts, OffersIInv, O!TypeOK
  <2>5. row'[i] = n BY <1>2, <2>2 DEF O!Put, OffersIInv, O!TypeOK
  <2>6. Sound(i)'
    <3>1. i \notin Special \cup Package \cup Event BY <2>2, Kinds
    <3>2. i \notin menu' BY <2>2, <3>1 DEF OffersIInv, O!TypeOK
    <3>3. r \notin overtaken => x.approval = "APPROVED"
      BY <1>1, <1>2, <1>3, <1>x, <2>2 DEF Engaged, Task
    <3>4. Judged(i)' BY <2>1, <2>3, <2>5, <3>3 DEF Judged, Like
    <3>5. QED BY <3>1, <3>2, <3>4 DEF Sound, Reviewed, Scannable, Accepted
  <2>7. TakesFree(r, i, n, TRUE)
    BY <1>1, <1>2, <1>3, <2>2, Kinds DEF TakesFree, Engaged, FreeSlot
  <2>8. n \in O!Rows /\ n.status # "UNBORN" BY <2>1 DEF Like
  <2>9. QED BY <2>4, <2>6, <2>7, <2>8, PutStep
<1>5. CASE O!ActivateEvent(r)
  <2> DEFINE n == [x EXCEPT !.status = "ACTIVE", !.approval = "VISIBLE"]
  <2>1. Like(n, "ACTIVE", "VISIBLE", x.text, x.rarity) BY <1>s, RowFields
  <2>2. /\ O!Put(r, n) /\ UNCHANGED <<gone, menu, reviewed, O!slots>> /\ i \in Event
        /\ O!Edits(r) /\ accepted' = accepted \cup {i}
    BY <1>2, <1>5, <1>x DEF O!ActivateEvent
  <2> HIDE DEF n
  <2>3. crossed' = IF r \in overtaken THEN crossed \cup {i} ELSE crossed BY <1>2, <2>2 DEF O!Edits
  <2>4. Puts(r, i, n) BY <1>1, <1>2, <2>2, <2>3 DEF Puts, OffersIInv, O!TypeOK
  <2>5. Sound(i)'
    <3>1. i \notin Special \cup Package \cup Promo BY <2>2, Kinds
    <3>2. i \notin menu' BY <2>2, <3>1 DEF OffersIInv, O!TypeOK
    <3>3. QED BY <2>2, <3>1, <3>2 DEF Sound, Reviewed, Scannable, Judged, Accepted
  <2>6. TakesNone(i, n) BY <2>2, Kinds DEF TakesNone
  <2>7. n \in O!Rows /\ n.status # "UNBORN" BY <2>1 DEF Like
  <2>8. QED BY <2>4, <2>5, <2>6, <2>7, PutStep
<1>6. QED BY <1>4, <1>5

LEMMA PauseStep ==
  ASSUME OffersIInv, NEW r \in Request, O!PausePromotion(r) \/ O!PauseEvent(r)
  PROVE  OffersIInv'
<1>1. opc[r] = "pause" /\ item[r] \in Promo \cup Event
  BY DEF O!PausePromotion, O!PauseEvent, O!Pauses
<1>2. PICK i \in O!Item : i = item[r] /\ i \in Promo \cup Event BY <1>1, Kinds
<1>3. row[i] \in O!Rows BY <1>1, <1>2, AsWasRead
<1>x. PICK x \in O!Rows : x = row[i] BY <1>3
<1>s. PICK s \in {"PAUSED", "DRAFT"} : O!Pauses(r, s) BY DEF O!PausePromotion, O!PauseEvent
<1> DEFINE n == [x EXCEPT !.status = s]
<1>4. Like(n, s, x.approval, x.text, x.rarity) BY OneField DEF O!Statuses
<1>5. O!Put(r, n) /\ O!Edits(r) /\ UNCHANGED <<gone, menu, accepted, reviewed, O!slots>>
  BY <1>2, <1>x, <1>s DEF O!Pauses
<1> HIDE DEF n
<1>6. crossed' = IF r \in overtaken THEN crossed \cup {i} ELSE crossed BY <1>2, <1>5 DEF O!Edits
<1>7. Puts(r, i, n) BY <1>1, <1>2, <1>5, <1>6 DEF Puts, OffersIInv, O!TypeOK
<1>8. row'[i] = n BY <1>2, <1>5 DEF O!Put, OffersIInv, O!TypeOK
<1>9. Sound(i)'
  <2>1. i \notin Special \cup Package BY <1>2, Kinds
  <2>2. i \notin menu' BY <1>5, <2>1 DEF OffersIInv, O!TypeOK
  <2>3. ~O!Live(i)' BY <1>4, <1>8 DEF O!Live, Like
  <2>4. QED BY <2>1, <2>2, <2>3 DEF Sound, Reviewed, Scannable, Judged, Accepted, O!EventShown, O!Live
<1>10. TakesNone(i, n) BY <1>2, <1>4, <1>5, Kinds DEF TakesNone, Like
<1>11. n \in O!Rows /\ n.status # "UNBORN" BY <1>4 DEF Like
<1>12. QED BY <1>7, <1>9, <1>10, <1>11, PutStep

\* What is resubmitted was sanctioned, or its row has changed since.
LEMMA ResubmitStep ==
  ASSUME OffersIInv, NEW r \in Request,
         O!ResubmitPromotion(r) \/ O!ResubmitDrink(r) \/ O!ResubmitPackage(r)
  PROVE  OffersIInv'
<1>1. opc[r] = "resubmit" /\ item[r] \in Promo \cup Special \cup Package
  BY DEF O!ResubmitPromotion, O!ResubmitDrink, O!ResubmitPackage, O!Resubmits
<1>2. PICK i \in O!Item : i = item[r] BY <1>1, Kinds
<1>3. /\ Sound(i) /\ Engaged(r) /\ row[i] \in O!Rows /\ had[r] \in O!Rows
      /\ row[i].status # "UNBORN" /\ had[r].status # "UNBORN" /\ had[r].approval \in O!Sanctioned
      /\ r \notin overtaken => row[i] = had[r] /\ i \notin gone
  BY <1>1, <1>2, AsWasRead DEF Engaged, Task, Existing
<1>x. PICK x \in O!Rows : x = row[i] BY <1>3
<1>s. PICK s \in O!Statuses : /\ O!Resubmits(r, s) /\ s # "UNBORN"
                              /\ i \in Promo => s = had[r].status
                              /\ i \notin Promo => s = "DRAFT"
  <2>1. had[r].status \in O!Statuses BY <1>3 DEF O!Rows
  <2>2. QED
    BY <1>2, <1>3, <2>1, Kinds
    DEF O!ResubmitPromotion, O!ResubmitDrink, O!ResubmitPackage, O!Statuses
<1> DEFINE n == [x EXCEPT !.approval = "PENDING", !.status = s]
<1>4. Like(n, s, "PENDING", x.text, x.rarity) BY RowFields DEF O!Approvals
<1>5. O!Put(r, n) /\ O!Edits(r) /\ UNCHANGED <<gone, menu, accepted, reviewed>>
  BY <1>2, <1>x, <1>s DEF O!Resubmits
<1> HIDE DEF n
<1>6. crossed' = IF r \in overtaken THEN crossed \cup {i} ELSE crossed BY <1>2, <1>5 DEF O!Edits
<1>7. Puts(r, i, n) BY <1>1, <1>2, <1>5, <1>6 DEF Puts, OffersIInv, O!TypeOK
<1>8. row'[i] = n BY <1>2, <1>5 DEF O!Put, OffersIInv, O!TypeOK
<1>9. Sound(i)'
  <2>1. i \notin Event BY <1>1, <1>2, Kinds
  <2>2. r \notin overtaken => row[i].approval # "APPROVED" BY <1>3 DEF O!Sanctioned
  <2>3. Reviewed(i)' BY <1>4, <1>8 DEF Reviewed, Like
  <2>4. Scannable(i)' BY <1>3, <1>5, <1>6, <2>2 DEF Sound, Scannable
  <2>5. Judged(i)'
    <3>1. CASE r \in overtaken BY <1>6, <3>1 DEF Judged
    <3>2. CASE r \notin overtaken /\ i \in Promo
      <4>1. s = row[i].status /\ i \notin gone BY <1>3, <1>s, <3>2
      <4>2. s = "ACTIVE" => i \in crossed BY <1>3, <2>2, <3>2, <4>1 DEF Sound, Judged, O!Live
      <4>3. QED BY <1>4, <1>6, <1>8, <4>2 DEF Judged, O!Live, Like
    <3>3. CASE i \notin Promo BY <3>3 DEF Judged
    <3>4. QED BY <3>1, <3>2, <3>3
  <2>6. QED BY <2>1, <2>3, <2>4, <2>5 DEF Sound, Accepted
<1>10. TakesNone(i, n) \/ \E granted \in BOOLEAN : TakesFree(r, i, n, granted)
  <2>1. CASE O!ResubmitPromotion(r) /\ had[r].status = "ACTIVE" /\ row[i].status # "ACTIVE"
    <3>1. O!TakesSlot(r, FALSE) /\ i \in Promo BY <1>2, <2>1 DEF O!ResubmitPromotion
    <3>2. TakesFree(r, i, n, FALSE) BY <3>1 DEF TakesFree
    <3>3. QED BY <3>2
  <2>2. CASE O!ResubmitPromotion(r) /\ ~(had[r].status = "ACTIVE" /\ row[i].status # "ACTIVE")
    <3>1. UNCHANGED O!slots /\ i \in Promo BY <1>2, <2>2 DEF O!ResubmitPromotion
    <3>2. TakesNone(i, n) BY <1>3, <1>4, <1>s, <2>2, <3>1, Kinds DEF TakesNone, Like
    <3>3. QED BY <3>2
  <2>3. CASE O!ResubmitDrink(r) \/ O!ResubmitPackage(r)
    <3>1. UNCHANGED O!slots /\ i \notin Promo
      BY <1>2, <2>3, Kinds DEF O!ResubmitDrink, O!ResubmitPackage
    <3>2. TakesNone(i, n) BY <1>3, <1>4, <1>x, <3>1 DEF TakesNone, Like
    <3>3. QED BY <3>2
  <2>4. QED BY <2>1, <2>2, <2>3
<1>11. n \in O!Rows /\ n.status # "UNBORN" BY <1>4, <1>s DEF Like
<1>12. QED BY <1>7, <1>9, <1>10, <1>11, PutStep

LEMMA DeleteStep ==
  ASSUME OffersIInv, NEW r \in Request,
         O!DeletePromotion(r) \/ O!DeleteDrink(r) \/ O!DeletePackage(r) \/ O!DeleteEvent(r)
  PROVE  OffersIInv'
<1>1. opc[r] = "delete"
  BY DEF O!DeletePromotion, O!DeleteDrink, O!DeletePackage, O!DeleteEvent, O!Deletes
<1>2. PICK i \in O!Item : i = item[r] BY <1>1 DEF OffersIInv, Requests, Engaged, Task, Existing
<1>3. row[i] \in O!Rows /\ row[i].status # "UNBORN"
  BY <1>1, <1>2, AsWasRead DEF Engaged, Task, Existing
<1>x. PICK x \in O!Rows : x = row[i] BY <1>3
<1>s. PICK s \in {x.status, "ARCHIVED"} : O!Deletes(r, s)
  BY <1>2, <1>x DEF O!DeletePromotion, O!DeleteDrink, O!DeletePackage, O!DeleteEvent
<1>t. s \in O!Statuses /\ s # "UNBORN" BY <1>3, <1>x, <1>s, RowFields DEF O!Statuses
<1> DEFINE n == [x EXCEPT !.status = s]
<1>4. Like(n, s, x.approval, x.text, x.rarity) BY <1>t, OneField
<1>5. /\ O!Put(r, n) /\ gone' = gone \cup {i} /\ O!Judges(r)
      /\ UNCHANGED <<accepted, reviewed, O!slots>>
  BY <1>2, <1>x, <1>s DEF O!Deletes
<1> HIDE DEF n
<1>m. menu' = menu \ {i}
  <2>1. CASE O!DeleteDrink(r) BY <1>2, <2>1 DEF O!DeleteDrink
  <2>2. CASE O!DeletePromotion(r) \/ O!DeletePackage(r) \/ O!DeleteEvent(r)
    <3>1. i \notin Special /\ menu' = menu
      BY <1>2, <2>2, Kinds DEF O!DeletePromotion, O!DeletePackage, O!DeleteEvent
    <3>2. QED BY <3>1 DEF OffersIInv, O!TypeOK
  <2>3. QED BY <2>1, <2>2
<1>6. crossed' \in {crossed \cup {i}, crossed \ {i}} BY <1>2, <1>5 DEF O!Judges
<1>7. Puts(r, i, n) BY <1>1, <1>2, <1>5, <1>6, <1>m DEF Puts, OffersIInv, O!TypeOK
<1>8. row'[i] = n BY <1>2, <1>5 DEF O!Put, OffersIInv, O!TypeOK
<1>9. Sound(i)'
  BY <1>5, <1>m DEF Sound, Reviewed, Scannable, Judged, Accepted, O!Live, O!EventShown
<1>10. TakesNone(i, n)
  BY <1>3, <1>4, <1>5, <1>s, <1>x DEF TakesNone, Like
<1>11. n \in O!Rows /\ n.status # "UNBORN" BY <1>4, <1>t DEF Like
<1>12. QED BY <1>7, <1>9, <1>10, <1>11, PutStep

\* The text that is approved is the one that was read.
LEMMA ApproveStep ==
  ASSUME OffersIInv, NEW r \in Request,
         O!ApprovePromotion(r) \/ O!ApproveDrink(r) \/ O!ApprovePackage(r)
  PROVE  OffersIInv'
<1>1. opc[r] = "approve" /\ O!Approves(r) /\ item[r] \notin Event
  BY Kinds DEF O!ApprovePromotion, O!ApproveDrink, O!ApprovePackage, O!Approves
<1>2. PICK i \in O!Item : i = item[r] /\ i \notin Event
  BY <1>1 DEF OffersIInv, Requests, Engaged, Task, Existing
<1>3. /\ row[i] \in O!Rows /\ had[r] \in O!Rows /\ row[i].status # "UNBORN"
      /\ r \notin overtaken => row[i] = had[r] /\ i \notin gone
  BY <1>1, <1>2, AsWasRead DEF Engaged, Task, Existing
<1>x. PICK x \in O!Rows : x = row[i] BY <1>3
<1> DEFINE n == [x EXCEPT !.approval = "APPROVED", !.status = "ACTIVE"]
<1>4. Like(n, "ACTIVE", "APPROVED", x.text, x.rarity) BY RowFields DEF O!Approvals, O!Statuses
<1>5. /\ O!Put(r, n) /\ reviewed' = [reviewed EXCEPT ![i] = had[r].text] /\ O!Judges(r)
      /\ UNCHANGED <<gone, accepted>>
  BY <1>1, <1>2, <1>x DEF O!Approves
<1> HIDE DEF n
<1>m. menu' = IF i \in Special THEN menu \cup {i} ELSE menu
  BY <1>2, Kinds DEF O!ApprovePromotion, O!ApproveDrink, O!ApprovePackage
<1>6. crossed' = IF r \in overtaken THEN crossed \cup {i} ELSE crossed \ {i}
  BY <1>2, <1>5 DEF O!Judges
<1>7. Puts(r, i, n)
  <2>1. had[r].text \in Nat BY <1>3, RowFields
  <2>2. reviewed \in [O!Item -> Nat] /\ menu \subseteq Special /\ accepted \subseteq Event
    BY DEF OffersIInv, O!TypeOK
  <2>3. QED BY <1>1, <1>2, <1>5, <1>6, <1>m, <2>1, <2>2 DEF Puts
<1>8. row'[i] = n /\ reviewed'[i] = had[r].text
  BY <1>2, <1>5 DEF O!Put, OffersIInv, O!TypeOK
<1>9. Sound(i)'
  <2>1. Reviewed(i)' BY <1>3, <1>4, <1>6, <1>8, <1>x DEF Reviewed, Like
  <2>2. Scannable(i)' BY <1>3, <1>4, <1>5, <1>6, <1>8 DEF Scannable, O!Live, Like
  <2>3. Judged(i)' BY <1>4, <1>8 DEF Judged, Like
  <2>4. QED BY <1>2, <2>1, <2>2, <2>3 DEF Sound, Accepted
<1>10. TakesNone(i, n) \/ \E granted \in BOOLEAN : TakesFree(r, i, n, granted)
  <2>1. CASE O!ApprovePromotion(r)
    <3>1. TakesFree(r, i, n, FALSE) BY <1>2, <2>1 DEF TakesFree, O!ApprovePromotion
    <3>2. QED BY <3>1
  <2>2. CASE O!ApproveDrink(r) \/ O!ApprovePackage(r)
    <3>1. UNCHANGED O!slots /\ i \notin Promo
      BY <1>2, <2>2, Kinds DEF O!ApproveDrink, O!ApprovePackage
    <3>2. TakesNone(i, n) BY <1>3, <1>4, <1>x, <3>1 DEF TakesNone, Like
    <3>3. QED BY <3>2
  <2>3. QED BY <2>1, <2>2
<1>11. n \in O!Rows /\ n.status # "UNBORN" BY <1>4 DEF Like
<1>12. QED BY <1>7, <1>9, <1>10, <1>11, PutStep

Rejecting(r) ==
  \/ O!RejectPromotion(r) \/ O!RejectDrink(r) \/ O!RejectPackage(r)
  \/ O!FlagPromotion(r) \/ O!FlagDrink(r) \/ O!FlagPackage(r) \/ O!RemoveEvent(r)

LEMMA SanctionStep ==
  ASSUME OffersIInv, NEW r \in Request, Rejecting(r)
  PROVE  OffersIInv'
<1>1. PICK l \in {"reject", "flag", "remove"}, a \in {"REJECTED", "FLAGGED", "REMOVED"},
           s \in {"DRAFT", O!Withdrawn(r, "PAUSED"), O!Withdrawn(r, "DRAFT")} : O!Sanctions(r, l, a, s)
  BY DEF Rejecting, O!RejectPromotion, O!RejectDrink, O!RejectPackage, O!FlagPromotion, O!FlagDrink,
         O!FlagPackage, O!RemoveEvent
<1>o. opc[r] = l BY <1>1 DEF O!Sanctions
<1>2. PICK i \in O!Item : i = item[r]
  BY <1>o DEF OffersIInv, Requests, Engaged, Task, Existing
<1>3. row[i] \in O!Rows /\ had[r] \in O!Rows /\ row[i].status # "UNBORN" /\ had[r].status # "UNBORN"
  BY <1>o, <1>2, AsWasRead DEF Engaged, Task, Existing
<1>x. PICK x \in O!Rows : x = row[i] BY <1>3
<1>s. s \in O!Statuses /\ s \notin {"UNBORN", "ACTIVE"} /\ a \in O!Approvals
  <2>1. had[r].status \in O!Statuses BY <1>3, RowFields
  <2>2. QED BY <1>1, <1>3, <2>1 DEF O!Withdrawn, O!Statuses, O!Approvals
<1> DEFINE n == [x EXCEPT !.approval = a, !.status = s]
<1>4. Like(n, s, a, x.text, x.rarity) BY <1>s, RowFields
<1>5. O!Put(r, n) /\ O!Judges(r) /\ UNCHANGED <<gone, accepted, reviewed, O!slots>>
  BY <1>1, <1>2, <1>x DEF O!Sanctions
<1> HIDE DEF n
<1>m. menu' = menu \ {i}
  <2>1. CASE O!RejectDrink(r) \/ O!FlagDrink(r)
    BY <1>2, <2>1 DEF O!RejectDrink, O!FlagDrink
  <2>2. CASE O!RejectPromotion(r) \/ O!RejectPackage(r) \/ O!FlagPromotion(r) \/ O!FlagPackage(r)
             \/ O!RemoveEvent(r)
    <3>1. i \notin Special /\ menu' = menu
      BY <1>2, <2>2, Kinds
      DEF O!RejectPromotion, O!RejectPackage, O!FlagPromotion, O!FlagPackage, O!RemoveEvent
    <3>2. QED BY <3>1 DEF OffersIInv, O!TypeOK
  <2>3. QED BY <2>1, <2>2 DEF Rejecting
<1>6. crossed' \in {crossed \cup {i}, crossed \ {i}} BY <1>2, <1>5 DEF O!Judges
<1>7. Puts(r, i, n) BY <1>o, <1>2, <1>5, <1>6, <1>m DEF Puts, OffersIInv, O!TypeOK
<1>8. row'[i] = n BY <1>2, <1>5 DEF O!Put, OffersIInv, O!TypeOK
<1>9. Sound(i)'
  BY <1>4, <1>8, <1>m, <1>s
  DEF Sound, Reviewed, Scannable, Judged, Accepted, O!Live, O!EventShown, Like
<1>10. TakesNone(i, n)
  BY <1>3, <1>4, <1>5, <1>s, <1>x DEF TakesNone, Like
<1>11. n \in O!Rows /\ n.status # "UNBORN" BY <1>4, <1>s DEF Like
<1>12. QED BY <1>7, <1>9, <1>10, <1>11, PutStep

\* r moves and no row changes, but that a drink may leave the menu.
LEMMA OfferMoves ==
  ASSUME OffersIInv, NEW r \in Request,
         UNCHANGED <<plan, row, gone, accepted, terrace, outdoor, reviewed, crossed, excused>>,
         menu' \subseteq menu, O!TypeOK', Engaged(r)',
         \A q \in Request \ {r} :
           /\ opc'[q] = opc[q] /\ item'[q] = item[q] /\ under'[q] = under[q]
           /\ had'[q] = had[q] /\ saw'[q] = saw[q] /\ want'[q] = want[q]
           /\ q \in overtaken => q \in overtaken'
           /\ q \in jumped => q \in jumped'
  PROVE  OffersIInv'
<1>1. \A i \in O!Item : Sound(i)'
  BY DEF OffersIInv, Items, Sound, Reviewed, Scannable, Judged, Accepted, O!Live, O!EventShown
<1>2. Items' BY <1>1 DEF OffersIInv, Items
<1>3. Terraces' BY DEF OffersIInv, Terraces
<1>4. /\ \A b, w : O!OfRarity(b, w)' = O!OfRarity(b, w)
      /\ \A b : O!ActivePromos(b)' = O!ActivePromos(b)
  BY DEF O!OfRarity, O!ActivePromos
<1>5. Requests'
  <2>1. ASSUME NEW q \in Request PROVE Engaged(q)'
    <3>1. CASE q = r BY <3>1
    <3>2. CASE q # r
      <4>1. PICK x, p, w : x = item[q] /\ p = under[q] /\ w = want[q] OBVIOUS
      <4>2. Engaged(q) /\ O!TypeOK BY DEF OffersIInv, Requests
      <4>3. QED BY <1>4, <3>2, <4>1, <4>2, StaysEngaged
    <3>3. QED BY <3>1, <3>2
  <2>2. QED BY <2>1 DEF Requests
<1>6. O!QuotasHold' BY <1>4, LimitsKept DEF OffersIInv
<1>7. QED BY <1>2, <1>3, <1>5, <1>6 DEF OffersIInv

\* What a request that arrives has found.
Warranted(b, x, l, w) ==
  /\ b \in O!Owner /\ x \in O!Item \cup O!Owner /\ l \in O!Label \ {"idle", "countAll"} /\ w \in Rarity
  /\ x \in O!Owner => x = b
  /\ x \in O!Item => x \notin gone
  /\ l \in {"countRarity", "menuOff"} => x \in Special
  /\ l = "countActive" => x \in Promo
  /\ l \in Existing \cup {"insert"} => x \in O!Item
  /\ l \in OnTerrace => x \in O!Owner
  /\ l \in Existing => row[x].status # "UNBORN"
  /\ l = "resubmit" => row[x].approval \in O!Sanctioned
  /\ l \in {"countActive", "activate"} /\ x \in Promo => row[x].approval = "APPROVED"
  /\ l \in {"verify", "refuse"} => terrace[b] = "PENDING"
  /\ l = "withdraw" => terrace[b] # "APPROVED"
  /\ l = "edit" /\ x \in Special => row[x].approval \notin {"APPROVED"} \cup O!Sanctioned
  /\ l \in {"menuOff", "edit"} /\ x \in Special => w = row[x].rarity
  /\ l = "insert" => x \notin Special
  /\ l = "activate" /\ x \in Promo => ~O!PromosLimited(plan[b])

LEMMA Arrives ==
  ASSUME OffersIInv, NEW r \in Request, NEW b, NEW x, NEW l, NEW w, Warranted(b, x, l, w),
         O!Begin(r, b, x, l, w)
  PROVE  OffersIInv'
<1>1. /\ opc' = [opc EXCEPT ![r] = l] /\ item' = [item EXCEPT ![r] = x]
      /\ under' = [under EXCEPT ![r] = plan[b]]
      /\ had' = [had EXCEPT ![r] = IF x \in O!Item THEN row[x] ELSE O!NoRow]
      /\ saw' = [saw EXCEPT ![r] = terrace[b]] /\ want' = [want EXCEPT ![r] = w]
      /\ overtaken' = overtaken \ {r} /\ jumped' = jumped \ {r}
      /\ oserved < MaxPublished /\ oserved' = oserved + 1
      /\ UNCHANGED <<plan, row, gone, menu, accepted, terrace, outdoor, reviewed, crossed, excused>>
  BY DEF O!Begin, O!tables
<1>2. O!TypeOK BY DEF OffersIInv
<1>3. O!TypeOK'
  <2>1. O!NoRow \in O!Rows
    <3>1. O!SomeRarity \in Rarity BY ConstantsOK DEF O!SomeRarity
    <3>2. QED BY <3>1 DEF O!NoRow, O!Rows, O!Statuses, O!Approvals
  <2>2. oserved' \in 0..MaxPublished
    <3>1. MaxPublished \in Nat BY ConstantsOK
    <3>2. oserved \in 0..MaxPublished BY <1>2 DEF O!TypeOK
    <3>3. QED BY <1>1, <3>1, <3>2
  <2>3. /\ opc' \in [Request -> O!Label] /\ item' \in [Request -> O!Item \cup O!Owner \cup {None}]
        /\ under' \in [Request -> O!Plan] /\ had' \in [Request -> O!Rows]
        /\ saw' \in [Request -> O!Terrace] /\ want' \in [Request -> Rarity]
    BY <1>1, <1>2, <2>1 DEF O!TypeOK, Warranted
  <2>4. QED BY <1>1, <1>2, <2>2, <2>3 DEF O!TypeOK
<1>4. /\ opc'[r] = l /\ item'[r] = x /\ under'[r] = plan[b] /\ saw'[r] = terrace[b] /\ want'[r] = w
      /\ x \in O!Item => had'[r] = row[x]
      /\ r \notin overtaken' /\ r \notin jumped'
  BY <1>1, <1>2 DEF O!TypeOK
<1>5. Engaged(r)'
  <2>1. x \in O!Item => x \notin O!Owner BY Kinds
  <2>2. Promo \subseteq O!Item /\ Special \subseteq O!Item BY Kinds
  <2>3. Task(r)' BY <1>1, <1>4, <2>2 DEF Task, Warranted, Existing, OnTerrace
  <2>4. Current(r)' BY <1>1, <1>4, <2>1 DEF Current, Warranted
  <2>5. OffMenu(r)' BY <1>1, <1>4, <2>2 DEF OffMenu, Warranted, O!NeedsReview
  <2>6. ~Counted(r)' BY <1>1, <1>4, <2>2 DEF Counted, Warranted
  <2>7. FreeSlot(r)' BY <1>1, <1>4, <2>6 DEF FreeSlot, Warranted, O!PromosLimited
  <2>8. QED BY <2>3, <2>4, <2>5, <2>7 DEF Engaged
<1>6. ASSUME NEW q \in Request \ {r}
      PROVE  /\ opc'[q] = opc[q] /\ item'[q] = item[q] /\ under'[q] = under[q]
             /\ had'[q] = had[q] /\ saw'[q] = saw[q] /\ want'[q] = want[q]
             /\ q \in overtaken => q \in overtaken'
             /\ q \in jumped => q \in jumped'
  BY <1>1, <1>2 DEF O!TypeOK
<1>7. menu' \subseteq menu BY <1>1
<1>8. QED BY <1>1, <1>3, <1>5, <1>6, <1>7, OfferMoves

\* What may begin with an item, and with a terrace.
ItemBegins(r, i) ==
  \/ O!BeginCreate(r, i) \/ O!BeginEdit(r, i)
  \/ \E q \in Rarity : O!BeginCreateDrink(r, i, q) \/ O!BeginEditDrink(r, i, q)
  \/ O!BeginActivatePromotion(r, i) \/ O!BeginActivateEvent(r, i)
  \/ O!BeginPause(r, i) \/ O!BeginResubmit(r, i) \/ O!BeginDelete(r, i)
  \/ O!BeginApprove(r, i) \/ O!BeginSanction(r, i) \/ O!BeginRemove(r, i)

LEMMA ItemArrives ==
  ASSUME OffersIInv, NEW r \in Request, NEW i \in O!Item, ItemBegins(r, i)
  PROVE  OffersIInv'
<1>1. /\ BarOf[i] \in O!Owner /\ i \notin O!Owner /\ row[i] \in O!Rows
      /\ i \in gone => row[i].status # "UNBORN"
  BY Kinds DEF OffersIInv, Items, O!TypeOK
<1>2. O!SomeRarity \in Rarity BY ConstantsOK DEF O!SomeRarity
<1>l. /\ {"edit", "countActive", "activate", "pause", "resubmit", "delete", "approve", "reject",
          "flag", "remove", "insert", "countRarity", "menuOff"} \subseteq O!Label \ {"idle", "countAll"}
  BY DEF O!Label
<1>3. ASSUME NEW l \in {"edit", "countActive", "activate", "pause", "resubmit", "delete", "approve",
                        "reject", "flag", "remove"},
             O!Asks(r, i, l), l = "edit" => i \notin Special, l = "countActive" => i \in Promo,
             l = "resubmit" => row[i].approval \in O!Sanctioned,
             l \in {"countActive", "activate"} /\ i \in Promo => row[i].approval = "APPROVED",
             l = "activate" /\ i \in Promo => ~O!PromosLimited(plan[BarOf[i]])
      PROVE  OffersIInv'
  <2>1. /\ row[i].status # "UNBORN" /\ i \notin gone
        /\ O!Begin(r, BarOf[i], i, l, row[i].rarity)
    BY <1>3 DEF O!Asks
  <2>2. row[i].rarity \in Rarity BY <1>1, RowFields
  <2>3. Warranted(BarOf[i], i, l, row[i].rarity)
    BY <1>1, <1>3, <1>l, <2>1, <2>2 DEF Warranted, Existing, OnTerrace
  <2>4. QED BY <2>1, <2>3, Arrives
<1>4. CASE O!BeginCreate(r, i)
  <2>1. Warranted(BarOf[i], i, "insert", O!SomeRarity)
    BY <1>1, <1>2, <1>4, <1>l DEF Warranted, Existing, OnTerrace, O!BeginCreate
  <2>2. QED BY <1>4, <2>1, Arrives DEF O!BeginCreate
<1>5. ASSUME NEW q \in Rarity, O!BeginCreateDrink(r, i, q) PROVE OffersIInv'
  <2>1. Warranted(BarOf[i], i, "countRarity", q)
    BY <1>1, <1>5, <1>l DEF Warranted, Existing, OnTerrace, O!BeginCreateDrink
  <2>2. QED BY <1>5, <2>1, Arrives DEF O!BeginCreateDrink
<1>6. ASSUME NEW q \in Rarity, O!BeginEditDrink(r, i, q) PROVE OffersIInv'
  <2>1. PICK l \in {"countRarity", "menuOff", "edit"} :
          l = IF q # row[i].rarity THEN "countRarity"
              ELSE IF row[i].approval \in {"APPROVED"} \cup O!Sanctioned THEN "menuOff" ELSE "edit"
    OBVIOUS
  <2>2. O!Begin(r, BarOf[i], i, l, q) /\ i \in Special \ gone /\ row[i].status # "UNBORN"
    BY <1>6, <2>1 DEF O!BeginEditDrink
  <2>3. Warranted(BarOf[i], i, l, q)
    BY <1>1, <1>l, <2>1, <2>2 DEF Warranted, Existing, OnTerrace
  <2>4. QED BY <2>2, <2>3, Arrives
<1>7. CASE O!BeginEdit(r, i) BY <1>3, <1>7 DEF O!BeginEdit, O!OwnerAsks
<1>8. CASE O!BeginActivatePromotion(r, i)
  <2>1. PICK l \in {"countActive", "activate"} :
          l = IF O!PromosLimited(plan[BarOf[i]]) THEN "countActive" ELSE "activate"
    OBVIOUS
  <2>2. O!Asks(r, i, l) /\ i \in Promo /\ row[i].approval = "APPROVED"
    BY <1>8, <2>1 DEF O!BeginActivatePromotion, O!OwnerAsks
  <2>3. QED BY <1>3, <2>1, <2>2
<1>9. CASE O!BeginActivateEvent(r, i)
  BY <1>3, <1>9, Kinds DEF O!BeginActivateEvent, O!OwnerAsks
<1>10. CASE O!BeginPause(r, i) BY <1>3, <1>10 DEF O!BeginPause, O!OwnerAsks
<1>11. CASE O!BeginResubmit(r, i) BY <1>3, <1>11 DEF O!BeginResubmit, O!OwnerAsks
<1>12. CASE O!BeginDelete(r, i) BY <1>3, <1>12 DEF O!BeginDelete, O!OwnerAsks
<1>13. CASE O!BeginApprove(r, i) BY <1>3, <1>13 DEF O!BeginApprove
<1>14. CASE O!BeginSanction(r, i) BY <1>3, <1>14 DEF O!BeginSanction
<1>15. CASE O!BeginRemove(r, i) BY <1>3, <1>15 DEF O!BeginRemove
<1>16. QED
  BY <1>4, <1>5, <1>6, <1>7, <1>8, <1>9, <1>10, <1>11, <1>12, <1>13, <1>14, <1>15 DEF ItemBegins

LEMMA TerraceArrives ==
  ASSUME OffersIInv, NEW r \in Request, NEW b \in O!Owner,
         O!BeginDeclare(r, b) \/ O!BeginWithdraw(r, b) \/ O!BeginVerify(r, b)
  PROVE  OffersIInv'
<1>1. PICK l \in OnTerrace :
        /\ O!Begin(r, b, b, l, O!SomeRarity)
        /\ l \in {"verify", "refuse"} => terrace[b] = "PENDING"
        /\ l = "withdraw" => terrace[b] # "APPROVED"
  BY DEF O!BeginDeclare, O!BeginWithdraw, O!BeginVerify, OnTerrace
<1>2. O!SomeRarity \in Rarity BY ConstantsOK DEF O!SomeRarity
<1>3. b \notin O!Item /\ Promo \subseteq O!Item /\ Special \subseteq O!Item BY Kinds
<1>4. Warranted(b, b, l, O!SomeRarity)
  BY <1>1, <1>2, <1>3 DEF Warranted, Existing, OnTerrace, O!Label
<1>5. QED BY <1>1, <1>4, Arrives

\* r goes on to l within its request.
LEMMA RequestGoesOn ==
  ASSUME OffersIInv, NEW r \in Request, NEW l \in O!Label, O!Goto(r, l), Engaged(r)',
         UNCHANGED <<plan, row, gone, accepted, terrace, outdoor, oserved, reviewed,
                     overtaken, crossed, excused>>,
         menu' \subseteq menu, jumped' \in {jumped, jumped \ {r}}
  PROVE  OffersIInv'
<1>1. opc' = [opc EXCEPT ![r] = l] /\ UNCHANGED <<item, under, had, saw, want>> BY DEF O!Goto
<1>2. O!TypeOK BY DEF OffersIInv
<1>3. O!TypeOK'
  <2>1. opc' \in [Request -> O!Label] BY <1>1, <1>2 DEF O!TypeOK
  <2>2. menu' \subseteq Special /\ jumped' \subseteq Request BY <1>2 DEF O!TypeOK
  <2>3. QED BY <1>1, <1>2, <2>1, <2>2 DEF O!TypeOK, O!Owner
<1>4. ASSUME NEW q \in Request \ {r}
      PROVE  /\ opc'[q] = opc[q] /\ item'[q] = item[q] /\ under'[q] = under[q]
             /\ had'[q] = had[q] /\ saw'[q] = saw[q] /\ want'[q] = want[q]
             /\ q \in overtaken => q \in overtaken'
             /\ q \in jumped => q \in jumped'
  BY <1>1, <1>2 DEF O!TypeOK
<1>5. QED BY <1>3, <1>4, OfferMoves

LEMMA CountRarityStep ==
  ASSUME OffersIInv, NEW r \in Request, O!CountRarity(r)
  PROVE  OffersIInv'
<1>1. opc[r] = "countRarity" BY DEF O!CountRarity
<1>2. Engaged(r) /\ O!TypeOK BY DEF OffersIInv, Requests
<1>3. item[r] \in Special BY <1>1, <1>2 DEF Engaged, Task
<1>4. PICK i, p, w : i = item[r] /\ p = under[r] /\ w = want[r] OBVIOUS
<1>5. Cardinality(O!OfRarity(BarOf[i], w) \ {i}) < Quota[p][w]
  BY <1>4, SameOffers DEF O!CountRarity
<1>6. PICK l \in {"countAll", "menuOff", "edit"} :
        l = IF had[r].status = "UNBORN" THEN "countAll" ELSE IF O!NeedsReview(r) THEN "menuOff" ELSE "edit"
  OBVIOUS
<1>7. /\ O!Goto(r, l) /\ jumped' = jumped \ {r}
      /\ UNCHANGED <<plan, row, gone, menu, accepted, terrace, outdoor, oserved, reviewed,
                     overtaken, crossed, excused>>
  BY <1>6 DEF O!CountRarity, O!tables
<1>8. opc'[r] = l /\ UNCHANGED <<item, under, had, saw, want>>
  BY <1>2, <1>7 DEF O!Goto, O!TypeOK
<1>9. Engaged(r)'
  <2>1. i \in O!Item /\ i \notin O!Owner /\ i \notin Promo BY <1>3, <1>4, Kinds
  <2>2. Task(r)' BY <1>3, <1>4, <1>6, <1>8, <2>1 DEF Task, Existing, OnTerrace
  <2>3. Current(r)' BY <1>1, <1>2, <1>7, <1>8 DEF Engaged, Current, O!Owner
  <2>4. OffMenu(r)' BY <1>6, <1>8 DEF OffMenu, O!NeedsReview
  <2>5. O!OfRarity(BarOf[i], w)' = O!OfRarity(BarOf[i], w) BY <1>7 DEF O!OfRarity
  <2>6. FreeSlot(r)' BY <1>4, <1>5, <1>6, <1>8, <2>5 DEF FreeSlot
  <2>7. QED BY <2>2, <2>3, <2>4, <2>6 DEF Engaged
<1>10. QED BY <1>6, <1>7, <1>9, RequestGoesOn DEF O!Label

LEMMA CountAllStep ==
  ASSUME OffersIInv, NEW r \in Request, O!CountAll(r)
  PROVE  OffersIInv'
<1>1. opc[r] = "countAll" /\ O!Goto(r, "insert")
      /\ UNCHANGED <<plan, row, gone, menu, accepted, terrace, outdoor, oserved, reviewed,
                     overtaken, crossed, jumped, excused>>
  BY DEF O!CountAll, O!tables, O!slots
<1>2. Engaged(r) /\ O!TypeOK BY DEF OffersIInv, Requests
<1>3. item[r] \in Special /\ item[r] \in O!Item /\ item[r] \notin O!Owner /\ item[r] \notin Promo
  BY <1>1, <1>2, Kinds DEF Engaged, Task
<1>4. opc'[r] = "insert" /\ UNCHANGED <<item, under, had, saw, want>>
  BY <1>1, <1>2 DEF O!Goto, O!TypeOK
<1>5. PICK i, p, w : i = item[r] /\ p = under[r] /\ w = want[r] OBVIOUS
<1>6. Engaged(r)'
  <2>1. Task(r)' BY <1>3, <1>4 DEF Task, Existing, OnTerrace
  <2>2. Current(r)' BY <1>1, <1>2, <1>4 DEF Engaged, Current, O!Owner
  <2>3. OffMenu(r)' BY <1>4 DEF OffMenu
  <2>4. O!OfRarity(BarOf[i], w)' = O!OfRarity(BarOf[i], w) BY <1>1 DEF O!OfRarity
  <2>5. Counted(r) BY <1>1, <1>3 DEF Counted
  <2>6. FreeSlot(r)' BY <1>1, <1>2, <1>4, <1>5, <2>4, <2>5 DEF Engaged, FreeSlot
  <2>7. QED BY <2>1, <2>2, <2>3, <2>6 DEF Engaged
<1>7. QED BY <1>1, <1>6, RequestGoesOn DEF O!Label

LEMMA MenuOffStep ==
  ASSUME OffersIInv, NEW r \in Request, O!MenuOff(r)
  PROVE  OffersIInv'
<1>1. opc[r] = "menuOff" /\ O!Goto(r, "edit") /\ menu' = menu \ {item[r]}
      /\ UNCHANGED <<plan, row, gone, accepted, terrace, outdoor, oserved, reviewed,
                     overtaken, crossed, jumped, excused>>
  BY DEF O!MenuOff, O!slots
<1>2. Engaged(r) /\ O!TypeOK BY DEF OffersIInv, Requests
<1>3. item[r] \in Special /\ item[r] \in O!Item /\ item[r] \notin O!Owner /\ item[r] \notin Promo
  BY <1>1, <1>2, Kinds DEF Engaged, Task
<1>4. opc'[r] = "edit" /\ UNCHANGED <<item, under, had, saw, want>>
  BY <1>1, <1>2 DEF O!Goto, O!TypeOK
<1>5. PICK i, p, w : i = item[r] /\ p = under[r] /\ w = want[r] OBVIOUS
<1>6. Engaged(r)'
  <2>1. Task(r)' BY <1>1, <1>2, <1>3, <1>4 DEF Engaged, Task, Existing, OnTerrace
  <2>2. Current(r)' BY <1>1, <1>2, <1>4 DEF Engaged, Current, O!Owner
  <2>3. OffMenu(r)' BY <1>1, <1>4 DEF OffMenu
  <2>4. O!OfRarity(BarOf[i], w)' = O!OfRarity(BarOf[i], w) BY <1>1 DEF O!OfRarity
  <2>5. Counted(r)' => Counted(r) BY <1>1, <1>4 DEF Counted
  <2>6. FreeSlot(r)' BY <1>1, <1>2, <1>4, <1>5, <2>4, <2>5 DEF Engaged, FreeSlot
  <2>7. QED BY <2>1, <2>2, <2>3, <2>6 DEF Engaged
<1>7. QED BY <1>1, <1>6, RequestGoesOn DEF O!Label

LEMMA CountActiveStep ==
  ASSUME OffersIInv, NEW r \in Request, O!CountActive(r)
  PROVE  OffersIInv'
<1>1. opc[r] = "countActive" /\ O!Goto(r, "activate") /\ jumped' = jumped \ {r}
      /\ UNCHANGED <<plan, row, gone, menu, accepted, terrace, outdoor, oserved, reviewed,
                     overtaken, crossed, excused>>
  BY DEF O!CountActive, O!tables
<1>2. Engaged(r) /\ O!TypeOK BY DEF OffersIInv, Requests
<1>3. item[r] \in Promo /\ item[r] \in O!Item /\ item[r] \notin O!Owner /\ item[r] \notin Special
  BY <1>1, <1>2, Kinds DEF Engaged, Task
<1>4. opc'[r] = "activate" /\ UNCHANGED <<item, under, had, saw, want>>
  BY <1>1, <1>2 DEF O!Goto, O!TypeOK
<1>5. PICK i, p, w : i = item[r] /\ p = under[r] /\ w = want[r] OBVIOUS
<1>6. Cardinality(O!ActivePromos(BarOf[i])) < ActiveLimit
  BY <1>5, SameOffers DEF O!CountActive
<1>7. Cardinality(O!ActivePromos(BarOf[i]) \ {i}) < ActiveLimit
  <2> DEFINE S == O!ActivePromos(BarOf[i])
             T == O!ActivePromos(BarOf[i]) \ {i}
  <2>1. S \subseteq Promo /\ T \subseteq S /\ Cardinality(S) < ActiveLimit
    BY <1>6 DEF O!ActivePromos
  <2> HIDE DEF S, T
  <2>2. Cardinality(T) \in Nat /\ Cardinality(S) \in Nat /\ Cardinality(T) <= Cardinality(S)
    BY <2>1, Subcount
  <2>3. ActiveLimit \in Nat BY ConstantsOK
  <2>4. Cardinality(T) < ActiveLimit BY <2>1, <2>2, <2>3
  <2>5. QED BY <2>4 DEF T
<1>8. Engaged(r)'
  <2>1. Task(r)' BY <1>1, <1>2, <1>3, <1>4 DEF Engaged, Task, Existing, OnTerrace
  <2>2. Current(r)' BY <1>1, <1>2, <1>4 DEF Engaged, Current, O!Owner
  <2>3. OffMenu(r)' BY <1>4 DEF OffMenu
  <2>4. O!ActivePromos(BarOf[i])' = O!ActivePromos(BarOf[i]) BY <1>1 DEF O!ActivePromos
  <2>5. ~Counted(r)' BY <1>3, <1>4 DEF Counted
  <2>6. FreeSlot(r)' BY <1>4, <1>5, <1>7, <2>4, <2>5 DEF FreeSlot
  <2>7. QED BY <2>1, <2>2, <2>3, <2>6 DEF Engaged
<1>9. QED BY <1>1, <1>8, RequestGoesOn DEF O!Label

LEMMA OfferFails ==
  ASSUME OffersIInv, NEW r \in Request, O!Fail(r)
  PROVE  OffersIInv'
<1>1. O!Return(r) /\ UNCHANGED <<plan, row, gone, menu, accepted, terrace, outdoor, oserved,
                                 reviewed, overtaken, crossed, jumped, excused>>
  BY DEF O!Fail, O!tables, O!slots
<1>2. O!TypeOK BY DEF OffersIInv
<1>3. O!TypeOK' BY <1>1, <1>2, ReturnedTypes DEF O!TypeOK
<1>4. opc'[r] = "idle" BY <1>1, <1>2 DEF O!Return, O!TypeOK
<1>5. Engaged(r)' BY <1>4, AtRest
<1>6. ASSUME NEW q \in Request \ {r}
      PROVE  /\ opc'[q] = opc[q] /\ item'[q] = item[q] /\ under'[q] = under[q]
             /\ had'[q] = had[q] /\ saw'[q] = saw[q] /\ want'[q] = want[q]
             /\ q \in overtaken => q \in overtaken'
             /\ q \in jumped => q \in jumped'
  BY <1>1, <1>2 DEF O!Return, O!TypeOK
<1>7. menu' \subseteq menu BY <1>1
<1>8. QED BY <1>1, <1>3, <1>5, <1>6, <1>7, OfferMoves

\* The limits of a plan bind only what is granted under it.
LEMMA ChangePlanStep ==
  ASSUME OffersIInv, NEW b \in O!Owner, NEW p \in O!Plan, O!ChangePlan(b, p)
  PROVE  OffersIInv'
<1>1. /\ plan' = [plan EXCEPT ![b] = p] /\ oserved < MaxPublished /\ oserved' = oserved + 1
      /\ excused' = excused \cup {i \in Promo \cup Special :
                                    BarOf[i] = b /\ i \notin gone /\ row[i].status # "UNBORN"}
      /\ UNCHANGED <<row, gone, menu, accepted, terrace, outdoor, opc, item, under, had, saw, want,
                     reviewed, overtaken, crossed, jumped>>
  BY DEF O!ChangePlan, O!locals
<1>2. O!TypeOK /\ O!QuotasHold BY DEF OffersIInv
<1>3. O!TypeOK'
  <2>1. oserved' \in 0..MaxPublished
    <3>1. MaxPublished \in Nat BY ConstantsOK
    <3>2. oserved \in 0..MaxPublished BY <1>2 DEF O!TypeOK
    <3>3. QED BY <1>1, <3>1, <3>2
  <2>2. plan' \in [O!Owner -> O!Plan] BY <1>1, <1>2 DEF O!TypeOK
  <2>3. excused' \subseteq O!Item BY <1>1, <1>2, Kinds DEF O!TypeOK
  <2>4. QED BY <1>1, <1>2, <2>1, <2>2, <2>3 DEF O!TypeOK
<1>4. \A i \in O!Item : Sound(i)'
  BY <1>1 DEF OffersIInv, Items, Sound, Reviewed, Scannable, Judged, Accepted, O!Live, O!EventShown
<1>5. Items' BY <1>1, <1>4 DEF OffersIInv, Items
<1>6. Terraces' BY <1>1 DEF OffersIInv, Terraces
<1>7. /\ \A c, w : O!OfRarity(c, w)' = O!OfRarity(c, w)
      /\ \A c : O!ActivePromos(c)' = O!ActivePromos(c)
  BY <1>1 DEF O!OfRarity, O!ActivePromos
<1>8. ASSUME NEW q \in Request PROVE Engaged(q)'
  <2>1. PICK x, y, w : x = item[q] /\ y = under[q] /\ w = want[q] OBVIOUS
  <2>2. Engaged(q) BY DEF OffersIInv, Requests
  <2>3. QED BY <1>1, <1>2, <1>7, <2>1, <2>2, StaysEngaged
<1>9. O!QuotasHold'
  <2>1. Cardinality({}) = 0 BY FS_EmptySet
  <2>2. ASSUME NEW c \in O!Owner, NEW w \in Rarity
        PROVE  \/ plan'[c] = plan[c] /\ (O!OfRarity(c, w) \ excused)' \subseteq O!OfRarity(c, w) \ excused
               \/ Cardinality((O!OfRarity(c, w) \ excused)') <= Quota[plan'[c]][w]
    <3>1. CASE c = b
      <4>1. O!OfRarity(c, w) \ excused' = {} BY <1>1, <3>1 DEF O!OfRarity
      <4>2. (O!OfRarity(c, w) \ excused)' = {} BY <1>7, <4>1
      <4>3. Cardinality((O!OfRarity(c, w) \ excused)') = 0 BY <2>1, <4>2
      <4>4. plan'[c] \in {"EXPLORER", "INTERMEDIATE", "LEGEND"} BY <1>3 DEF O!TypeOK, O!Plan
      <4>5. Quota[plan'[c]][w] \in Nat BY <4>4, ConstantsOK
      <4>6. QED BY <4>3, <4>5
    <3>2. CASE c # b
      <4>1. plan'[c] = plan[c] BY <1>1, <1>2, <3>2 DEF O!TypeOK
      <4>2. QED BY <1>1, <1>7, <4>1
    <3>3. QED BY <3>1, <3>2
  <2>3. ASSUME NEW c \in O!Owner
        PROVE  \/ plan'[c] = plan[c] /\ (O!ActivePromos(c) \ excused)' \subseteq O!ActivePromos(c) \ excused
               \/ O!PromosLimited(plan'[c]) => Cardinality((O!ActivePromos(c) \ excused)') <= ActiveLimit
    <3>1. CASE c = b
      <4>1. O!ActivePromos(c) \ excused' = {} BY <1>1, <3>1 DEF O!ActivePromos
      <4>2. (O!ActivePromos(c) \ excused)' = {} BY <1>7, <4>1
      <4>3. Cardinality((O!ActivePromos(c) \ excused)') = 0 BY <2>1, <4>2
      <4>4. ActiveLimit \in Nat BY ConstantsOK
      <4>5. QED BY <4>3, <4>4
    <3>2. CASE c # b
      <4>1. plan'[c] = plan[c] BY <1>1, <1>2, <3>2 DEF O!TypeOK
      <4>2. QED BY <1>1, <1>7, <4>1
    <3>3. QED BY <3>1, <3>2
  <2>4. QED BY <1>2, <2>2, <2>3, LimitsKept
<1>10. Requests' BY <1>8 DEF Requests
<1>11. QED BY <1>3, <1>5, <1>6, <1>9, <1>10 DEF OffersIInv

\* The rows of off change under whoever works on them.
LEMMA Sweeps ==
  ASSUME OffersIInv, NEW off \in SUBSET O!Item, row' \in [O!Item -> O!Rows],
         \A i \in off : /\ Sound(i)' /\ row'[i].status # "UNBORN"
                        /\ row[i].status # "UNBORN" /\ row'[i].rarity = row[i].rarity,
         \A i \in O!Item \ off : row'[i] = row[i],
         overtaken' = overtaken \cup UNION {O!Busy(i) : i \in off},
         UNCHANGED <<plan, gone, menu, accepted, terrace, outdoor, oserved, opc, item, under, had,
                     saw, want, reviewed, crossed>>,
         excused' \subseteq O!Item, excused \subseteq excused',
         jumped' \subseteq Request, jumped \subseteq jumped',
         \A i \in off \cap Promo : row'[i].status = "ACTIVE" =>
           i \in excused' /\ O!Rivals(i) \subseteq jumped'
  PROVE  OffersIInv'
<1>1. O!TypeOK /\ row \in [O!Item -> O!Rows] BY DEF OffersIInv, O!TypeOK
<1>2. overtaken' \subseteq Request BY <1>1 DEF O!Busy, O!TypeOK
<1>3. O!TypeOK' BY <1>1, <1>2 DEF O!TypeOK
<1>4. ASSUME NEW i \in O!Item PROVE Sound(i)' /\ (i \in gone' => row'[i].status # "UNBORN")
  <2>1. CASE i \in off BY <2>1
  <2>2. CASE i \notin off
    <3>1. Sound(i) /\ (i \in gone => row[i].status # "UNBORN") BY DEF OffersIInv, Items
    <3>2. row'[i] = row[i] BY <2>2
    <3>3. QED
      BY <3>1, <3>2 DEF Sound, Reviewed, Scannable, Judged, Accepted, O!Live, O!EventShown
  <2>3. QED BY <2>1, <2>2
<1>5. Items' BY <1>4 DEF Items
<1>6. Terraces' BY DEF OffersIInv, Terraces
<1>7. \A b, w : O!OfRarity(b, w)' \subseteq O!OfRarity(b, w)
  BY Kinds DEF O!OfRarity
<1>8. \A b : O!ActivePromos(b)' \subseteq
        O!ActivePromos(b) \cup {i \in off \cap Promo : row'[i].status = "ACTIVE" /\ BarOf[i] = b}
  BY Kinds DEF O!ActivePromos
<1>9. ASSUME NEW q \in Request PROVE Engaged(q)'
  <2>1. PICK x, y, w : x = item[q] /\ y = under[q] /\ w = want[q] OBVIOUS
  <2>2. Engaged(q) BY DEF OffersIInv, Requests
  <2>3. ASSUME opc[q] # "idle", x \in O!Item
        PROVE  /\ row[x].status # "UNBORN" => row'[x].status # "UNBORN"
               /\ q \notin overtaken' => row'[x] = row[x]
    <3>1. CASE x \in off
      <4>1. q \in O!Busy(x) BY <2>1, <2>3 DEF O!Busy
      <4>2. QED BY <3>1, <4>1
    <3>2. CASE x \notin off BY <2>3, <3>2
    <3>3. QED BY <3>1, <3>2
  <2>4. ASSUME opc[q] # "idle", q \notin jumped', x \in Promo
        PROVE  O!ActivePromos(BarOf[x])' \subseteq O!ActivePromos(BarOf[x])
    <3>1. \A i \in Promo : BarOf[i] = BarOf[x] => q \in O!Rivals(i)
      BY <2>1, <2>4 DEF O!Rivals
    <3>2. {i \in off \cap Promo : row'[i].status = "ACTIVE" /\ BarOf[i] = BarOf[x]} = {}
      BY <2>4, <3>1
    <3>3. QED BY <1>8, <3>2
  <2>5. QED BY <1>1, <1>7, <2>1, <2>2, <2>3, <2>4, StaysEngaged
<1>10. O!QuotasHold'
  <2>1. \A b, w : (O!OfRarity(b, w) \ excused)' \subseteq O!OfRarity(b, w) \ excused BY <1>7
  <2>2. \A b : (O!ActivePromos(b) \ excused)' \subseteq O!ActivePromos(b) \ excused BY <1>8
  <2>3. QED BY <1>1, <2>1, <2>2, LimitsKept DEF OffersIInv
<1>11. Requests' BY <1>9 DEF Requests
<1>12. QED BY <1>3, <1>5, <1>6, <1>10, <1>11 DEF OffersIInv

LEMMA SyncApprovedStep ==
  ASSUME OffersIInv, O!SyncApproved
  PROVE  OffersIInv'
<1>1. PICK off : off = {i \in Promo \ gone : row[i].approval = "APPROVED" /\ row[i].status # "ACTIVE"
                                             /\ row[i].status # "UNBORN"}
  OBVIOUS
<1>2. /\ row' = [i \in O!Item |-> IF i \in off THEN [row[i] EXCEPT !.status = "ACTIVE"] ELSE row[i]]
      /\ overtaken' = overtaken \cup UNION {O!Busy(i) : i \in off}
      /\ excused' = excused \cup off
      /\ jumped' = jumped \cup UNION {O!Rivals(i) : i \in off}
      /\ UNCHANGED <<plan, gone, menu, accepted, terrace, outdoor, oserved, opc, item, under, had,
                     saw, want, reviewed, crossed>>
  BY <1>1 DEF O!SyncApproved, O!locals
<1>3. off \subseteq O!Item BY <1>1, Kinds
<1>4. O!TypeOK /\ row \in [O!Item -> O!Rows] BY DEF OffersIInv, O!TypeOK
<1>5. ASSUME NEW i \in off
      PROVE  Like(row'[i], "ACTIVE", "APPROVED", row[i].text, row[i].rarity)
  <2>1. PICK x \in O!Rows : x = row[i] BY <1>3, <1>4
  <2>2. Like([x EXCEPT !.status = "ACTIVE"], "ACTIVE", x.approval, x.text, x.rarity)
    BY OneField DEF O!Statuses
  <2>3. row'[i] = [x EXCEPT !.status = "ACTIVE"] BY <1>2, <1>3, <2>1
  <2>4. QED BY <1>1, <2>1, <2>2, <2>3
<1>6. row' \in [O!Item -> O!Rows]
  <2>1. \A i \in off : row'[i] \in O!Rows BY <1>5 DEF Like
  <2>2. \A i \in O!Item \ off : row'[i] = row[i] BY <1>2
  <2>3. \A i \in O!Item : row'[i] \in O!Rows BY <1>4, <2>1, <2>2
  <2>4. QED BY <1>2, <2>3
<1>7. ASSUME NEW i \in off
      PROVE  /\ Sound(i)' /\ row'[i].status # "UNBORN"
             /\ row[i].status # "UNBORN" /\ row'[i].rarity = row[i].rarity
  <2>1. i \in Promo /\ i \notin Special \cup Package \cup Event BY <1>1, Kinds
  <2>2. i \notin menu' BY <1>2, <1>4, <2>1 DEF O!TypeOK
  <2>3. Judged(i)' BY <1>5 DEF Judged, Like
  <2>4. Sound(i)' BY <2>1, <2>2, <2>3 DEF Sound, Reviewed, Scannable, Accepted
  <2>5. QED BY <1>1, <1>5, <2>4 DEF Like
<1>8. \A i \in O!Item \ off : row'[i] = row[i] BY <1>2
<1>9. excused' \subseteq O!Item /\ jumped' \subseteq Request
  BY <1>2, <1>3, <1>4 DEF O!Rivals, O!TypeOK
<1>10. QED BY <1>2, <1>3, <1>6, <1>7, <1>8, <1>9, Sweeps

LEMMA ArchiveStep ==
  ASSUME OffersIInv, O!ArchiveInFeed \/ \E b \in O!Owner : O!ArchiveOwned(b)
  PROVE  OffersIInv'
<1>1. PICK off \in SUBSET {i \in Event \ gone : row[i].status = "ACTIVE"} :
        /\ row' = [i \in O!Item |-> IF i \in off THEN [row[i] EXCEPT !.status = "ARCHIVED"] ELSE row[i]]
        /\ overtaken' = overtaken \cup UNION {O!Busy(i) : i \in off}
        /\ UNCHANGED <<plan, gone, menu, accepted, terrace, outdoor, oserved, opc, item, under, had,
                       saw, want, reviewed, crossed, jumped, excused>>
  <2>1. CASE O!ArchiveInFeed BY <2>1 DEF O!ArchiveInFeed, O!locals, O!slots
  <2>2. ASSUME NEW b \in O!Owner, O!ArchiveOwned(b)
        PROVE  \E ended \in SUBSET {i \in Event \ gone : row[i].status = "ACTIVE"} :
        /\ row' = [i \in O!Item |-> IF i \in ended THEN [row[i] EXCEPT !.status = "ARCHIVED"] ELSE row[i]]
        /\ overtaken' = overtaken \cup UNION {O!Busy(i) : i \in ended}
        /\ UNCHANGED <<plan, gone, menu, accepted, terrace, outdoor, oserved, opc, item, under, had,
                       saw, want, reviewed, crossed, jumped, excused>>
    BY <2>2 DEF O!ArchiveOwned, O!locals, O!slots
  <2>3. QED BY <2>1, <2>2
<1>2. off \subseteq O!Item BY Kinds
<1>3. O!TypeOK /\ row \in [O!Item -> O!Rows] BY DEF OffersIInv, O!TypeOK
<1>4. ASSUME NEW i \in off
      PROVE  Like(row'[i], "ARCHIVED", row[i].approval, row[i].text, row[i].rarity)
  <2>1. PICK x \in O!Rows : x = row[i] BY <1>2, <1>3
  <2>2. Like([x EXCEPT !.status = "ARCHIVED"], "ARCHIVED", x.approval, x.text, x.rarity)
    BY OneField DEF O!Statuses
  <2>3. row'[i] = [x EXCEPT !.status = "ARCHIVED"] BY <1>1, <1>2, <2>1
  <2>4. QED BY <2>1, <2>2, <2>3
<1>5. row' \in [O!Item -> O!Rows]
  <2>1. \A i \in off : row'[i] \in O!Rows BY <1>4 DEF Like
  <2>2. \A i \in O!Item \ off : row'[i] = row[i] BY <1>1
  <2>3. \A i \in O!Item : row'[i] \in O!Rows BY <1>3, <2>1, <2>2
  <2>4. QED BY <1>1, <2>3
<1>6. ASSUME NEW i \in off
      PROVE  /\ Sound(i)' /\ row'[i].status # "UNBORN" /\ i \notin Promo
             /\ row[i].status # "UNBORN" /\ row'[i].rarity = row[i].rarity
  <2>1. i \in Event /\ i \notin Special \cup Package \cup Promo BY Kinds
  <2>2. i \notin menu' BY <1>1, <1>3, <2>1 DEF O!TypeOK
  <2>3. Accepted(i)' BY <1>4 DEF Accepted, O!EventShown, O!Live, Like
  <2>4. Sound(i)' BY <2>1, <2>2, <2>3 DEF Sound, Reviewed, Scannable, Judged
  <2>5. QED BY <1>4, <2>1, <2>4 DEF Like
<1>7. \A i \in O!Item \ off : row'[i] = row[i] BY <1>1
<1>8. excused' \subseteq O!Item /\ jumped' \subseteq Request BY <1>1, <1>3 DEF O!TypeOK
<1>9. QED BY <1>1, <1>2, <1>5, <1>6, <1>7, <1>8, Sweeps

\* Whoever writes the status of a terrace.
Verifying(r) == O!Declare(r) \/ O!Withdraw(r) \/ O!Verify(r) \/ O!Refuse(r)

\* What r writes about the terrace of b, which he has read unless overtaken.
LEMMA TerraceWrite ==
  ASSUME OffersIInv, NEW r \in Request, Verifying(r)
  PROVE  \E b \in O!Owner, s \in O!Terrace :
           /\ b = item[r] /\ opc[r] \in OnTerrace
           /\ terrace' = [terrace EXCEPT ![b] = s]
           /\ overtaken' = (overtaken \cup O!Busy(b)) \ {r}
           /\ crossed' = IF r \in overtaken THEN crossed \cup {b} ELSE crossed
           /\ O!Return(r)
           /\ UNCHANGED <<plan, row, gone, menu, accepted, oserved, reviewed, jumped, excused>>
           /\ outdoor' \in {outdoor, outdoor \cup {b}, outdoor \ {b}}
           /\ r \notin overtaken => terrace[b] = saw[r]
           /\ r \notin overtaken /\ b \notin crossed => (b \in outdoor' <=> s # "NONE")
           /\ r \notin overtaken /\ terrace[b] = "APPROVED" => s = "APPROVED"
<1>1. O!TypeOK /\ Engaged(r) /\ Terraces BY DEF OffersIInv, Requests
<1>2. opc[r] \in OnTerrace
  BY DEF Verifying, O!Declare, O!Withdraw, O!Verify, O!Refuse, O!WritesTerrace, OnTerrace
<1>3. PICK b \in O!Owner : b = item[r] BY <1>1, <1>2 DEF Engaged, Task
<1>4. terrace[b] \in O!Terrace /\ saw[r] \in O!Terrace BY <1>1 DEF O!TypeOK
<1>5. PICK s \in O!Terrace : \E l : O!WritesTerrace(r, l, s) /\
        \/ /\ O!Declare(r) /\ l = "declare"
           /\ s = IF saw[r] \in {"NONE", "REJECTED"} THEN "PENDING" ELSE terrace[b]
        \/ O!Withdraw(r) /\ l = "withdraw" /\ s = "NONE"
        \/ O!Verify(r) /\ l = "verify" /\ s = "APPROVED"
        \/ O!Refuse(r) /\ l = "refuse" /\ s = "REJECTED"
  BY <1>3, <1>4 DEF Verifying, O!Declare, O!Withdraw, O!Verify, O!Refuse, O!Terrace
<1>6. /\ terrace' = [terrace EXCEPT ![b] = s]
      /\ overtaken' = (overtaken \cup O!Busy(b)) \ {r}
      /\ crossed' = IF r \in overtaken THEN crossed \cup {b} ELSE crossed
      /\ O!Return(r)
      /\ UNCHANGED <<plan, row, gone, menu, accepted, oserved, reviewed, jumped, excused>>
  BY <1>3, <1>5 DEF O!WritesTerrace, O!Edits, O!slots
<1>7. outdoor' \in {outdoor, outdoor \cup {b}, outdoor \ {b}}
  BY <1>3, <1>5 DEF O!Declare, O!Withdraw, O!Verify, O!Refuse
<1>8. r \notin overtaken => terrace[b] = saw[r]
  <2>1. opc[r] # "idle" BY <1>2 DEF OnTerrace
  <2>2. QED BY <1>1, <1>3, <2>1 DEF Engaged, Current
<1>9. ASSUME r \notin overtaken, b \notin crossed PROVE b \in outdoor' <=> s # "NONE"
  <2>1. b \in outdoor <=> terrace[b] # "NONE" BY <1>1, <1>9 DEF Terraces
  <2>2. CASE O!Declare(r)
    <3>1. outdoor' = outdoor \cup {b} BY <1>3, <2>2 DEF O!Declare
    <3>2. opc[r] = "declare" BY <2>2 DEF O!Declare, O!WritesTerrace
    <3>3. s = IF saw[r] \in {"NONE", "REJECTED"} THEN "PENDING" ELSE terrace[b]
      BY <1>5, <3>2 DEF O!Withdraw, O!Verify, O!Refuse, O!WritesTerrace
    <3>4. QED BY <1>8, <1>9, <3>1, <3>3
  <2>3. CASE O!Withdraw(r)
    <3>1. outdoor' = outdoor \ {b} BY <1>3, <2>3 DEF O!Withdraw
    <3>2. opc[r] = "withdraw" BY <2>3 DEF O!Withdraw, O!WritesTerrace
    <3>3. s = "NONE" BY <1>5, <3>2 DEF O!Declare, O!Verify, O!Refuse, O!WritesTerrace
    <3>4. QED BY <3>1, <3>3
  <2>4. CASE O!Verify(r)
    <3>1. outdoor' = outdoor \cup {b} BY <1>3, <2>4 DEF O!Verify
    <3>2. opc[r] = "verify" BY <2>4 DEF O!Verify, O!WritesTerrace
    <3>3. s = "APPROVED" BY <1>5, <3>2 DEF O!Declare, O!Withdraw, O!Refuse, O!WritesTerrace
    <3>4. QED BY <3>1, <3>3
  <2>5. CASE O!Refuse(r)
    <3>1. outdoor' = outdoor BY <2>5 DEF O!Refuse
    <3>2. opc[r] = "refuse" BY <2>5 DEF O!Refuse, O!WritesTerrace
    <3>3. s = "REJECTED" BY <1>5, <3>2 DEF O!Declare, O!Withdraw, O!Verify, O!WritesTerrace
    <3>4. saw[r] = "PENDING" BY <1>1, <3>2 DEF Engaged, Task
    <3>5. QED BY <1>8, <1>9, <2>1, <3>1, <3>3, <3>4
  <2>6. QED BY <2>2, <2>3, <2>4, <2>5 DEF Verifying
<1>10. ASSUME r \notin overtaken, terrace[b] = "APPROVED" PROVE s = "APPROVED"
  <2>1. saw[r] = "APPROVED" BY <1>8, <1>10
  <2>2. opc[r] = "declare" BY <1>1, <1>2, <2>1 DEF Engaged, Task, OnTerrace
  <2>3. s = IF saw[r] \in {"NONE", "REJECTED"} THEN "PENDING" ELSE terrace[b]
    BY <1>5, <2>2 DEF O!Withdraw, O!Verify, O!Refuse, O!WritesTerrace
  <2>4. QED BY <1>10, <2>1, <2>3
<1>11. QED BY <1>2, <1>3, <1>6, <1>7, <1>8, <1>9, <1>10

LEMMA TerraceStep ==
  ASSUME OffersIInv, NEW r \in Request, Verifying(r)
  PROVE  OffersIInv'
<1>1. PICK b \in O!Owner, s \in O!Terrace :
        /\ b = item[r] /\ opc[r] \in OnTerrace
        /\ terrace' = [terrace EXCEPT ![b] = s]
        /\ overtaken' = (overtaken \cup O!Busy(b)) \ {r}
        /\ crossed' = IF r \in overtaken THEN crossed \cup {b} ELSE crossed
        /\ O!Return(r)
        /\ UNCHANGED <<plan, row, gone, menu, accepted, oserved, reviewed, jumped, excused>>
        /\ outdoor' \in {outdoor, outdoor \cup {b}, outdoor \ {b}}
        /\ r \notin overtaken /\ b \notin crossed => (b \in outdoor' <=> s # "NONE")
  BY TerraceWrite
<1>2. O!TypeOK BY DEF OffersIInv
<1>3. O!TypeOK'
  <2>1. terrace' \in [O!Owner -> O!Terrace] /\ overtaken' \subseteq Request
        /\ crossed' \subseteq O!Item \cup O!Owner /\ outdoor' \subseteq O!Owner
    BY <1>1, <1>2 DEF O!TypeOK, O!Busy
  <2>2. QED BY <1>1, <1>2, <2>1, ReturnedTypes DEF O!TypeOK
<1>4. \A i \in O!Item : i # b BY Kinds
<1>5. \A i \in O!Item : Sound(i)'
  <2>1. \A i \in O!Item : i \in crossed' <=> i \in crossed BY <1>1, <1>4
  <2>2. QED
    BY <1>1, <2>1
    DEF OffersIInv, Items, Sound, Reviewed, Scannable, Judged, Accepted, O!Live, O!EventShown
<1>6. Items' BY <1>1, <1>5 DEF OffersIInv, Items
<1>7. Terraces'
  <2>1. ASSUME NEW c \in O!Owner \ crossed' PROVE c \in outdoor' <=> terrace'[c] # "NONE"
    <3>1. CASE c = b BY <1>1, <1>2, <2>1, <3>1 DEF O!TypeOK
    <3>2. CASE c # b
      <4>1. c \in outdoor <=> terrace[c] # "NONE" BY <1>1, <2>1 DEF OffersIInv, Terraces
      <4>2. QED BY <1>1, <1>2, <3>2, <4>1 DEF O!TypeOK
    <3>3. QED BY <3>1, <3>2
  <2>2. QED BY <2>1 DEF Terraces, O!Owner
<1>8. /\ \A c, w : O!OfRarity(c, w)' = O!OfRarity(c, w)
      /\ \A c : O!ActivePromos(c)' = O!ActivePromos(c)
  BY <1>1 DEF O!OfRarity, O!ActivePromos
<1>9. ASSUME NEW q \in Request PROVE Engaged(q)'
  <2>1. CASE q = r
    <3>1. opc'[q] = "idle" BY <1>1, <1>2, <2>1 DEF O!Return, O!TypeOK
    <3>2. QED BY <3>1, AtRest
  <2>2. CASE q # r
    <3>1. PICK x, p, w : x = item[q] /\ p = under[q] /\ w = want[q] OBVIOUS
    <3>2. Engaged(q) BY DEF OffersIInv, Requests
    <3>3. /\ opc'[q] = opc[q] /\ item'[q] = x /\ under'[q] = p /\ had'[q] = had[q]
          /\ saw'[q] = saw[q] /\ want'[q] = w
      BY <1>1, <1>2, <2>2, <3>1 DEF O!Return, O!TypeOK
    <3>4. ASSUME opc[q] # "idle", x \in O!Owner, q \notin overtaken' PROVE terrace'[x] = terrace[x]
      <4>1. x # b BY <1>1, <2>2, <3>1, <3>4 DEF O!Busy
      <4>2. QED BY <1>1, <1>2, <3>4, <4>1 DEF O!TypeOK
    <3>5. q \in overtaken => q \in overtaken' BY <1>1, <2>2
    <3>6. QED BY <1>1, <1>2, <1>8, <3>1, <3>2, <3>3, <3>4, <3>5, StaysEngaged
  <2>3. QED BY <2>1, <2>2
<1>10. Requests' BY <1>9 DEF Requests
<1>11. O!QuotasHold' BY <1>1, <1>2, <1>8, LimitsKept DEF OffersIInv
<1>12. QED BY <1>3, <1>6, <1>7, <1>10, <1>11 DEF OffersIInv

LEMMA OffersInit == O!Init => OffersIInv
<1> SUFFICES ASSUME O!Init PROVE OffersIInv
  OBVIOUS
<1>1. PICK drafted \in SUBSET O!Item : \E published \in SUBSET (O!Item \ drafted) :
        /\ row = [i \in O!Item |-> IF i \in drafted THEN O!Fresh(i, O!SomeRarity)
                                   ELSE IF i \in published THEN O!Published(i) ELSE O!Unborn(i)]
        /\ gone \in SUBSET drafted
        /\ menu = published \cap Special /\ accepted = published \cap Event
        /\ excused \in {{}, published \cap Promo}
  BY DEF O!Init
<1>2. PICK published \in SUBSET (O!Item \ drafted) :
        /\ row = [i \in O!Item |-> IF i \in drafted THEN O!Fresh(i, O!SomeRarity)
                                   ELSE IF i \in published THEN O!Published(i) ELSE O!Unborn(i)]
        /\ gone \in SUBSET drafted
        /\ menu = published \cap Special /\ accepted = published \cap Event
        /\ excused \in {{}, published \cap Promo}
  BY <1>1
<1>3. PICK approved \in SUBSET O!Owner :
        /\ terrace = [b \in O!Owner |-> IF b \in approved THEN "APPROVED" ELSE "NONE"]
        /\ outdoor = approved
  BY DEF O!Init
<1>4. O!SomeRarity \in Rarity BY ConstantsOK DEF O!SomeRarity
<1>5. ASSUME NEW i \in O!Item
      PROVE  /\ O!Fresh(i, O!SomeRarity) \in O!Rows /\ O!Fresh(i, O!SomeRarity).status = "DRAFT"
             /\ O!Published(i) \in O!Rows /\ O!Published(i).status = "ACTIVE"
             /\ O!Published(i).text = 0
             /\ i \notin Event => O!Published(i).approval = "APPROVED"
             /\ O!Unborn(i) \in O!Rows /\ O!Unborn(i).status = "UNBORN"
  BY <1>4 DEF O!Fresh, O!Published, O!Unborn, O!Rows, O!Statuses, O!Approvals
<1>6. row \in [O!Item -> O!Rows] BY <1>2, <1>5
<1>7. O!NoRow \in O!Rows BY <1>4 DEF O!NoRow, O!Rows, O!Statuses, O!Approvals
<1>8. /\ gone \subseteq O!Item /\ menu \subseteq Special /\ accepted \subseteq Event
      /\ excused \subseteq O!Item
  BY <1>2, Kinds
<1>9. terrace \in [O!Owner -> O!Terrace] /\ outdoor \subseteq O!Owner BY <1>3 DEF O!Terrace
<1>10. /\ plan \in [O!Owner -> O!Plan] /\ oserved \in 0..MaxPublished
       /\ opc = [r \in Request |-> "idle"] /\ item = [r \in Request |-> None]
       /\ under = [r \in Request |-> "EXPLORER"] /\ had = [r \in Request |-> O!NoRow]
       /\ saw = [r \in Request |-> "NONE"] /\ want = [r \in Request |-> O!SomeRarity]
       /\ reviewed = [i \in O!Item |-> 0]
       /\ overtaken = {} /\ crossed = {} /\ jumped = {}
  BY DEF O!Init
<1>11. O!TypeOK
  <2>1. "idle" \in O!Label /\ "EXPLORER" \in O!Plan /\ "NONE" \in O!Terrace
    BY DEF O!Label, O!Plan, O!Terrace
  <2>2. QED BY <1>4, <1>6, <1>7, <1>8, <1>9, <1>10, <2>1 DEF O!TypeOK
<1>12. ASSUME NEW i \in O!Item PROVE Sound(i) /\ (i \in gone => row[i].status # "UNBORN")
  <2>1. i \in published => i \notin gone /\ row[i] = O!Published(i) BY <1>2
  <2>2. i \notin published => row[i].status # "ACTIVE" BY <1>2, <1>5
  <2>3. Reviewed(i) BY <1>5, <1>10, <2>1, <2>2 DEF Reviewed, O!Live
  <2>4. Scannable(i) BY <1>2, <1>5, <2>1, Kinds DEF Scannable, O!Live
  <2>5. Judged(i) BY <1>5, <2>1, <2>2, Kinds DEF Judged, O!Live
  <2>6. Accepted(i) BY <1>2, <2>2 DEF Accepted, O!EventShown, O!Live
  <2>7. i \in gone => row[i].status # "UNBORN" BY <1>2, <1>5
  <2>8. QED BY <2>3, <2>4, <2>5, <2>6, <2>7 DEF Sound
<1>13. Terraces BY <1>3 DEF Terraces
<1>14. Requests
  <2>1. \A r \in Request : opc[r] = "idle" BY <1>10
  <2>2. QED BY <2>1
    DEF Requests, Engaged, Task, Current, OffMenu, FreeSlot, Counted, Existing, OnTerrace
<1>15. O!QuotasHold
  <2>1. \A b \in O!Owner : \A q \in Rarity : O!Cardinality(O!OfRarity(b, q)) <= Quota[plan[b]][q]
    BY DEF O!Init
  <2>2. \A b \in O!Owner : O!PromosLimited(plan[b]) =>
          O!Cardinality(O!ActivePromos(b) \ excused) <= ActiveLimit
    BY DEF O!Init
  <2>3. ASSUME NEW b \in O!Owner, NEW q \in Rarity
        PROVE  O!Cardinality(O!OfRarity(b, q) \ excused) <= Quota[plan[b]][q]
    <3> DEFINE S == O!OfRarity(b, q)
               T == O!OfRarity(b, q) \ excused
    <3>1. Cardinality(S) <= Quota[plan[b]][q] BY <2>1, SameOffers
    <3>2. T \subseteq S /\ S \subseteq Special BY DEF O!OfRarity
    <3>3. plan[b] \in {"EXPLORER", "INTERMEDIATE", "LEGEND"} BY <1>10 DEF O!Plan
    <3>4. Quota[plan[b]][q] \in Nat BY <3>3, ConstantsOK
    <3> HIDE DEF S, T
    <3>5. Cardinality(T) <= Quota[plan[b]][q] BY <3>1, <3>2, <3>4, Subcount
    <3>6. QED BY <3>5, SameOffers DEF T
  <2>4. QED BY <2>2, <2>3 DEF O!QuotasHold
<1>16. QED BY <1>11, <1>12, <1>13, <1>14, <1>15 DEF OffersIInv, Items

LEMMA OffersNext ==
  ASSUME OffersIInv, O!Next
  PROVE  OffersIInv'
<1>1. CASE O!SyncApproved BY <1>1, SyncApprovedStep
<1>2. CASE O!ArchiveInFeed \/ \E b \in O!Owner : O!ArchiveOwned(b) BY <1>2, ArchiveStep
<1>3. CASE \E b \in O!Owner, p \in O!Plan : O!ChangePlan(b, p) BY <1>3, ChangePlanStep
<1>4. CASE \E r \in O!Arriving, i \in O!Item : ItemBegins(r, i)
  BY <1>4, ItemArrives DEF O!Arriving
<1>5. CASE \E r \in O!Arriving, b \in O!Owner :
             O!BeginDeclare(r, b) \/ O!BeginWithdraw(r, b) \/ O!BeginVerify(r, b)
  BY <1>5, TerraceArrives DEF O!Arriving
<1>6. ASSUME NEW r \in O!Working, O!Owns(r) PROVE OffersIInv'
  <2>1. r \in Request BY DEF O!Working
  <2>2. CASE O!CreatePromotion(r) \/ O!CreatePackage(r) \/ O!CreateEvent(r) \/ O!CreateDrink(r)
    BY <2>1, <2>2, CreatingStep
  <2>3. CASE O!CountRarity(r) BY <2>1, <2>3, CountRarityStep
  <2>4. CASE O!CountAll(r) BY <2>1, <2>4, CountAllStep
  <2>5. CASE O!MenuOff(r) BY <2>1, <2>5, MenuOffStep
  <2>6. CASE O!CountActive(r) BY <2>1, <2>6, CountActiveStep
  <2>7. CASE O!EditPromotion(r) BY <2>1, <2>7, EditPromotionStep
  <2>8. CASE O!EditDrink(r) \/ O!EditPackage(r) BY <2>1, <2>8, EditListingStep
  <2>9. CASE O!EditEvent(r) BY <2>1, <2>9, EditEventStep
  <2>10. CASE O!ActivatePromotion(r) \/ O!ActivateEvent(r) BY <2>1, <2>10, ActivateStep
  <2>11. CASE O!PausePromotion(r) \/ O!PauseEvent(r) BY <2>1, <2>11, PauseStep
  <2>12. CASE O!ResubmitPromotion(r) \/ O!ResubmitDrink(r) \/ O!ResubmitPackage(r)
    BY <2>1, <2>12, ResubmitStep
  <2>13. CASE O!DeletePromotion(r) \/ O!DeleteDrink(r) \/ O!DeletePackage(r) \/ O!DeleteEvent(r)
    BY <2>1, <2>13, DeleteStep
  <2>14. CASE O!Declare(r) \/ O!Withdraw(r) BY <2>1, <2>14, TerraceStep DEF Verifying
  <2>15. QED
    BY <1>6, <2>2, <2>3, <2>4, <2>5, <2>6, <2>7, <2>8, <2>9, <2>10, <2>11, <2>12, <2>13, <2>14
    DEF O!Owns
<1>7. ASSUME NEW r \in O!Working, O!Moderates(r) PROVE OffersIInv'
  <2>1. r \in Request BY DEF O!Working
  <2>2. CASE O!ApprovePromotion(r) \/ O!ApproveDrink(r) \/ O!ApprovePackage(r)
    BY <2>1, <2>2, ApproveStep
  <2>3. CASE Rejecting(r) BY <2>1, <2>3, SanctionStep
  <2>4. CASE O!Verify(r) \/ O!Refuse(r) BY <2>1, <2>4, TerraceStep DEF Verifying
  <2>5. QED BY <1>7, <2>2, <2>3, <2>4 DEF O!Moderates, Rejecting
<1>8. ASSUME NEW r \in O!Working, O!Fail(r) PROVE OffersIInv'
  BY <1>8, OfferFails DEF O!Working
<1>9. QED BY <1>1, <1>2, <1>3, <1>4, <1>5, <1>6, <1>7, <1>8, Zenon DEF O!Next, ItemBegins

LEMMA OffersUntouched == OffersIInv /\ UNCHANGED offers => OffersIInv'
<1> SUFFICES ASSUME OffersIInv, UNCHANGED offers PROVE OffersIInv'
  OBVIOUS
<1>1. O!TypeOK' BY DEF OffersIInv, O!TypeOK, offers
<1>2. Items'
  BY DEF OffersIInv, offers, Items, Sound, Reviewed, Scannable, Judged, Accepted, O!Live, O!EventShown
<1>3. Terraces' BY DEF OffersIInv, offers, Terraces
<1>4. Requests'
  <2>1. ASSUME NEW q \in Request PROVE Engaged(q)'
    <3>1. PICK x, p, w : x = item[q] /\ p = under[q] /\ w = want[q] OBVIOUS
    <3>2. Engaged(q) /\ O!TypeOK BY DEF OffersIInv, Requests
    <3>3. /\ \A b : O!OfRarity(b, w)' = O!OfRarity(b, w)
          /\ \A b : O!ActivePromos(b)' = O!ActivePromos(b)
      BY DEF O!OfRarity, O!ActivePromos, offers
    <3>4. QED BY <3>1, <3>2, <3>3, StaysEngaged DEF offers
  <2>2. QED BY <2>1 DEF Requests
<1>5. O!QuotasHold'
  <2>1. /\ \A b, w : O!OfRarity(b, w)' = O!OfRarity(b, w)
        /\ \A b : O!ActivePromos(b)' = O!ActivePromos(b)
    BY DEF O!OfRarity, O!ActivePromos, offers
  <2>2. QED BY <2>1, LimitsKept DEF OffersIInv, offers
<1>6. QED BY <1>1, <1>2, <1>3, <1>4, <1>5 DEF OffersIInv

-----------------------------------------------------------------------------
(* Rewards: the promotions a user has active at once *)

\* Promotions in the feed, and those of the user that count for his limit.
Shown == {p \in Promo : O!PromoShown(p)}
Held == (live \cap Shown) \ squeezed

\* r is about to claim p; unless another claim came between, it has a slot.
Claiming(r, p) == rpc[r] \in {"renew", "award", "commit"} /\ todo[r] = {<<"PROMO", p>>}
SlotLeft ==
  \A r \in Request \ hurried, p \in Promo : Claiming(r, p) =>
    Cardinality(Held) < MaxSlots /\ \A q \in Held : BarOf[q] # BarOf[p]

HeldOnce ==
  /\ Cardinality(Held) <= MaxSlots
  /\ \A p, q \in Held : p # q => BarOf[p] # BarOf[q]

SlotsIInv == RewardsIInv /\ HeldOnce /\ SlotLeft

LEMMA SlotsStand == SlotsIInv => R!SlotsHold
<1> SUFFICES ASSUME SlotsIInv PROVE R!SlotsHold
  OBVIOUS
<1>1. HeldOnce BY DEF SlotsIInv
<1>2. R!SlotsHold <=> /\ R!Cardinality(Held) <= MaxSlots
                      /\ \A p, q \in Held : p # q => BarOf[p] # BarOf[q]
  BY Zenon DEF R!SlotsHold, Held, Shown
<1>3. QED BY <1>1, <1>2, SameCounts DEF HeldOnce

LEMMA HeldFinite == \A S \in SUBSET Held : IsFiniteSet(S) /\ Cardinality(S) \in Nat
<1>1. Held \subseteq Promo BY DEF Held, Shown
<1>2. QED BY <1>1, ConstantsOK, FS_Subset, FS_CardinalityType

\* Nobody new claims and nothing new counts.
LEMMA SlotsKept ==
  ASSUME HeldOnce, SlotLeft, Held' \subseteq Held,
         \A r \in Request, p \in Promo :
           r \notin hurried' /\ Claiming(r, p)' => r \notin hurried /\ Claiming(r, p)
  PROVE  HeldOnce' /\ SlotLeft'
<1>1. PICK S, T : S = Held /\ T = Held' OBVIOUS
<1>2. Cardinality(T) <= Cardinality(S) /\ Cardinality(T) \in Nat /\ Cardinality(S) \in Nat
  <2>1. S \subseteq Promo BY <1>1 DEF Held, Shown
  <2>2. T \subseteq S BY <1>1
  <2>3. QED BY <2>1, <2>2, Subcount
<1>3. MaxSlots \in Nat BY ConstantsOK
<1>4. Cardinality(Held') <= Cardinality(Held) /\ Cardinality(Held') \in Nat /\ Cardinality(Held) \in Nat
  BY <1>1, <1>2
<1>5. HeldOnce' BY <1>3, <1>4 DEF HeldOnce
<1>6. ASSUME NEW r \in Request \ hurried', NEW p \in Promo, Claiming(r, p)'
      PROVE  Cardinality(Held') < MaxSlots /\ \A q \in Held' : BarOf[q] # BarOf[p]
  <2>1. Cardinality(Held) < MaxSlots /\ \A q \in Held : BarOf[q] # BarOf[p] BY <1>6 DEF SlotLeft
  <2>2. QED BY <1>3, <1>4, <2>1
<1>7. QED BY <1>5, <1>6 DEF SlotLeft

\* The feed does not change with what a user does.
LEMMA SameFeed == UNCHANGED offers => Shown' = Shown
BY DEF offers, Shown, O!PromoShown, O!Live

LEMMA SlotsFrame ==
  ASSUME RewardsIInv, HeldOnce, SlotLeft, UNCHANGED offers, NEW r \in Request, Others(r),
         live' \subseteq live, squeezed' = squeezed, hurried \ {r} \subseteq hurried',
         rpc'[r] \in {"renew", "award", "commit"} =>
           \/ \A p \in Promo : todo'[r] # {<<"PROMO", p>>}
           \/ /\ rpc[r] \in {"renew", "award", "commit"} /\ todo'[r] = todo[r]
              /\ r \in hurried => r \in hurried'
  PROVE  HeldOnce' /\ SlotLeft'
<1>1. Held' \subseteq Held BY SameFeed DEF Held
<1>2. ASSUME NEW q \in Request, NEW p \in Promo, q \notin hurried', Claiming(q, p)'
      PROVE  q \notin hurried /\ Claiming(q, p)
  <2>1. CASE q = r BY <1>2, <2>1 DEF Claiming
  <2>2. CASE q # r BY <1>2, <2>2 DEF Claiming, Others
  <2>3. QED BY <2>1, <2>2
<1>3. QED BY <1>1, <1>2, SlotsKept

\* A claim that was not overtaken takes the slot it has counted.
LEMMA SlotTaken ==
  ASSUME RewardsIInv, HeldOnce, SlotLeft, UNCHANGED offers, NEW r \in Request, NEW p \in Promo,
         Claiming(r, p), R!GoesLive(r), rpc'[r] = "idle"
  PROVE  HeldOnce' /\ SlotLeft'
<1>1. R!PromoOf(r) = p
  <2>1. <<"PROMO", p>> \in R!Key /\ R!Kind(<<"PROMO", p>>) = "PROMO" BY DEF R!Key, R!Kind
  <2>2. <<"PROMO", p>> = <<"PROMO", R!PromoOf(r)>> BY <2>1, PromoKeys DEF Claiming
  <2>3. QED BY <2>2
<1>2. /\ live' = live \cup {p} /\ hurried' = Request \ {r}
      /\ squeezed' = IF r \in hurried THEN squeezed \cup {p} ELSE squeezed \ {p}
  BY <1>1 DEF R!GoesLive
<1>3. SlotLeft' BY <1>2 DEF SlotLeft, Claiming
<1>4. Held' \subseteq IF r \in hurried THEN Held ELSE Held \cup {p}
  BY <1>2, SameFeed DEF Held
<1>5. CASE r \in hurried
  <2>1. \A q \in Request, x \in Promo : ~(q \notin hurried' /\ Claiming(q, x)')
    BY <1>2 DEF Claiming
  <2>2. Held' \subseteq Held BY <1>4, <1>5
  <2>3. QED BY <2>1, <2>2, SlotsKept
<1>6. CASE r \notin hurried
  <2>1. Cardinality(Held) < MaxSlots /\ \A q \in Held : BarOf[q] # BarOf[p] BY <1>6 DEF SlotLeft
  <2>2. p \notin Held BY <2>1
  <2>3. PICK S, T : S = Held /\ T = Held' OBVIOUS
  <2>4. Cardinality(T) <= MaxSlots
    <3>1. S \subseteq Promo BY <2>3 DEF Held, Shown
    <3>2. T \subseteq S \cup {p} BY <1>4, <1>6, <2>3
    <3>3. MaxSlots \in Nat /\ Cardinality(S) < MaxSlots BY <2>1, <2>3, ConstantsOK
    <3>4. p \notin S BY <2>2, <2>3
    <3>5. QED BY <3>1, <3>2, <3>3, <3>4, OneSlot
  <2>5. \A x, y \in Held' : x # y => BarOf[x] # BarOf[y]
    BY <1>4, <1>6, <2>1 DEF HeldOnce
  <2>6. QED BY <1>3, <2>3, <2>4, <2>5 DEF HeldOnce
<1>7. QED BY <1>5, <1>6

\* A request that arrives has counted nothing.
LEMMA SlotsArrive ==
  ASSUME RewardsIInv, HeldOnce, SlotLeft, UNCHANGED offers, NEW r \in Request,
         NEW l, NEW ks, NEW into, R!Arrives(r, l, ks, into),
         l \in {"renew", "award", "commit"} => \A k \in ks : R!Kind(k) # "PROMO"
  PROVE  HeldOnce' /\ SlotLeft'
<1>1. /\ Others(r) /\ rpc'[r] = l /\ todo'[r] = ks
      /\ live' = live /\ squeezed' = squeezed /\ hurried' = hurried \ {r}
  BY DEF RewardsIInv, R!TypeOK, R!Arrives, R!records, Others
<1>2. ASSUME NEW p \in Promo, l \in {"renew", "award", "commit"} PROVE ks # {<<"PROMO", p>>}
  <2>1. R!Kind(<<"PROMO", p>>) = "PROMO" BY DEF R!Kind
  <2>2. <<"PROMO", p>> \notin ks BY <1>2, <2>1
  <2>3. QED BY <2>2
<1>3. QED BY <1>1, <1>2, SlotsFrame

LEMMA SlotsArrivals ==
  ASSUME RewardsIInv, HeldOnce, SlotLeft, UNCHANGED offers, NEW r \in R!Arriving,
         \/ R!LoginRead(r) \/ R!EarnMedal(r)
         \/ \E e \in Entry, inc \in Incoming, chest \in BOOLEAN : R!SyncRead(r, e, inc, chest)
         \/ \E p \in Place : R!CheckIn(r, p)
         \/ \E d \in Drink : R!LogDrink(r, d)
         \/ \E p \in Promo : R!ScanPromo(r, p)
  PROVE  HeldOnce' /\ SlotLeft'
<1>r. r \in Request BY DEF R!Arriving
<1>1. CASE R!LoginRead(r)
  <2>1. PICK l \in {"grant", "login"} : \E ks : R!Arrives(r, l, ks, R!Blank)
    BY <1>1 DEF R!LoginRead
  <2>2. QED BY <1>r, <2>1, SlotsArrive
<1>2. CASE R!EarnMedal(r)
  <2>1. R!Kind(<<"MEDAL">>) = "MEDAL" BY DEF R!Kind
  <2>2. QED BY <1>r, <1>2, <2>1, SlotsArrive DEF R!EarnMedal
<1>3. ASSUME NEW e \in Entry, NEW inc \in Incoming, NEW chest \in BOOLEAN, R!SyncRead(r, e, inc, chest)
      PROVE  HeldOnce' /\ SlotLeft'
  <2>1. PICK ks, into : R!Arrives(r, "sync", ks, into) BY <1>3 DEF R!SyncRead
  <2>2. QED BY <1>r, <2>1, SlotsArrive
<1>4. ASSUME NEW p \in Place, R!CheckIn(r, p) PROVE HeldOnce' /\ SlotLeft'
  <2>1. R!Kind(<<"VISIT", p, today>>) = "VISIT" BY DEF R!Kind
  <2>2. QED BY <1>r, <1>4, <2>1, SlotsArrive DEF R!CheckIn
<1>5. ASSUME NEW d \in Drink, R!LogDrink(r, d) PROVE HeldOnce' /\ SlotLeft'
  <2> DEFINE k == IF <<"DRINK", d>> \in ledger THEN <<"REPEAT", d>> ELSE <<"DRINK", d>>
  <2>1. R!Kind(k) \in {"DRINK", "REPEAT"} BY DEF R!Kind
  <2>2. R!Arrives(r, "award", {k}, R!Blank) BY <1>5 DEF R!LogDrink
  <2> HIDE DEF k
  <2>3. QED BY <1>r, <2>1, <2>2, SlotsArrive
<1>6. ASSUME NEW p \in Promo, R!ScanPromo(r, p) PROVE HeldOnce' /\ SlotLeft'
  <2>1. PICK l \in {"recount", "slots"} : R!Arrives(r, l, {<<"PROMO", p>>}, R!Blank)
    BY <1>6 DEF R!ScanPromo
  <2>2. QED BY <1>r, <2>1, SlotsArrive
<1>7. QED BY <1>1, <1>2, <1>3, <1>4, <1>5, <1>6

\* What is active in the feed is counted before the slot is taken.
LEMMA SlotCounted ==
  ASSUME RewardsIInv, HeldOnce, SlotLeft, UNCHANGED offers, NEW r \in Request, R!ClaimSlot(r)
  PROVE  HeldOnce' /\ SlotLeft'
<1>1. /\ rpc[r] \in {"slots", "recount"} /\ Others(r) /\ todo' = todo
      /\ live' = live /\ squeezed' = squeezed /\ hurried' = hurried \ {r}
  BY DEF R!ClaimSlot, R!Goto, R!records, R!locals, Others, RewardsIInv, R!TypeOK
<1>2. PICK p \in Promo : todo[r] = {<<"PROMO", p>>} BY <1>1 DEF RewardsIInv, Ready
<1>3. R!PromoOf(r) = p
  <2>1. <<"PROMO", p>> \in R!Key /\ R!Kind(<<"PROMO", p>>) = "PROMO" BY DEF R!Key, R!Kind
  <2>2. <<"PROMO", p>> = <<"PROMO", R!PromoOf(r)>> BY <1>2, <2>1, PromoKeys
  <2>3. QED BY <2>2
<1>4. /\ \A q \in live \cap Shown : BarOf[q] # BarOf[R!PromoOf(r)]
      /\ R!Cardinality(live \cap Shown) < MaxSlots
  BY Zenon DEF R!ClaimSlot, Shown
<1>5. Held' = Held BY <1>1, SameFeed DEF Held
<1>6. Cardinality(Held) < MaxSlots /\ \A q \in Held : BarOf[q] # BarOf[p]
  <2>1. PICK S, T : S = live \cap Shown /\ T = Held OBVIOUS
  <2>2. T \subseteq S /\ S \subseteq Promo /\ Cardinality(S) < MaxSlots
    BY <1>4, <2>1, SameCounts DEF Held, Shown
  <2>3. Cardinality(T) <= Cardinality(S) /\ Cardinality(T) \in Nat /\ Cardinality(S) \in Nat
    BY <2>2, Subcount
  <2>4. MaxSlots \in Nat BY ConstantsOK
  <2>5. Cardinality(Held) < MaxSlots BY <2>1, <2>2, <2>3, <2>4
  <2>6. \A q \in Held : BarOf[q] # BarOf[p] BY <1>3, <1>4 DEF Held
  <2>7. QED BY <2>5, <2>6
<1>7. HeldOnce' BY <1>5 DEF HeldOnce
<1>8. ASSUME NEW q \in Request \ hurried', NEW x \in Promo, Claiming(q, x)'
      PROVE  Cardinality(Held) < MaxSlots /\ \A y \in Held : BarOf[y] # BarOf[x]
  <2>1. CASE q = r
    <3>1. {<<"PROMO", x>>} = {<<"PROMO", p>>} BY <1>1, <1>2, <1>8, <2>1 DEF Claiming
    <3>2. <<"PROMO", x>> \in {<<"PROMO", p>>} BY <3>1, Zenon
    <3>3. <<"PROMO", x>> = <<"PROMO", p>> BY <3>2
    <3>4. x = p BY <3>3
    <3>5. QED BY <1>6, <3>4
  <2>2. CASE q # r BY <1>1, <1>8, <2>2 DEF Claiming, Others, SlotLeft
  <2>3. QED BY <2>1, <2>2
<1>9. SlotLeft' BY <1>5, <1>8 DEF SlotLeft
<1>10. QED BY <1>7, <1>9

LEMMA SlotsAward ==
  ASSUME RewardsIInv, HeldOnce, SlotLeft, UNCHANGED offers, NEW r \in Request,
         R!Award(r) \/ R!Renew(r)
  PROVE  HeldOnce' /\ SlotLeft'
<1>1. CASE R!Renew(r)
  <2>1. rpc[r] = "renew" /\ R!GoesLive(r) /\ R!Return(r) BY <1>1 DEF R!Renew
  <2>2. PICK p \in Promo : todo[r] = {<<"PROMO", p>>} BY <2>1 DEF RewardsIInv, Ready
  <2>3. rpc'[r] = "idle" BY <2>1, ReturnShape DEF RewardsIInv
  <2>4. QED BY <2>1, <2>2, <2>3, SlotTaken DEF Claiming
<1>2. CASE R!Award(r)
  <2> DEFINE c == CHOOSE k \in todo[r] : TRUE
  <2>1. PICK k \in R!Key : todo[r] = {k} /\ R!Kind(k) \notin {"STREAK", "CHEST"}
    BY <1>2 DEF R!Award, RewardsIInv, Ready
  <2>2. c = k BY <2>1
  <2>3. /\ rpc[r] = "commit"
        /\ IF R!Kind(k) = "PROMO" THEN R!GoesLive(r) ELSE UNCHANGED <<live, hurried, squeezed>>
        /\ IF R!Kind(k) = "DRINK" THEN R!Goto(r, "mission") /\ UNCHANGED <<day, seen, merged, todo>>
           ELSE R!Return(r)
    BY <1>2, <2>2 DEF R!Award, R!locals
  <2> HIDE DEF c
  <2>4. Others(r) /\ rpc'[r] \in {"mission", "idle"} /\ (R!Kind(k) # "DRINK" => rpc'[r] = "idle")
    <3>1. CASE R!Kind(k) = "DRINK" BY <2>3, <3>1 DEF R!Goto, Others, RewardsIInv, R!TypeOK
    <3>2. CASE R!Kind(k) # "DRINK" BY <2>3, <3>2, ReturnShape DEF RewardsIInv
    <3>3. QED BY <3>1, <3>2
  <2>5. CASE R!Kind(k) = "PROMO"
    <3>1. PICK p \in Promo : k = <<"PROMO", p>> BY <2>1, <2>5, PromoKeys
    <3>2. Claiming(r, p) BY <2>1, <2>3, <3>1 DEF Claiming
    <3>3. R!GoesLive(r) /\ rpc'[r] = "idle" BY <2>3, <2>4, <2>5
    <3>4. QED BY <3>2, <3>3, SlotTaken
  <2>6. CASE R!Kind(k) # "PROMO" BY <2>3, <2>4, <2>6, SlotsFrame
  <2>7. QED BY <2>5, <2>6
<1>3. QED BY <1>1, <1>2

\* What else a request does: it claims nothing, or has read before it claims.
LEMMA SlotsOthers ==
  ASSUME RewardsIInv, HeldOnce, SlotLeft, UNCHANGED offers, NEW r \in Request,
         \/ R!LoginWrite(r) \/ R!SyncWrite(r) \/ \E k \in todo[r] : R!Grant(r, k)
         \/ R!AwardRead(r) \/ R!AwardTaken(r) \/ R!Fail(r)
         \/ R!MissionFind(r) \/ R!MissionUpsert(r) \/ R!MissionComplete(r)
         \/ R!MissionReadXp(r) \/ R!MissionWriteXp(r)
  PROVE  HeldOnce' /\ SlotLeft'
<1>t. R!TypeOK BY DEF RewardsIInv
<1>1. UNCHANGED <<live, squeezed, hurried>>
  BY DEF R!LoginWrite, R!SyncWrite, R!Grant, R!AwardRead, R!AwardTaken, R!Fail, R!MissionFind,
         R!MissionUpsert, R!MissionComplete, R!MissionReadXp, R!MissionWriteXp, R!records, R!history
<1>2. CASE \E ks, rd : R!Continue(r, "grant", ks, rd)
  <2>1. Others(r) /\ rpc'[r] \in {"idle", "grant"} BY <1>t, <1>2, ContinueShape
  <2>2. QED BY <1>1, <2>1, SlotsFrame
<1>3. CASE R!Return(r)
  <2>1. Others(r) /\ rpc'[r] = "idle" BY <1>t, <1>3, ReturnShape
  <2>2. QED BY <1>1, <2>1, SlotsFrame
<1>4. ASSUME NEW l \in {"upsert", "complete", "readXp", "writeXp"}, R!Goto(r, l),
             UNCHANGED todo, \A q \in Request \ {r} : seen'[q] = seen[q]
      PROVE  HeldOnce' /\ SlotLeft'
  <2>1. Others(r) /\ rpc'[r] = l BY <1>t, <1>4 DEF R!Goto, R!TypeOK, Others
  <2>2. QED BY <1>1, <1>4, <2>1, SlotsFrame
<1>5. CASE R!AwardRead(r)
  <2>1. rpc[r] = "award" /\ R!Goto(r, "commit") /\ seen' = [seen EXCEPT ![r] = R!Row] /\ todo' = todo
    BY <1>5 DEF R!AwardRead
  <2>2. Others(r) /\ todo'[r] = todo[r] BY <1>t, <2>1 DEF R!Goto, R!TypeOK, Others
  <2>3. QED BY <1>1, <2>1, <2>2, SlotsFrame
<1>6. CASE R!LoginWrite(r) BY <1>2, <1>6 DEF R!LoginWrite
<1>7. CASE R!SyncWrite(r) BY <1>2, <1>7 DEF R!SyncWrite
<1>8. CASE \E k \in todo[r] : R!Grant(r, k) BY <1>2, <1>8 DEF R!Grant
<1>9. CASE R!AwardTaken(r) \/ R!Fail(r) \/ R!MissionWriteXp(r)
  BY <1>3, <1>9 DEF R!AwardTaken, R!Fail, R!MissionWriteXp
<1>10. CASE R!MissionFind(r) \/ R!MissionUpsert(r) BY <1>3, <1>4, <1>10
  DEF R!MissionFind, R!MissionUpsert, R!locals
<1>11. CASE R!MissionComplete(r) BY <1>4, <1>11 DEF R!MissionComplete, R!locals
<1>12. CASE R!MissionReadXp(r)
  <2>1. R!Goto(r, "writeXp") /\ seen' = [seen EXCEPT ![r] = R!Row] /\ todo' = todo
    BY <1>12 DEF R!MissionReadXp
  <2>2. \A q \in Request \ {r} : seen'[q] = seen[q] BY <1>t, <2>1 DEF R!TypeOK
  <2>3. QED BY <1>4, <2>1, <2>2
<1>13. QED BY <1>5, <1>6, <1>7, <1>8, <1>9, <1>10, <1>11, <1>12

LEMMA SlotsNext ==
  ASSUME RewardsIInv, HeldOnce, SlotLeft, UNCHANGED offers, R!Next
  PROVE  HeldOnce' /\ SlotLeft'
<1>1. CASE R!Tomorrow \/ \E p \in Promo : R!Expire(p)
  <2>1. live' \subseteq live /\ UNCHANGED <<squeezed, hurried, rpc, todo>>
    BY <1>1 DEF R!Tomorrow, R!Expire, R!records, R!locals, R!history
  <2>2. Held' \subseteq Held BY <2>1, SameFeed DEF Held
  <2>3. QED BY <2>1, <2>2, SlotsKept DEF Claiming
<1>2. QED BY <1>1, SlotsArrivals, SlotCounted, SlotsAward, SlotsOthers, Zenon
  DEF R!Next, R!Arriving, R!Working

\* A promotion that comes back into the feed while active is not counted.
LEMMA SlotsPromos ==
  ASSUME HeldOnce, SlotLeft, NEW ps \in SUBSET Promo, R!PromosChange(ps),
         UNCHANGED <<rpc, todo, hurried>>
  PROVE  HeldOnce' /\ SlotLeft'
<1>1. live' = live \ ps /\ squeezed' = squeezed \cup (live \cap (Shown' \ Shown))
  BY Zenon DEF R!PromosChange, Shown
<1>2. Held' \subseteq Held BY <1>1 DEF Held
<1>3. QED BY <1>2, SlotsKept DEF Claiming

LEMMA SlotsInit == R!Init => HeldOnce /\ SlotLeft
<1> SUFFICES ASSUME R!Init PROVE HeldOnce /\ SlotLeft
  OBVIOUS
<1>1. PICK ps \in {{}} \cup {{p} : p \in Promo} : live = ps BY DEF R!Init
<1>2. \A r \in Request : rpc[r] = "idle" BY DEF R!Init
<1>3. PICK S : S = Held OBVIOUS
<1>4. S = {} \/ \E p \in Promo : S = {p} BY <1>1, <1>3 DEF Held
<1>5. Cardinality(S) <= MaxSlots
  <2>1. Cardinality(S) \in {0, 1} BY <1>4, FS_EmptySet, FS_Singleton
  <2>2. MaxSlots \in Nat \ {0} BY ConstantsOK
  <2>3. QED BY <2>1, <2>2
<1>6. HeldOnce BY <1>3, <1>4, <1>5 DEF HeldOnce
<1>7. SlotLeft BY <1>2 DEF SlotLeft, Claiming
<1>8. QED BY <1>6, <1>7

LEMMA SlotsStepHolds == SlotsIInv /\ [Next]_vars => SlotsIInv'
<1> SUFFICES ASSUME RewardsIInv, HeldOnce, SlotLeft, [Next]_vars PROVE HeldOnce' /\ SlotLeft'
  BY RewardsStepHolds DEF SlotsIInv
<1>1. CASE RewardsStep BY <1>1, SlotsNext DEF RewardsStep
<1>2. CASE OffersStep
  <2>1. PICK ps \in SUBSET Promo : ps = (gone' \ gone) \cap Promo OBVIOUS
  <2>2. R!PromosChange(ps) /\ UNCHANGED <<rpc, todo, hurried>> BY <1>2, <2>1 DEF OffersStep
  <2>3. QED BY <2>2, SlotsPromos
<1>3. CASE BookingsStep \/ CampaignsStep \/ DesignsStep \/ PagesStep \/ PlacesStep \/ UNCHANGED vars
  <2>1. UNCHANGED <<rewards, offers>>
    BY <1>3 DEF BookingsStep, CampaignsStep, DesignsStep, PagesStep, PlacesStep, vars
  <2>2. Held' \subseteq Held BY <2>1, SameFeed DEF Held, rewards
  <2>3. QED BY <2>1, <2>2, SlotsKept DEF Claiming, rewards
<1>4. QED BY <1>1, <1>2, <1>3 DEF Next

-----------------------------------------------------------------------------
(* Reservations and campaigns: what their invariants leave of the types *)

BookingRest ==
  /\ vserved \in 0..MaxBooked /\ guestEnded \subseteq Reservation
  /\ outrun \subseteq Request /\ muddled \subseteq Reservation
CampaignRest ==
  /\ event \in {"DRAFT", "ACTIVE", "ENDED"} /\ done \in BOOLEAN
  /\ gserved \in 0..MaxVisited /\ late \subseteq Request

LEMMA OneServed == \A m \in Nat : \A n \in 0..m : n < m => n + 1 \in 0..m
OBVIOUS

LEMMA BookingRestStep ==
  ASSUME BookingIInv, BookingRest, V!Next
  PROVE  BookingRest'
<1>t. \A r \in Request : tables[r] \subseteq Reservation BY DEF BookingIInv, BookingTypes
<1>1. ASSUME NEW r \in Request, NEW S \in SUBSET Reservation, NEW l, V!Begin(r, S, l) PROVE BookingRest'
  <2>1. /\ vserved < MaxBooked /\ vserved' = vserved + 1 /\ outrun' = outrun \ {r}
        /\ UNCHANGED <<guestEnded, muddled>>
    BY <1>1 DEF V!Begin
  <2>2. MaxBooked \in Nat BY ConstantsOK
  <2>3. vserved' \in 0..MaxBooked BY <2>1, <2>2, OneServed DEF BookingRest
  <2>4. QED BY <2>1, <2>3 DEF BookingRest
<1>2. ASSUME NEW r \in Request, NEW v \in Reservation, V!Create(r, v) PROVE BookingRest'
  <2>1. /\ vserved < MaxBooked /\ vserved' = vserved + 1
        /\ UNCHANGED <<guestEnded, outrun, muddled>>
    BY <1>2 DEF V!Create
  <2>2. MaxBooked \in Nat BY ConstantsOK
  <2>3. vserved' \in 0..MaxBooked BY <2>1, <2>2, OneServed DEF BookingRest
  <2>4. QED BY <2>1, <2>3 DEF BookingRest
<1>3. ASSUME NEW r \in Request, NEW S \in SUBSET Reservation, V!Wrote(r, S), vserved' = vserved,
             guestEnded' \in {guestEnded, guestEnded \cup tables[r]}
      PROVE  BookingRest'
  BY <1>t, <1>3 DEF BookingRest, V!Wrote
<1>4. ASSUME NEW r \in V!Arriving, NEW v \in Reservation, NEW l,
             V!BeginComplete(r, v) \/ V!BeginDelete(r, v) \/ V!BeginDecide(r, v, l)
             \/ V!BeginCancel(r, v, l) \/ V!List(r)
      PROVE  BookingRest'
  <2>1. PICK S \in {{}, {v}} : \E k : V!Begin(r, S, k)
    BY <1>4 DEF V!BeginComplete, V!BeginDelete, V!BeginDecide, V!BeginCancel, V!List
  <2>2. QED BY <1>1, <2>1 DEF V!Arriving
<1>5. ASSUME NEW r \in V!Arriving, V!List(r) PROVE BookingRest'
  BY <1>1, <1>5 DEF V!List, V!Arriving
<1>6. ASSUME NEW r \in Request,
             V!Confirm(r) \/ V!Decline(r) \/ V!Complete(r) \/ V!CancelByUser(r) \/ V!CancelByBar(r)
             \/ V!DeletePast(r)
      PROVE  BookingRest'
  <2>1. PICK v \in tables[r] : V!Wrote(r, {v}) /\ vserved' = vserved
    BY <1>6 DEF V!Confirm, V!Decline, V!Complete, V!CancelByUser, V!CancelByBar, V!DeletePast, V!Writes
  <2>2. guestEnded' \in {guestEnded, guestEnded \cup tables[r]}
    BY <1>6 DEF V!Confirm, V!Decline, V!Complete, V!CancelByUser, V!CancelByBar, V!DeletePast
  <2>3. {v} \in SUBSET Reservation BY <1>t
  <2>4. QED BY <1>3, <2>1, <2>2, <2>3
<1>7. ASSUME NEW r \in Request, V!SweepWrite(r) PROVE BookingRest'
  <2>1. PICK S \in SUBSET Reservation : V!Wrote(r, S)
    BY <1>t, <1>7 DEF V!SweepWrite
  <2>2. UNCHANGED <<vserved, guestEnded>> BY <1>7 DEF V!SweepWrite
  <2>3. QED BY <1>3, <2>1, <2>2
<1>8. ASSUME NEW r \in Request, V!SweepFind(r) \/ V!Fail(r) \/ \E v \in Reservation : V!Notify(r, v)
      PROVE  BookingRest'
  BY <1>t, <1>8 DEF BookingRest, V!SweepFind, V!Fail, V!Notify
<1>9. ASSUME NEW v \in Reservation, V!Pass(v) PROVE BookingRest'
  BY <1>9 DEF BookingRest, V!Pass
<1>10. QED BY <1>2, <1>4, <1>5, <1>6, <1>7, <1>8, <1>9 DEF V!Next, V!Arriving, V!Working

LEMMA CampaignRestStep ==
  ASSUME CampaignRest, G!Next
  PROVE  CampaignRest'
<1>1. ASSUME NEW r \in Request, NEW bs, NEW t, NEW l, G!Begin(r, bs, t, l) PROVE gserved' \in 0..MaxVisited
  <2>1. gserved < MaxVisited /\ gserved' = gserved + 1 BY <1>1 DEF G!Begin
  <2>2. MaxVisited \in Nat BY ConstantsOK
  <2>3. QED BY <2>1, <2>2, OneServed DEF CampaignRest
<1>2. ASSUME NEW r \in Request, NEW b \in Bar, G!Unlock(r, b) PROVE CampaignRest'
  BY <1>1, <1>2 DEF CampaignRest, G!Unlock, G!campaign, G!records
<1>3. ASSUME NEW r \in Request,
             \/ \E bs \in SUBSET Bar, t \in Target : G!BeginUpdate(r, bs, t)
             \/ \E l \in G!Admin : G!BeginStatus(r, l)
      PROVE  CampaignRest'
  BY <1>1, <1>3 DEF CampaignRest, G!BeginUpdate, G!BeginStatus, G!campaign, G!records, G!history
<1>4. ASSUME NEW r \in Request,
             \/ G!ReadMembers(r) \/ G!ReadPool(r) \/ G!ReadVisits(r) \/ G!Upsert(r) \/ G!FindMedal(r)
             \/ G!CreateMedal(r) \/ G!Update(r) \/ G!WriteStatus(r) \/ G!Fail(r)
      PROVE  gserved' = gserved
  BY <1>4 DEF G!ReadMembers, G!ReadPool, G!ReadVisits, G!Upsert, G!FindMedal, G!CreateMedal,
     G!Update, G!WriteStatus, G!Fail
<1>5. ASSUME NEW r \in Request,
             G!ReadMembers(r) \/ G!ReadPool(r) \/ G!ReadVisits(r) \/ G!FindMedal(r) \/ G!Fail(r)
      PROVE  CampaignRest'
  BY <1>4, <1>5 DEF CampaignRest, G!ReadMembers, G!ReadPool, G!ReadVisits, G!FindMedal, G!Fail,
     G!campaign, G!records, G!history
<1>6. ASSUME NEW r \in Request, G!Upsert(r) \/ G!CreateMedal(r) \/ G!Update(r) \/ G!WriteStatus(r)
      PROVE  CampaignRest'
  <2>1. CASE G!Upsert(r)
    <3>1. UNCHANGED <<event, gserved, late>> BY <2>1 DEF G!Upsert, G!campaign
    <3>2. done' = (G!MinOf(G!Cardinality(counted[r]), goal[r]) >= goal[r]) BY <2>1 DEF G!Upsert
    <3>3. done' \in BOOLEAN
      <4>1. CASE G!MinOf(G!Cardinality(counted[r]), goal[r]) >= goal[r] BY <3>2, <4>1, Zenon
      <4>2. CASE ~(G!MinOf(G!Cardinality(counted[r]), goal[r]) >= goal[r]) BY <3>2, <4>2
      <4>3. QED BY <4>1, <4>2
    <3>4. QED BY <3>1, <3>3 DEF CampaignRest
  <2>2. CASE G!CreateMedal(r)
    BY <2>2 DEF CampaignRest, G!CreateMedal, G!campaign, G!history
  <2>3. CASE G!Update(r)
    BY <2>3 DEF CampaignRest, G!Update, G!records
  <2>4. CASE G!WriteStatus(r)
    BY <2>4 DEF CampaignRest, G!WriteStatus, G!records
  <2>5. QED BY <1>6, <2>1, <2>2, <2>3, <2>4
<1>7. CASE G!Clock
  BY <1>7 DEF CampaignRest, G!Clock, G!records, G!history
<1>8. QED BY <1>2, <1>3, <1>5, <1>6, <1>7 DEF G!Next, G!Arriving, G!Working

LEMMA RestInit == V!Init /\ G!Init => BookingRest /\ CampaignRest
BY DEF V!Init, G!Init, G!Created, BookingRest, CampaignRest

LEMMA BookingsTyped == BookingIInv /\ BookingRest => V!TypeOK
BY DEF BookingIInv, BookingTypes, BookingRest, V!TypeOK

LEMMA CampaignsTyped == CampaignIInv /\ CampaignRest => G!TypeOK
BY DEF CampaignIInv, CampaignTypes, CampaignRest, G!TypeOK

-----------------------------------------------------------------------------
(* What was decided stands *)

\* A reservation that is over is written only by who had read it before.
LEMMA OutcomeKept == BookingIInv /\ (V!Next \/ UNCHANGED bookings) => V!OutcomeStands
<1> SUFFICES ASSUME BookingIInv, V!Next \/ UNCHANGED bookings, NEW v \in Reservation,
                    status[v] \in V!Final, status'[v] # status[v]
             PROVE  \/ status'[v] = "DELETED" /\ v \in passed
                    \/ \E r \in outrun : v \in tables[r] /\ vpc[r] \in V!Write \cup {"sweepWrite"}
  BY DEF V!OutcomeStands
<1>1. status \in [Reservation -> V!Status] BY DEF BookingIInv, BookingTypes
<1>2. V!Next BY DEF bookings
<1>3. ASSUME NEW r \in Request, NEW l \in V!Write, NEW new, NEW tells,
             V!Writes(r, l, new, tells), new = "DELETED" <=> l = "delete"
      PROVE  \/ status'[v] = "DELETED" /\ v \in passed
             \/ r \in outrun /\ v \in tables[r] /\ vpc[r] \in V!Write
  <2>1. v \in tables[r] /\ vpc[r] = l /\ status'[v] = new BY <1>1, <1>3 DEF V!Writes
  <2>2. r \notin outrun => status[v] \in V!Open \/ (l = "delete" /\ v \in passed)
    BY <2>1 DEF BookingIInv, AsRead
  <2>3. status[v] \notin V!Open BY DEF V!Open, V!Final
  <2>4. QED BY <1>3, <2>1, <2>2, <2>3
<1>4. ASSUME NEW r \in Request, V!SweepWrite(r)
      PROVE  r \in outrun /\ v \in tables[r] /\ vpc[r] = "sweepWrite"
  <2>1. v \in tables[r] /\ vpc[r] = "sweepWrite" BY <1>1, <1>4 DEF V!SweepWrite
  <2>2. r \notin outrun => status[v] \in V!Open BY <2>1 DEF BookingIInv, AsRead
  <2>3. status[v] \notin V!Open BY DEF V!Open, V!Final
  <2>4. QED BY <2>1, <2>2, <2>3
<1>5. PICK r \in Request :
        \/ V!Confirm(r) \/ V!Decline(r) \/ V!Complete(r) \/ V!CancelByUser(r) \/ V!CancelByBar(r)
        \/ V!DeletePast(r) \/ V!SweepWrite(r)
  <2>1. ~ \E x \in Reservation : V!Pass(x) BY DEF V!Pass
  <2>2. ~ \E r \in V!Arriving : V!List(r) BY DEF V!List, V!Begin
  <2>3. ~ \E r \in V!Arriving, x \in Reservation :
            \/ V!Create(r, x) \/ V!BeginComplete(r, x) \/ V!BeginDelete(r, x)
            \/ \E l \in V!Write : V!BeginDecide(r, x, l) \/ V!BeginCancel(r, x, l)
    BY <1>1 DEF V!Create, V!BeginComplete, V!BeginDelete, V!BeginDecide, V!BeginCancel, V!Begin, V!Final
  <2>4. ~ \E r \in V!Working : V!SweepFind(r) \/ V!Fail(r) \/ \E x \in Reservation : V!Notify(r, x)
    BY DEF V!SweepFind, V!Fail, V!Notify
  <2>5. QED BY <1>2, <2>1, <2>2, <2>3, <2>4 DEF V!Next, V!Working
<1>6. CASE V!SweepWrite(r) BY <1>4, <1>6 DEF BookingIInv
<1>7. CASE ~V!SweepWrite(r)
  <2>1. CASE V!Confirm(r) BY <1>3, <2>1 DEF V!Confirm, V!Write
  <2>2. CASE V!Decline(r) BY <1>3, <2>2 DEF V!Decline, V!Write
  <2>3. CASE V!Complete(r) BY <1>3, <2>3 DEF V!Complete, V!Write
  <2>4. CASE V!CancelByUser(r) BY <1>3, <2>4 DEF V!CancelByUser, V!Write
  <2>5. CASE V!CancelByBar(r) BY <1>3, <2>5 DEF V!CancelByBar, V!Write
  <2>6. CASE V!DeletePast(r) BY <1>3, <2>6 DEF V!DeletePast, V!Write
  <2>7. QED BY <1>5, <1>7, <2>1, <2>2, <2>3, <2>4, <2>5, <2>6
<1>8. QED BY <1>6, <1>7

\* A verified terrace is written over only by who had read it before.
LEMMA TerraceKept == OffersIInv /\ (O!Next \/ UNCHANGED offers) => O!TerraceStands
<1> SUFFICES ASSUME OffersIInv, O!Next \/ UNCHANGED offers, NEW b \in O!Owner,
                    terrace[b] = "APPROVED", terrace'[b] # "APPROVED"
             PROVE  \E r \in overtaken : item[r] = b
  BY DEF O!TerraceStands
<1>1. O!Next /\ terrace' # terrace BY DEF offers
<1>2. PICK r \in O!Working : Verifying(r)
  <2>1. ~(O!SyncApproved \/ O!ArchiveInFeed) BY <1>1 DEF O!SyncApproved, O!ArchiveInFeed
  <2>2. ~ \E c \in O!Owner : O!ArchiveOwned(c) \/ \E p \in O!Plan : O!ChangePlan(c, p)
    BY <1>1 DEF O!ArchiveOwned, O!ChangePlan
  <2>3. \A r, c, x, l, w : ~O!Begin(r, c, x, l, w) BY <1>1 DEF O!Begin, O!tables
  <2>4. ~ \E r \in O!Arriving, i \in O!Item : ItemBegins(r, i)
    <3>1. ASSUME NEW r, NEW i, O!BeginCreate(r, i) \/ O!BeginEdit(r, i) \/ O!BeginActivatePromotion(r, i)
                   \/ O!BeginActivateEvent(r, i) \/ O!BeginPause(r, i) \/ O!BeginResubmit(r, i)
          PROVE FALSE
      BY <2>3, <3>1
      DEF O!BeginCreate, O!BeginEdit, O!BeginActivatePromotion, O!BeginActivateEvent, O!BeginPause,
          O!BeginResubmit, O!OwnerAsks, O!Asks
    <3>2. ASSUME NEW r, NEW i, O!BeginDelete(r, i) \/ O!BeginApprove(r, i) \/ O!BeginSanction(r, i)
                   \/ O!BeginRemove(r, i)
          PROVE FALSE
      BY <2>3, <3>2
      DEF O!BeginDelete, O!BeginApprove, O!BeginSanction, O!BeginRemove, O!OwnerAsks, O!Asks
    <3>3. ASSUME NEW r, NEW i, NEW q, O!BeginCreateDrink(r, i, q) \/ O!BeginEditDrink(r, i, q)
          PROVE FALSE
      BY <2>3, <3>3 DEF O!BeginCreateDrink, O!BeginEditDrink
    <3>4. QED BY <3>1, <3>2, <3>3 DEF ItemBegins
  <2>5. ~ \E r \in O!Arriving, c \in O!Owner :
            O!BeginDeclare(r, c) \/ O!BeginWithdraw(r, c) \/ O!BeginVerify(r, c)
    BY <2>3 DEF O!BeginDeclare, O!BeginWithdraw, O!BeginVerify
  <2>6. PICK r \in O!Working : O!Owns(r) \/ O!Moderates(r) \/ O!Fail(r)
    BY <1>1, <2>1, <2>2, <2>4, <2>5, Zenon DEF O!Next, ItemBegins
  <2>p. \A n : ~O!Put(r, n) BY <1>1 DEF O!Put
  <2>7. ~O!Fail(r) BY <1>1 DEF O!Fail, O!tables
  <2>8. ~(\/ O!CreatePromotion(r) \/ O!CreatePackage(r) \/ O!CreateEvent(r) \/ O!CreateDrink(r)
          \/ O!EditPromotion(r) \/ O!EditDrink(r) \/ O!EditPackage(r) \/ O!EditEvent(r))
    BY <2>p DEF O!CreatePromotion, O!CreatePackage, O!CreateEvent, O!CreateDrink, O!Inserts,
       O!EditPromotion, O!EditDrink, O!EditPackage, O!EditsListing, O!EditEvent
  <2>9. ~(O!CountRarity(r) \/ O!CountAll(r) \/ O!MenuOff(r) \/ O!CountActive(r))
    BY <1>1 DEF O!CountRarity, O!CountAll, O!MenuOff, O!CountActive, O!tables
  <2>10. ~(\/ O!ActivatePromotion(r) \/ O!ActivateEvent(r) \/ O!PausePromotion(r) \/ O!PauseEvent(r)
           \/ O!ResubmitPromotion(r) \/ O!ResubmitDrink(r) \/ O!ResubmitPackage(r)
           \/ O!DeletePromotion(r) \/ O!DeleteDrink(r) \/ O!DeletePackage(r) \/ O!DeleteEvent(r))
    BY <2>p DEF O!ActivatePromotion, O!ActivateEvent, O!PausePromotion, O!PauseEvent, O!Pauses,
       O!ResubmitPromotion, O!ResubmitDrink, O!ResubmitPackage, O!Resubmits,
       O!DeletePromotion, O!DeleteDrink, O!DeletePackage, O!DeleteEvent, O!Deletes
  <2>11. ~(O!ApprovePromotion(r) \/ O!ApproveDrink(r) \/ O!ApprovePackage(r) \/ Rejecting(r))
    BY <2>p DEF O!ApprovePromotion, O!ApproveDrink, O!ApprovePackage, O!Approves, Rejecting,
       O!RejectPromotion, O!RejectDrink, O!RejectPackage, O!FlagPromotion, O!FlagDrink, O!FlagPackage,
       O!RemoveEvent, O!Sanctions
  <2>12. QED BY <2>6, <2>7, <2>8, <2>9, <2>10, <2>11, Zenon DEF O!Owns, O!Moderates, Rejecting, Verifying
<1>3. r \in Request BY DEF O!Working
<1>4. PICK c \in O!Owner, s \in O!Terrace :
        /\ c = item[r] /\ terrace' = [terrace EXCEPT ![c] = s]
        /\ r \notin overtaken /\ terrace[c] = "APPROVED" => s = "APPROVED"
  BY <1>2, <1>3, TerraceWrite
<1>5. terrace \in [O!Owner -> O!Terrace] BY DEF OffersIInv, O!TypeOK
<1>6. c = b /\ s # "APPROVED" BY <1>4, <1>5
<1>7. r \in overtaken BY <1>4, <1>6
<1>8. QED BY <1>4, <1>6, <1>7

-----------------------------------------------------------------------------
(* The parts together *)

CatalogueIInv ==
  /\ OffersIInv /\ SlotsIInv
  /\ BookingIInv /\ BookingRest /\ CampaignIInv /\ CampaignRest
  /\ DesignIInv /\ MagazineIInv /\ PlacesIInv

LEMMA CatalogueInit == Init => CatalogueIInv
BY OffersInit, RewardsInit, SlotsInit, BookingInit, CampaignInit, RestInit, DesignInit,
   MagazineInit, PlacesInit DEF Init, CatalogueIInv, SlotsIInv

LEMMA RestUntouched ==
  /\ BookingRest /\ UNCHANGED bookings => BookingRest'
  /\ CampaignRest /\ UNCHANGED campaigns => CampaignRest'
BY DEF BookingRest, CampaignRest, bookings, campaigns

\* A step is one of its component's actions or leaves its tables alone.
LEMMA OneActs ==
  [Next]_vars =>
    /\ O!Next \/ UNCHANGED offers
    /\ V!Next \/ UNCHANGED bookings
    /\ G!Next \/ UNCHANGED campaigns
    /\ D!Next \/ UNCHANGED designs
    /\ M!Next \/ UNCHANGED pages
    /\ P!Next \/ UNCHANGED places
<1> SUFFICES ASSUME [Next]_vars
             PROVE  /\ O!Next \/ UNCHANGED offers
                    /\ V!Next \/ UNCHANGED bookings
                    /\ G!Next \/ UNCHANGED campaigns
                    /\ D!Next \/ UNCHANGED designs
                    /\ M!Next \/ UNCHANGED pages
                    /\ P!Next \/ UNCHANGED places
  OBVIOUS
<1>1. CASE RewardsStep BY <1>1 DEF RewardsStep
<1>2. CASE OffersStep BY <1>2 DEF OffersStep
<1>3. CASE BookingsStep BY <1>3 DEF BookingsStep
<1>4. CASE CampaignsStep BY <1>4 DEF CampaignsStep
<1>5. CASE DesignsStep BY <1>5 DEF DesignsStep
<1>6. CASE PagesStep BY <1>6 DEF PagesStep
<1>7. CASE PlacesStep BY <1>7 DEF PlacesStep
<1>8. CASE UNCHANGED vars BY <1>8 DEF vars
<1>9. QED BY <1>1, <1>2, <1>3, <1>4, <1>5, <1>6, <1>7, <1>8 DEF Next

LEMMA CatalogueStep == CatalogueIInv /\ [Next]_vars => CatalogueIInv'
<1> SUFFICES ASSUME CatalogueIInv, [Next]_vars PROVE CatalogueIInv'
  OBVIOUS
<1>1. OffersIInv' BY OneActs, OffersNext, OffersUntouched DEF CatalogueIInv
<1>2. SlotsIInv' BY SlotsStepHolds DEF CatalogueIInv
<1>3. BookingIInv' /\ BookingRest'
  BY OneActs, BookingStep, BookingsUntouched, BookingRestStep, RestUntouched DEF CatalogueIInv
<1>4. CampaignIInv' /\ CampaignRest'
  BY OneActs, CampaignStep, CampaignsUntouched, CampaignRestStep, RestUntouched DEF CatalogueIInv
<1>5. DesignIInv' BY OneActs, DesignStep, DesignsUntouched DEF CatalogueIInv
<1>6. MagazineIInv' BY OneActs, MagazineStep, MagazineUntouched DEF CatalogueIInv
<1>7. PlacesIInv' BY PlacesIInvStep DEF CatalogueIInv
<1>8. QED BY <1>1, <1>2, <1>3, <1>4, <1>5, <1>6, <1>7 DEF CatalogueIInv

LEMMA CatalogueInvariant == Spec => []CatalogueIInv
BY CatalogueInit, CatalogueStep, PTL DEF Spec

\* Every variable of the composed system keeps its type: the tables hold rows of
\* the schema, and every request knows a row of the kind it works on.
THEOREM TypeOKHolds == Spec => []TypeOK
<1>1. CatalogueIInv => TypeOK
  <2> SUFFICES ASSUME CatalogueIInv PROVE TypeOK
    OBVIOUS
  <2>1. O!TypeOK BY DEF CatalogueIInv, OffersIInv
  <2>2. R!TypeOK BY DEF CatalogueIInv, SlotsIInv, RewardsIInv
  <2>3. V!TypeOK /\ G!TypeOK BY BookingsTyped, CampaignsTyped DEF CatalogueIInv
  <2>4. D!TypeOK /\ M!TypeOK BY DEF CatalogueIInv, DesignIInv, MagazineIInv
  <2>5. P!TypeOK BY PlaceTypes DEF CatalogueIInv
  <2>6. QED BY <2>1, <2>2, <2>3, <2>4, <2>5 DEF TypeOK
<1>2. QED BY <1>1, CatalogueInvariant, PTL

\* Limits counted in one query and used in another hold but for requests that
\* another overtook in between: at most MaxSlots live claims of a user, one per
\* bar (promotions.service.ts); the quotas of a plan's drinks by rarity and of the
\* promotions active at once (bar drinks and promotions); a bounded number of a
\* bar's pieces in a section of the magazine.
THEOREM LimitsHoldHolds == Spec => []LimitsHold
<1>1. CatalogueIInv => LimitsHold
  BY SlotsStand, OffersStand DEF CatalogueIInv, MagazineIInv, LimitsHold
<1>2. QED BY <1>1, CatalogueInvariant, PTL

\* What users are shown of a bar's offers an admin has approved as it stands, and a
\* medal carries the image its bar selected, but for handlers that wrote over a row
\* that had changed since they read it.
THEOREM NothingUnreviewedHolds == Spec => []NothingUnreviewed
<1>1. CatalogueIInv => NothingUnreviewed
  BY OffersStand DEF CatalogueIInv, DesignIInv, NothingUnreviewed
<1>2. QED BY <1>1, CatalogueInvariant, PTL

\* No step takes back the end of a reservation, a verified terrace, a selected
\* design or data of a place that were just fetched, but for handlers that had read
\* the row before.
THEOREM DecisionsStandHolds == Spec => DecisionsStand
<1>1. ASSUME CatalogueIInv, [Next]_vars
      PROVE  V!OutcomeStands /\ O!TerraceStands /\ D!SelectionStands /\ P!ClearedLate
  BY <1>1, OneActs, OutcomeKept, TerraceKept, SelectionKept, ClearingsLate DEF CatalogueIInv
<1>2. CatalogueIInv /\ [Next]_vars
      => [V!OutcomeStands /\ O!TerraceStands /\ D!SelectionStands /\ P!ClearedLate]_vars
  BY <1>1
<1>3. QED BY <1>2, CatalogueInvariant, PTL DEF Spec, DecisionsStand
=============================================================================
