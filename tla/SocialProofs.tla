---------------------------- MODULE SocialProofs ----------------------------
(***************************************************************************)
(* Proofs about Social, for any number of users, rooms and requests.       *)
(* First the friendships, which come by consent and leave nothing across a *)
(* block but what a handler it has overtaken writes; then one part for     *)
(* each of accounts, uploads and deletions, posts, sockets, notifications  *)
(* and unread messages; then the theorems about all of them at once, and   *)
(* last the types, with the bounds of every figure.                        *)
(***************************************************************************)
EXTENDS Social, FiniteSetTheorems, SequenceTheorems, TLAPS

\* What the two users of a request in Friends make of their pair.
Mine(r) == {F!Who(r), F!Peer(r)}
Apart(u, v) == <<u, v>> \in blocks \/ <<v, u>> \in blocks

Types ==
  /\ request \in [F!Ordered -> F!Status]
  /\ fpc \in [Request -> F!Label]
  /\ job \in [Request -> F!Ordered \cup {None}]
  /\ overtaken \in [Request -> BOOLEAN]
  /\ \A r \in Request : fpc[r] # "idle" => job[r] \in F!Ordered

\* Nothing is left between two users across a block, unless strayed.
Clean ==
  \A p \in F!Ordered :
    Apart(p[1], p[2]) /\ {p[1], p[2]} \notin stray =>
      request[p] # "PENDING" /\ {p[1], p[2]} \notin friends

\* Handlers that will write a request or a friendship.
Writing == {"testFriends", "findIncoming", "findRespond", "findExisting", "upsert", "accept"}

\* ... know of the block: they were overtaken by it, or began from what strayed.
Aware ==
  \A r \in Request :
    fpc[r] \in Writing /\ Apart(job[r][1], job[r][2]) => overtaken[r] \/ Mine(r) \in stray

\* Who has asked has acted; an acceptance answers somebody who has.
Asked ==
  /\ \A p \in F!Ordered : request[p] = "PENDING" => p \in acted
  /\ \A r \in Request : fpc[r] = "accept" => <<job[r][2], job[r][1]>> \in acted
  /\ \A p \in F!Ordered : {p[1], p[2]} \in friends => p \in acted

IInv == Types /\ Clean /\ Aware /\ Asked

-----------------------------------------------------------------------------

\* The invariant says what the run checks.
LEMMA IInvStands == IInv => FriendshipsStand
<1> SUFFICES ASSUME IInv PROVE FriendshipsStand
  OBVIOUS
<1>1. F!FriendsByConsent
  <2> SUFFICES ASSUME NEW a \in User, NEW b \in User, {a, b} \in friends, a # b
               PROVE  <<a, b>> \in acted /\ <<b, a>> \in acted
    BY DEF F!FriendsByConsent
  <2>1. <<a, b>> \in F!Ordered /\ <<b, a>> \in F!Ordered /\ {b, a} = {a, b}
    BY DEF F!Ordered
  <2>2. QED BY <2>1 DEF IInv, Asked
<1>2. F!BlockSeparates
  <2> SUFFICES ASSUME NEW u \in User,
                      NEW v \in (F!Board(u) \cup F!PendingFor(u) \cup F!SentBy(u)) \ {u},
                      F!Blocked(u, v), {u, v} \notin stray
               PROVE  FALSE
    BY DEF F!BlockSeparates
  <2>1. v \in User /\ u # v /\ {v, u} = {u, v}
    BY DEF F!Board, F!FriendsOf, F!PendingFor, F!SentBy
  <2>2. <<u, v>> \in F!Ordered /\ <<v, u>> \in F!Ordered
    BY <2>1 DEF F!Ordered
  <2>3. /\ {u, v} \notin friends
        /\ request[<<u, v>>] # "PENDING" /\ request[<<v, u>>] # "PENDING"
    BY <2>1, <2>2 DEF IInv, Clean, Apart, F!Blocked
  <2>4. QED
    BY <2>1, <2>3 DEF F!Board, F!FriendsOf, F!PendingFor, F!SentBy
<1>3. QED BY <1>1, <1>2 DEF FriendshipsStand

LEMMA InitIInv == Init => IInv
<1> SUFFICES ASSUME F!Init PROVE IInv
  BY DEF Init
<1>1. PICK asked \in SUBSET F!Ordered : \E agreed \in SUBSET asked :
        /\ request = [p \in F!Ordered |->
             IF p \in agreed THEN "ACCEPTED" ELSE IF p \in asked THEN "PENDING" ELSE "NONE"]
        /\ friends = {{p[1], p[2]} : p \in agreed}
        /\ acted = asked \cup {<<p[2], p[1]>> : p \in agreed}
  BY DEF F!Init
<1>2. PICK agreed \in SUBSET asked :
        /\ request = [p \in F!Ordered |->
             IF p \in agreed THEN "ACCEPTED" ELSE IF p \in asked THEN "PENDING" ELSE "NONE"]
        /\ friends = {{p[1], p[2]} : p \in agreed}
        /\ acted = asked \cup {<<p[2], p[1]>> : p \in agreed}
  BY <1>1
<1>3. Types
  BY <1>2 DEF F!Init, Types, F!Status, F!Label
<1>4. Clean
  BY DEF F!Init, Clean, Apart
<1>5. Aware
  BY DEF F!Init, Aware, Writing
<1>6. Asked
  <2>1. \A p \in F!Ordered : request[p] = "PENDING" => p \in acted
    BY <1>2
  <2>2. ASSUME NEW p \in F!Ordered, {p[1], p[2]} \in friends PROVE p \in acted
    <3>1. PICK q \in agreed : {p[1], p[2]} = {q[1], q[2]}
      BY <1>2, <2>2
    <3>2. p = <<p[1], p[2]>> /\ q = <<q[1], q[2]>> /\ p[1] # p[2] /\ q[1] # q[2]
      BY DEF F!Ordered
    <3>3. p = q \/ p = <<q[2], q[1]>>
      BY <3>1, <3>2
    <3>4. QED BY <1>2, <3>3
  <2>3. QED BY <2>1, <2>2 DEF F!Init, Asked
<1>7. QED BY <1>3, <1>4, <1>5, <1>6 DEF IInv

-----------------------------------------------------------------------------
(* Steps of Friends that write neither a request nor a friendship *)

\* A request arrives that has seen no block, or a pending row.
LEMMA Begins ==
  ASSUME IInv, NEW r \in Request, NEW u \in User, NEW v \in User \ {u}, NEW l \in F!Label,
         F!Arrives(r, u, v, l), UNCHANGED <<request, blocks, stray>>, friends' \subseteq friends,
         l # "idle",
         l \in Writing => ~Apart(u, v) \/ {u, v} \in stray,
         l = "accept" => <<v, u>> \in acted
  PROVE  IInv'
<1>1. <<u, v>> \in F!Ordered BY DEF F!Ordered
<1>2. Types' BY <1>1 DEF IInv, Types, F!Arrives
<1>3. Clean' BY DEF IInv, Clean, Apart
<1>4. Aware' BY DEF IInv, Types, Aware, Apart, Mine, F!Who, F!Peer, F!Arrives
<1>5. Asked' BY DEF IInv, Types, Asked, F!Arrives
<1>6. QED BY <1>2, <1>3, <1>4, <1>5 DEF IInv

\* A request goes on, and only from one writing label to another; it is about to
\* accept only what it has found pending.
LEMMA Moves ==
  ASSUME IInv, NEW r \in Request, NEW l \in F!Label, fpc[r] # "idle", F!Goto(r, l),
         UNCHANGED <<request, friends, blocks, acted, stray>>,
         l \in Writing => fpc[r] \in Writing,
         l = "accept" => request[<<F!Peer(r), F!Who(r)>>] = "PENDING"
  PROVE  IInv'
<1>1. job[r] \in F!Ordered /\ <<job[r][2], job[r][1]>> \in F!Ordered
  BY DEF IInv, Types, F!Ordered
<1>2. Types' BY DEF IInv, Types, F!Goto
<1>3. Clean' BY DEF IInv, Clean, Apart
<1>4. Aware' BY DEF IInv, Types, Aware, Writing, Apart, Mine, F!Who, F!Peer, F!Goto
<1>5. Asked' BY <1>1 DEF IInv, Types, Asked, F!Who, F!Peer, F!Goto
<1>6. QED BY <1>2, <1>3, <1>4, <1>5 DEF IInv

-----------------------------------------------------------------------------
(* Steps that write *)

\* What is written to the rows of two users, by a request that ends.
LEMMA Ends ==
  ASSUME IInv, NEW r \in Request, fpc[r] # "idle", F!Goto(r, "idle") \/ F!Goto(r, "hideFind"),
         acted \subseteq acted', UNCHANGED blocks, stray \subseteq stray',
         request' \in [F!Ordered -> F!Status], Clean',
         \A p \in F!Ordered : request'[p] = "PENDING" => p \in acted',
         \A p \in F!Ordered : {p[1], p[2]} \in friends' => p \in acted'
  PROVE  IInv'
<1>1. Types' BY DEF IInv, Types, F!Goto, F!Label
<1>2. Aware' BY DEF IInv, Types, Aware, Writing, Apart, Mine, F!Who, F!Peer, F!Goto
<1>3. Asked' BY DEF IInv, Types, Asked, F!Goto
<1>4. QED BY <1>1, <1>2, <1>3 DEF IInv

LEMMA SamePair ==
  ASSUME NEW p \in F!Ordered, NEW q \in F!Ordered, {p[1], p[2]} = {q[1], q[2]}
  PROVE  p = q \/ p = <<q[2], q[1]>>
<1>1. p = <<p[1], p[2]>> /\ q = <<q[1], q[2]>> /\ p[1] # p[2] /\ q[1] # q[2]
  BY DEF F!Ordered
<1>2. QED BY <1>1

LEMMA UpsertStep ==
  ASSUME IInv, NEW r \in Request, F!SendUpsert(r)
  PROVE  IInv'
<1> DEFINE row == <<F!Who(r), F!Peer(r)>>
<1>1. /\ job[r] \in F!Ordered /\ row = job[r] /\ F!Who(r) = job[r][1] /\ F!Peer(r) = job[r][2]
      /\ Apart(job[r][1], job[r][2]) => Mine(r) \in stray'
  BY DEF F!SendUpsert, F!AtStep, IInv, Types, Aware, Writing, Mine, F!Who, F!Peer, F!Ordered
<1>2. /\ request' = [request EXCEPT ![row] = "PENDING"] /\ acted' = acted \cup {row}
      /\ stray \subseteq stray' /\ UNCHANGED <<friends, blocks>>
  BY DEF F!SendUpsert
<1> HIDE DEF row
<1>3. Clean'
  <2> SUFFICES ASSUME NEW p \in F!Ordered, Apart(p[1], p[2])', {p[1], p[2]} \notin stray'
               PROVE  request'[p] # "PENDING" /\ {p[1], p[2]} \notin friends'
    BY DEF Clean
  <2>1. p # row
    BY <1>1, <1>2 DEF Mine, Apart
  <2>2. request'[p] = request[p]
    BY <2>1, <1>2 DEF IInv, Types
  <2>3. QED BY <2>2, <1>2 DEF IInv, Clean, Apart
<1>4. QED
  <2>1. request' \in [F!Ordered -> F!Status]
    BY <1>1, <1>2 DEF IInv, Types, F!Status
  <2>2. \A p \in F!Ordered : request'[p] = "PENDING" => p \in acted'
    BY <1>1, <1>2 DEF IInv, Types, Asked
  <2>3. \A p \in F!Ordered : {p[1], p[2]} \in friends' => p \in acted'
    BY <1>2 DEF IInv, Asked
  <2>4. QED BY <1>2, <1>3, <2>1, <2>2, <2>3, Ends DEF F!SendUpsert, F!AtStep

LEMMA AcceptStep ==
  ASSUME IInv, NEW r \in Request, F!Accept(r)
  PROVE  IInv'
<1> DEFINE u == job[r][1]
           v == job[r][2]
<1>1. /\ job[r] \in F!Ordered /\ job[r] = <<u, v>> /\ <<v, u>> \in F!Ordered /\ u # v
      /\ F!Who(r) = u /\ F!Peer(r) = v /\ <<v, u>> \in acted
      /\ Apart(u, v) => {u, v} \in stray'
  BY DEF F!Accept, F!AtStep, IInv, Types, Aware, Asked, Writing, Mine, F!Who, F!Peer, F!Ordered
<1>2. /\ request' = [request EXCEPT ![<<v, u>>] = "ACCEPTED",
                       ![<<u, v>>] = IF @ = "PENDING" THEN "ACCEPTED" ELSE @]
      /\ friends' = friends \cup {{u, v}} /\ acted' = acted \cup {<<u, v>>}
      /\ stray \subseteq stray' /\ UNCHANGED blocks
  BY DEF F!Accept, F!Who, F!Peer
<1> HIDE DEF u, v
<1>3. /\ request' \in [F!Ordered -> F!Status]
      /\ \A p \in F!Ordered : request'[p] = "PENDING" => request[p] = "PENDING"
  BY <1>1, <1>2 DEF IInv, Types, F!Status
<1>4. \A p \in F!Ordered : {p[1], p[2]} = {u, v} => p = <<u, v>> \/ p = <<v, u>>
  BY <1>1, SamePair
<1>5. Clean'
  <2> SUFFICES ASSUME NEW p \in F!Ordered, Apart(p[1], p[2])', {p[1], p[2]} \notin stray'
               PROVE  request'[p] # "PENDING" /\ {p[1], p[2]} \notin friends'
    BY DEF Clean
  <2>1. {p[1], p[2]} # {u, v}
    BY <1>1, <1>2, <1>4 DEF Apart
  <2>2. QED BY <2>1, <1>2, <1>3 DEF IInv, Clean, Apart
<1>6. \A p \in F!Ordered : {p[1], p[2]} \in friends' => p \in acted'
  BY <1>1, <1>2, <1>4 DEF IInv, Asked
<1>7. QED BY <1>2, <1>3, <1>5, <1>6, Ends DEF F!Accept, F!AtStep, IInv, Asked

\* Rejected, cancelled or removed: rows only stop being pending.
LEMMA ClosingStep ==
  ASSUME IInv, NEW r \in Request, F!Reject(r) \/ F!Cancel(r) \/ F!RemoveRequests(r)
  PROVE  IInv'
<1>1. fpc[r] # "idle" /\ (F!Goto(r, "idle") \/ F!Goto(r, "hideFind"))
      /\ UNCHANGED <<friends, blocks, acted, stray>>
  BY DEF F!Reject, F!Cancel, F!RemoveRequests, F!AtStep
<1>2. job[r] \in F!Ordered /\ F!Who(r) = job[r][1] /\ F!Peer(r) = job[r][2]
  BY <1>1 DEF IInv, Types, F!Who, F!Peer
<1>3. /\ request' \in [F!Ordered -> F!Status]
      /\ \A p \in F!Ordered : request'[p] = "PENDING" => request[p] = "PENDING"
  BY <1>2 DEF F!Reject, F!Cancel, F!RemoveRequests, F!CancelledBetween, IInv, Types, F!Status
<1>4. Clean'
  BY <1>1, <1>3 DEF IInv, Clean, Apart
<1>5. QED BY <1>1, <1>3, <1>4, Ends DEF IInv, Asked

\* A block takes away every row of the two, and overtakes whoever works for them.
LEMMA BlockStep ==
  ASSUME IInv, NEW r \in Request, NEW u \in User, NEW v \in User \ {u}, F!Block(r, u, v)
  PROVE  IInv'
<1>1. <<u, v>> \in F!Ordered /\ <<v, u>> \in F!Ordered BY DEF F!Ordered
<1>2. \A p \in F!Ordered : {p[1], p[2]} = {u, v} => p = <<u, v>> \/ p = <<v, u>>
  BY <1>1, SamePair
<1>3. /\ request' \in [F!Ordered -> F!Status]
      /\ \A p \in F!Ordered : request'[p] = "PENDING" => request[p] = "PENDING"
      /\ request'[<<u, v>>] # "PENDING" /\ request'[<<v, u>>] # "PENDING"
  BY <1>1 DEF F!Block, F!CancelledBetween, IInv, Types, F!Status
<1>4. Types'
  BY <1>1, <1>3 DEF F!Block, IInv, Types, F!Label
<1>5. Clean'
  <2> SUFFICES ASSUME NEW p \in F!Ordered, Apart(p[1], p[2])', {p[1], p[2]} \notin stray'
               PROVE  request'[p] # "PENDING" /\ {p[1], p[2]} \notin friends'
    BY DEF Clean
  <2>1. CASE {p[1], p[2]} = {u, v}
    BY <2>1, <1>2, <1>3 DEF F!Block
  <2>2. CASE {p[1], p[2]} # {u, v}
    <3>1. Apart(p[1], p[2]) /\ {p[1], p[2]} \notin stray
      BY <2>2 DEF F!Block, Apart
    <3>2. QED BY <3>1, <1>3 DEF F!Block, IInv, Clean
  <2>3. QED BY <2>1, <2>2
<1>6. Aware'
  <2> SUFFICES ASSUME NEW q \in Request, fpc'[q] \in Writing, Apart(job[q][1], job[q][2])',
                      ~overtaken'[q]
               PROVE  Mine(q)' \in stray'
    BY DEF Aware
  <2>1. q # r /\ fpc'[q] = fpc[q] /\ job'[q] = job[q] /\ job[q] \in F!Ordered
    BY DEF F!Block, IInv, Types, Writing
  <2>2. ~overtaken[q] /\ job[q] \notin {<<u, v>>, <<v, u>>}
    BY <2>1 DEF F!Block
  <2>3. {job[q][1], job[q][2]} # {u, v}
    BY <2>1, <2>2, <1>2
  <2>4. Apart(job[q][1], job[q][2])
    BY <2>1, <2>3 DEF F!Block, Apart
  <2>5. {job[q][1], job[q][2]} \in stray
    BY <2>1, <2>2, <2>4 DEF IInv, Aware, Mine, F!Who, F!Peer
  <2>6. QED BY <2>1, <2>3, <2>5 DEF F!Block, Mine, F!Who, F!Peer
<1>7. Asked'
  BY <1>3 DEF F!Block, IInv, Types, Asked
<1>8. QED BY <1>4, <1>5, <1>6, <1>7 DEF IInv

LEMMA UnblockStep ==
  ASSUME IInv, NEW u, NEW v, F!Unblock(u, v)
  PROVE  IInv'
<1>1. UNCHANGED <<request, friends, stray, fpc, job, overtaken, acted>> /\ blocks' \subseteq blocks
  BY DEF F!Unblock, F!locals, F!history
<1>2. Types' /\ Asked' BY <1>1 DEF IInv, Types, Asked
<1>3. Clean' /\ Aware' BY <1>1 DEF IInv, Clean, Aware, Apart, Mine, F!Who, F!Peer
<1>4. QED BY <1>2, <1>3 DEF IInv

-----------------------------------------------------------------------------
(* Every step of Social *)

LEMMA ArrivalStep ==
  ASSUME IInv, NEW r \in F!Arriving, NEW u \in User, NEW v \in User \ {u},
         \/ F!SendTestBlock(r, u, v)
         \/ F!CancelRead(r, u, v)
         \/ \E l \in F!Label : F!RespondRead(r, u, v, l)
         \/ F!RemoveFriendship(r, u, v)
         \/ F!Block(r, u, v)
  PROVE  IInv'
<1>r. r \in Request BY DEF F!Arriving
<1>u. <<u, v>> \in F!Ordered /\ <<v, u>> \in F!Ordered BY DEF F!Ordered
<1>1. CASE F!SendTestBlock(r, u, v)
  BY <1>r, <1>1, Begins DEF F!SendTestBlock, F!Blocked, Apart, F!Label, F!database
<1>2. CASE F!CancelRead(r, u, v)
  BY <1>r, <1>2, Begins DEF F!CancelRead, Writing, F!Label, F!database
<1>3. CASE \E l \in F!Label : F!RespondRead(r, u, v, l)
  <2>1. PICK l \in F!Label : F!RespondRead(r, u, v, l)
    BY <1>3
  <2>2. /\ l \in {"accept", "reject"} /\ F!Arrives(r, u, v, l)
        /\ UNCHANGED <<request, friends, blocks, stray>> /\ request[<<v, u>>] = "PENDING"
    BY <2>1 DEF F!RespondRead, F!database
  <2>3. <<v, u>> \in acted /\ (Apart(u, v) => {u, v} \in stray)
    <3>1. {v, u} = {u, v} OBVIOUS
    <3>2. QED BY <1>u, <2>2, <3>1 DEF IInv, Asked, Clean, Apart
  <2>4. QED BY <1>r, <2>2, <2>3, Begins
<1>4. CASE F!RemoveFriendship(r, u, v)
  BY <1>r, <1>4, Begins DEF F!RemoveFriendship, Writing, F!Label
<1>5. CASE F!Block(r, u, v)
  BY <1>r, <1>5, BlockStep
<1>6. QED BY <1>1, <1>2, <1>3, <1>4, <1>5

LEMMA WorkStep ==
  ASSUME IInv, NEW r \in F!Working,
         \/ F!SendTestFriends(r) \/ F!SendFindIncoming(r) \/ F!SendFindExisting(r)
         \/ F!SendUpsert(r) \/ F!RespondAgain(r) \/ F!Accept(r) \/ F!Reject(r) \/ F!Cancel(r)
         \/ F!RemoveRequests(r) \/ F!HideFind(r) \/ F!HideWrite(r) \/ F!Fail(r)
  PROVE  IInv'
<1>r. r \in Request /\ fpc[r] # "idle" BY DEF F!Working
<1>1. CASE F!SendTestFriends(r)
  BY <1>r, <1>1, Moves DEF F!SendTestFriends, F!AtStep, Writing, F!Label, F!database
<1>2. CASE F!SendFindIncoming(r)
  BY <1>r, <1>2, Moves DEF F!SendFindIncoming, F!AtStep, Writing, F!Label, F!database
<1>3. CASE F!SendFindExisting(r)
  BY <1>r, <1>3, Moves DEF F!SendFindExisting, F!AtStep, Writing, F!Label, F!database
<1>4. CASE F!RespondAgain(r)
  BY <1>r, <1>4, Moves DEF F!RespondAgain, F!AtStep, Writing, F!Label, F!database
<1>5. CASE F!HideFind(r)
  BY <1>r, <1>5, Moves DEF F!HideFind, F!AtStep, Writing, F!Label, F!database
<1>6. CASE F!HideWrite(r) \/ F!Fail(r)
  BY <1>r, <1>6, Moves DEF F!HideWrite, F!Fail, F!AtStep, Writing, F!Label, F!database
<1>7. CASE F!SendUpsert(r) BY <1>r, <1>7, UpsertStep
<1>8. CASE F!Accept(r) BY <1>r, <1>8, AcceptStep
<1>9. CASE F!Reject(r) \/ F!Cancel(r) \/ F!RemoveRequests(r) BY <1>r, <1>9, ClosingStep
<1>10. QED BY <1>1, <1>2, <1>3, <1>4, <1>5, <1>6, <1>7, <1>8, <1>9

\* What the invariant is about.
friendship == <<ties, fpc, job, acted, overtaken, stray>>

LEMMA Untouched ==
  ASSUME IInv, UNCHANGED friendship
  PROVE  IInv'
<1>1. UNCHANGED <<request, friends, blocks, fpc, job, acted, overtaken, stray>>
  BY DEF friendship, ties
<1>2. Types' /\ Asked' BY <1>1 DEF IInv, Types, Asked
<1>3. Clean' /\ Aware' BY <1>1 DEF IInv, Clean, Aware, Apart, Mine, F!Who, F!Peer
<1>4. QED BY <1>2, <1>3 DEF IInv

\* Chat only reads friendships and blocks.
LEMMA ChatReads == C!Next => UNCHANGED <<friends, blocks>>
<1> USE DEF C!Arrives, C!Goto, C!Return
<1> SUFFICES ASSUME C!Next PROVE UNCHANGED <<friends, blocks>>
  OBVIOUS
<1>1. ASSUME NEW r \in Request, NEW u \in User,
             \/ \E v \in User : C!OpenTestBlock(r, u, v)
             \/ \E vs \in SUBSET User : C!GroupStart(r, u, vs)
             \/ \E x \in Room : C!SendTestBlock(r, u, x) \/ C!RoomReadStamp(r, u, x)
                               \/ C!HideFind(r, u, x)
             \/ \E n \in DOMAIN log : C!ReactFind(r, u, n) \/ C!MarkReadFind(r, u, n)
      PROVE  UNCHANGED <<friends, blocks>>
  BY <1>1 DEF C!OpenTestBlock, C!GroupStart, C!SendTestBlock, C!RoomReadStamp, C!HideFind,
              C!ReactFind, C!MarkReadFind
<1>2. ASSUME NEW r \in Request,
             C!OpenTestFriends(r) \/ C!OpenFind(r) \/ C!Reopen(r)
             \/ C!OpenCreate(r) \/ C!GroupTest(r) \/ C!GroupCreate(r)
      PROVE  UNCHANGED <<friends, blocks>>
  BY <1>2 DEF C!OpenTestFriends, C!OpenFind, C!Reopen, C!OpenCreate, C!GroupTest, C!GroupCreate
<1>3. ASSUME NEW r \in Request,
             C!SendTestFriends(r) \/ C!SendInsert(r) \/ C!SendUnhide(r)
             \/ C!ReactWrite(r) \/ C!MarkRead(r)
      PROVE  UNCHANGED <<friends, blocks>>
  BY <1>3 DEF C!SendTestFriends, C!SendInsert, C!SendUnhide, C!ReactWrite, C!MarkRead
<1>4. ASSUME NEW r \in Request,
             C!RoomReadScan(r) \/ C!RoomReadNext(r) \/ C!RoomReadDone(r)
             \/ C!HideWrite(r) \/ C!Fail(r)
      PROVE  UNCHANGED <<friends, blocks>>
  BY <1>4 DEF C!RoomReadScan, C!RoomReadNext, C!RoomReadDone, C!HideWrite, C!Fail
<1>5. QED BY <1>1, <1>2, <1>3, <1>4 DEF C!Next, C!Arriving, C!Working

LEMMA StepIInv == IInv /\ [Next]_vars => IInv'
<1> SUFFICES ASSUME IInv, [Next]_vars PROVE IInv'
  OBVIOUS
<1>1. CASE FriendsStep
  <2>1. F!Next BY <1>1 DEF FriendsStep
  <2>2. CASE \E p \in blocks : F!Unblock(p[1], p[2])
    BY <2>2, UnblockStep
  <2>3. CASE \E r \in F!Arriving, u \in User : \E v \in User \ {u} :
               \/ F!SendTestBlock(r, u, v)
               \/ F!CancelRead(r, u, v)
               \/ \E l \in F!Label : F!RespondRead(r, u, v, l)
               \/ F!RemoveFriendship(r, u, v)
               \/ F!Block(r, u, v)
    BY <2>3, ArrivalStep
  <2>4. QED BY <2>1, <2>2, <2>3, WorkStep DEF F!Next
<1>2. CASE ChatStep
  BY <1>2, ChatReads, Untouched DEF ChatStep, friendship, ties, friendly
<1>3. CASE FeedStep \/ PresenceStep \/ InboxStep \/ AccountsStep \/ ErasureStep
  BY <1>3, Untouched DEF FeedStep, PresenceStep, InboxStep, AccountsStep, ErasureStep,
                         social, friendship, friendly
<1>4. CASE UNCHANGED vars
  BY <1>4, Untouched DEF vars, friendship, friendly
<1>5. QED BY <1>1, <1>2, <1>3, <1>4 DEF Next

\* Whatever the server does meanwhile, nobody becomes a friend without having
\* asked or accepted, and lists and the leaderboard name nobody across a block,
\* unless a handler that the block had overtaken wrote the row.
THEOREM FriendshipsStandHolds == Spec => []FriendshipsStand
<1>1. Spec => []IInv
  BY InitIInv, StepIInv, PTL DEF Spec
<1>2. QED BY <1>1, IInvStands, PTL

(* Registrations and codes *)

AccountRow == [state : {"none", "live", "soft"}, life : A!Life, row : A!Life,
               by : Request \cup {None}, role : {"USER", "BAR", None},
               born : Birth \cup {None}, verified : BOOLEAN]
CodeRow == [of : Email, row : A!Life, used : BOOLEAN, age : {"hot", "warm", "old"}]
BarRow == [owner : Email \cup {None}, gone : BOOLEAN, taken : BOOLEAN]
Form == [at : {"idle", "create", "restore", "code", "insert", "verify", "earn"},
         who : Email \cup {None}, role : {"USER", "BAR", None}, born : Birth \cup {None},
         row : A!Life, life : A!Life, rows : SUBSET Nat, over : BOOLEAN]

AccountTypes ==
  /\ account \in [Email -> AccountRow]
  /\ codes \in Seq(CodeRow)
  /\ bars \in [A!Slug -> BarRow]
  /\ progress \in [Email -> SUBSET A!Life]
  /\ applied \in A!Life
  /\ form \in [Request -> Form]
  /\ \A r \in Request : form[r].at # "idle" => form[r].who \in Email
  /\ overlapped \subseteq Email /\ carried \subseteq Email \X A!Life

\* Registrations under way: each will start one life and take one slug at most.
Pending == {r \in Request : form[r].at \in {"create", "restore"}}
Paid ==
  /\ IsFiniteSet(Pending)
  /\ \E k \in Nat : /\ k + Cardinality(Pending) <= applied
                    /\ \A n \in A!Slug : bars[n].taken <=> n <= k
  /\ \A e \in Email : account[e].life + Cardinality(Pending) <= applied

\* What is done in a life is there in that life.
Fresh == A!FreshStart /\ \A e \in Email : ~A!Exists(e) => progress[e] = {}

\* The rows of an address are numbered by its lives, so that none comes back.
Rows ==
  /\ \A e \in Email : account[e].row <= account[e].life
  /\ \A i \in DOMAIN codes : codes[i].row <= account[codes[i].of].life
  /\ \A r \in Request : form[r].at # "idle" => form[r].row <= account[form[r].who].life

\* A transaction about to commit a code has seen all that can be used, but for
\* those of a transaction beside it.
Inserts(r, e) == form[r].at = "insert" /\ form[r].who = e
SeenAll ==
  \A r \in Request, e \in Email : Inserts(r, e) =>
    /\ \A q \in Request \ {r} : Inserts(q, e) => form[r].over
    /\ form[r].over \/ ~A!Exists(e) \/ account[e].row # form[r].row
       \/ A!Usable(e) \subseteq form[r].rows
AtMostOne(S) == \A x, y \in S : x = y
OneUsable == \A e \in Email : e \in overlapped \/ AtMostOne(A!Usable(e))

\* Who has an account has at most one bar, and nobody else has any.
OneBar ==
  /\ \A n \in A!Slug : ~bars[n].taken => bars[n].owner = None
  /\ \A e \in Email : AtMostOne(A!BarOf(e))
  /\ \A e \in Email : ~A!Exists(e) => A!BarOf(e) = {}
  /\ \A e \in Email : account[e].state = "live" /\ account[e].role = "BAR" =>
       \E n \in A!BarOf(e) : ~bars[n].gone

\* Who registers as a user has shown a birth date.
OfAge ==
  /\ \A e \in Email : account[e].role = "USER" =>
       account[e].born \in Birth /\ A!Adult(account[e].born, Today)
  /\ \A r \in Pending : form[r].role = "USER" =>
       form[r].born \in Birth /\ A!Adult(form[r].born, Today)

\* A registration that would bring an account back which is live again was
\* overtaken by another.
Overtaken ==
  \A r \in Request : form[r].at = "restore" =>
    /\ form[r].life <= account[form[r].who].life
    /\ account[form[r].who].state = "live" => form[r].life < account[form[r].who].life

AccIInv ==
  AccountTypes /\ Paid /\ Fresh /\ Rows /\ SeenAll /\ OneUsable /\ OneBar /\ OfAge /\ Overtaken

-----------------------------------------------------------------------------

\* The modules composed count with the same Cardinality.
LEMMA AccountsCount == \A S : A!Cardinality(S) = Cardinality(S)
BY Zenon DEF A!Cardinality, Cardinality

\* A set of at most one element has at most one element, to the cardinal.
LEMMA CountOne ==
  ASSUME NEW S, AtMostOne(S)
  PROVE  IsFiniteSet(S) /\ Cardinality(S) <= 1
<1>1. CASE S = {} BY <1>1, FS_EmptySet
<1>2. CASE S # {}
  <2>1. PICK x : S = {x} BY <1>2 DEF AtMostOne
  <2>2. IsFiniteSet({x}) /\ Cardinality({x}) = 1 BY FS_Singleton, Zenon
  <2>3. QED BY <2>1, <2>2
<1>3. QED BY <1>1, <1>2

\* Who passes the check has had eighteen birthdays, leap years or not.
LEMMA AdultHasBirthdays ==
  ASSUME NEW b \in [y : Int, m : Int, d : Int], NEW t \in [y : Int, m : Int, d : Int],
         A!Adult(b, t)
  PROVE  Cardinality(A!Birthdays(b, t)) >= 18
<1> DEFINE age == A!AgeInYears(b, t)
<1>1. age \in Int /\ age >= 18 BY DEF A!Adult, A!AgeInYears, A!Majority
<1>2. \A y \in Int : A!After([b EXCEPT !.y = y], t) <=>
        \/ y > t.y
        \/ y = t.y /\ (b.m > t.m \/ (b.m = t.m /\ b.d > t.d))
  BY DEF A!After
<1>3. A!Birthdays(b, t) = (b.y + 1)..(b.y + age)
  BY <1>2 DEF A!Birthdays, A!AgeInYears
<1>4. b.y + 1 \in Int /\ b.y + age \in Int BY <1>1
<1> HIDE DEF age
<1>5. Cardinality((b.y + 1)..(b.y + age)) = (b.y + age) - (b.y + 1) + 1
  BY <1>1, <1>4, FS_Interval
<1>6. QED BY <1>1, <1>3, <1>5

\* The invariant says what the run checks.
LEMMA AccStands == AccIInv => A!OneCode /\ A!FreshStart /\ A!OwnersHaveBars /\ A!TypeOK
<1> SUFFICES ASSUME AccIInv PROVE A!OneCode /\ A!FreshStart /\ A!OwnersHaveBars /\ A!TypeOK
  OBVIOUS
<1>1. A!OneCode
  BY AccountsCount, CountOne DEF AccIInv, OneUsable, A!OneCode
<1>2. A!FreshStart BY DEF AccIInv, Fresh
<1>3. A!OwnersHaveBars
  <2> SUFFICES ASSUME NEW e \in Email, account[e].state = "live"
               PROVE  /\ A!Cardinality(A!BarOf(e)) <= 1
                      /\ account[e].role = "BAR" => \E n \in A!BarOf(e) : ~bars[n].gone
                      /\ account[e].role = "USER" =>
                           A!Cardinality(A!Birthdays(account[e].born, Today)) >= A!Majority
    BY DEF A!OwnersHaveBars
  <2>1. A!Cardinality(A!BarOf(e)) <= 1
    BY AccountsCount, CountOne DEF AccIInv, OneBar
  <2>2. account[e].role = "BAR" => \E n \in A!BarOf(e) : ~bars[n].gone
    BY DEF AccIInv, OneBar
  <2>3. ASSUME account[e].role = "USER"
        PROVE  A!Cardinality(A!Birthdays(account[e].born, Today)) >= 18
    BY <2>3, AccountsCount, AdultHasBirthdays, ConstantsOK DEF AccIInv, OfAge
  <2>4. QED BY <2>1, <2>2, <2>3 DEF A!Majority
<1>4. A!TypeOK
  <2>1. \A i \in DOMAIN codes : codes[i] \in CodeRow
    BY ElementOfSeq, LenProperties DEF AccIInv, AccountTypes
  <2>2. \A r \in Request : form[r].at \in {"idle", "create", "restore", "code", "insert",
                                           "verify", "earn"}
    BY DEF AccIInv, AccountTypes, Form
  <2>3. QED
    BY <2>1, <2>2 DEF AccIInv, AccountTypes, A!TypeOK, AccountRow, CodeRow, BarRow, A!Life
<1>5. QED BY <1>1, <1>2, <1>3, <1>4

LEMMA AccInit == A!Init => AccIInv
<1> SUFFICES ASSUME A!Init PROVE AccIInv
  OBVIOUS
<1>1. /\ codes = <<>> /\ bars = [n \in A!Slug |-> A!NoBar] /\ progress = [e \in Email |-> {}]
      /\ applied \in 0..MaxApplied /\ form = [r \in Request |-> A!Idle]
      /\ carried = {} /\ overlapped = {}
  BY DEF A!Init
<1>2. /\ account \in [Email -> AccountRow]
      /\ \A e \in Email : account[e].life = 0 /\ account[e].row = 0 /\ account[e].role = None
  <2>1. account \in [Email -> {A!Gone} \cup [state : {"live", "soft"}, life : {0}, row : {0},
                         by : {None}, role : {None}, born : {None}, verified : {FALSE}]]
    BY DEF A!Init
  <2>2. 0 \in A!Life BY ConstantsOK DEF A!Life
  <2>3. A!Gone \in AccountRow /\ A!Gone.life = 0 /\ A!Gone.row = 0 /\ A!Gone.role = None
    BY <2>2 DEF A!Gone, AccountRow
  <2>4. \A x \in [state : {"live", "soft"}, life : {0}, row : {0}, by : {None}, role : {None},
                  born : {None}, verified : {FALSE}] :
          x \in AccountRow /\ x.life = 0 /\ x.row = 0 /\ x.role = None
    BY <2>2 DEF AccountRow
  <2>5. QED BY <2>1, <2>3, <2>4
<1>3. /\ A!Idle.at = "idle" /\ A!Idle \in Form
      /\ A!NoBar \in BarRow /\ A!NoBar.owner = None /\ ~A!NoBar.taken
  BY ConstantsOK DEF A!Idle, Form, A!Life, A!NoBar, BarRow
<1>4. AccountTypes
  <2>1. codes \in Seq(CodeRow) BY <1>1
  <2>2. QED BY <1>1, <1>2, <1>3, <2>1 DEF AccountTypes, A!Life
<1>5. Pending = {} BY <1>1, <1>3 DEF Pending
<1>6. Paid
  <2>1. IsFiniteSet(Pending) /\ Cardinality(Pending) = 0 BY <1>5, FS_EmptySet
  <2>2. \A n \in A!Slug : bars[n].taken <=> n <= 0
    BY <1>1, <1>3, ConstantsOK DEF A!Slug
  <2>3. 0 + Cardinality(Pending) <= applied BY <1>1, <2>1, ConstantsOK
  <2>4. QED BY <1>1, <1>2, <2>1, <2>2, <2>3, ConstantsOK DEF Paid
<1>7. Fresh BY <1>1 DEF Fresh, A!FreshStart
<1>8. DOMAIN codes = {} BY <1>1
<1>9. Rows BY <1>1, <1>2, <1>3, <1>8 DEF Rows
<1>10. SeenAll /\ OneUsable
  BY <1>1, <1>3, <1>8 DEF SeenAll, Inserts, OneUsable, AtMostOne, A!Usable
<1>11. OneBar
  <2>1. \A e \in Email : A!BarOf(e) = {} BY <1>1, <1>3, ConstantsOK DEF A!BarOf
  <2>2. \A e \in Email : account[e].role # "BAR" BY <1>2, ConstantsOK
  <2>3. QED BY <1>1, <1>3, <2>1, <2>2 DEF OneBar, AtMostOne
<1>12. OfAge BY <1>2, <1>5, ConstantsOK DEF OfAge
<1>13. Overtaken BY <1>1, <1>3 DEF Overtaken
<1>14. QED BY <1>4, <1>6, <1>7, <1>9, <1>10, <1>11, <1>12, <1>13 DEF AccIInv

\* Requests leave, codes are used up or age, accounts are verified.
LEMMA AccFades ==
  ASSUME AccIInv, form' \in [Request -> Form],
         \A q \in Request : form'[q] = form[q] \/ form'[q] = A!Idle,
         codes' \in Seq(CodeRow), DOMAIN codes' = DOMAIN codes,
         \A i \in DOMAIN codes : /\ codes'[i].of = codes[i].of /\ codes'[i].row = codes[i].row
                                 /\ codes[i].used => codes'[i].used,
         account' \in [Email -> AccountRow],
         \A e \in Email : /\ account'[e].state = account[e].state
                          /\ account'[e].life = account[e].life
                          /\ account'[e].row = account[e].row
                          /\ account'[e].role = account[e].role
                          /\ account'[e].born = account[e].born,
         UNCHANGED <<bars, applied, overlapped>>,
         progress' \in [Email -> SUBSET A!Life], Fresh', carried' \subseteq Email \X A!Life
  PROVE  AccIInv'
<1>1. A!Idle.at = "idle" BY DEF A!Idle
<1>2. \A q \in Request : form'[q].at # "idle" => form'[q] = form[q] BY <1>1
<1>3. AccountTypes' BY <1>2 DEF AccIInv, AccountTypes
<1>4. Pending' \subseteq Pending BY <1>2 DEF Pending
<1>5. Paid'
  <2>1. /\ IsFiniteSet(Pending') /\ Cardinality(Pending') \in Nat /\ Cardinality(Pending) \in Nat
        /\ Cardinality(Pending') <= Cardinality(Pending)
    BY <1>4, FS_Subset, FS_CardinalityType DEF AccIInv, Paid
  <2>2. PICK k \in Nat : /\ k + Cardinality(Pending) <= applied
                         /\ \A n \in A!Slug : bars[n].taken <=> n <= k
    BY DEF AccIInv, Paid
  <2>3. applied \in Int /\ \A e \in Email : account[e].life \in Int
    BY DEF AccIInv, AccountTypes, AccountRow, A!Life
  <2>4. k + Cardinality(Pending') <= applied BY <2>1, <2>2, <2>3
  <2>5. \A e \in Email : account[e].life + Cardinality(Pending') <= applied
    BY <2>1, <2>3 DEF AccIInv, Paid
  <2>6. QED BY <2>1, <2>2, <2>4, <2>5 DEF Paid, A!Slug
<1>6. Rows'
  <2>1. \A i \in DOMAIN codes : codes[i].of \in Email
    <3>1. \A i \in DOMAIN codes : codes[i] \in CodeRow
      BY ElementOfSeq, LenProperties DEF AccIInv, AccountTypes
    <3>2. QED BY <3>1 DEF CodeRow
  <2>2. \A i \in DOMAIN codes : codes'[i].row <= account'[codes'[i].of].life
    BY <2>1 DEF AccIInv, Rows
  <2>3. \A r \in Request : form'[r].at # "idle" => form'[r].row <= account'[form'[r].who].life
    BY <1>2 DEF AccIInv, Rows, AccountTypes
  <2>4. \A e \in Email : account'[e].row <= account'[e].life BY DEF AccIInv, Rows
  <2>5. QED BY <2>2, <2>3, <2>4 DEF Rows
<1>7. \A e \in Email : A!Usable(e)' \subseteq A!Usable(e) /\ (A!Exists(e)' <=> A!Exists(e))
  BY DEF A!Usable, A!Exists
<1>8. SeenAll'
  <2>1. \A q \in Request, e \in Email : Inserts(q, e)' => Inserts(q, e) /\ form'[q] = form[q]
    BY <1>2 DEF Inserts
  <2>2. QED BY <1>7, <2>1 DEF AccIInv, SeenAll
<1>9. OneUsable' BY <1>7 DEF AccIInv, OneUsable, AtMostOne
<1>10. OneBar' BY <1>7 DEF AccIInv, OneBar, AtMostOne, A!BarOf
<1>11. OfAge' BY <1>2, <1>4 DEF AccIInv, OfAge, Pending
<1>12. Overtaken' BY <1>2 DEF AccIInv, AccountTypes, Overtaken
<1>13. QED BY <1>3, <1>5, <1>6, <1>8, <1>9, <1>10, <1>11, <1>12 DEF AccIInv

LEMMA FormsEnd ==
  ASSUME AccIInv, NEW r \in Request, form' = [form EXCEPT ![r] = A!Idle]
  PROVE  /\ form' \in [Request -> Form] /\ form'[r] = A!Idle
         /\ \A q \in Request \ {r} : form'[q] = form[q]
         /\ \A q \in Request : form'[q] = form[q] \/ form'[q] = A!Idle
<1>1. A!Idle \in Form BY ConstantsOK DEF A!Idle, Form, A!Life
<1>2. QED BY <1>1 DEF AccIInv, AccountTypes

\* A request that is done.
LEMMA AccEnds ==
  ASSUME AccIInv, NEW r \in Request, form' = [form EXCEPT ![r] = A!Idle],
         UNCHANGED <<account, codes, bars, applied>>,
         progress' \in [Email -> SUBSET A!Life], Fresh',
         overlapped' = overlapped, carried' \subseteq Email \X A!Life
  PROVE  AccIInv'
<1>1. codes \in Seq(CodeRow) /\ account \in [Email -> AccountRow]
  BY DEF AccIInv, AccountTypes
<1>2. QED BY <1>1, FormsEnd, AccFades

\* A request that is let in is paid for.
LEMMA AccBegins ==
  ASSUME AccIInv, NEW r \in Request, form[r] = A!Idle, applied < MaxApplied,
         applied' = applied + 1, NEW c \in Form, form' = [form EXCEPT ![r] = c],
         UNCHANGED <<account, codes, bars, progress, carried, overlapped>>,
         c.who \in Email, c.row <= account[c.who].life,
         \/ c.at \in {"code", "verify", "earn"}
         \/ /\ c.at \in {"create", "restore"}
            /\ c.life = account[c.who].life
            /\ c.at = "restore" => account[c.who].state # "live"
            /\ c.role = "USER" => c.born \in Birth /\ A!Adult(c.born, Today)
  PROVE  AccIInv'
<1>1. /\ form'[r] = c /\ \A q \in Request \ {r} : form'[q] = form[q]
      /\ form' \in [Request -> Form] /\ form[r].at = "idle"
  BY DEF AccIInv, AccountTypes, A!Idle
<1>2. applied \in Nat /\ applied' \in A!Life
  BY ConstantsOK DEF AccIInv, AccountTypes, A!Life
<1>3. AccountTypes' BY <1>1, <1>2 DEF AccIInv, AccountTypes
<1>4. Pending' \subseteq Pending \cup {r} /\ r \notin Pending BY <1>1 DEF Pending
<1>5. Paid'
  <2>1. /\ IsFiniteSet(Pending \cup {r}) /\ Cardinality(Pending \cup {r}) = Cardinality(Pending) + 1
        /\ Cardinality(Pending) \in Nat
    BY <1>4, FS_AddElement, FS_CardinalityType DEF AccIInv, Paid
  <2>2. /\ IsFiniteSet(Pending') /\ Cardinality(Pending') \in Nat
        /\ Cardinality(Pending') <= Cardinality(Pending) + 1
    BY <1>4, <2>1, FS_Subset, FS_CardinalityType
  <2>3. PICK k \in Nat : /\ k + Cardinality(Pending) <= applied
                         /\ \A n \in A!Slug : bars[n].taken <=> n <= k
    BY DEF AccIInv, Paid
  <2>4. \A e \in Email : account[e].life \in Int
    BY DEF AccIInv, AccountTypes, AccountRow, A!Life
  <2>5. k + Cardinality(Pending') <= applied' BY <1>2, <2>1, <2>2, <2>3
  <2>6. \A e \in Email : account[e].life + Cardinality(Pending') <= applied'
    BY <1>2, <2>1, <2>2, <2>4 DEF AccIInv, Paid
  <2>7. QED BY <2>2, <2>3, <2>5, <2>6 DEF Paid, A!Slug
<1>6. Fresh' BY DEF AccIInv, Fresh, A!FreshStart, A!Exists
<1>7. Rows' BY <1>1 DEF AccIInv, Rows
<1>8. SeenAll' BY <1>1 DEF AccIInv, SeenAll, Inserts, A!Usable, A!Exists
<1>9. OneUsable' BY DEF AccIInv, OneUsable, AtMostOne, A!Usable, A!Exists
<1>10. OneBar' BY DEF AccIInv, OneBar, AtMostOne, A!BarOf, A!Exists
<1>11. OfAge' BY <1>1, <1>4 DEF AccIInv, OfAge, Pending
<1>12. Overtaken'
  <2>1. c.life \in Int /\ c.life <= c.life BY DEF Form, A!Life
  <2>2. QED BY <1>1, <2>1 DEF AccIInv, Overtaken
<1>13. QED BY <1>3, <1>5, <1>6, <1>7, <1>8, <1>9, <1>10, <1>11, <1>12 DEF AccIInv

LEMMA AccArrives ==
  ASSUME AccIInv, NEW r \in A!Free,
         \/ \E e \in Email : \/ \E b \in Birth, role \in {"USER", "BAR"} : A!BeginRegister(r, e, role, b)
                             \/ A!Resend(r, e) \/ A!BeginEarn(r, e)
         \/ \E i \in DOMAIN codes : A!FindCode(r, i)
  PROVE  AccIInv'
<1> USE DEF A!history
<1>1. r \in Request /\ form[r] = A!Idle /\ applied < MaxApplied BY DEF A!Free
<1>2. \A e \in Email : /\ account[e].row \in A!Life /\ account[e].life \in A!Life
                       /\ account[e].row <= account[e].life
  BY DEF AccIInv, AccountTypes, AccountRow, Rows
<1>3. 0 \in A!Life /\ \A l \in A!Life : 0 <= l BY ConstantsOK DEF A!Life
<1>4. ASSUME NEW e \in Email, NEW b \in Birth, NEW role \in {"USER", "BAR"},
             A!BeginRegister(r, e, role, b)
      PROVE  AccIInv'
  <2> DEFINE c == [A!Idle EXCEPT
         !.at = IF account[e].state = "soft" THEN "restore" ELSE "create",
         !.who = e, !.role = role, !.born = b, !.row = account[e].row, !.life = account[e].life]
  <2>1. /\ c \in Form /\ c.who = e /\ c.row = account[e].row /\ c.life = account[e].life
        /\ c.at \in {"create", "restore"} /\ c.role = role /\ c.born = b
    BY <1>2 DEF A!Idle, Form
  <2> HIDE DEF c
  <2>2. /\ applied' = applied + 1 /\ form' = [form EXCEPT ![r] = c]
        /\ account[e].state # "live"
        /\ role = "USER" => A!Adult(b, Today)
        /\ UNCHANGED <<account, codes, bars, progress, carried, overlapped>>
    BY <1>4 DEF A!BeginRegister, A!Arrives, c
  <2>3. QED BY <1>1, <1>2, <2>1, <2>2, AccBegins
<1>5. ASSUME NEW e \in Email, A!Resend(r, e) PROVE AccIInv'
  <2> DEFINE c == [A!Idle EXCEPT !.at = "code", !.who = e]
  <2>1. c \in Form /\ c.who = e /\ c.row = 0 /\ c.at = "code"
    BY <1>3 DEF A!Idle, Form
  <2> HIDE DEF c
  <2>2. /\ applied' = applied + 1 /\ form' = [form EXCEPT ![r] = c]
        /\ UNCHANGED <<account, codes, bars, progress, carried, overlapped>>
    BY <1>5 DEF A!Resend, A!Arrives, c
  <2>3. QED BY <1>1, <1>2, <1>3, <2>1, <2>2, AccBegins
<1>6. ASSUME NEW e \in Email, A!BeginEarn(r, e) PROVE AccIInv'
  <2> DEFINE c == [A!Idle EXCEPT !.at = "earn", !.who = e, !.row = account[e].row,
                                 !.life = account[e].life]
  <2>1. c \in Form /\ c.who = e /\ c.row = account[e].row /\ c.at = "earn"
    BY <1>2, <1>3 DEF A!Idle, Form
  <2> HIDE DEF c
  <2>2. /\ applied' = applied + 1 /\ form' = [form EXCEPT ![r] = c]
        /\ UNCHANGED <<account, codes, bars, progress, carried, overlapped>>
    BY <1>6 DEF A!BeginEarn, A!Arrives, c
  <2>3. QED BY <1>1, <1>2, <2>1, <2>2, AccBegins
<1>7. ASSUME NEW i \in DOMAIN codes, A!FindCode(r, i) PROVE AccIInv'
  <2> DEFINE c == [A!Idle EXCEPT !.at = "verify", !.who = codes[i].of,
                                 !.rows = {i}, !.row = codes[i].row]
  <2>1. /\ codes[i].of \in Email /\ codes[i].row \in A!Life /\ i \in Nat
        /\ codes[i].row <= account[codes[i].of].life
    <3>1. codes[i] \in CodeRow /\ i \in Nat
      BY ElementOfSeq, LenProperties DEF AccIInv, AccountTypes
    <3>2. QED BY <3>1 DEF AccIInv, CodeRow, Rows
  <2>2. c \in Form /\ c.who = codes[i].of /\ c.row = codes[i].row /\ c.at = "verify"
    BY <1>3, <2>1 DEF A!Idle, Form
  <2> HIDE DEF c
  <2>3. /\ applied' = applied + 1 /\ form' = [form EXCEPT ![r] = c]
        /\ UNCHANGED <<account, codes, bars, progress, carried, overlapped>>
    BY <1>7 DEF A!FindCode, A!Arrives, c
  <2>4. QED BY <1>1, <2>1, <2>2, <2>3, AccBegins
<1>8. QED BY <1>4, <1>5, <1>6, <1>7

\* Requests that write no account and no code of their own.
LEMMA AccEarns ==
  ASSUME AccIInv, NEW r \in Request, A!Earn(r) \/ A!Fail(r)
  PROVE  AccIInv'
<1>1. CASE A!Fail(r)
  <2>1. /\ form' = [form EXCEPT ![r] = A!Idle]
        /\ UNCHANGED <<account, codes, bars, progress, applied, carried, overlapped>>
    BY <1>1 DEF A!Fail, A!Return, A!history
  <2>2. Fresh' BY <2>1 DEF AccIInv, Fresh, A!FreshStart, A!Exists
  <2>3. QED BY <2>1, <2>2, AccEnds DEF AccIInv, AccountTypes
<1>2. CASE A!Earn(r)
  <2> DEFINE e == form[r].who
             l == form[r].life
  <2>1. e \in Email /\ l \in A!Life
    BY <1>2 DEF A!Earn, A!At, AccIInv, AccountTypes, Form
  <2>2. /\ form' = [form EXCEPT ![r] = A!Idle]
        /\ UNCHANGED <<account, codes, bars, applied, overlapped>>
        /\ \/ /\ A!Exists(e) /\ progress' = [progress EXCEPT ![e] = @ \cup {l}]
              /\ carried' = IF l # account[e].life THEN carried \cup {<<e, l>>} ELSE carried
           \/ UNCHANGED <<progress, carried>>
    BY <1>2 DEF A!Earn, A!Return
  <2>3. progress' \in [Email -> SUBSET A!Life] /\ carried' \subseteq Email \X A!Life
    BY <2>1, <2>2 DEF AccIInv, AccountTypes
  <2>4. \A d \in Email : \A k \in progress'[d] :
          \/ k \in progress[d]
          \/ d = e /\ k = l /\ A!Exists(e) /\ (l = account[e].life \/ <<e, l>> \in carried')
    BY <2>1, <2>2 DEF AccIInv, AccountTypes
  <2>5. carried \subseteq carried' /\ account' = account BY <2>2
  <2>6. Fresh'
    <3>1. A!FreshStart' BY <2>4, <2>5 DEF AccIInv, Fresh, A!FreshStart
    <3>2. \A d \in Email : ~A!Exists(d) => progress'[d] = {}
      BY <2>4 DEF AccIInv, Fresh
    <3>3. QED BY <2>5, <3>1, <3>2 DEF Fresh, A!Exists
  <2>7. QED BY <2>2, <2>3, <2>6, AccEnds
<1>3. QED BY <1>1, <1>2

\* The transaction's update sees the codes there are.
LEMMA AccScans ==
  ASSUME AccIInv, NEW r \in Request, A!ScanCodes(r) PROVE AccIInv'
<1> DEFINE e == form[r].who
           others == {q \in Request \ {r} : form[q].at = "insert" /\ form[q].who = e}
           c == [form[r] EXCEPT !.at = "insert", !.rows = A!Usable(e), !.over = (others # {}),
                                !.row = account[e].row]
<1>1. /\ e \in Email /\ form[r].at = "code"
      /\ form' = [q \in Request |-> IF q = r THEN c
                                    ELSE [form[q] EXCEPT !.over = @ \/ q \in others]]
      /\ UNCHANGED <<account, codes, bars, progress, applied, carried, overlapped>>
  BY DEF A!ScanCodes, A!At, A!history, AccIInv, AccountTypes
<1>2. DOMAIN codes \subseteq Nat /\ A!Usable(e) \in SUBSET Nat
  BY LenProperties DEF AccIInv, AccountTypes, A!Usable
<1>3. /\ account[e].row \in A!Life /\ account[e].row <= account[e].life
  BY <1>1 DEF AccIInv, AccountTypes, AccountRow, Rows
<1>4. /\ c \in Form /\ c.at = "insert" /\ c.who = e /\ c.rows = A!Usable(e)
      /\ c.over = (others # {}) /\ c.row = account[e].row
  <2> DEFINE U == A!Usable(e)
             b == (others # {})
  <2>1. b \in BOOLEAN /\ form[r] \in Form BY DEF AccIInv, AccountTypes
  <2>2. U \in SUBSET Nat BY <1>2
  <2>3. c = [form[r] EXCEPT !.at = "insert", !.rows = U, !.over = b, !.row = account[e].row]
    OBVIOUS
  <2> HIDE DEF U, b, c
  <2>4. c \in Form /\ c.at = "insert" /\ c.who = e /\ c.rows = U /\ c.over = b
        /\ c.row = account[e].row
    BY <1>3, <2>1, <2>2, <2>3 DEF Form
  <2>5. QED BY <2>4 DEF U, b
<1> HIDE DEF c
<1>5. \A q \in Request \ {r} :
        /\ form'[q] \in Form /\ form'[q].at = form[q].at /\ form'[q].who = form[q].who
        /\ form'[q].role = form[q].role /\ form'[q].born = form[q].born
        /\ form'[q].row = form[q].row /\ form'[q].life = form[q].life
        /\ form'[q].rows = form[q].rows
        /\ form[q].over \/ q \in others => form'[q].over
  <2> SUFFICES ASSUME NEW q \in Request \ {r}
               PROVE
        /\ form'[q] \in Form /\ form'[q].at = form[q].at /\ form'[q].who = form[q].who
        /\ form'[q].role = form[q].role /\ form'[q].born = form[q].born
        /\ form'[q].row = form[q].row /\ form'[q].life = form[q].life
        /\ form'[q].rows = form[q].rows
        /\ form[q].over \/ q \in others => form'[q].over
    OBVIOUS
  <2> DEFINE b == form[q].over \/ q \in others
  <2>1. form[q] \in Form /\ b \in BOOLEAN BY DEF AccIInv, AccountTypes
  <2>2. form'[q] = [form[q] EXCEPT !.over = b] BY <1>1
  <2> HIDE DEF b
  <2>3. /\ form'[q] \in Form /\ form'[q].at = form[q].at /\ form'[q].who = form[q].who
        /\ form'[q].role = form[q].role /\ form'[q].born = form[q].born
        /\ form'[q].row = form[q].row /\ form'[q].life = form[q].life
        /\ form'[q].rows = form[q].rows /\ form'[q].over = b
    BY <2>1, <2>2 DEF Form
  <2>4. QED BY <2>3 DEF b
<1>6. form'[r] = c BY <1>1
<1>7. AccountTypes'
  <2>1. form' \in [Request -> Form]
    <3>1. \A q \in Request : form'[q] \in Form BY <1>4, <1>5, <1>6
    <3>2. QED BY <1>1, <3>1
  <2>2. \A q \in Request : form'[q].at # "idle" => form'[q].who \in Email
    <3>1. \A q \in Request \ {r} : form'[q].at # "idle" => form'[q].who \in Email
      BY <1>5 DEF AccIInv, AccountTypes
    <3>2. form'[r].who \in Email BY <1>1, <1>4, <1>6
    <3>3. QED BY <3>1, <3>2
  <2>3. UNCHANGED <<account, codes, bars, progress, applied, carried, overlapped>> BY <1>1
  <2>4. QED BY <2>1, <2>2, <2>3 DEF AccIInv, AccountTypes
<1>8. Pending' = Pending BY <1>1, <1>4, <1>5, <1>6 DEF Pending
<1>9. UNCHANGED <<account, codes, bars, progress, applied, carried, overlapped>> BY <1>1
<1>10. Paid' BY <1>8, <1>9 DEF AccIInv, Paid
<1>11. Fresh' BY <1>9 DEF AccIInv, Fresh, A!FreshStart, A!Exists
<1>12. Rows' BY <1>3, <1>4, <1>5, <1>6, <1>9 DEF AccIInv, Rows
<1>13. SeenAll'
  <2> SUFFICES ASSUME NEW q \in Request, NEW d \in Email, Inserts(q, d)'
               PROVE  /\ \A p \in Request \ {q} : Inserts(p, d)' => form'[q].over
                      /\ form'[q].over \/ ~A!Exists(d) \/ account[d].row # form'[q].row
                         \/ A!Usable(d) \subseteq form'[q].rows
    BY <1>9 DEF SeenAll, A!Exists, A!Usable
  <2>1. CASE q = r
    <3>1. d = e BY <1>4, <1>6, <2>1 DEF Inserts
    <3>2. ASSUME NEW p \in Request \ {r}, form'[p].at = "insert", form'[p].who = e PROVE c.over
      <4>1. p \in others BY <1>5, <3>2 DEF Inserts
      <4>2. QED BY <1>4, <4>1
    <3>3. QED BY <1>4, <1>6, <2>1, <3>1, <3>2 DEF Inserts
  <2>2. CASE q # r
    <3>1. Inserts(q, d) BY <1>5, <2>2 DEF Inserts
    <3>2. ASSUME NEW p \in Request \ {q}, Inserts(p, d)' PROVE form'[q].over
      <4>1. CASE p = r
        <5>1. q \in others BY <1>4, <1>6, <2>2, <3>1, <3>2, <4>1 DEF Inserts
        <5>2. QED BY <1>5, <5>1
      <4>2. CASE p # r
        <5>1. Inserts(p, d) BY <1>5, <3>2, <4>2 DEF Inserts
        <5>2. form[q].over BY <3>1, <3>2, <5>1 DEF AccIInv, SeenAll
        <5>3. QED BY <1>5, <2>2, <5>2
      <4>3. QED BY <4>1, <4>2
    <3>3. QED BY <1>5, <2>2, <3>1, <3>2 DEF AccIInv, SeenAll
  <2>3. QED BY <2>1, <2>2
<1>14. OneUsable' BY <1>9 DEF AccIInv, OneUsable, AtMostOne, A!Usable, A!Exists
<1>15. OneBar' BY <1>9 DEF AccIInv, OneBar, AtMostOne, A!BarOf, A!Exists
<1>16. OfAge'
  <2>1. \A q \in Pending : q # r BY <1>1 DEF Pending
  <2>2. QED BY <1>5, <1>8, <1>9, <2>1 DEF AccIInv, OfAge, Pending
<1>17. Overtaken' BY <1>4, <1>5, <1>6, <1>9 DEF AccIInv, Overtaken
<1>18. QED BY <1>7, <1>10, <1>11, <1>12, <1>13, <1>14, <1>15, <1>16, <1>17 DEF AccIInv

\* A request leaves, with all else as it was.
LEMMA AccLeaves ==
  ASSUME AccIInv, NEW r \in Request, form' = [form EXCEPT ![r] = A!Idle],
         UNCHANGED <<account, codes, bars, progress, applied, carried, overlapped>>
  PROVE  AccIInv'
<1>1. Fresh' BY DEF AccIInv, Fresh, A!FreshStart, A!Exists
<1>2. QED BY <1>1, AccEnds DEF AccIInv, AccountTypes

LEMMA UsedCodes ==
  ASSUME codes \in Seq(CodeRow), NEW S
  PROVE  /\ A!Used(S) \in Seq(CodeRow) /\ DOMAIN A!Used(S) = DOMAIN codes
         /\ Len(A!Used(S)) = Len(codes)
         /\ \A i \in DOMAIN codes : /\ A!Used(S)[i].of = codes[i].of
                                    /\ A!Used(S)[i].row = codes[i].row
                                    /\ codes[i].used \/ i \in S <=> A!Used(S)[i].used
<1>1. \A i \in DOMAIN codes : codes[i] \in CodeRow BY ElementOfSeq, LenProperties
<1>2. ASSUME NEW i \in DOMAIN codes
      PROVE  /\ A!Used(S)[i] \in CodeRow
             /\ A!Used(S)[i].of = codes[i].of /\ A!Used(S)[i].row = codes[i].row
             /\ codes[i].used \/ i \in S <=> A!Used(S)[i].used
  <2> DEFINE b == codes[i].used \/ i \in S
  <2>1. codes[i] \in CodeRow /\ b \in BOOLEAN BY <1>1
  <2>2. A!Used(S)[i] = [codes[i] EXCEPT !.used = b] BY DEF A!Used
  <2> HIDE DEF b
  <2>3. /\ A!Used(S)[i] \in CodeRow
        /\ A!Used(S)[i].of = codes[i].of /\ A!Used(S)[i].row = codes[i].row
        /\ A!Used(S)[i].used = b
    BY <2>1, <2>2 DEF CodeRow
  <2>4. QED BY <2>3 DEF b
<1>3. DOMAIN A!Used(S) = 1..Len(codes) /\ DOMAIN codes = 1..Len(codes) /\ Len(codes) \in Nat
  BY LenProperties DEF A!Used
<1>4. A!Used(S) = [i \in 1..Len(codes) |-> A!Used(S)[i]] BY <1>3 DEF A!Used
<1>5. A!Used(S) \in Seq(CodeRow) BY <1>2, <1>3, <1>4, IsASeq
<1>6. Len(A!Used(S)) = Len(codes) BY <1>3, <1>5, LenProperties
<1>7. QED BY <1>2, <1>3, <1>5, <1>6

LEMMA AccVerifies ==
  ASSUME AccIInv, NEW r \in Request, A!Verify(r) PROVE AccIInv'
<1> DEFINE e == form[r].who
<1>1. /\ form' = [form EXCEPT ![r] = A!Idle]
      /\ UNCHANGED <<bars, progress, applied, carried, overlapped>>
      /\ \/ /\ account' = [account EXCEPT ![e].verified = TRUE]
            /\ codes' = A!Used(form[r].rows)
         \/ UNCHANGED <<account, codes>>
  BY DEF A!Verify, A!Return, A!history
<1>2. CASE UNCHANGED <<account, codes>>
  BY <1>1, <1>2, AccLeaves
<1>3. CASE account' = [account EXCEPT ![e].verified = TRUE] /\ codes' = A!Used(form[r].rows)
  <2>1. /\ codes' \in Seq(CodeRow) /\ DOMAIN codes' = DOMAIN codes
        /\ \A i \in DOMAIN codes : /\ codes'[i].of = codes[i].of /\ codes'[i].row = codes[i].row
                                   /\ codes[i].used => codes'[i].used
    BY <1>3, UsedCodes DEF AccIInv, AccountTypes
  <2>2. /\ account' \in [Email -> AccountRow]
        /\ \A d \in Email : /\ account'[d].state = account[d].state
                            /\ account'[d].life = account[d].life
                            /\ account'[d].row = account[d].row
                            /\ account'[d].role = account[d].role
                            /\ account'[d].born = account[d].born
    <3>1. \A x \in AccountRow : [x EXCEPT !.verified = TRUE] \in AccountRow BY DEF AccountRow
    <3>2. \A d \in Email : account'[d] \in {account[d], [account[d] EXCEPT !.verified = TRUE]}
      BY <1>3 DEF AccIInv, AccountTypes
    <3>3. account' \in [Email -> AccountRow]
      BY <1>3, <3>1, <3>2 DEF AccIInv, AccountTypes
    <3>4. \A d \in Email : account[d] \in AccountRow BY DEF AccIInv, AccountTypes
    <3>5. QED BY <3>2, <3>3, <3>4 DEF AccountRow
  <2>3. Fresh' BY <1>1, <2>2 DEF AccIInv, Fresh, A!FreshStart, A!Exists
  <2>4. QED BY <1>1, <2>1, <2>2, <2>3, FormsEnd, AccFades DEF AccIInv, AccountTypes
<1>4. QED BY <1>1, <1>2, <1>3

\* A minute, or a quarter of an hour, goes by.
LEMMA AccElapses ==
  ASSUME AccIInv, NEW from, NEW to \in {"hot", "warm", "old"}, A!Elapse(from, to)
  PROVE  AccIInv'
<1>1. /\ codes' = [i \in DOMAIN codes |->
                     [codes[i] EXCEPT !.age = IF @ \in from THEN to ELSE @]]
      /\ UNCHANGED <<account, bars, progress, applied, form, carried, overlapped>>
  BY DEF A!Elapse, A!history
<1>2. codes \in Seq(CodeRow) BY DEF AccIInv, AccountTypes
<1>3. ASSUME NEW i \in DOMAIN codes
      PROVE  /\ codes'[i] \in CodeRow /\ codes'[i].of = codes[i].of
             /\ codes'[i].row = codes[i].row /\ codes'[i].used = codes[i].used
  <2>1. codes[i] \in CodeRow BY <1>2, ElementOfSeq, LenProperties
  <2>2. codes'[i] = codes[i] \/ codes'[i] = [codes[i] EXCEPT !.age = to] BY <1>1, <2>1 DEF CodeRow
  <2>3. QED BY <2>1, <2>2 DEF CodeRow
<1>4. DOMAIN codes' = 1..Len(codes) /\ DOMAIN codes = 1..Len(codes) /\ Len(codes) \in Nat
  BY <1>1, <1>2, LenProperties
<1>5. codes' = [i \in 1..Len(codes) |-> codes'[i]] BY <1>1, <1>4
<1>6. codes' \in Seq(CodeRow) BY <1>3, <1>4, <1>5, IsASeq
<1>7. Fresh' BY <1>1 DEF AccIInv, Fresh, A!FreshStart, A!Exists
<1>8. QED BY <1>1, <1>3, <1>4, <1>6, <1>7, AccFades DEF AccIInv, AccountTypes

\* The transaction commits its code: it has seen the others, or one is beside it.
LEMMA AccInserts ==
  ASSUME AccIInv, NEW r \in Request, A!InsertCode(r) PROVE AccIInv'
<1> DEFINE e == form[r].who
           n == Len(codes) + 1
           mine == [of |-> e, row |-> account[e].row, used |-> FALSE, age |-> "hot"]
<1>1. /\ form' = [form EXCEPT ![r] = A!Idle] /\ Inserts(r, e) /\ e \in Email
      /\ UNCHANGED <<account, bars, progress, applied, carried>>
  BY DEF A!InsertCode, A!At, A!Return, Inserts, AccIInv, AccountTypes
<1>2. CASE ~(A!Exists(e) /\ account[e].row = form[r].row)
  BY <1>1, <1>2, AccLeaves DEF A!InsertCode
<1>3. CASE A!Exists(e) /\ account[e].row = form[r].row
  <2>1. /\ codes' = Append(A!Used(form[r].rows), mine)
        /\ overlapped' = IF form[r].over THEN overlapped \cup {e} ELSE overlapped \ {e}
    BY <1>3 DEF A!InsertCode
  <2>2. /\ A!Used(form[r].rows) \in Seq(CodeRow)
        /\ Len(A!Used(form[r].rows)) = Len(codes) /\ Len(codes) \in Nat
        /\ DOMAIN codes = 1..Len(codes)
        /\ \A i \in DOMAIN codes :
             /\ A!Used(form[r].rows)[i].of = codes[i].of
             /\ A!Used(form[r].rows)[i].row = codes[i].row
             /\ codes[i].used \/ i \in form[r].rows <=> A!Used(form[r].rows)[i].used
    BY UsedCodes, LenProperties DEF AccIInv, AccountTypes
  <2>3. mine \in CodeRow BY <1>1 DEF CodeRow, AccIInv, AccountTypes, AccountRow
  <2>4. /\ codes' \in Seq(CodeRow) /\ DOMAIN codes' = 1..n
        /\ codes'[n] = mine
        /\ \A i \in 1..Len(codes) : codes'[i] = A!Used(form[r].rows)[i]
    BY <2>1, <2>2, <2>3, AppendProperties, LenProperties
  <2>5. /\ \A i \in 1..Len(codes) :
             /\ codes'[i].of = codes[i].of /\ codes'[i].row = codes[i].row
             /\ codes[i].used \/ i \in form[r].rows <=> codes'[i].used
        /\ n \notin 1..Len(codes) /\ 1..n = 1..Len(codes) \cup {n}
    BY <2>2, <2>4
  <2>6. \A d \in Email : A!Usable(d)' \subseteq A!Usable(d) \cup {n}
    BY <1>1, <2>2, <2>4, <2>5 DEF A!Usable, A!Exists
  <2>7. \A d \in Email \ {e} : A!Usable(d)' \subseteq A!Usable(d)
    BY <1>1, <2>2, <2>4, <2>5 DEF A!Usable, A!Exists
  <2>8. A!Usable(e) \subseteq form[r].rows =>
          \A d \in Email : d = e => A!Usable(d)' \subseteq {n}
    BY <1>1, <2>2, <2>4, <2>5 DEF A!Usable, A!Exists
  <2>9. /\ form' \in [Request -> Form] /\ A!Idle.at = "idle"
        /\ \A q \in Request : form'[q].at # "idle" => q # r /\ form'[q] = form[q]
    <3>1. A!Idle.at = "idle" BY DEF A!Idle
    <3>2. QED BY <1>1, <3>1, FormsEnd
  <2>10. AccountTypes'
    <3>1. overlapped' \subseteq Email BY <1>1, <2>1 DEF AccIInv, AccountTypes
    <3>2. QED BY <1>1, <2>4, <2>9, <3>1 DEF AccIInv, AccountTypes
  <2>11. Pending' = Pending
    BY <1>1, <2>9, FormsEnd DEF Pending, Inserts
  <2>12. Paid' BY <1>1, <2>11 DEF AccIInv, Paid
  <2>13. Fresh' BY <1>1 DEF AccIInv, Fresh, A!FreshStart, A!Exists
  <2>14. Rows'
    <3>1. account[e].row <= account[e].life BY <1>1 DEF AccIInv, Rows
    <3>2. \A i \in DOMAIN codes' : codes'[i].row <= account[codes'[i].of].life
      BY <2>2, <2>4, <2>5, <3>1 DEF AccIInv, Rows
    <3>3. QED BY <1>1, <2>9, <3>2 DEF AccIInv, Rows
  <2>15. SeenAll'
    <3> SUFFICES ASSUME NEW q \in Request, NEW d \in Email, Inserts(q, d)'
                 PROVE  /\ \A p \in Request \ {q} : Inserts(p, d)' => form'[q].over
                        /\ form'[q].over \/ ~A!Exists(d)' \/ account'[d].row # form'[q].row
                           \/ A!Usable(d)' \subseteq form'[q].rows
      BY DEF SeenAll
    <3>1. /\ q # r /\ form'[q] = form[q] /\ Inserts(q, d)
          /\ \A p \in Request : Inserts(p, d)' => Inserts(p, d)
      BY <2>9 DEF Inserts
    <3>2. d = e => form[q].over BY <1>1, <3>1 DEF AccIInv, SeenAll
    <3>3. d # e => A!Usable(d)' \subseteq A!Usable(d) BY <2>7
    <3>4. account' = account /\ (A!Exists(d)' <=> A!Exists(d)) BY <1>1 DEF A!Exists
    <3>5. \A p \in Request \ {q} : Inserts(p, d)' => form'[q].over
      BY <3>1 DEF AccIInv, SeenAll
    <3>6. form[q].over \/ ~A!Exists(d) \/ account[d].row # form[q].row
          \/ A!Usable(d) \subseteq form[q].rows
      BY <3>1 DEF AccIInv, SeenAll
    <3>7. QED BY <3>1, <3>2, <3>3, <3>4, <3>5, <3>6
  <2>16. OneUsable'
    <3> SUFFICES ASSUME NEW d \in Email, d \notin overlapped' PROVE AtMostOne(A!Usable(d)')
      BY DEF OneUsable, AtMostOne
    <3>1. CASE d # e
      <4>1. d \notin overlapped BY <2>1, <3>1
      <4>2. AtMostOne(A!Usable(d)) BY <4>1 DEF AccIInv, OneUsable
      <4>3. QED BY <2>7, <3>1, <4>2 DEF AtMostOne
    <3>2. CASE d = e
      <4>1. ~form[r].over BY <2>1, <3>2
      <4>2. A!Usable(e) \subseteq form[r].rows BY <1>1, <1>3, <4>1 DEF AccIInv, SeenAll
      <4>3. A!Usable(d)' \subseteq {n} BY <2>8, <3>2, <4>2
      <4>4. QED BY <4>3 DEF AtMostOne
    <3>3. QED BY <3>1, <3>2
  <2>17. OneBar' BY <1>1 DEF AccIInv, OneBar, AtMostOne, A!BarOf, A!Exists
  <2>18. OfAge' BY <1>1, <2>9, <2>11 DEF AccIInv, OfAge, Pending
  <2>19. Overtaken' BY <1>1, <2>9 DEF AccIInv, Overtaken
  <2>20. QED BY <2>10, <2>12, <2>13, <2>14, <2>15, <2>16, <2>17, <2>18, <2>19 DEF AccIInv
<1>4. QED BY <1>2, <1>3

\* The slug nobody has, while a registration is on its way.
LEMMA SlugLeft ==
  ASSUME AccIInv, NEW r \in Pending, NEW k \in Nat, k + Cardinality(Pending) <= applied,
         \A n \in A!Slug : bars[n].taken <=> n <= k
  PROVE  /\ k + 1 \in A!Slug /\ A!FreeSlug = k + 1
         /\ IsFiniteSet(Pending) /\ Cardinality(Pending) \in Nat /\ Cardinality(Pending) >= 1
<1>1. /\ IsFiniteSet(Pending) /\ Cardinality(Pending) \in Nat /\ Cardinality(Pending) # 0
  <2>1. IsFiniteSet(Pending) BY DEF AccIInv, Paid
  <2>2. Pending # {} OBVIOUS
  <2>3. QED BY <2>1, <2>2, FS_CardinalityType, FS_EmptySet
<1>2. applied \in Nat /\ applied <= MaxApplied /\ MaxApplied \in Nat
  BY ConstantsOK DEF AccIInv, AccountTypes, A!Life
<1>3. k + 1 \in A!Slug BY <1>1, <1>2 DEF A!Slug
<1>4. ~bars[k + 1].taken /\ \A i \in 1..((k + 1) - 1) : bars[i].taken
  <2>1. ~(k + 1 <= k) OBVIOUS
  <2>2. \A i \in 1..((k + 1) - 1) : i \in A!Slug /\ i <= k
    <3>1. k + 1 <= MaxApplied BY <1>2, <1>3 DEF A!Slug
    <3>2. QED BY <1>2, <3>1 DEF A!Slug
  <2>3. QED BY <1>3, <2>1, <2>2
<1>5. ASSUME NEW n \in A!Slug, ~bars[n].taken, \A i \in 1..(n - 1) : bars[i].taken
      PROVE  n = k + 1
  <2>1. n \in Nat /\ n >= 1 BY DEF A!Slug
  <2>2. n >= k + 1 BY <1>5, <2>1
  <2>3. ~(n > k + 1)
    <3>1. n > k + 1 => k + 1 \in 1..(n - 1) BY <2>1
    <3>2. QED BY <1>4, <1>5, <3>1
  <2>4. QED BY <2>1, <2>2, <2>3
<1>6. A!FreeSlug = k + 1 BY <1>3, <1>4, <1>5 DEF A!FreeSlug
<1>7. QED BY <1>1, <1>3, <1>6

\* Registration r takes account e live in row row, and changes nothing of the others.
Lives(r, e, row) ==
  /\ e = form[r].who
  /\ account' = [account EXCEPT ![e] = A!Registered(r, row)]
  /\ \/ row = account[e].life + 1 /\ ~A!Exists(e)
     \/ row = account[e].row /\ A!Exists(e)
  /\ UNCHANGED <<codes, applied, carried, overlapped>>
  /\ progress' \in [Email -> SUBSET A!Life] /\ progress'[e] = {}
  /\ \A d \in Email \ {e} : progress'[d] = progress[d]
  /\ \/ bars' = bars /\ form[r].role # "BAR"
     \/ bars' = A!WithBar(e) /\ A!BarOf(e) = {}
     \/ /\ A!BarOf(e) # {}
        /\ bars' = [n \in A!Slug |-> IF n \in A!BarOf(e) THEN [bars[n] EXCEPT !.gone = FALSE]
                                     ELSE bars[n]]
  /\ form' = [form EXCEPT ![r].at = "code"]

\* A registration writes its row: a life of its own, which nothing is left of.
\* In kept the row stays, with its codes; else it is new.
LEMMA AccLives ==
  ASSUME AccIInv, NEW r \in Pending, NEW e \in Email, NEW row \in A!Life, Lives(r, e, row)
  PROVE  AccIInv'
<1> USE DEF Lives
<1>1. /\ form[r] \in Form /\ r \in Request /\ form[r].at \in {"create", "restore"}
      /\ form[r].role \in {"USER", "BAR", None} /\ form[r].born \in Birth \cup {None}
  BY DEF Pending, AccIInv, AccountTypes, Form
<1>2. /\ \A q \in Request \ {r} : form'[q] = form[q]
      /\ form' \in [Request -> Form] /\ form'[r].at = "code" /\ form'[r].who = e
      /\ form'[r].row = form[r].row
  BY <1>1 DEF AccIInv, AccountTypes, Form
<1>3. PICK k \in Nat : /\ k + Cardinality(Pending) <= applied
                       /\ \A n \in A!Slug : bars[n].taken <=> n <= k
  BY DEF AccIInv, Paid
<1>4. /\ k + 1 \in A!Slug /\ A!FreeSlug = k + 1
      /\ IsFiniteSet(Pending) /\ Cardinality(Pending) \in Nat /\ Cardinality(Pending) >= 1
  BY <1>3, SlugLeft
<1>5. /\ Pending' = Pending \ {r} /\ IsFiniteSet(Pending')
      /\ Cardinality(Pending') = Cardinality(Pending) - 1
  <2>1. Pending' = Pending \ {r} BY <1>1, <1>2 DEF Pending
  <2>2. QED BY <1>4, <2>1, FS_RemoveElement
<1>6. /\ applied \in Nat /\ applied <= MaxApplied /\ MaxApplied \in Nat
      /\ \A d \in Email : account[d].life \in Nat /\ account[d].row \in Nat
  BY ConstantsOK, SMTT(30) DEF AccIInv, AccountTypes, A!Life, AccountRow
<1>7. account[e].life + Cardinality(Pending) <= applied BY DEF AccIInv, Paid
<1>8. account[e].life + 1 \in A!Life
  BY <1>4, <1>6, <1>7 DEF A!Life
<1>9. /\ account'[e].state = "live" /\ account'[e].life = account[e].life + 1
      /\ account'[e].row = row /\ account'[e].by = r
      /\ account'[e].role = form[r].role /\ account'[e].born = form[r].born
      /\ account'[e] \in AccountRow
      /\ \A d \in Email \ {e} : account'[d] = account[d]
      /\ account' \in [Email -> AccountRow]
  <2>1. A!Registered(r, row) \in AccountRow
    BY <1>1, <1>8 DEF A!Registered, AccountRow
  <2>2. QED BY <2>1 DEF AccIInv, AccountTypes, A!Registered
<1>10. bars' \in [A!Slug -> BarRow]
  <2>1. A!WithBar(e) \in [A!Slug -> BarRow]
    <3>1. [owner |-> e, gone |-> FALSE, taken |-> TRUE] \in BarRow BY DEF BarRow
    <3>2. QED BY <3>1 DEF A!WithBar, AccIInv, AccountTypes
  <2>2. \A n \in A!Slug : bars[n] \in BarRow /\ [bars[n] EXCEPT !.gone = FALSE] \in BarRow
    <3>1. \A x \in BarRow : [x EXCEPT !.gone = FALSE] \in BarRow BY DEF BarRow
    <3>2. QED BY <3>1 DEF AccIInv, AccountTypes
  <2>3. bars \in [A!Slug -> BarRow] BY DEF AccIInv, AccountTypes
  <2>4. QED BY <2>1, <2>2, <2>3
<1>11. AccountTypes'
  <2>1. \A q \in Request : form'[q].at # "idle" => form'[q].who \in Email
    BY <1>2 DEF AccIInv, AccountTypes
  <2>2. QED BY <1>2, <1>9, <1>10, <2>1 DEF AccIInv, AccountTypes
\* What is taken is the first k slugs, or k + 1.
<1>12. \E j \in {k, k + 1} : \A n \in A!Slug : bars'[n].taken <=> n <= j
  <2>1. CASE bars' = A!WithBar(e)
    <3>1. bars' = [bars EXCEPT ![k + 1] = [owner |-> e, gone |-> FALSE, taken |-> TRUE]]
      BY <1>4, <2>1 DEF A!WithBar
    <3>2. \A n \in A!Slug : bars'[n].taken <=> n <= k + 1
      <4>1. ASSUME NEW n \in A!Slug PROVE bars'[n].taken <=> n <= k + 1
        <5>1. n \in Nat BY DEF A!Slug
        <5>2. CASE n = k + 1
          BY <3>1, <5>2 DEF AccIInv, AccountTypes
        <5>3. CASE n # k + 1
          <6>1. bars'[n] = bars[n] BY <3>1, <5>3 DEF AccIInv, AccountTypes
          <6>2. n <= k <=> n <= k + 1 BY <5>1, <5>3
          <6>3. QED BY <1>3, <6>1, <6>2
        <5>4. QED BY <5>2, <5>3
      <4>2. QED BY <4>1
    <3>3. QED BY <3>2
  <2>2. CASE bars' # A!WithBar(e)
    <3>1. \A n \in A!Slug : bars'[n].taken = bars[n].taken
      <4>1. \A n \in A!Slug : bars[n] \in BarRow BY DEF AccIInv, AccountTypes
      <4>2. \A n \in A!Slug : bars'[n] \in {bars[n], [bars[n] EXCEPT !.gone = FALSE]}
        BY <2>2
      <4>3. \A n \in A!Slug : [bars[n] EXCEPT !.gone = FALSE].taken = bars[n].taken
        BY <4>1 DEF BarRow
      <4>4. QED BY <4>2, <4>3
    <3>2. QED BY <1>3, <3>1
  <2>3. QED BY <2>1, <2>2
<1>13. Paid'
  <2>1. PICK j \in {k, k + 1} : \A n \in A!Slug : bars'[n].taken <=> n <= j BY <1>12
  <2>2. j \in Nat /\ j + Cardinality(Pending') <= applied'
    BY <1>3, <1>4, <1>5, <1>6
  <2>3. \A d \in Email : account'[d].life + Cardinality(Pending') <= applied'
    BY <1>4, <1>5, <1>6, <1>7, <1>9 DEF AccIInv, Paid
  <2>4. QED BY <1>5, <2>1, <2>2, <2>3 DEF Paid, A!Slug
<1>14. Fresh'
  <2>1. \A d \in Email \ {e} : A!Exists(d)' <=> A!Exists(d) BY <1>9 DEF A!Exists
  <2>2. A!FreshStart' BY <1>9 DEF AccIInv, Fresh, A!FreshStart
  <2>3. \A d \in Email : ~A!Exists(d)' => progress'[d] = {} BY <2>1 DEF AccIInv, Fresh
  <2>4. QED BY <2>2, <2>3 DEF Fresh
<1>15. Rows'
  <2>1. \A d \in Email : account[d].life <= account'[d].life BY <1>6, <1>9
  <2>2. \A d \in Email : account'[d].row <= account'[d].life
    BY <1>6, <1>9 DEF AccIInv, Rows
  <2>3. \A i \in DOMAIN codes : codes[i].of \in Email /\ codes[i].row \in Nat
    <3>1. \A i \in DOMAIN codes : codes[i] \in CodeRow
      BY ElementOfSeq, LenProperties DEF AccIInv, AccountTypes
    <3>2. QED BY <3>1 DEF CodeRow, A!Life
  <2>4. \A i \in DOMAIN codes : codes[i].row <= account'[codes[i].of].life
    BY <1>6, <1>9, <2>1, <2>3 DEF AccIInv, Rows
  <2>5. \A q \in Request : form[q].row \in Nat BY DEF AccIInv, AccountTypes, Form, A!Life
  <2>6. \A q \in Request : form'[q].at # "idle" => form'[q].row <= account'[form'[q].who].life
    <3>1. \A q \in Request : form'[q].at # "idle" =>
            /\ form'[q].row = form[q].row /\ form'[q].who = form[q].who
            /\ form[q].row <= account[form[q].who].life /\ form[q].who \in Email
      BY <1>1, <1>2 DEF AccIInv, Rows, AccountTypes
    <3>2. \A d \in Email : account'[d].life \in Nat BY <1>6, <1>9
    <3>3. QED BY <1>6, <2>1, <2>5, <3>1, <3>2
  <2>7. QED BY <2>2, <2>4, <2>6 DEF Rows
\* The codes of e can be used as before, or there are none.
<1>16. \A d \in Email :
         \/ A!Usable(d)' \subseteq A!Usable(d) /\ account'[d].row = account[d].row
            /\ (A!Exists(d)' <=> A!Exists(d))
         \/ d = e /\ A!Usable(d)' = {} /\ account'[d].row > account[d].life
  <2>1. CASE row = account[e].life + 1 /\ ~A!Exists(e)
    <3>1. \A i \in DOMAIN codes : codes[i].of = e => codes[i].row <= account[e].life
      BY DEF AccIInv, Rows
    <3>2. \A i \in DOMAIN codes : codes[i].of = e => codes[i].row # account'[e].row
      BY <1>6, <1>9, <2>1, <3>1
    <3>3. ASSUME NEW d \in Email, d = e
          PROVE  A!Usable(d)' = {} /\ account'[d].row > account[d].life
      BY <1>6, <1>9, <2>1, <3>2, <3>3 DEF A!Usable
    <3>4. QED BY <1>9, <3>3 DEF A!Usable, A!Exists
  <2>2. CASE row = account[e].row /\ A!Exists(e)
    BY <1>9, <2>2 DEF A!Usable, A!Exists
  <2>3. QED BY <2>1, <2>2
<1>17. SeenAll'
  <2> SUFFICES ASSUME NEW q \in Request, NEW d \in Email, Inserts(q, d)'
               PROVE  /\ \A p \in Request \ {q} : Inserts(p, d)' => form'[q].over
                      /\ form'[q].over \/ ~A!Exists(d)' \/ account'[d].row # form'[q].row
                         \/ A!Usable(d)' \subseteq form'[q].rows
    BY DEF SeenAll
  <2>1. /\ form'[q] = form[q] /\ Inserts(q, d)
        /\ \A p \in Request : Inserts(p, d)' => Inserts(p, d)
    BY <1>2 DEF Inserts
  <2>2. QED BY <1>16, <2>1 DEF AccIInv, SeenAll
<1>18. OneUsable' BY <1>16 DEF AccIInv, OneUsable, AtMostOne
<1>19. OfAge'
  <2>1. form[r].role = "USER" => form[r].born \in Birth /\ A!Adult(form[r].born, Today)
    BY DEF AccIInv, OfAge
  <2>2. \A d \in Email : account'[d].role = "USER" =>
          account'[d].born \in Birth /\ A!Adult(account'[d].born, Today)
    BY <1>9, <2>1 DEF AccIInv, OfAge
  <2>3. \A q \in Pending' : form'[q] = form[q] /\ q \in Pending BY <1>2, <1>5 DEF Pending
  <2>4. QED BY <2>2, <2>3 DEF AccIInv, OfAge
<1>20. Overtaken'
  <2> SUFFICES ASSUME NEW q \in Request, form'[q].at = "restore"
               PROVE  /\ form'[q].life <= account'[form'[q].who].life
                      /\ account'[form'[q].who].state = "live" =>
                           form'[q].life < account'[form'[q].who].life
    BY DEF Overtaken
  <2>1. form'[q] = form[q] BY <1>2
  <2>2. form[q].who \in Email /\ form[q].life \in Nat
    BY <2>1 DEF AccIInv, AccountTypes, Form, A!Life
  <2>3. CASE form[q].who = e BY <1>6, <1>9, <2>1, <2>2, <2>3 DEF AccIInv, Overtaken
  <2>4. CASE form[q].who # e BY <1>9, <2>1, <2>2, <2>4 DEF AccIInv, Overtaken
  <2>5. QED BY <2>3, <2>4
<1>21. OneBar'
  <2>1. CASE bars' = A!WithBar(e) /\ A!BarOf(e) = {}
    <3>1. bars' = [bars EXCEPT ![k + 1] = [owner |-> e, gone |-> FALSE, taken |-> TRUE]]
      BY <1>4, <2>1 DEF A!WithBar
    <3>2. /\ bars'[k + 1].owner = e /\ ~bars'[k + 1].gone /\ bars'[k + 1].taken
          /\ \A n \in A!Slug \ {k + 1} : bars'[n] = bars[n]
      BY <1>4, <3>1 DEF AccIInv, AccountTypes
    <3>3. bars[k + 1].owner = None
      <4>1. ~(k + 1 <= k) OBVIOUS
      <4>2. QED BY <1>3, <1>4, <4>1 DEF AccIInv, OneBar
    <3>4. \A d \in Email : IF d = e THEN A!BarOf(d)' = {k + 1} ELSE A!BarOf(d)' = A!BarOf(d)
      BY <1>4, <2>1, <3>2, <3>3, ConstantsOK DEF A!BarOf
    <3>5. \A d \in Email : AtMostOne(A!BarOf(d)')
      BY <3>4 DEF AccIInv, OneBar, AtMostOne
    <3>6. \A n \in A!Slug : ~bars'[n].taken => bars'[n].owner = None
      BY <3>2 DEF AccIInv, OneBar
    <3>7. \A d \in Email : ~A!Exists(d)' => A!BarOf(d)' = {}
      <4>1. A!Exists(e)' BY <1>9 DEF A!Exists
      <4>2. \A d \in Email \ {e} : A!Exists(d)' <=> A!Exists(d) BY <1>9 DEF A!Exists
      <4>3. QED BY <3>4, <4>1, <4>2 DEF AccIInv, OneBar
    <3>8. ASSUME NEW d \in Email, account'[d].state = "live", account'[d].role = "BAR"
          PROVE  \E n \in A!BarOf(d)' : ~bars'[n].gone
      <4>1. CASE d = e BY <3>2, <3>4, <4>1
      <4>2. CASE d # e
        <5>1. PICK n \in A!BarOf(d) : ~bars[n].gone
          BY <1>9, <3>8, <4>2 DEF AccIInv, OneBar
        <5>2. n # k + 1 /\ n \in A!Slug BY <3>3, <5>1, ConstantsOK DEF A!BarOf
        <5>3. QED BY <3>2, <3>4, <4>2, <5>1, <5>2
      <4>3. QED BY <4>1, <4>2
    <3>9. QED BY <3>5, <3>6, <3>7, <3>8 DEF OneBar, AtMostOne
  <2>2. CASE ~(bars' = A!WithBar(e) /\ A!BarOf(e) = {})
    <3>1. \A n \in A!Slug : bars[n] \in BarRow BY DEF AccIInv, AccountTypes
    <3>2. \A n \in A!Slug :
            \/ bars'[n] = bars[n]
            \/ n \in A!BarOf(e) /\ bars'[n] = [bars[n] EXCEPT !.gone = FALSE]
      BY <2>2
    <3>3. \A n \in A!Slug : /\ bars'[n].owner = bars[n].owner /\ bars'[n].taken = bars[n].taken
                            /\ ~bars[n].gone => ~bars'[n].gone
      BY <3>1, <3>2 DEF BarRow
    <3>4. \A d \in Email : A!BarOf(d)' = A!BarOf(d) BY <3>3 DEF A!BarOf
    <3>5. \A d \in Email : AtMostOne(A!BarOf(d)')
      BY <3>4 DEF AccIInv, OneBar, AtMostOne
    <3>6. \A n \in A!Slug : ~bars'[n].taken => bars'[n].owner = None
      BY <3>3 DEF AccIInv, OneBar
    <3>7. \A d \in Email : ~A!Exists(d)' => A!BarOf(d)' = {}
      <4>1. A!Exists(e)' BY <1>9 DEF A!Exists
      <4>2. \A d \in Email \ {e} : A!Exists(d)' <=> A!Exists(d) BY <1>9 DEF A!Exists
      <4>3. QED BY <3>4, <4>1, <4>2 DEF AccIInv, OneBar
    <3>8. ASSUME NEW d \in Email, account'[d].state = "live", account'[d].role = "BAR"
          PROVE  \E n \in A!BarOf(d)' : ~bars'[n].gone
      <4>1. CASE d = e
        <5>2. A!BarOf(e) # {} BY <1>9, <2>2, <3>8, <4>1
        <5>3. bars' = [n \in A!Slug |-> IF n \in A!BarOf(e) THEN [bars[n] EXCEPT !.gone = FALSE]
                                       ELSE bars[n]]
          BY <1>9, <2>2, <3>8, <4>1
        <5>4. PICK n \in A!BarOf(e) : TRUE BY <5>2
        <5>5. n \in A!Slug BY DEF A!BarOf
        <5>6. bars'[n] = [bars[n] EXCEPT !.gone = FALSE] BY <5>3, <5>5
        <5>7. ~bars'[n].gone BY <3>1, <5>5, <5>6 DEF BarRow
        <5>8. QED BY <3>4, <4>1, <5>7
      <4>2. CASE d # e
        <5>1. PICK n \in A!BarOf(d) : ~bars[n].gone
          BY <1>9, <3>8, <4>2 DEF AccIInv, OneBar
        <5>2. n \in A!Slug BY <5>1 DEF A!BarOf
        <5>3. QED BY <3>3, <3>4, <5>1, <5>2
      <4>3. QED BY <4>1, <4>2
    <3>9. QED BY <3>5, <3>6, <3>7, <3>8 DEF OneBar, AtMostOne
  <2>3. QED BY <2>1, <2>2
<1>22. QED BY <1>11, <1>13, <1>14, <1>15, <1>17, <1>18, <1>19, <1>20, <1>21 DEF AccIInv

LEMMA AccRegisters ==
  ASSUME AccIInv, NEW r \in Request, A!Create(r) \/ A!Restore(r) PROVE AccIInv'
<1> DEFINE e == form[r].who
<1>1. r \in Pending /\ e \in Email
  BY DEF A!Create, A!Restore, A!At, Pending, AccIInv, AccountTypes
<1>2. /\ \A d \in Email : account[d].life \in Nat /\ account[d].row \in A!Life
      /\ MaxApplied \in Nat /\ applied <= MaxApplied /\ applied \in Nat
  BY ConstantsOK DEF AccIInv, AccountTypes, AccountRow, A!Life
<1>3. account[e].life + 1 \in A!Life
  <2>1. /\ account[e].life + Cardinality(Pending) <= applied
        /\ IsFiniteSet(Pending)
    BY <1>1 DEF AccIInv, Paid
  <2>2. Cardinality(Pending) \in Nat /\ Cardinality(Pending) # 0
    BY <1>1, <2>1, FS_CardinalityType, FS_EmptySet
  <2>3. QED BY <1>1, <1>2, <2>1, <2>2 DEF A!Life
<1>4. CASE A!Create(r)
  <2>1. CASE A!Exists(e)
    <3>1. /\ form' = [form EXCEPT ![r] = A!Idle]
          /\ UNCHANGED <<account, codes, bars, progress, applied, carried, overlapped>>
      BY <1>4, <2>1 DEF A!Create, A!Return, A!history
    <3>2. QED BY <3>1, AccLeaves
  <2>2. CASE ~A!Exists(e)
    <3>1. /\ account' = [account EXCEPT ![e] = A!Registered(r, account[e].life + 1)]
          /\ bars' = IF form[r].role = "BAR" THEN A!WithBar(e) ELSE bars
          /\ form' = [form EXCEPT ![r].at = "code"]
          /\ UNCHANGED <<codes, progress, applied, carried, overlapped>>
      BY <1>4, <2>2 DEF A!Create, A!Goto, A!history
    <3>2. /\ A!BarOf(e) = {} /\ progress[e] = {} /\ progress \in [Email -> SUBSET A!Life]
      BY <1>1, <2>2 DEF AccIInv, OneBar, Fresh, AccountTypes
    <3>3. \/ bars' = bars /\ form[r].role # "BAR"
          \/ bars' = A!WithBar(e) /\ A!BarOf(e) = {}
      BY <3>1, <3>2
    <3>4. /\ progress' \in [Email -> SUBSET A!Life] /\ progress'[e] = {}
          /\ \A d \in Email \ {e} : progress'[d] = progress[d]
      BY <3>1, <3>2
    <3>5. UNCHANGED <<codes, applied, carried, overlapped>> BY <3>1
    <3>6. /\ account' = [account EXCEPT ![e] = A!Registered(r, account[e].life + 1)]
          /\ form' = [form EXCEPT ![r].at = "code"]
      BY <3>1
    <3>7. Lives(r, e, account[e].life + 1)
      BY <2>2, <3>3, <3>4, <3>5, <3>6 DEF Lives
    <3>8. QED BY <1>1, <1>3, <3>7, AccLives
  <2>3. QED BY <2>1, <2>2
<1>5. CASE A!Restore(r)
  <2>1. CASE ~A!Exists(e) \/ account[e].row # form[r].row
    <3>1. /\ form' = [form EXCEPT ![r] = A!Idle]
          /\ UNCHANGED <<account, codes, bars, progress, applied, carried, overlapped>>
      BY <1>5, <2>1 DEF A!Restore, A!Return, A!history
    <3>2. QED BY <3>1, AccLeaves
  <2>2. CASE ~(~A!Exists(e) \/ account[e].row # form[r].row)
    <3>1. /\ account' = [account EXCEPT ![e] = A!Registered(r, account[e].row)]
          /\ bars' = A!OwnersBar(e, form[r].role)
          /\ progress' = [progress EXCEPT ![e] = {}]
          /\ form' = [form EXCEPT ![r].at = "code"]
          /\ UNCHANGED <<codes, applied, carried, overlapped>>
      BY <1>5, <2>2 DEF A!Restore, A!Goto, A!history, A!Wiped
    <3>2. /\ progress' \in [Email -> SUBSET A!Life] /\ progress'[e] = {}
          /\ \A d \in Email \ {e} : progress'[d] = progress[d]
      BY <1>1, <3>1 DEF AccIInv, AccountTypes
    <3>3. \/ bars' = bars /\ form[r].role # "BAR"
          \/ bars' = A!WithBar(e) /\ A!BarOf(e) = {}
          \/ /\ A!BarOf(e) # {}
             /\ bars' = [n \in A!Slug |-> IF n \in A!BarOf(e) THEN [bars[n] EXCEPT !.gone = FALSE]
                                          ELSE bars[n]]
      BY <3>1 DEF A!OwnersBar
    <3>4. Lives(r, e, account[e].row) BY <2>2, <3>1, <3>2, <3>3 DEF Lives
    <3>5. QED BY <1>1, <1>2, <3>4, AccLives
  <2>3. QED BY <2>1, <2>2
<1>6. QED BY <1>4, <1>5

\* An administrator's deletion keeps the row, the owner's takes it.
LEMMA AccDeletes ==
  ASSUME AccIInv, NEW e \in Email, A!SoftDelete(e) \/ A!Erase(e) PROVE AccIInv'
<1>1. /\ applied < MaxApplied /\ applied' = applied + 1
      /\ progress' = [progress EXCEPT ![e] = {}]
      /\ UNCHANGED <<codes, form, carried, overlapped>>
  BY DEF A!SoftDelete, A!Erase, A!Wiped, A!history
<1>2. /\ account' \in [Email -> AccountRow]
      /\ \A d \in Email \ {e} : account'[d] = account[d]
      /\ account'[e].life = account[e].life /\ account'[e].state # "live"
      /\ \/ /\ account'[e].state = "soft" /\ account[e].state # "none"
            /\ account'[e].row = account[e].row
            /\ account'[e].role = account[e].role /\ account'[e].born = account[e].born
            /\ bars' = bars
         \/ /\ account'[e].state = "none" /\ account[e].state # "none"
            /\ account'[e].row = 0 /\ account'[e].role = None
            /\ bars' = [n \in A!Slug |-> IF n \in A!BarOf(e)
                          THEN [bars[n] EXCEPT !.owner = None, !.gone = TRUE] ELSE bars[n]]
  <2>1. account[e] \in AccountRow /\ 0 \in A!Life
    BY ConstantsOK DEF AccIInv, AccountTypes, A!Life
  <2>2. CASE A!SoftDelete(e)
    <3>1. account' = [account EXCEPT ![e].state = "soft"] /\ bars' = bars /\ account[e].state # "none"
      BY <2>2 DEF A!SoftDelete, A!Exists
    <3>2. [account[e] EXCEPT !.state = "soft"] \in AccountRow BY <2>1 DEF AccountRow
    <3>3. account'[e] = [account[e] EXCEPT !.state = "soft"] BY <3>1 DEF AccIInv, AccountTypes
    <3>4. account' \in [Email -> AccountRow] /\ \A d \in Email \ {e} : account'[d] = account[d]
      BY <3>1, <3>2 DEF AccIInv, AccountTypes
    <3>5. QED BY <2>1, <3>1, <3>3, <3>4 DEF AccountRow
  <2>3. CASE A!Erase(e)
    <3> DEFINE g == [A!Gone EXCEPT !.life = account[e].life]
    <3>1. /\ account' = [account EXCEPT ![e] = g]
          /\ bars' = [n \in A!Slug |-> IF n \in A!BarOf(e)
                        THEN [bars[n] EXCEPT !.owner = None, !.gone = TRUE] ELSE bars[n]]
          /\ account[e].state = "live"
      BY <2>3 DEF A!Erase
    <3>2. /\ g \in AccountRow /\ g.state = "none" /\ g.life = account[e].life /\ g.row = 0
          /\ g.role = None
      BY <2>1 DEF A!Gone, AccountRow
    <3> HIDE DEF g
    <3>3. /\ account'[e] = g /\ account' \in [Email -> AccountRow]
          /\ \A d \in Email \ {e} : account'[d] = account[d]
      BY <3>1, <3>2 DEF AccIInv, AccountTypes
    <3>4. QED BY <3>1, <3>2, <3>3
  <2>4. QED BY <2>2, <2>3
<1>3. /\ applied \in Nat /\ applied' \in A!Life /\ MaxApplied \in Nat
  BY <1>1, ConstantsOK DEF AccIInv, AccountTypes, A!Life
<1>4. \A n \in A!Slug : bars[n] \in BarRow BY DEF AccIInv, AccountTypes
<1>5. /\ bars' \in [A!Slug -> BarRow]
      /\ \A n \in A!Slug : bars'[n].taken = bars[n].taken
      /\ \A n \in A!Slug : n \notin A!BarOf(e) => bars'[n] = bars[n]
      /\ account'[e].state = "none" => \A n \in A!BarOf(e) : bars'[n].owner = None
  <2>1. CASE bars' = bars /\ account'[e].state = "soft"
    BY <2>1 DEF AccIInv, AccountTypes
  <2>2. CASE bars' = [n \in A!Slug |-> IF n \in A!BarOf(e)
                        THEN [bars[n] EXCEPT !.owner = None, !.gone = TRUE] ELSE bars[n]]
    <3>1. \A n \in A!Slug : LET b == [bars[n] EXCEPT !.owner = None, !.gone = TRUE] IN
            b \in BarRow /\ b.taken = bars[n].taken /\ b.owner = None
      BY <1>4 DEF BarRow
    <3>2. A!BarOf(e) \subseteq A!Slug BY DEF A!BarOf
    <3>3. QED BY <1>4, <2>2, <3>1, <3>2
  <2>3. QED BY <1>2, <2>1, <2>2
<1>6. /\ progress' \in [Email -> SUBSET A!Life] /\ progress'[e] = {}
      /\ \A d \in Email \ {e} : progress'[d] = progress[d]
  BY <1>1 DEF AccIInv, AccountTypes
<1>7. AccountTypes' BY <1>1, <1>2, <1>3, <1>5, <1>6 DEF AccIInv, AccountTypes
<1>8. Pending' = Pending BY <1>1 DEF Pending
<1>9. \A d \in Email : /\ account'[d].life = account[d].life /\ account[d].life \in Nat
                       /\ account[d].row \in Nat /\ account'[d].row <= account[d].row
  <2>1. \A d \in Email : account[d].life \in Nat /\ account[d].row \in Nat
    BY ConstantsOK DEF AccIInv, AccountTypes, AccountRow, A!Life
  <2>2. account'[e].row = account[e].row \/ account'[e].row = 0 BY <1>2
  <2>3. \A d \in Email : account'[d].row <= account[d].row
    <3>1. ASSUME NEW d \in Email PROVE account'[d].row <= account[d].row
      <4>1. CASE d = e BY <2>1, <2>2, <4>1
      <4>2. CASE d # e
        <5>1. account'[d] = account[d] BY <1>2, <4>2
        <5>2. QED BY <2>1, <5>1
      <4>3. QED BY <4>1, <4>2
    <3>2. QED BY <3>1
  <2>4. \A d \in Email : account'[d].life = account[d].life BY <1>2
  <2>5. QED BY <2>1, <2>3, <2>4
<1>10. Paid'
  <2>1. PICK k \in Nat : /\ k + Cardinality(Pending) <= applied
                         /\ \A n \in A!Slug : bars[n].taken <=> n <= k
    BY DEF AccIInv, Paid
  <2>2. IsFiniteSet(Pending) /\ Cardinality(Pending) \in Nat
    BY FS_CardinalityType DEF AccIInv, Paid
  <2>3. k + Cardinality(Pending') <= applied' BY <1>1, <1>3, <1>8, <2>1, <2>2
  <2>4. \A d \in Email : account'[d].life + Cardinality(Pending') <= applied'
    BY <1>1, <1>3, <1>8, <1>9, <2>2 DEF AccIInv, Paid
  <2>5. QED BY <1>5, <1>8, <2>1, <2>2, <2>3, <2>4 DEF Paid, A!Slug
<1>11. Fresh'
  <2>1. \A d \in Email \ {e} : A!Exists(d)' <=> A!Exists(d) BY <1>2 DEF A!Exists
  <2>2. A!FreshStart' BY <1>1, <1>2, <1>6 DEF AccIInv, Fresh, A!FreshStart
  <2>3. \A d \in Email : ~A!Exists(d)' => progress'[d] = {} BY <1>6, <2>1 DEF AccIInv, Fresh
  <2>4. QED BY <2>2, <2>3 DEF Fresh
<1>12. Rows'
  <2>1. \A i \in DOMAIN codes : codes[i].of \in Email
    <3>1. \A i \in DOMAIN codes : codes[i] \in CodeRow
      BY ElementOfSeq, LenProperties DEF AccIInv, AccountTypes
    <3>2. QED BY <3>1 DEF CodeRow
  <2>2. \A i \in DOMAIN codes : codes[i].row <= account'[codes[i].of].life
    BY <1>9, <2>1 DEF AccIInv, Rows
  <2>3. \A q \in Request : form[q].at # "idle" => form[q].row <= account'[form[q].who].life
    BY <1>9 DEF AccIInv, Rows, AccountTypes
  <2>4. \A d \in Email : account'[d].row <= account'[d].life
    <3>1. \A d \in Email : account'[d].row \in Nat
      <4>1. \A d \in Email : account'[d] \in AccountRow BY <1>2
      <4>2. QED BY <4>1, ConstantsOK DEF AccountRow, A!Life
    <3>2. \A d \in Email : account[d].row <= account[d].life BY DEF AccIInv, Rows
    <3>3. QED BY <1>9, <3>1, <3>2
  <2>5. QED BY <1>1, <2>2, <2>3, <2>4 DEF Rows
\* The codes that can be used stay, or go with the row.
<1>13. \A d \in Email :
         \/ ~A!Exists(d)' /\ A!Usable(d)' = {}
         \/ A!Usable(d)' = A!Usable(d) /\ account'[d].row = account[d].row
            /\ (A!Exists(d)' <=> A!Exists(d))
  <2> SUFFICES ASSUME NEW d \in Email
               PROVE  \/ ~A!Exists(d)' /\ A!Usable(d)' = {}
                      \/ A!Usable(d)' = A!Usable(d) /\ account'[d].row = account[d].row
                         /\ (A!Exists(d)' <=> A!Exists(d))
    OBVIOUS
  <2>1. CASE d = e /\ account'[e].state = "none"
    BY <2>1 DEF A!Usable, A!Exists
  <2>2. CASE ~(d = e /\ account'[e].state = "none")
    <3>1. account'[d].row = account[d].row BY <1>2, <2>2
    <3>2. account'[d].state = "none" <=> account[d].state = "none" BY <1>2, <2>2
    <3>3. QED BY <1>1, <3>1, <3>2 DEF A!Usable, A!Exists
  <2>3. QED BY <2>1, <2>2
<1>14. SeenAll' BY <1>1, <1>13 DEF AccIInv, SeenAll, Inserts
<1>15. OneUsable' BY <1>1, <1>13 DEF AccIInv, OneUsable, AtMostOne
<1>16. OneBar'
  <2>1. A!BarOf(e) \subseteq A!Slug BY DEF A!BarOf
  <2>2. \A n \in A!Slug : bars[n].owner = e <=> n \in A!BarOf(e) BY DEF A!BarOf
  <2>3. \A n \in A!Slug : bars'[n].owner = bars[n].owner \/ bars'[n].owner = None
    BY <1>2, <1>5, <2>2
  <2>4. \A d \in Email : A!BarOf(d)' \subseteq A!BarOf(d)
    BY <2>3, ConstantsOK DEF A!BarOf
  <2>5. \A d \in Email \ {e} : A!BarOf(d)' = A!BarOf(d)
    BY <1>5, <2>2, <2>4 DEF A!BarOf
  <2>6. account'[e].state = "none" => A!BarOf(e)' = {}
    BY <1>5, <2>2, <2>3, <2>4, ConstantsOK DEF A!BarOf
  <2>7. \A n \in A!Slug : ~bars'[n].taken => bars'[n].owner = None
    BY <1>5, <2>3 DEF AccIInv, OneBar
  <2>8. \A d \in Email : AtMostOne(A!BarOf(d)') BY <2>4 DEF AccIInv, OneBar, AtMostOne
  <2>9. \A d \in Email : ~A!Exists(d)' => A!BarOf(d)' = {}
    BY <1>2, <2>5, <2>6 DEF AccIInv, OneBar, A!Exists
  <2>10. ASSUME NEW d \in Email, account'[d].state = "live", account'[d].role = "BAR"
         PROVE  \E n \in A!BarOf(d)' : ~bars'[n].gone
    <3>1. d # e /\ account'[d] = account[d] BY <1>2, <2>10
    <3>2. PICK n \in A!BarOf(d) : ~bars[n].gone BY <2>10, <3>1 DEF AccIInv, OneBar
    <3>3. n \in A!Slug /\ n \notin A!BarOf(e) BY <3>1, <3>2 DEF A!BarOf
    <3>4. QED BY <1>5, <2>5, <3>1, <3>2, <3>3
  <2>11. QED BY <2>7, <2>8, <2>9, <2>10 DEF OneBar, AtMostOne
<1>17. OfAge' BY <1>1, <1>2, <1>8, ConstantsOK DEF AccIInv, OfAge
<1>18. Overtaken'
  <2>1. \A q \in Request : form[q].at = "restore" => form[q].who \in Email
    BY DEF AccIInv, AccountTypes
  <2>2. QED BY <1>1, <1>2, <1>9, <2>1 DEF AccIInv, Overtaken
<1>19. QED BY <1>7, <1>10, <1>11, <1>12, <1>14, <1>15, <1>16, <1>17, <1>18 DEF AccIInv

LEMMA AccStep == ASSUME AccIInv, [A!Next]_(A!vars) PROVE AccIInv'
<1>1. ASSUME NEW r \in A!Free,
             \/ \E e \in Email :
                  \/ \E b \in Birth, role \in {"USER", "BAR"} : A!BeginRegister(r, e, role, b)
                  \/ A!Resend(r, e) \/ A!BeginEarn(r, e)
             \/ \E i \in DOMAIN codes : A!FindCode(r, i)
      PROVE  AccIInv'
  BY <1>1, AccArrives
<1>2. ASSUME NEW r \in A!Busy,
             A!Create(r) \/ A!Restore(r) \/ A!ScanCodes(r) \/ A!InsertCode(r) \/ A!Verify(r)
             \/ A!Earn(r) \/ A!Fail(r)
      PROVE  AccIInv'
  <2>1. r \in Request BY DEF A!Busy
  <2>2. QED BY <1>2, <2>1, AccRegisters, AccScans, AccInserts, AccVerifies, AccEarns
<1>3. CASE \E e \in Email : A!SoftDelete(e) \/ A!Erase(e) BY <1>3, AccDeletes
<1>4. CASE A!Elapse({"hot"}, "warm") \/ A!Elapse({"hot", "warm"}, "old")
  <2>1. "warm" \in {"hot", "warm", "old"} /\ "old" \in {"hot", "warm", "old"} OBVIOUS
  <2>2. QED BY <1>4, <2>1, AccElapses
<1>5. CASE UNCHANGED A!vars
  <2>1. UNCHANGED <<account, codes, bars, progress, applied, form, carried, overlapped>>
    BY <1>5 DEF A!vars
  <2>2. Fresh' BY <2>1 DEF AccIInv, Fresh, A!FreshStart, A!Exists
  <2>3. QED BY <2>1, <2>2, AccFades DEF AccIInv, AccountTypes
<1>6. QED BY <1>1, <1>2, <1>3, <1>4, <1>5 DEF A!Next

\* A registration takes a live account over only if it had seen it deleted.
LEMMA AccTakes == ASSUME AccIInv, [A!Next]_(A!vars) PROVE A!AccountStands
<1> SUFFICES ASSUME NEW e \in Email, account[e].state = "live", account'[e].by # account[e].by,
                    account'[e].state # "none"
             PROVE  \E r \in Request : account'[e].by = r /\ form[r].life < account[e].life
  BY DEF A!AccountStands
<1>1. account' # account OBVIOUS
<1>2. account \in [Email -> AccountRow] BY DEF AccIInv, AccountTypes
<1>3. \/ \E r \in A!Busy : A!Create(r) \/ A!Restore(r) \/ A!Verify(r)
      \/ \E d \in Email : A!SoftDelete(d) \/ A!Erase(d)
  BY <1>1 DEF A!Next, A!vars, A!BeginRegister, A!Resend, A!BeginEarn, A!FindCode, A!ScanCodes,
              A!InsertCode, A!Earn, A!Fail, A!Elapse
<1>4. CASE \E d \in Email : A!SoftDelete(d) \/ A!Erase(d)
  <2>1. PICK d \in Email : A!SoftDelete(d) \/ A!Erase(d) BY <1>4
  <2>2. CASE A!SoftDelete(d)
    <3>1. account' = [account EXCEPT ![d].state = "soft"] BY <2>2 DEF A!SoftDelete
    <3>2. account'[e] = account[e] \/ account'[e] = [account[e] EXCEPT !.state = "soft"]
      BY <1>2, <3>1
    <3>3. account'[e].by = account[e].by BY <1>2, <3>2 DEF AccountRow
    <3>4. QED BY <3>3
  <2>3. CASE A!Erase(d)
    <3>1. account' = [account EXCEPT ![d] = [A!Gone EXCEPT !.life = account[d].life]]
      BY <2>3 DEF A!Erase
    <3>2. [A!Gone EXCEPT !.life = account[d].life].state = "none" BY DEF A!Gone
    <3>3. account'[e] = account[e] \/ account'[e].state = "none" BY <1>2, <3>1, <3>2
    <3>4. QED BY <3>3
  <2>4. QED BY <2>1, <2>2, <2>3
<1>5. CASE \E r \in A!Busy : A!Create(r) \/ A!Restore(r) \/ A!Verify(r)
  <2>1. PICK r \in Request : A!Create(r) \/ A!Restore(r) \/ A!Verify(r) BY <1>5 DEF A!Busy
  <2>2. CASE A!Verify(r)
    <3>1. account' = [account EXCEPT ![form[r].who].verified = TRUE]
      BY <1>1, <2>2 DEF A!Verify
    <3>2. account'[e] = account[e] \/ account'[e] = [account[e] EXCEPT !.verified = TRUE]
      BY <1>2, <3>1
    <3>3. account'[e].by = account[e].by BY <1>2, <3>2 DEF AccountRow
    <3>4. QED BY <3>3
  <2>3. CASE A!Create(r)
    <3>1. /\ account' = [account EXCEPT ![form[r].who] = A!Registered(r, account[form[r].who].life + 1)]
          /\ ~A!Exists(form[r].who)
      BY <1>1, <2>3 DEF A!Create
    <3>2. form[r].who # e BY <3>1 DEF A!Exists
    <3>3. account'[e] = account[e] BY <1>2, <3>1, <3>2
    <3>4. QED BY <3>3
  <2>4. CASE A!Restore(r)
    <3>1. /\ account' = [account EXCEPT ![form[r].who] = A!Registered(r, account[form[r].who].row)]
          /\ form[r].at = "restore"
      BY <1>1, <2>4 DEF A!Restore, A!At
    <3>2. form[r].who = e
      <4>1. form[r].who # e => account'[e] = account[e] BY <1>2, <3>1
      <4>2. QED BY <4>1
    <3>3. account'[e].by = r
      <4>1. A!Registered(r, account[form[r].who].row).by = r BY DEF A!Registered
      <4>2. QED BY <1>2, <3>1, <3>2, <4>1
    <3>4. form[r].life < account[e].life BY <3>1, <3>2 DEF AccIInv, Overtaken
    <3>5. QED BY <3>3, <3>4
  <2>5. QED BY <2>1, <2>2, <2>3, <2>4
<1>6. QED BY <1>3, <1>4, <1>5

(* Uploads and deletions *)

Chore == [at : {"idle", "put", "row", "unrow", "unput", "use", "handshake", "event",
                "booking"} \cup E!Deleting,
          who : User \cup {None}, on : Object \cup {None}, as : E!Use, keys : SUBSET Object]
Thing == [of : User \cup {None}, stored : BOOLEAN, row : BOOLEAN, as : E!Use]

ErasureTypes ==
  /\ standing \in [User -> {"live", "gone"}]
  /\ object \in [Object -> Thing]
  /\ presence \subseteq User /\ events \subseteq User
  /\ booked \in [User -> {"none", "pending", "cancelled", "named"}]
  /\ erased \in 0..MaxErased
  /\ chore \in [Request -> Chore]
  /\ \A r \in Request : chore[r].at # "idle" => chore[r].who \in User
  /\ \A r \in Request : chore[r].at \in {"put", "row", "unrow", "unput", "use"} =>
       chore[r].on \in Object
  /\ left \subseteq Object /\ after \subseteq User \X {"presence", "event", "booking"}

\* An upload has its key for itself until it is stored, and is its user's.
OwnKey ==
  \A r \in Request :
    /\ chore[r].at = "put" =>
         object[chore[r].on] = E!New /\ \A q \in Request \ {r} : chore[q].on # chore[r].on
    /\ chore[r].at = "row" => object[chore[r].on].of = chore[r].who
    /\ chore[r].at = "use" => object[chore[r].on].of = chore[r].who

\* One deletion of a user at a time has wiped and not committed.
OneRemoval ==
  \A r \in Request : chore[r].at = "remove" =>
    /\ standing[chore[r].who] = "live"
    /\ \A q \in Request \ {r} : chore[q].at = "remove" => chore[q].who # chore[r].who

\* What a deletion has looked for is in its list, or was put to use since.
Listed ==
  \A r \in Request, o \in Object : object[o].of = chore[r].who =>
    \/ o \in chore[r].keys \cup left
    \/ /\ chore[r].at \in {"posts", "messages", "wipe", "remove"} => object[o].as # "avatar"
       /\ chore[r].at \in {"messages", "wipe", "remove"} => object[o].as # "post"
       /\ chore[r].at \in {"wipe", "remove"} => object[o].as \notin {"direct", "group"}

\* Of a user who is gone there is only what a deletion has still to clear, or
\* could not.
Cleared ==
  \A u \in User : standing[u] = "gone" =>
    /\ \A o \in Object : object[o].of = u =>
         /\ ~object[o].row
         /\ object[o].stored => o \in left \/ \E r \in Request :
              chore[r].at \in {"presence", "storage"} /\ chore[r].who = u /\ o \in chore[r].keys
    /\ u \in presence => <<u, "presence">> \in after \/ \E r \in Request :
         chore[r].at = "presence" /\ chore[r].who = u
    /\ u \in events => <<u, "event">> \in after
    /\ booked[u] \in {"none", "cancelled"} \/ <<u, "booking">> \in after

EraIInv == ErasureTypes /\ OwnKey /\ OneRemoval /\ Listed /\ Cleared

LEMMA EraInit == E!Init => EraIInv
<1> SUFFICES ASSUME E!Init PROVE EraIInv
  OBVIOUS
<1>1. /\ chore = [r \in Request |-> E!Idle] /\ standing = [u \in User |-> "live"]
      /\ presence = {} /\ events = {} /\ booked = [u \in User |-> "none"]
      /\ erased \in 0..MaxErased /\ left = {} /\ after = {}
  BY DEF E!Init
<1>2. object \in [Object -> Thing]
  <2>1. object \in [Object -> {E!New} \cup [of : User, stored : {TRUE}, row : {TRUE}, as : E!Use]]
    BY DEF E!Init
  <2>2. {E!New} \cup [of : User, stored : {TRUE}, row : {TRUE}, as : E!Use] \subseteq Thing
    <3>1. E!New \in Thing BY DEF E!New, E!Use, Thing
    <3>2. [of : User, stored : {TRUE}, row : {TRUE}, as : E!Use] \subseteq Thing
      BY DEF Thing
    <3>3. QED BY <3>1, <3>2
  <2>3. QED BY <2>1, <2>2
<1>3. ErasureTypes
  BY <1>1, <1>2 DEF ErasureTypes, Chore, E!Idle, E!Use, E!Deleting
<1>4. OwnKey /\ OneRemoval /\ Cleared
  BY <1>1 DEF OwnKey, OneRemoval, Cleared, E!Idle
<1>5. Listed
  BY <1>1 DEF Listed, E!Idle
<1>6. QED BY <1>3, <1>4, <1>5 DEF EraIInv

\* A request that is let in has promised nothing yet.
LEMMA EraBegins ==
  ASSUME EraIInv, NEW r \in Request, chore[r] = E!Idle, NEW c \in Chore,
         erased' \in 0..MaxErased, chore' = [chore EXCEPT ![r] = c],
         UNCHANGED <<E!rows, object, left, after>>,
         c.who \in User, standing[c.who] = "live",
         \/ c.at \in {"handshake", "event", "booking"} /\ c.on = None
         \/ c.at = "posts" /\ c.on = None /\ c.keys = E!Of(c.who, {"avatar"})
         \/ c.at = "unrow" /\ c.on \in Object /\ object[c.on].row
         \/ /\ c.at = "use" /\ c.on \in Object
            /\ object[c.on].of = c.who /\ object[c.on].stored
         \/ /\ c.at = "put" /\ c.on \in Object
            /\ object[c.on] = E!New /\ \A q \in Request : chore[q].on # c.on
  PROVE  EraIInv'
<1>1. UNCHANGED <<standing, presence, events, booked>> BY DEF E!rows
<1>2. /\ \A q \in Request \ {r} : chore'[q] = chore[q]
      /\ chore'[r] = c /\ chore[r].at = "idle"
  BY DEF EraIInv, ErasureTypes, E!Idle
<1>3. ErasureTypes'
  BY <1>1, <1>2 DEF EraIInv, ErasureTypes, E!Deleting
<1>4. OwnKey'
  <2>1. ASSUME NEW q \in Request, chore[q].at = "put", q # r PROVE c.on # chore[q].on
    <3>1. chore[q].on \in Object /\ object[chore[q].on] = E!New
      BY <2>1 DEF EraIInv, ErasureTypes, OwnKey
    <3>2. ~E!New.stored /\ ~E!New.row BY DEF E!New
    <3>3. QED BY <3>1, <3>2, ConstantsOK
  <2>2. ASSUME NEW q \in Request
        PROVE  /\ chore'[q].at = "put" =>
                    /\ object[chore'[q].on] = E!New
                    /\ \A p \in Request \ {q} : chore'[p].on # chore'[q].on
               /\ chore'[q].at \in {"row", "use"} => object[chore'[q].on].of = chore'[q].who
    BY <1>2, <2>1, <2>2 DEF EraIInv, OwnKey
  <2>3. QED BY <2>2 DEF OwnKey
<1>5. OneRemoval' BY <1>1, <1>2 DEF EraIInv, ErasureTypes, OneRemoval, Chore
<1>6. Listed'
  BY <1>2 DEF EraIInv, ErasureTypes, Listed, Chore, Thing, E!Of
<1>7. Cleared' BY <1>1, <1>2 DEF EraIInv, ErasureTypes, Cleared, Chore
<1>8. QED BY <1>3, <1>4, <1>5, <1>6, <1>7 DEF EraIInv

LEMMA EraArrives ==
  ASSUME EraIInv, NEW r \in E!Free, NEW u \in User,
         \/ \E o \in Object : E!BeginUpload(r, u, o) \/ E!BeginUnload(r, u, o)
                              \/ \E as \in E!Use : E!BeginUse(r, u, o, as)
         \/ \E kind \in {"handshake", "event", "booking"} : E!BeginVisit(r, u, kind)
         \/ E!BeginDelete(r, u)
  PROVE  EraIInv'
<1> USE DEF E!Begins, E!Live
<1>1. r \in Request /\ chore[r] = E!Idle /\ erased + 1 \in 0..MaxErased
  BY ConstantsOK DEF E!Free, EraIInv, ErasureTypes
<1>2. CASE E!BeginDelete(r, u)
  <2> DEFINE c == [E!Idle EXCEPT !.at = "posts", !.who = u, !.keys = E!Of(u, {"avatar"})]
  <2>1. /\ c \in Chore /\ c.who = u /\ c.at = "posts" /\ c.on = None
        /\ c.keys = E!Of(c.who, {"avatar"})
    BY DEF E!Idle, Chore, E!Deleting, E!Use, E!Of
  <2> HIDE DEF c
  <2>2. chore' = [chore EXCEPT ![r] = c] BY <1>2 DEF E!BeginDelete, c
  <2>3. QED BY <1>1, <1>2, <2>1, <2>2, EraBegins DEF E!BeginDelete
<1>3. ASSUME NEW o \in Object \cup {None}, NEW as \in E!Use, NEW l \in {"handshake", "event", "booking", "put", "unrow", "use"},
             \/ l \in {"handshake", "event", "booking"} /\ o = None
             \/ l \in {"put", "unrow", "use"} /\ o \in Object,
             E!Begins(r, u, o, as, l),
             l = "unrow" => object[o].row,
             l = "use" => object[o].of = u /\ object[o].stored,
             l = "put" => object[o] = E!New /\ \A q \in Request : chore[q].on # o
      PROVE  EraIInv'
  <2> DEFINE c == [E!Idle EXCEPT !.at = l, !.who = u, !.on = o, !.as = as]
  <2>1. c \in Chore /\ c.who = u /\ c.at = l /\ c.on = o
    BY <1>3 DEF E!Idle, Chore, E!Deleting, E!Use
  <2> HIDE DEF c
  <2>2. chore' = [chore EXCEPT ![r] = c] BY <1>3 DEF c
  <2>3. QED BY <1>1, <1>3, <2>1, <2>2, EraBegins
<1>4. CASE \E o \in Object : E!BeginUpload(r, u, o) \/ E!BeginUnload(r, u, o)
  <2>1. "none" \in E!Use BY DEF E!Use
  <2>2. QED BY <1>3, <1>4, <2>1 DEF E!BeginUpload, E!BeginUnload
<1>5. CASE \E o \in Object, as \in E!Use : E!BeginUse(r, u, o, as)
  <2>1. PICK o \in Object, as \in E!Use : E!BeginUse(r, u, o, as) BY <1>5
  <2>2. E!Begins(r, u, o, as, "use") /\ object[o].of = u /\ object[o].stored
    BY <2>1 DEF E!BeginUse
  <2>3. /\ o \in Object \cup {None} /\ "use" \in {"put", "unrow", "use"}
        /\ "use" \in {"handshake", "event", "booking", "put", "unrow", "use"}
        /\ "use" # "unrow" /\ "use" # "put"
    OBVIOUS
  <2> HIDE DEF E!Begins
  <2>4. QED BY <1>3, <2>2, <2>3, Zenon
<1>6. CASE \E kind \in {"handshake", "event", "booking"} : E!BeginVisit(r, u, kind)
  <2>1. PICK kind \in {"handshake", "event", "booking"} : E!Begins(r, u, None, "none", kind)
    BY <1>6 DEF E!BeginVisit
  <2>2. /\ "none" \in E!Use /\ None \in Object \cup {None}
        /\ kind \in {"handshake", "event", "booking", "put", "unrow", "use"}
        /\ kind # "unrow" /\ kind # "put" /\ kind # "use"
    BY DEF E!Use
  <2> HIDE DEF E!Begins
  <2>3. QED BY <1>3, <2>1, <2>2, Zenon
<1>7. QED BY <1>2, <1>4, <1>5, <1>6

\* What a step leaves alone in the other requests.
LEMMA EraFrame ==
  ASSUME ErasureTypes, NEW r \in Request, NEW c, chore' = [chore EXCEPT ![r] = c]
  PROVE  chore'[r] = c /\ \A q \in Request \ {r} : chore'[q] = chore[q]
BY DEF ErasureTypes

\* A request that is done promises nothing; who had something to clear has done it.
LEMMA EraReturns ==
  ASSUME EraIInv, NEW r \in Request, chore' = [chore EXCEPT ![r] = E!Idle],
         erased' = erased,
         standing' = standing, ErasureTypes', Cleared',
         \A o \in Object : object'[o].of = object[o].of,
         \A q \in Request \ {r} : chore[q].at = "put" =>
           object'[chore[q].on] = object[chore[q].on],
         \A o \in Object : o \in left' \/ (o \notin left /\ object'[o].as \in {object[o].as, "none"})
  PROVE  EraIInv'
<1>1. chore'[r] = E!Idle /\ \A q \in Request \ {r} : chore'[q] = chore[q]
  BY EraFrame DEF EraIInv
<1>2. E!Idle.at = "idle" /\ E!Idle.on = None /\ E!Idle.who = None BY DEF E!Idle
<1>3. OwnKey'
  BY <1>1, <1>2, ConstantsOK DEF EraIInv, ErasureTypes, OwnKey
<1>4. OneRemoval' BY <1>1, <1>2 DEF EraIInv, OneRemoval
<1>5. Listed'
  <2> SUFFICES ASSUME NEW q \in Request, NEW o \in Object, object'[o].of = chore'[q].who,
                      o \notin chore'[q].keys, o \notin left'
               PROVE  /\ chore'[q].at \in {"posts", "messages", "wipe", "remove"} =>
                           object'[o].as # "avatar"
                      /\ chore'[q].at \in {"messages", "wipe", "remove"} => object'[o].as # "post"
                      /\ chore'[q].at \in {"wipe", "remove"} => object'[o].as \notin {"direct", "group"}
    BY DEF Listed
  <2>1. CASE q = r BY <1>1, <1>2, <2>1
  <2>2. CASE q # r BY <1>1, <2>2 DEF EraIInv, Listed
  <2>3. QED BY <2>1, <2>2
<1>6. QED BY <1>3, <1>4, <1>5 DEF EraIInv

LEMMA EraUploads ==
  ASSUME EraIInv, NEW r \in Request, E!Put(r) \/ E!AddRow(r) PROVE EraIInv'
<1> DEFINE o == chore[r].on
<1>1. chore[r].who \in User /\ o \in Object /\ chore[r].at \in {"put", "row"}
  BY DEF EraIInv, ErasureTypes, E!Put, E!AddRow, E!At
<1>2. CASE E!Put(r)
  <2> DEFINE new == [E!New EXCEPT !.of = chore[r].who, !.stored = TRUE]
  <2>1. /\ object' = [object EXCEPT ![o] = new]
        /\ left' = IF standing[chore[r].who] = "live" THEN left ELSE left \cup {o}
        /\ chore' = [chore EXCEPT ![r].at = "row"] /\ chore[r].at = "put"
        /\ UNCHANGED <<standing, presence, events, booked, erased, after>>
    BY <1>2 DEF E!Put, E!At, E!Goto, E!Live, E!rows
  <2>2. /\ new.of = chore[r].who /\ new.stored /\ ~new.row /\ new.as = "none" /\ new \in Thing
    BY <1>1 DEF E!New, Thing, E!Use
  <2> HIDE DEF new
  <2>3. /\ chore'[r] = [chore[r] EXCEPT !.at = "row"]
        /\ \A q \in Request \ {r} : chore'[q] = chore[q]
        /\ object'[o] = new /\ \A p \in Object \ {o} : object'[p] = object[p]
    BY <1>1, <2>1 DEF EraIInv, ErasureTypes
  <2>4. /\ chore'[r].at = "row" /\ chore'[r].who = chore[r].who /\ chore'[r].on = o
        /\ chore'[r].keys = chore[r].keys /\ chore'[r] \in Chore
    BY <2>3 DEF EraIInv, ErasureTypes, Chore, E!Deleting
  <2>5. ErasureTypes'
    BY <1>1, <2>1, <2>2, <2>3, <2>4 DEF EraIInv, ErasureTypes, E!Deleting
  <2>6. object[o] = E!New /\ \A q \in Request \ {r} : chore[q].on # o
    BY <2>1 DEF EraIInv, OwnKey
  <2>7. OwnKey' BY <1>1, <2>1, <2>2, <2>3, <2>4, <2>6 DEF EraIInv, ErasureTypes, OwnKey
  <2>8. OneRemoval' BY <2>1, <2>3, <2>4 DEF EraIInv, OneRemoval
  <2>9. Listed' BY <2>1, <2>2, <2>3, <2>4 DEF EraIInv, Listed
  <2>10. Cleared' BY <1>1, <2>1, <2>2, <2>3, <2>4 DEF EraIInv, Cleared, ErasureTypes
  <2>11. QED BY <2>5, <2>7, <2>8, <2>9, <2>10 DEF EraIInv
<1>3. CASE E!AddRow(r)
  <2>1. /\ object' = [object EXCEPT ![o].row = (standing[chore[r].who] = "live")]
        /\ chore' = [chore EXCEPT ![r] = E!Idle] /\ chore[r].at = "row"
        /\ UNCHANGED <<standing, presence, events, booked, erased, left, after>>
    BY <1>3 DEF E!AddRow, E!At, E!Return, E!Live, E!rows
  <2>2. /\ object'[o] = [object[o] EXCEPT !.row = (standing[chore[r].who] = "live")]
        /\ \A p \in Object \ {o} : object'[p] = object[p]
        /\ chore'[r] = E!Idle /\ \A q \in Request \ {r} : chore'[q] = chore[q]
    BY <1>1, <2>1, EraFrame DEF EraIInv, ErasureTypes
  <2>3. /\ object'[o].of = object[o].of /\ object'[o].stored = object[o].stored
        /\ object'[o].as = object[o].as /\ object'[o] \in Thing
        /\ object'[o].row => standing[chore[r].who] = "live"
    <3>1. object[o] \in Thing BY <1>1 DEF EraIInv, ErasureTypes
    <3>2. CASE standing[chore[r].who] = "live"
      <4>1. object'[o] = [object[o] EXCEPT !.row = TRUE] BY <2>2, <3>2
      <4>2. QED BY <3>1, <3>2, <4>1 DEF Thing
    <3>3. CASE standing[chore[r].who] # "live"
      <4>1. object'[o] = [object[o] EXCEPT !.row = FALSE] BY <2>2, <3>3
      <4>2. QED BY <3>1, <3>3, <4>1 DEF Thing
    <3>4. QED BY <3>2, <3>3
  <2>4. E!Idle \in Chore /\ E!Idle.at = "idle" BY DEF E!Idle, Chore, E!Use
  <2>5. ErasureTypes' BY <1>1, <2>1, <2>2, <2>3, <2>4 DEF EraIInv, ErasureTypes
  <2>6. object[o].of = chore[r].who BY <2>1 DEF EraIInv, OwnKey
  <2>7. Cleared' BY <1>1, <2>1, <2>2, <2>3, <2>4, <2>6 DEF EraIInv, Cleared, ErasureTypes
  <2>8. \A q \in Request \ {r} : chore[q].at = "put" => chore[q].on # o
    BY <1>1 DEF EraIInv, OwnKey
  <2>9. \A q \in Request \ {r} : chore[q].at = "put" => object'[chore[q].on] = object[chore[q].on]
    BY <2>2, <2>8 DEF EraIInv, ErasureTypes
  <2>10. QED BY <2>1, <2>2, <2>3, <2>5, <2>7, <2>9, EraReturns
<1>4. QED BY <1>2, <1>3

\* deleteOwned and what clears the store: objects go, or are known to be left.
LEMMA EraUnloads ==
  ASSUME EraIInv, NEW r \in Request, E!DeleteRow(r) \/ E!DeleteObject(r) PROVE EraIInv'
<1> DEFINE o == chore[r].on
<1>1. o \in Object /\ chore[r].at \in {"unrow", "unput"} /\ chore[r].who \in User
  BY DEF EraIInv, ErasureTypes, E!DeleteRow, E!DeleteObject, E!At
<1>0. object \in [Object -> Thing] BY DEF EraIInv, ErasureTypes
<1>2. /\ UNCHANGED <<standing, presence, events, booked, erased, after>>
      /\ left \subseteq left' /\ left' \subseteq left \cup {o}
      /\ chore' = [chore EXCEPT ![r] = E!Idle] \/ chore' = [chore EXCEPT ![r].at = "unput"]
      /\ \A p \in Object \ {o} : object'[p] = object[p]
      /\ \/ object'[o] = object[o]
         \/ object'[o] = [object[o] EXCEPT !.row = FALSE]
         \/ object'[o] = [object[o] EXCEPT !.stored = FALSE]
      /\ object' \in [Object -> Thing]
  <2>1. CASE E!DeleteRow(r)
    <3>1. /\ UNCHANGED <<standing, presence, events, booked, erased, left, after>>
          /\ \/ object' = [object EXCEPT ![o].row = FALSE]
                /\ chore' = [chore EXCEPT ![r].at = "unput"]
             \/ object' = object /\ chore' = [chore EXCEPT ![r] = E!Idle]
      BY <2>1 DEF E!DeleteRow, E!Return, E!Goto, E!rows
    <3>2. [object[o] EXCEPT !.row = FALSE] \in Thing BY <1>0, <1>1 DEF Thing
    <3>3. QED BY <1>0, <1>1, <3>1, <3>2
  <2>2. CASE E!DeleteObject(r)
    <3>1. /\ UNCHANGED <<standing, presence, events, booked, erased, after>>
          /\ chore' = [chore EXCEPT ![r] = E!Idle]
          /\ \/ object' = [object EXCEPT ![o].stored = FALSE] /\ left' = left
             \/ object' = object /\ left' = left \cup {o}
      BY <2>2 DEF E!DeleteObject, E!Discard, E!Return, E!rows
    <3>2. [object[o] EXCEPT !.stored = FALSE] \in Thing BY <1>0, <1>1 DEF Thing
    <3>3. QED BY <1>0, <1>1, <3>1, <3>2
  <2>3. QED BY <2>1, <2>2
<1>3. /\ object'[o].of = object[o].of /\ object'[o].as = object[o].as
      /\ object'[o].row => object[o].row
      /\ object'[o].stored => object[o].stored
  BY <1>1, <1>2 DEF EraIInv, ErasureTypes, Thing
<1>4. \A q \in Request : chore[q].at = "put" => chore[q].on # o
  BY <1>1 DEF EraIInv, OwnKey
<1>5. \A q \in Request : chore[q].at = "put" => object'[chore[q].on] = object[chore[q].on]
  BY <1>2, <1>4 DEF EraIInv, ErasureTypes
<1>6. /\ \A q \in Request \ {r} : chore'[q] = chore[q]
      /\ chore'[r] = E!Idle \/ chore'[r] = [chore[r] EXCEPT !.at = "unput"]
  BY <1>2 DEF EraIInv, ErasureTypes
<1>7. /\ E!Idle \in Chore /\ E!Idle.at = "idle"
  BY DEF E!Idle, Chore, E!Use
<1>8. Cleared'
  BY <1>1, <1>2, <1>3, <1>6 DEF EraIInv, Cleared
<1>9. CASE chore' = [chore EXCEPT ![r] = E!Idle]
  <2>1. ErasureTypes' BY <1>1, <1>2, <1>6, <1>7, <1>9 DEF EraIInv, ErasureTypes
  <2>2. QED BY <1>2, <1>3, <1>5, <1>8, <1>9, <2>1, EraReturns
<1>10. CASE chore' = [chore EXCEPT ![r].at = "unput"]
  <2>1. /\ chore'[r].at = "unput" /\ chore'[r].who = chore[r].who /\ chore'[r].on = o
        /\ chore'[r].keys = chore[r].keys /\ chore'[r] \in Chore
    BY <1>10 DEF EraIInv, ErasureTypes, Chore
  <2>2. ErasureTypes' BY <1>1, <1>2, <1>6, <2>1 DEF EraIInv, ErasureTypes
  <2>3. OwnKey' BY <1>1, <1>2, <1>3, <1>4, <1>5, <1>6, <2>1 DEF EraIInv, ErasureTypes, OwnKey
  <2>4. OneRemoval' BY <1>2, <1>6, <2>1 DEF EraIInv, OneRemoval
  <2>5. Listed' BY <1>2, <1>3, <1>6, <2>1 DEF EraIInv, Listed
  <2>6. QED BY <1>8, <2>2, <2>3, <2>4, <2>5 DEF EraIInv
<1>11. QED BY <1>2, <1>9, <1>10

\* An object is put to use: deletions of its user that are under way hear of it.
LEMMA EraAttach ==
  ASSUME EraIInv, NEW r \in Request, E!Attach(r) PROVE EraIInv'
<1> DEFINE o == chore[r].on
           u == chore[r].who
           new == [object EXCEPT ![o].as = chore[r].as]
           others == {p \in Object : p # o /\ p \in E!Of(u, {"avatar"})}
<1>1. /\ o \in Object /\ chore[r].at = "use" /\ u \in User
      /\ chore' = [chore EXCEPT ![r] = E!Idle]
      /\ UNCHANGED <<standing, presence, events, booked, erased, after>>
      /\ chore[r].as \in E!Use
  BY DEF EraIInv, ErasureTypes, Chore, E!Attach, E!At, E!Return, E!rows
<1>2. E!Idle \in Chore /\ E!Idle.at = "idle" BY DEF E!Idle, Chore, E!Use
<1>3. chore'[r] = E!Idle /\ \A q \in Request \ {r} : chore'[q] = chore[q]
  BY <1>1, EraFrame DEF EraIInv
<1>4. \A q \in Request \ {r} : chore[q].at = "put" => chore[q].on # o
  BY <1>1 DEF EraIInv, OwnKey
<1>5. CASE standing[u] # "live"
  <2>1. UNCHANGED <<object, left>> BY <1>5 DEF E!Attach, E!Live
  <2>2. ErasureTypes' /\ Cleared'
    BY <1>1, <1>2, <1>3, <2>1 DEF EraIInv, ErasureTypes, Cleared
  <2>3. QED BY <1>1, <2>1, <2>2, EraReturns
<1>6. CASE standing[u] = "live"
  <2>1. left' = IF \E q \in Request : chore[q].at \in E!Deleting /\ chore[q].who = u
                  THEN left \cup {o} ELSE left
    BY <1>6 DEF E!Attach, E!Live
  <2>2. /\ object' \in [Object -> Thing]
        /\ object'[o] = [object[o] EXCEPT !.as = chore[r].as]
        /\ \A p \in Object \ {o} :
             \/ object'[p] = object[p]
             \/ p \in E!Of(u, {"avatar"}) /\ object'[p] = [object[p] EXCEPT !.as = "none"]
    <3>1. object' = IF chore[r].as # "avatar" THEN new
                    ELSE [p \in Object |-> IF p # o /\ p \in E!Of(u, {"avatar"})
                                             THEN [object[p] EXCEPT !.as = "none"] ELSE new[p]]
      BY <1>6 DEF E!Attach, E!Live
    <3>2. /\ new \in [Object -> Thing] /\ new[o] = [object[o] EXCEPT !.as = chore[r].as]
          /\ \A p \in Object \ {o} : new[p] = object[p]
          /\ \A p \in Object : [object[p] EXCEPT !.as = "none"] \in Thing
      BY <1>1 DEF EraIInv, ErasureTypes, Thing, E!Use
    <3> HIDE DEF new
    <3>3. QED BY <1>1, <3>1, <3>2
  <2>3. \A p \in Object : /\ object'[p].of = object[p].of /\ object'[p].row = object[p].row
                          /\ object'[p].stored = object[p].stored
                          /\ p # o => object'[p].as \in {object[p].as, "none"}
    BY <1>1, <2>2 DEF EraIInv, ErasureTypes, Thing
  <2>4. object[o].of = u BY <1>1 DEF EraIInv, OwnKey
  <2>5. ErasureTypes' BY <1>1, <1>2, <1>3, <2>1, <2>2 DEF EraIInv, ErasureTypes
  <2>6. Cleared' BY <1>1, <1>2, <1>3, <2>1, <2>3 DEF EraIInv, Cleared
  <2>7. ASSUME NEW q \in Request \ {r}, chore[q].at = "put"
        PROVE  object'[chore[q].on] = object[chore[q].on]
    <3>1. object[chore[q].on] = E!New /\ chore[q].on \in Object \ {o}
      BY <1>4, <2>7 DEF EraIInv, OwnKey, ErasureTypes
    <3>2. chore[q].on \notin E!Of(u, {"avatar"}) BY <3>1 DEF E!Of, E!New
    <3>3. QED BY <2>2, <3>1, <3>2
  <2>8. OwnKey'
    <3>1. E!Idle.on = None BY DEF E!Idle
    <3>2. QED BY <1>1, <1>2, <1>3, <2>3, <2>7, <3>1, ConstantsOK
               DEF EraIInv, ErasureTypes, OwnKey
  <2>9. OneRemoval' BY <1>1, <1>2, <1>3 DEF EraIInv, OneRemoval
  <2>10. Listed'
    BY <1>1, <1>2, <1>3, <2>1, <2>3, <2>4 DEF EraIInv, Listed, E!Deleting
  <2>11. QED BY <2>5, <2>6, <2>8, <2>9, <2>10 DEF EraIInv
<1>7. QED BY <1>5, <1>6

\* What else may be written of a user, once it may be past the deletion.
LEMMA EraVisits ==
  ASSUME EraIInv, NEW r \in Request, E!Online(r) \/ E!Track(r) \/ E!Book(r) PROVE EraIInv'
<1> DEFINE u == chore[r].who
<1>1. /\ u \in User /\ chore[r].at \in {"handshake", "event", "booking"}
      /\ chore' = [chore EXCEPT ![r] = E!Idle]
      /\ UNCHANGED <<standing, object, erased, left>>
  BY DEF EraIInv, ErasureTypes, E!Online, E!Track, E!Book, E!At, E!Return
<1>2. E!Idle \in Chore /\ E!Idle.at = "idle" BY DEF E!Idle, Chore, E!Use
<1>3. chore'[r] = E!Idle /\ \A q \in Request \ {r} : chore'[q] = chore[q]
  BY <1>1, EraFrame DEF EraIInv
<1>4. ErasureTypes' /\ Cleared'
  <2>1. CASE E!Online(r)
    <3>1. /\ presence' = presence \cup {u} /\ UNCHANGED <<events, booked>>
          /\ after' = IF standing[u] = "live" THEN after ELSE after \cup {<<u, "presence">>}
      BY <2>1 DEF E!Online, E!Live
    <3>2. QED BY <1>1, <1>2, <1>3, <3>1 DEF EraIInv, ErasureTypes, Cleared
  <2>2. CASE E!Track(r)
    <3>1. /\ events' = events \cup {u} /\ UNCHANGED <<presence, booked>>
          /\ after' = after \cup {<<u, "event">>} \/ (after' = after /\ standing[u] = "live")
      BY <2>2 DEF E!Track, E!Wiped, E!Live
    <3>2. QED BY <1>1, <1>2, <1>3, <3>1 DEF EraIInv, ErasureTypes, Cleared
  <2>3. CASE E!Book(r)
    <3>1. /\ UNCHANGED <<presence, events>>
          /\ \/ /\ standing[u] = "live" /\ booked' = [booked EXCEPT ![u] = "pending"]
                /\ after' \in {after, after \cup {<<u, "booking">>}}
             \/ UNCHANGED <<booked, after>>
      BY <2>3 DEF E!Book, E!Wiped, E!Live
    <3>2. ErasureTypes' BY <1>1, <1>2, <1>3, <3>1 DEF EraIInv, ErasureTypes
    <3>3. Cleared' BY <1>1, <1>2, <1>3, <3>1 DEF EraIInv, ErasureTypes, Cleared
    <3>4. QED BY <3>2, <3>3
  <2>4. QED BY <2>1, <2>2, <2>3
<1>5. QED BY <1>1, <1>4, EraReturns

\* A deletion on its way to the commit looks for more, and for all of its kind.
LEMMA EraLooks ==
  ASSUME EraIInv, NEW r \in Request, E!ReadPosts(r) \/ E!ReadMessages(r) \/ E!Wipe(r)
  PROVE  EraIInv'
<1> DEFINE u == chore[r].who
<1>1. /\ u \in User /\ chore[r].at \in {"posts", "messages", "wipe"}
      /\ UNCHANGED <<standing, presence, events, booked, object, erased, left, after>>
      /\ chore[r].at = "wipe" => standing[u] = "live" /\ ~E!Wiped(u)
  BY DEF EraIInv, ErasureTypes, E!ReadPosts, E!ReadMessages, E!Wipe, E!At, E!rows, E!Live
<1>2. /\ \A q \in Request \ {r} : chore'[q] = chore[q]
      /\ chore'[r] \in Chore /\ chore'[r].who = u /\ chore'[r].on = chore[r].on
      /\ \/ /\ chore[r].at = "posts" /\ chore'[r].at = "messages"
            /\ chore'[r].keys = chore[r].keys \cup E!Of(u, {"post"})
         \/ /\ chore[r].at = "messages" /\ chore'[r].at = "wipe"
            /\ chore'[r].keys = chore[r].keys \cup E!Of(u, {"direct", "group"})
         \/ /\ chore[r].at = "wipe" /\ chore'[r].at = "remove" /\ chore'[r].keys = chore[r].keys
  <2>1. /\ chore[r] \in Chore
        /\ E!Of(u, {"post"}) \subseteq Object /\ E!Of(u, {"direct", "group"}) \subseteq Object
    BY DEF EraIInv, ErasureTypes, E!Of
  <2>2. CASE E!ReadPosts(r)
    <3>1. /\ chore[r].at = "posts"
          /\ chore' = [chore EXCEPT ![r].at = "messages", ![r].keys = @ \cup E!Of(u, {"post"})]
      BY <2>2 DEF E!ReadPosts, E!At
    <3>2. /\ \A q \in Request \ {r} : chore'[q] = chore[q]
          /\ chore'[r] = [chore[r] EXCEPT !.at = "messages",
                                          !.keys = chore[r].keys \cup E!Of(u, {"post"})]
      BY <3>1 DEF EraIInv, ErasureTypes
    <3> DEFINE K == chore[r].keys \cup E!Of(u, {"post"})
    <3>3. K \in SUBSET Object BY <2>1 DEF Chore
    <3>4. chore'[r] = [chore[r] EXCEPT !.at = "messages", !.keys = K] BY <3>2
    <3> HIDE DEF K
    <3>5. /\ chore'[r] \in Chore /\ chore'[r].who = u /\ chore'[r].on = chore[r].on
          /\ chore'[r].at = "messages" /\ chore'[r].keys = K
      BY <2>1, <3>3, <3>4 DEF Chore, E!Deleting
    <3>6. QED BY <3>1, <3>2, <3>5 DEF K
  <2>3. CASE E!ReadMessages(r)
    <3>1. /\ chore[r].at = "messages"
          /\ chore' = [chore EXCEPT ![r].at = "wipe",
                                    ![r].keys = @ \cup E!Of(u, {"direct", "group"})]
      BY <2>3 DEF E!ReadMessages, E!At
    <3>2. /\ \A q \in Request \ {r} : chore'[q] = chore[q]
          /\ chore'[r] = [chore[r] EXCEPT !.at = "wipe",
                             !.keys = chore[r].keys \cup E!Of(u, {"direct", "group"})]
      BY <3>1 DEF EraIInv, ErasureTypes
    <3> DEFINE K == chore[r].keys \cup E!Of(u, {"direct", "group"})
    <3>3. K \in SUBSET Object BY <2>1 DEF Chore
    <3>4. chore'[r] = [chore[r] EXCEPT !.at = "wipe", !.keys = K] BY <3>2
    <3> HIDE DEF K
    <3>5. /\ chore'[r] \in Chore /\ chore'[r].who = u /\ chore'[r].on = chore[r].on
          /\ chore'[r].at = "wipe" /\ chore'[r].keys = K
      BY <2>1, <3>3, <3>4 DEF Chore, E!Deleting
    <3>6. QED BY <3>1, <3>2, <3>5 DEF K
  <2>4. CASE E!Wipe(r)
    <3>1. chore[r].at = "wipe" /\ chore' = [chore EXCEPT ![r].at = "remove"]
      BY <2>4 DEF E!Wipe, E!At, E!Goto
    <3>2. /\ \A q \in Request \ {r} : chore'[q] = chore[q]
          /\ chore'[r] = [chore[r] EXCEPT !.at = "remove"]
      BY <3>1 DEF EraIInv, ErasureTypes
    <3>3. QED BY <2>1, <3>1, <3>2 DEF Chore, E!Deleting
  <2>5. QED BY <2>2, <2>3, <2>4
<1>3. chore' \in [Request -> Chore]
  BY <1>2 DEF EraIInv, ErasureTypes, E!ReadPosts, E!ReadMessages, E!Wipe, E!Goto
<1>4. ErasureTypes' BY <1>1, <1>2, <1>3 DEF EraIInv, ErasureTypes
<1>5. OwnKey' BY <1>1, <1>2 DEF EraIInv, OwnKey
<1>6. OneRemoval'
  BY <1>1, <1>2 DEF EraIInv, OneRemoval, E!Wiped, E!At
<1>7. Listed' BY <1>1, <1>2 DEF EraIInv, ErasureTypes, Listed, E!Of
<1>8. Cleared' BY <1>1, <1>2 DEF EraIInv, Cleared
<1>9. QED BY <1>4, <1>5, <1>6, <1>7, <1>8 DEF EraIInv

\* The commit: what is not in the list is known to be left.
LEMMA EraRemove ==
  ASSUME EraIInv, NEW r \in Request, E!Remove(r) PROVE EraIInv'
<1> DEFINE u == chore[r].who
<1>1. /\ u \in User /\ chore[r].at = "remove"
      /\ standing' = [standing EXCEPT ![u] = "gone"]
      /\ left' = left \cup E!Of(u, {"none"})
      /\ chore' = [chore EXCEPT ![r].at = "presence"]
      /\ UNCHANGED <<presence, erased, after>>
      /\ events' = IF <<u, "event">> \in after THEN events ELSE events \ {u}
      /\ booked' = [booked EXCEPT ![u] = CASE @ = "none" -> "none"
                      [] @ # "none" /\ <<u, "booking">> \in after -> "named"
                      [] OTHER -> "cancelled"]
      /\ object' = [o \in Object |->
           IF object[o].of = u THEN [object[o] EXCEPT !.row = FALSE, !.as = "none"]
           ELSE IF object[o].as = "direct" THEN [object[o] EXCEPT !.as = "none"]
           ELSE object[o]]
  BY DEF EraIInv, ErasureTypes, E!Remove, E!At, E!Goto
<1>2. /\ \A q \in Request \ {r} : chore'[q] = chore[q]
      /\ chore'[r].at = "presence" /\ chore'[r] \in Chore /\ chore'[r].who = u
      /\ chore'[r].on = chore[r].on /\ chore'[r].keys = chore[r].keys
  BY <1>1 DEF EraIInv, ErasureTypes, Chore, E!Deleting
<1>3. \A o \in Object :
        /\ object'[o] \in Thing /\ object'[o].of = object[o].of
        /\ object'[o].stored = object[o].stored
        /\ object[o].of = u => ~object'[o].row
        /\ object[o].of # u => object'[o].row = object[o].row
        /\ object'[o].as \in {object[o].as, "none"}
  BY <1>1 DEF EraIInv, ErasureTypes, Thing, E!Use
<1>4. /\ booked' \in [User -> {"none", "pending", "cancelled", "named"}]
      /\ \A v \in User \ {u} : booked'[v] = booked[v] /\ standing'[v] = standing[v]
      /\ booked'[u] \in {"none", "cancelled"} \/ <<u, "booking">> \in after
  BY <1>1 DEF EraIInv, ErasureTypes
<1>11. /\ left \subseteq left' /\ UNCHANGED <<presence, after>> /\ events' \subseteq events
      /\ erased' = erased /\ standing'[u] = "gone" /\ u \in User
  BY <1>1 DEF EraIInv, ErasureTypes
<1>5. ErasureTypes'
  <2>1. object' \in [Object -> Thing] BY <1>1, <1>3
  <2>2. left' \subseteq Object BY <1>1 DEF EraIInv, ErasureTypes, E!Of
  <2>3. chore' \in [Request -> Chore] BY <1>1, <1>2 DEF EraIInv, ErasureTypes
  <2>4. standing' \in [User -> {"live", "gone"}] BY <1>1 DEF EraIInv, ErasureTypes
  <2>5. \A q \in Request : /\ chore'[q].at # "idle" => chore'[q].who \in User
                           /\ chore'[q].at \in {"put", "row", "unrow", "unput", "use"} =>
                                chore'[q].on \in Object
    BY <1>2, <1>11 DEF EraIInv, ErasureTypes
  <2>6. QED BY <1>11, <1>4, <2>1, <2>2, <2>3, <2>4, <2>5 DEF EraIInv, ErasureTypes
<1>6. OwnKey'
  <2>1. ASSUME NEW q \in Request, chore[q].at = "put"
        PROVE  object'[chore[q].on] = object[chore[q].on]
    <3>1. object[chore[q].on] = E!New /\ chore[q].on \in Object
      BY <2>1 DEF EraIInv, OwnKey, ErasureTypes
    <3>2. E!New.of # u /\ E!New.as # "direct" BY ConstantsOK, <1>1 DEF E!New
    <3>3. QED BY <1>1, <3>1, <3>2
  <2>2. QED BY <1>2, <1>3, <2>1 DEF EraIInv, OwnKey, ErasureTypes
<1>7. OneRemoval' BY <1>1, <1>2 DEF EraIInv, OneRemoval, ErasureTypes
<1>8. Listed' BY <1>11, <1>2, <1>3 DEF EraIInv, Listed
<1>9. Cleared'
  <2> SUFFICES ASSUME NEW v \in User, standing'[v] = "gone"
               PROVE
        /\ \A o \in Object : object'[o].of = v =>
             /\ ~object'[o].row
             /\ object'[o].stored => o \in left' \/ \E q \in Request :
                  chore'[q].at \in {"presence", "storage"} /\ chore'[q].who = v
                  /\ o \in chore'[q].keys
        /\ v \in presence' => <<v, "presence">> \in after' \/ \E q \in Request :
             chore'[q].at = "presence" /\ chore'[q].who = v
        /\ v \in events' => <<v, "event">> \in after'
        /\ booked'[v] \in {"none", "cancelled"} \/ <<v, "booking">> \in after'
    BY DEF Cleared
  <2>1. CASE v # u
    <3>1. standing[v] = "gone" /\ booked'[v] = booked[v]
      <4>1. v \in User \ {u} BY <2>1
      <4>2. booked'[v] = booked[v] /\ standing'[v] = standing[v] BY <1>4, <4>1
      <4>3. QED BY <4>2
    <3>2. \A q \in Request : chore[q].who = v => chore'[q] = chore[q]
      BY <1>2, <2>1
    <3>3. QED BY <1>11, <1>3, <2>1, <3>1, <3>2 DEF EraIInv, Cleared
  <2>2. CASE v = u
    <3>1. ASSUME NEW o \in Object, object[o].of = u PROVE o \in left' \cup chore'[r].keys
      <4>1. object[o].as = "none" => o \in left' BY <1>1, <3>1 DEF E!Of
      <4>2. object[o].as # "none" => o \in chore[r].keys \cup left
        BY <1>1, <3>1 DEF EraIInv, ErasureTypes, Thing, E!Use, Listed
      <4>3. QED BY <1>1, <1>2, <4>1, <4>2
    <3>2. <<u, "event">> \notin after => u \notin events' BY <1>1
    <3>3. <<u, "event">> \in after' \/ u \notin events' BY <1>11, <3>2
    <3>4. booked'[u] \in {"none", "cancelled"} \/ <<u, "booking">> \in after'
      BY <1>4, <1>11
    <3>5. chore'[r].at = "presence" /\ chore'[r].who = u BY <1>2
    <3>6. \A o \in Object : object'[o].of = u => ~object'[o].row /\ o \in left' \cup chore'[r].keys
      BY <1>3, <3>1
    <3>7. QED BY <2>2, <3>3, <3>4, <3>5, <3>6
  <2>3. QED BY <2>1, <2>2
<1>10. QED BY <1>5, <1>6, <1>7, <1>8, <1>9 DEF EraIInv

\* After the commit: Redis, and the objects of the list, one after the other.
LEMMA EraClears ==
  ASSUME EraIInv, NEW r \in Request, E!ClearPresence(r) \/ E!ClearStorage(r) PROVE EraIInv'
<1> DEFINE u == chore[r].who
<1>1. /\ u \in User /\ chore[r].at \in {"presence", "storage"} /\ UNCHANGED <<standing, erased>>
      /\ chore[r] \in Chore
  BY DEF EraIInv, ErasureTypes, E!ClearPresence, E!ClearStorage, E!At, E!rows
<1>2. CASE E!ClearPresence(r)
  <2>1. /\ chore' = [chore EXCEPT ![r].at = "storage"]
        /\ UNCHANGED <<standing, events, booked, object, erased, left>>
        /\ \/ presence' = presence \ {u} /\ after' = after \ {<<u, "presence">>}
           \/ after' = after \cup {<<u, "presence">>} /\ UNCHANGED presence
        /\ chore[r].at = "presence"
    BY <1>2 DEF E!ClearPresence, E!Goto, E!At
  <2>2. /\ \A q \in Request \ {r} : chore'[q] = chore[q]
        /\ chore'[r].at = "storage" /\ chore'[r] \in Chore /\ chore'[r].who = u
        /\ chore'[r].on = chore[r].on /\ chore'[r].keys = chore[r].keys
    BY <2>1 DEF EraIInv, ErasureTypes, Chore, E!Deleting
  <2>3. ErasureTypes' BY <1>1, <2>1, <2>2 DEF EraIInv, ErasureTypes
  <2>4. OwnKey' BY <2>1, <2>2 DEF EraIInv, OwnKey
  <2>5. OneRemoval' BY <2>1, <2>2 DEF EraIInv, OneRemoval
  <2>6. Listed' BY <2>1, <2>2 DEF EraIInv, Listed
  <2>7. Cleared'
    <3>1. \A v \in User : /\ <<v, "event">> \in after => <<v, "event">> \in after'
                          /\ <<v, "booking">> \in after => <<v, "booking">> \in after'
                          /\ v # u /\ <<v, "presence">> \in after => <<v, "presence">> \in after'
                          /\ v \in presence' => v \in presence
                          /\ u \in presence' => <<u, "presence">> \in after'
      BY <2>1
    <3>2. QED BY <1>1, <2>1, <2>2, <3>1 DEF EraIInv, Cleared
  <2>8. QED BY <2>3, <2>4, <2>5, <2>6, <2>7 DEF EraIInv
<1>3. CASE E!ClearStorage(r)
  <2>1. /\ UNCHANGED <<standing, presence, events, booked, erased, after>>
        /\ chore[r].at = "storage"
    BY <1>3 DEF E!ClearStorage, E!rows, E!At
  <2>2. CASE chore[r].keys = {}
    <3>1. chore' = [chore EXCEPT ![r] = E!Idle] /\ UNCHANGED <<object, left>>
      BY <1>3, <2>2 DEF E!ClearStorage, E!Return
    <3>2. E!Idle \in Chore /\ E!Idle.at = "idle" BY DEF E!Idle, Chore, E!Use
    <3>3. chore'[r] = E!Idle /\ \A q \in Request \ {r} : chore'[q] = chore[q]
      BY <3>1, EraFrame DEF EraIInv
    <3>4. ErasureTypes' BY <1>1, <2>1, <3>1, <3>2, <3>3 DEF EraIInv, ErasureTypes
    <3>5. Cleared' BY <2>1, <2>2, <3>1, <3>2, <3>3 DEF EraIInv, Cleared
    <3>6. QED BY <2>1, <3>1, <3>4, <3>5, EraReturns
  <2>3. CASE chore[r].keys # {}
    <3>1. PICK o \in chore[r].keys :
            /\ \/ object' = [object EXCEPT ![o].stored = FALSE] /\ left' = left
               \/ left' = left \cup {o} /\ object' = object
            /\ chore' = [chore EXCEPT ![r].keys = @ \ {o}]
      BY <1>3, <2>3 DEF E!ClearStorage, E!Discard
    <3>2. o \in Object BY <1>1 DEF Chore
    <3>3. /\ \A q \in Request \ {r} : chore'[q] = chore[q]
          /\ chore'[r].at = "storage" /\ chore'[r] \in Chore /\ chore'[r].who = u
          /\ chore'[r].on = chore[r].on /\ chore'[r].keys = chore[r].keys \ {o}
      BY <2>1, <3>1 DEF EraIInv, ErasureTypes, Chore
    <3>4. /\ object' \in [Object -> Thing] /\ left \subseteq left' /\ left' \subseteq Object
          /\ \A p \in Object \ {o} : object'[p] = object[p]
      BY <3>1, <3>2 DEF EraIInv, ErasureTypes, Thing
    <3>5. /\ object'[o].of = object[o].of /\ object'[o].row = object[o].row
          /\ object'[o].as = object[o].as
          /\ object'[o].stored => object[o].stored /\ o \in left'
      BY <3>1, <3>2 DEF EraIInv, ErasureTypes, Thing
    <3>6. ErasureTypes'
      <4>1. chore' \in [Request -> Chore] BY <3>1, <3>3 DEF EraIInv, ErasureTypes
      <4>2. QED BY <1>1, <2>1, <3>3, <3>4, <4>1 DEF EraIInv, ErasureTypes
    <3>7. OwnKey'
      <4>1. ASSUME NEW q \in Request, chore[q].at = "put"
            PROVE  object'[chore[q].on] = object[chore[q].on]
        <5>1. object[chore[q].on] = E!New /\ chore[q].on \in Object
          BY <4>1 DEF EraIInv, OwnKey, ErasureTypes
        <5>2. CASE chore[q].on # o BY <3>4, <5>1, <5>2
        <5>3. CASE chore[q].on = o
          <6>1. object[o] = E!New /\ E!New.stored = FALSE /\ object[o] \in Thing
            BY <3>2, <5>1, <5>3 DEF E!New, EraIInv, ErasureTypes
          <6>2. [object[o] EXCEPT !.stored = FALSE] = object[o] BY <6>1 DEF Thing
          <6>3. QED BY <3>1, <3>2, <5>3, <6>1, <6>2 DEF EraIInv, ErasureTypes
        <5>4. QED BY <5>2, <5>3
      <4>2. QED BY <3>3, <3>4, <3>5, <4>1 DEF EraIInv, ErasureTypes, OwnKey
    <3>8. OneRemoval' BY <2>1, <3>3 DEF EraIInv, OneRemoval
    <3>9. Listed'
      <4>1. \A p \in Object : object'[p].of = object[p].of /\ object'[p].as = object[p].as
        BY <3>4, <3>5
      <4>2. QED BY <2>1, <3>3, <3>4, <4>1 DEF EraIInv, Listed
    <3>10. Cleared'
      <4>1. \A p \in Object : /\ object'[p].of = object[p].of /\ object'[p].row = object[p].row
                              /\ object'[p].stored => object[p].stored
                              /\ object'[p].stored /\ p = o => p \in left'
        BY <3>4, <3>5
      <4>2. QED BY <2>1, <3>3, <3>4, <4>1 DEF EraIInv, Cleared
    <3>11. QED BY <3>6, <3>7, <3>8, <3>9, <3>10 DEF EraIInv
  <2>4. QED BY <2>2, <2>3
<1>4. QED BY <1>2, <1>3

\* What a request that dies has not cleared is known to be left.
LEMMA EraFails ==
  ASSUME EraIInv, NEW r \in Request, E!Fail(r) PROVE EraIInv'
<1> DEFINE u == chore[r].who
<1>1. /\ chore' = [chore EXCEPT ![r] = E!Idle] /\ chore[r] \in Chore
      /\ UNCHANGED <<standing, presence, events, booked, object, erased>>
      /\ left' = CASE chore[r].at = "unput" -> left \cup {chore[r].on}
                   [] chore[r].at \in {"presence", "storage"} -> left \cup chore[r].keys
                   [] OTHER -> left
      /\ after' = IF chore[r].at = "presence" THEN after \cup {<<u, "presence">>}
                  ELSE IF chore[r].at = "remove"
                    THEN after \ {<<u, "event">>, <<u, "booking">>} ELSE after
  BY DEF EraIInv, ErasureTypes, E!Fail, E!At, E!Return, E!rows
<1>2. E!Idle \in Chore /\ E!Idle.at = "idle" BY DEF E!Idle, Chore, E!Use
<1>3. chore'[r] = E!Idle /\ \A q \in Request \ {r} : chore'[q] = chore[q]
  BY <1>1, EraFrame DEF EraIInv
<1>4. /\ left \subseteq left' /\ left' \subseteq Object
      /\ chore[r].at \in {"presence", "storage"} => chore[r].keys \subseteq left'
  BY <1>1 DEF EraIInv, ErasureTypes, Chore
<1>5. /\ after' \subseteq User \X {"presence", "event", "booking"}
      /\ chore[r].at = "presence" => <<u, "presence">> \in after'
      /\ \A v \in User, k \in {"presence", "event", "booking"} :
           <<v, k>> \in after /\ standing[v] = "gone" => <<v, k>> \in after'
  <2>1. chore[r].at = "remove" => standing[u] = "live" BY DEF EraIInv, OneRemoval
  <2>2. chore[r].at # "idle" => u \in User BY DEF EraIInv, ErasureTypes
  <2>3. QED BY <1>1, <2>1, <2>2 DEF EraIInv, ErasureTypes
<1>6. ErasureTypes'
  <2>1. UNCHANGED <<standing, presence, events, booked, object, erased>> BY <1>1
  <2>2. chore' \in [Request -> Chore] BY <1>1, <1>2 DEF EraIInv, ErasureTypes
  <2>3. QED BY <1>2, <1>3, <1>4, <1>5, <2>1, <2>2 DEF EraIInv, ErasureTypes
<1>7. Cleared'
  <2>1. UNCHANGED <<standing, presence, events, booked, object>> BY <1>1
  <2>2. QED BY <1>3, <1>4, <1>5, <2>1 DEF EraIInv, Cleared
<1>8. QED
  <2>1. UNCHANGED <<standing, object, erased>> BY <1>1
  <2>2. chore' = [chore EXCEPT ![r] = E!Idle] BY <1>1
  <2>3. \A o \in Object : o \in left' \/ o \notin left BY <1>4
  <2>4. QED BY <1>6, <1>7, <2>1, <2>2, <2>3, EraReturns

LEMMA EraStep == ASSUME EraIInv, [E!Next]_(E!vars) PROVE EraIInv'
<1>1. ASSUME NEW r \in E!Free, NEW u \in User,
             \/ \E o \in Object : E!BeginUpload(r, u, o) \/ E!BeginUnload(r, u, o)
                                  \/ \E as \in E!Use : E!BeginUse(r, u, o, as)
             \/ \E kind \in {"handshake", "event", "booking"} : E!BeginVisit(r, u, kind)
             \/ E!BeginDelete(r, u)
      PROVE  EraIInv'
  BY <1>1, EraArrives
<1>2. ASSUME NEW r \in E!Busy,
             \/ E!Put(r) \/ E!AddRow(r) \/ E!DeleteRow(r) \/ E!DeleteObject(r) \/ E!Attach(r)
             \/ E!Online(r) \/ E!Track(r) \/ E!Book(r)
             \/ E!ReadPosts(r) \/ E!ReadMessages(r) \/ E!Wipe(r) \/ E!DeleteAgain(r)
             \/ E!Remove(r) \/ E!ClearPresence(r) \/ E!ClearStorage(r) \/ E!Fail(r)
      PROVE  EraIInv'
  <2>1. r \in Request BY DEF E!Busy
  <2>2. CASE E!DeleteAgain(r)
    <3>1. /\ chore' = [chore EXCEPT ![r] = E!Idle]
          /\ UNCHANGED <<standing, presence, events, booked, object, erased, left, after>>
          /\ chore[r].at = "wipe"
      BY <2>2 DEF E!DeleteAgain, E!Return, E!At, E!rows
    <3>2. E!Idle \in Chore /\ E!Idle.at = "idle" BY DEF E!Idle, Chore, E!Use
    <3>3. chore'[r] = E!Idle /\ \A q \in Request \ {r} : chore'[q] = chore[q]
      BY <2>1, <3>1, EraFrame DEF EraIInv
    <3>4. ErasureTypes' BY <3>1, <3>2, <3>3 DEF EraIInv, ErasureTypes
    <3>5. Cleared' BY <3>1, <3>3 DEF EraIInv, Cleared
    <3>6. QED BY <2>1, <3>1, <3>4, <3>5, EraReturns
  <2>3. QED BY <1>2, <2>1, <2>2, EraUploads, EraUnloads, EraAttach, EraVisits, EraLooks, EraRemove,
               EraClears, EraFails
<1>3. ASSUME NEW u \in User, E!Offline(u) PROVE EraIInv'
  <2>1. /\ presence' \subseteq presence
        /\ UNCHANGED <<standing, events, booked, object, erased, chore, left, after>>
    BY <1>3 DEF E!Offline
  <2>2. ErasureTypes' /\ OwnKey' BY <2>1 DEF EraIInv, ErasureTypes, OwnKey
  <2>3. OneRemoval' /\ Listed' BY <2>1 DEF EraIInv, OneRemoval, Listed
  <2>4. Cleared' BY <2>1 DEF EraIInv, Cleared
  <2>5. QED BY <2>2, <2>3, <2>4 DEF EraIInv
<1>4. CASE UNCHANGED E!vars
  <2>1. UNCHANGED <<standing, presence, events, booked, object, erased, chore, left, after>>
    BY <1>4 DEF E!vars, E!rows
  <2>2. ErasureTypes' /\ OwnKey' BY <2>1 DEF EraIInv, ErasureTypes, OwnKey
  <2>3. OneRemoval' /\ Listed' BY <2>1 DEF EraIInv, OneRemoval, Listed
  <2>4. Cleared' BY <2>1 DEF EraIInv, Cleared
  <2>5. QED BY <2>2, <2>3, <2>4 DEF EraIInv
<1>5. QED BY <1>1, <1>2, <1>3, <1>4 DEF E!Next

\* The invariant says what the run checks.
LEMMA EraStands == EraIInv => E!Erased /\ E!TypeOK
<1> SUFFICES ASSUME EraIInv PROVE E!Erased /\ E!TypeOK
  OBVIOUS
<1>1. E!Erased
  <2> SUFFICES ASSUME NEW u \in User, ~E!Live(u),
                      ~\E r \in Request : chore[r].at \in E!Deleting /\ chore[r].who = u
               PROVE  /\ \A o \in Object : object[o].of = u /\ object[o].stored => o \in left
                      /\ \A o \in Object : object[o].of = u => ~object[o].row
                      /\ u \in presence => <<u, "presence">> \in after
                      /\ u \in events => <<u, "event">> \in after
                      /\ booked[u] \in {"none", "cancelled"} \/ <<u, "booking">> \in after
    BY DEF E!Erased
  <2>1. standing[u] = "gone" BY DEF EraIInv, ErasureTypes, E!Live
  <2>2. {"presence", "storage"} \subseteq E!Deleting BY DEF E!Deleting
  <2>3. QED BY <2>1, <2>2 DEF EraIInv, Cleared
<1>2. E!TypeOK BY DEF EraIInv, ErasureTypes, E!TypeOK, Chore, Thing
<1>3. QED BY <1>1, <1>2

-----------------------------------------------------------------------------

LEMMA InitAccounts == Init => AccIInv /\ EraIInv
BY AccInit, EraInit DEF Init

\* Everything else leaves accounts and uploads alone.
LEMMA StepAccounts == AccIInv /\ EraIInv /\ [Next]_vars => AccIInv' /\ EraIInv'
<1> SUFFICES ASSUME AccIInv, EraIInv, [Next]_vars PROVE AccIInv' /\ EraIInv'
  OBVIOUS
<1>1. UNCHANGED registered => UNCHANGED A!vars
  BY DEF registered, A!vars
<1>2. UNCHANGED erasing => UNCHANGED E!vars
  BY DEF erasing, E!vars, E!rows
<1>3. \/ A!Next /\ UNCHANGED erasing
      \/ E!Next /\ UNCHANGED registered
      \/ UNCHANGED registered /\ UNCHANGED erasing
  BY DEF Next, FriendsStep, ChatStep, FeedStep, PresenceStep, InboxStep, AccountsStep,
         ErasureStep, vars
<1>4. [A!Next]_(A!vars) /\ [E!Next]_(E!vars) BY <1>1, <1>2, <1>3
<1>5. QED BY <1>4, AccStep, EraStep

\* Whatever else happens, and however registrations, codes and deletions meet,
\* an account has one code that can be used unless transactions overlapped,
\* begins each life with nothing of the one before, has one bar if its owner is
\* a bar, and whoever is deleted leaves only what a request beside the deletion
\* had begun to write.
THEOREM AccountsStandHolds == Spec => []AccountsStand
<1>1. Spec => [](AccIInv /\ EraIInv)
  BY InitAccounts, StepAccounts, PTL DEF Spec
<1>2. AccIInv /\ EraIInv => AccountsStand
  BY AccStands, EraStands DEF AccountsStand
<1>3. QED BY <1>1, <1>2, PTL

-----------------------------------------------------------------------------
(* Posts, likes, comments and reports *)

Work == [at : W!Label, who : User \cup {None}, on : W!Reported \cup Comment \cup {None},
         for : SUBSET (User \cup Comment), todo : SUBSET (User \cup Comment),
         row : Nat, since : SUBSET User, late : BOOLEAN]
PostRow == [by : User \cup {None}, tagged : SUBSET User, gone : BOOLEAN]
CommentRow == [of : Post \cup {None}, parent : Comment \cup {None}]

PostTypes ==
  /\ post \in [Post -> PostRow]
  /\ comment \in [Comment -> CommentRow]
  /\ like \in [W!Liked \X User -> Nat] /\ taps \in [W!Liked \X User -> Nat]
  /\ open \in [User \X W!Reported -> Nat] /\ settled \in [User \X W!Reported -> Nat]
  /\ work \in [Request -> Work]
  /\ doubled \subseteq User \X W!Reported

\* A handler at work knows what it is about; an unlike has seen a like, an answer
\* is to a comment of the same post, and who is about to report what the user has
\* reported meanwhile is late.
About(w) ==
  /\ w.who \in User
  /\ w.at \in {"find", "like", "unlike"} => w.on \in W!Liked
  /\ w.at \in {"delete", "parent", "comment", "share"} => w.on \in Post
  /\ w.at \in {"parent", "comment"} => w.for \subseteq Comment
  /\ w.at \in {"test", "report"} => w.on \in W!Reported
  /\ w.at = "tags" => w.for \subseteq User
Fits(w) ==
  /\ w.at # "idle" => About(w)
  /\ w.at = "unlike" => w.row # 0
  /\ w.at = "comment" => \A c \in w.for : comment[c].of = w.on
  /\ w.at = "report" /\ open[<<w.who, w.on>>] > 0 => w.late
Fitting == \A r \in Request : Fits(work[r])

\* An answer is on a post, and so is what it answers.
Threads ==
  \A c \in Comment : comment[c].parent # None =>
    comment[c].of \in Post /\ comment[c].of = comment[comment[c].parent].of

PosIInv == PostTypes /\ Fitting /\ Threads /\ W!LikesAddUp /\ W!ReportedOnce

LEMMA PosStands == PosIInv => PostsAddUp
BY DEF PosIInv, PostsAddUp, Threads, W!ThreadsHold

LEMMA PosInit == W!Init => PosIInv
<1> SUFFICES ASSUME W!Init PROVE PosIInv
  OBVIOUS
<1>1. /\ like = [x \in W!Liked \X User |-> 0] /\ taps = like
      /\ open = [x \in User \X W!Reported |-> 0] /\ settled = open
      /\ work = [r \in Request |-> W!Idle] /\ doubled = {}
      /\ post \in [Post -> {W!NoPost} \cup [by : User, tagged : {{}}, gone : {FALSE}]]
      /\ comment \in [Comment -> {W!NoComment} \cup [of : {p \in Post : W!Written(p)}, parent : {None}]]
  BY DEF W!Init
<1>2. W!Idle \in Work /\ W!Idle.at = "idle"
  BY DEF W!Idle, Work, W!Label
<1>3. /\ {W!NoPost} \cup [by : User, tagged : {{}}, gone : {FALSE}] \subseteq PostRow
      /\ \A x \in {W!NoComment} \cup [of : {p \in Post : W!Written(p)}, parent : {None}] :
           x \in CommentRow /\ x.parent = None
  <2>1. W!NoPost \in PostRow /\ W!NoComment \in CommentRow /\ W!NoComment.parent = None
    BY DEF W!NoPost, W!NoComment, PostRow, CommentRow
  <2>2. [by : User, tagged : {{}}, gone : {FALSE}] \subseteq PostRow
    BY DEF PostRow
  <2>3. \A x \in [of : {p \in Post : W!Written(p)}, parent : {None}] :
          x \in CommentRow /\ x.parent = None
    BY DEF CommentRow
  <2>4. QED BY <2>1, <2>2, <2>3
<1>4. PostTypes /\ \A r \in Request : work[r].at = "idle"
  BY <1>1, <1>2, <1>3 DEF PostTypes
<1>5. \A c \in Comment : comment[c].parent = None
  BY <1>1, <1>3
<1>6. W!LikesAddUp /\ W!ReportedOnce
  BY <1>1 DEF W!LikesAddUp, W!ReportedOnce
<1>7. QED BY <1>4, <1>5, <1>6 DEF PosIInv, Fitting, Fits, Threads

\* Posts are written, and requests go on as fits.
LEMMA PosFrame ==
  ASSUME PosIInv, UNCHANGED <<comment, like, taps, open, settled, doubled>>,
         post' \in [Post -> PostRow],
         work' \in [Request -> Work], \A r \in Request : Fits(work'[r])
  PROVE  PosIInv'
BY DEF PosIInv, PostTypes, Fitting, Fits, About, Threads, W!LikesAddUp, W!ReportedOnce,
       W!Liked, W!Reported

LEMMA PosMoves ==
  ASSUME PosIInv, UNCHANGED <<post, comment, like, taps, open, settled, doubled>>,
         work' \in [Request -> Work], \A r \in Request : Fits(work'[r])
  PROVE  PosIInv'
BY PosFrame DEF PosIInv, PostTypes

\* One request goes on.
LEMMA PosWork ==
  ASSUME PosIInv, UNCHANGED <<comment, like, taps, open, settled, doubled>>,
         post' \in [Post -> PostRow],
         NEW r \in Request, NEW w \in Work, work' = [work EXCEPT ![r] = w], Fits(w)
  PROVE  PosIInv'
<1>1. work' \in [Request -> Work] BY DEF PosIInv, PostTypes
<1>2. \A q \in Request : work'[q] = IF q = r THEN w ELSE work[q]
  BY DEF PosIInv, PostTypes
<1>3. \A q \in Request : Fits(work[q]) BY DEF PosIInv, Fitting
<1>4. \A q \in Request : Fits(work'[q])
  <2>1. ASSUME NEW q \in Request PROVE Fits(work'[q])
    <3>1. CASE q = r BY <1>2, <3>1
    <3>2. CASE q # r
      <4>1. work'[q] = work[q] BY <1>2, <3>2
      <4>2. QED BY <1>3, <4>1
    <3>3. QED BY <3>1, <3>2
  <2>2. QED BY <2>1
<1>5. QED BY <1>1, <1>4, PosFrame

LEMMA PosGoes ==
  ASSUME PosIInv, UNCHANGED <<post, comment, like, taps, open, settled, doubled>>,
         NEW r \in Request, NEW w \in Work, work' = [work EXCEPT ![r] = w], Fits(w)
  PROVE  PosIInv'
BY PosWork DEF PosIInv, PostTypes

\* What a handler has to hear does not change what it does.
LEMMA LateFits ==
  ASSUME PosIInv, NEW q \in Request, NEW b \in BOOLEAN, work[q].late => b
  PROVE  [work[q] EXCEPT !.late = b] \in Work /\ Fits([work[q] EXCEPT !.late = b])
<1>1. work[q] \in Work /\ Fits(work[q]) BY DEF PosIInv, PostTypes, Fitting
<1>2. PICK w \in Work : w = [work[q] EXCEPT !.late = b] BY <1>1 DEF Work
<1>3. /\ w.at = work[q].at /\ w.who = work[q].who /\ w.on = work[q].on
      /\ w.for = work[q].for /\ w.row = work[q].row /\ w.late = b
  BY <1>1, <1>2 DEF Work
<1>4. Fits(w) BY <1>1, <1>3 DEF Fits, About
<1>5. QED BY <1>2, <1>4

\* A request that ends fits.
LEMMA IdleFits == W!Idle \in Work /\ Fits(W!Idle)
BY DEF W!Idle, Work, W!Label, Fits

LEMMA PosReturns ==
  ASSUME PosIInv, UNCHANGED <<post, comment, like, taps, open, settled, doubled>>,
         NEW r \in Request, W!Return(r)
  PROVE  PosIInv'
BY IdleFits, PosGoes DEF W!Return

LEMMA PosBegins ==
  ASSUME PosIInv, NEW r \in Request, NEW u \in User, NEW x \in W!Reported \cup Comment \cup {None},
         NEW s \in SUBSET (User \cup Comment), NEW l \in W!Label, W!Begin(r, u, x, s, l),
         l \in {"tags", "delete", "find", "parent", "comment", "share", "page", "test"},
         l = "find" => x \in W!Liked,
         l \in {"delete", "parent", "comment", "share"} => x \in Post,
         l \in {"parent", "comment"} => s \subseteq Comment,
         l = "comment" => s = {},
         l = "test" => x \in W!Reported,
         l = "tags" => s \subseteq User
  PROVE  PosIInv'
<1> DEFINE w == [W!Idle EXCEPT !.at = l, !.who = u, !.on = x, !.for = s, !.todo = s]
<1>1. /\ w \in Work /\ w.at = l /\ w.who = u /\ w.on = x /\ w.for = s
  <2>1. w \in Work BY IdleFits DEF Work
  <2>2. w.at = l /\ w.who = u /\ w.on = x /\ w.for = s BY DEF W!Idle
  <2>3. QED BY <2>1, <2>2
<1>2. Fits(w)
  <2> HIDE DEF w
  <2>1. QED BY <1>1 DEF Fits, About
<1>3. work' = [work EXCEPT ![r] = w] BY DEF W!Begin
<1>4. UNCHANGED <<post, comment, like, taps, open, settled, doubled>>
  BY DEF W!Begin, W!tables
<1> HIDE DEF w
<1>5. QED BY <1>1, <1>2, <1>3, <1>4, PosGoes

LEMMA PosArrives ==
  ASSUME PosIInv, NEW r \in W!Arriving, NEW u \in User,
         \/ \E tags \in SUBSET User : W!BeginPost(r, u, tags)
         \/ \E p \in Post : \/ W!BeginDelete(r, u, p) \/ W!BeginShare(r, u, p)
                            \/ \E c \in Comment \cup {None} : W!BeginComment(r, u, p, c)
         \/ \E x \in W!Liked : W!BeginLike(r, u, x)
         \/ W!BeginPage(r, u)
         \/ \E x \in W!Reported : W!BeginReport(r, u, x)
  PROVE  PosIInv'
<1>1. r \in Request BY DEF W!Arriving
<1>2. /\ Post \subseteq W!Reported /\ W!Liked \subseteq W!Reported \cup Comment
      /\ {"tags", "delete", "find", "parent", "comment", "share", "page", "test"} \subseteq W!Label
      /\ {} \in SUBSET (User \cup Comment)
  BY DEF W!Liked, W!Reported, W!Label
<1>3. ASSUME NEW tags \in SUBSET User, W!BeginPost(r, u, tags) PROVE PosIInv'
  <2>1. tags \in SUBSET (User \cup Comment) /\ W!Begin(r, u, None, tags, "tags")
    BY <1>3 DEF W!BeginPost
  <2>2. QED BY <1>1, <1>2, <2>1, PosBegins
<1>4. ASSUME NEW p \in Post, W!BeginDelete(r, u, p) PROVE PosIInv'
  <2>1. W!Begin(r, u, p, {}, "delete") BY <1>4 DEF W!BeginDelete
  <2>2. QED BY <1>1, <1>2, <2>1, PosBegins
<1>5. ASSUME NEW p \in Post, W!BeginShare(r, u, p) PROVE PosIInv'
  <2>1. W!Begin(r, u, p, {}, "share") BY <1>5 DEF W!BeginShare
  <2>2. QED BY <1>1, <1>2, <2>1, PosBegins
<1>6. ASSUME NEW p \in Post, NEW c \in Comment \cup {None}, W!BeginComment(r, u, p, c) PROVE PosIInv'
  <2>1. CASE c = None
    <3>1. W!Begin(r, u, p, {}, "comment") BY <1>6, <2>1 DEF W!BeginComment
    <3>2. QED BY <1>1, <1>2, <3>1, PosBegins
  <2>2. CASE c # None
    <3>1. W!Begin(r, u, p, {c}, "parent") /\ {c} \in SUBSET (User \cup Comment) /\ {c} \subseteq Comment
      BY <1>6, <2>2 DEF W!BeginComment
    <3>2. QED BY <1>1, <1>2, <3>1, PosBegins
  <2>3. QED BY <2>1, <2>2
<1>7. ASSUME NEW x \in W!Liked, W!BeginLike(r, u, x) PROVE PosIInv'
  <2>1. W!Begin(r, u, x, {}, "find") BY <1>7 DEF W!BeginLike
  <2>2. QED BY <1>1, <1>2, <2>1, PosBegins
<1>8. CASE W!BeginPage(r, u)
  <2>1. PICK s \in SUBSET (User \cup Comment) : W!Begin(r, u, None, s, "page")
    BY <1>8 DEF W!BeginPage
  <2>2. QED BY <1>1, <1>2, <2>1, PosBegins
<1>9. ASSUME NEW x \in W!Reported, W!BeginReport(r, u, x) PROVE PosIInv'
  <2>1. W!Begin(r, u, x, {}, "test") BY <1>9 DEF W!BeginReport
  <2>2. QED BY <1>1, <1>2, <2>1, PosBegins
<1>10. QED BY <1>3, <1>4, <1>5, <1>6, <1>7, <1>8, <1>9

\* What a request reads on its way.
LEMMA PosReads ==
  ASSUME PosIInv, NEW r \in Request,
         \/ \E v \in User : W!TestTag(r, v) \/ W!Mention(r, v)
         \/ W!FindLike(r) \/ W!FindParent(r) \/ W!TestReport(r)
         \/ W!ReadPage(r) \/ W!Fail(r) \/ W!Share(r)
  PROVE  PosIInv'
<1>1. /\ work[r] \in Work /\ Fits(work[r])
      /\ \A l \in W!Label : [work[r] EXCEPT !.at = l] \in Work
      /\ \A v \in User : [work[r] EXCEPT !.todo = @ \ {v}] \in Work
  <2>1. work[r] \in Work /\ Fits(work[r]) BY DEF PosIInv, PostTypes, Fitting
  <2>2. \A l \in W!Label : [work[r] EXCEPT !.at = l] \in Work BY <2>1 DEF Work
  <2>3. work[r].todo \in SUBSET (User \cup Comment) BY <2>1 DEF Work
  <2>4. \A v \in User : work[r].todo \ {v} \in SUBSET (User \cup Comment) BY <2>3
  <2>5. \A t \in SUBSET (User \cup Comment) : [work[r] EXCEPT !.todo = t] \in Work
    BY <2>1 DEF Work
  <2>6. QED BY <2>1, <2>2, <2>4, <2>5
<1>2. ASSUME NEW v \in User, W!TestTag(r, v) \/ W!Mention(r, v) PROVE PosIInv'
  <2>1. UNCHANGED <<post, comment, like, taps, open, settled, doubled>>
    BY <1>2 DEF W!TestTag, W!Mention, W!tables
  <2>2. CASE W!Return(r) BY <2>1, <2>2, PosReturns
  <2>3. CASE ~W!Return(r)
    <3>1. work' = [work EXCEPT ![r] = [work[r] EXCEPT !.todo = @ \ {v}]]
      BY <1>2, <2>3 DEF W!TestTag, W!Mention
    <3>2. PICK w \in Work : w = [work[r] EXCEPT !.todo = @ \ {v}] BY <1>1
    <3>3. w.at = work[r].at /\ w.who = work[r].who /\ w.on = work[r].on /\ w.for = work[r].for
          /\ w.row = work[r].row /\ w.late = work[r].late
      BY <1>1, <3>2 DEF Work
    <3>4. Fits(w) BY <1>1, <3>3 DEF Fits, About
    <3>5. QED BY <2>1, <3>1, <3>2, <3>4, PosGoes
  <2>4. QED BY <2>2, <2>3
<1>3. CASE W!ReadPage(r) \/ W!Fail(r)
  BY <1>3, PosReturns DEF W!ReadPage, W!Fail, W!tables
<1>4. CASE W!Share(r)
  BY <1>4, PosReturns DEF W!Share
<1>5. CASE W!FindLike(r)
  <2>1. /\ UNCHANGED <<post, comment, like, taps, open, settled, doubled>>
        /\ work[r].at = "find"
    BY <1>5 DEF W!FindLike, W!tables, W!At
  <2>2. /\ work[r].on \in W!Liked /\ work[r].who \in User
    BY <1>1, <2>1 DEF Fits, About
  <2>3. PICK id \in Nat : id = like[<<work[r].on, work[r].who>>]
    BY <2>2 DEF PosIInv, PostTypes
  <2>4. work' = [work EXCEPT ![r] = [work[r] EXCEPT !.row = id,
                                        !.at = IF id = 0 THEN "like" ELSE "unlike"]]
    BY <1>5, <2>3 DEF W!FindLike
  <2>5. PICK l \in {"like", "unlike"} : l = IF id = 0 THEN "like" ELSE "unlike"
    OBVIOUS
  <2>6. PICK w \in Work : w = [work[r] EXCEPT !.row = id, !.at = l]
    <3>1. l \in W!Label BY DEF W!Label
    <3>2. [work[r] EXCEPT !.row = id, !.at = l] \in Work BY <1>1, <3>1 DEF Work
    <3>3. QED BY <3>2
  <2>7. w.at = l /\ w.row = id /\ w.who = work[r].who /\ w.on = work[r].on
    BY <1>1, <2>6 DEF Work
  <2>8. Fits(w) BY <2>2, <2>5, <2>7 DEF Fits, About
  <2>9. work' = [work EXCEPT ![r] = w] BY <2>4, <2>5, <2>6
  <2>10. QED BY <2>1, <2>8, <2>9, PosGoes
<1>6. CASE W!FindParent(r)
  <2>1. /\ UNCHANGED <<post, comment, like, taps, open, settled, doubled>>
        /\ work[r].at = "parent" /\ \A c \in work[r].for : comment[c].of = work[r].on
        /\ work' = [work EXCEPT ![r] = [work[r] EXCEPT !.at = "comment"]]
    BY <1>6 DEF W!FindParent, W!tables, W!At, W!Goto
  <2>2. PICK w \in Work : w = [work[r] EXCEPT !.at = "comment"]
    BY <1>1 DEF W!Label
  <2>3. w.at = "comment" /\ w.who = work[r].who /\ w.on = work[r].on /\ w.for = work[r].for
    BY <1>1, <2>2 DEF Work
  <2>4. Fits(w) BY <1>1, <2>1, <2>3 DEF Fits, About
  <2>5. work' = [work EXCEPT ![r] = w] BY <2>1, <2>2
  <2>6. QED BY <2>1, <2>4, <2>5, PosGoes
<1>7. CASE W!TestReport(r)
  <2>1. /\ UNCHANGED <<post, comment, like, taps, open, settled, doubled>>
        /\ work[r].at = "test" /\ open[<<work[r].who, work[r].on>>] = 0
        /\ work' = [work EXCEPT ![r] = [work[r] EXCEPT !.at = "report"]]
    BY <1>7, Zenon DEF W!TestReport, W!tables, W!At, W!Goto
  <2>2. PICK w \in Work : w = [work[r] EXCEPT !.at = "report"]
    BY <1>1 DEF W!Label
  <2>3. w.at = "report" /\ w.who = work[r].who /\ w.on = work[r].on
    BY <1>1, <2>2 DEF Work
  <2>4. open[<<w.who, w.on>>] = 0 BY <2>1, <2>3
  <2>5. Fits(w) BY <1>1, <2>1, <2>3, <2>4 DEF Fits, About
  <2>6. work' = [work EXCEPT ![r] = w] BY <2>1, <2>2
  <2>7. QED BY <2>1, <2>5, <2>6, PosGoes
<1>8. QED BY <1>2, <1>3, <1>4, <1>5, <1>6, <1>7

\* Posts come and go: they are read nowhere but at the beginning.
LEMMA PosPosts ==
  ASSUME PosIInv, NEW r \in Request, W!CreatePost(r) \/ W!Delete(r) PROVE PosIInv'
<1>1. work[r] \in Work /\ Fits(work[r]) /\ post \in [Post -> PostRow]
  BY DEF PosIInv, PostTypes, Fitting
<1>2. CASE W!CreatePost(r)
  <2>1. PICK p \in Post :
          /\ post' = [post EXCEPT ![p] = [by |-> work[r].who, tagged |-> work[r].for, gone |-> FALSE]]
          /\ work' = [work EXCEPT ![r] = IF work[r].for = {} THEN W!Idle
                                ELSE [work[r] EXCEPT !.at = "mention", !.todo = work[r].for]]
          /\ UNCHANGED <<comment, like, open, settled, taps, doubled>>
          /\ work[r].at = "tags"
    BY <1>2 DEF W!CreatePost, W!Publishes, W!At
  <2>2. work[r].who \in User /\ work[r].for \subseteq User
    BY <1>1, <2>1 DEF Fits, About
  <2>3. [by |-> work[r].who, tagged |-> work[r].for, gone |-> FALSE] \in PostRow
    BY <2>2 DEF PostRow
  <2>4. post' \in [Post -> PostRow] BY <1>1, <2>1, <2>3
  <2>5. PICK w \in Work : /\ w = IF work[r].for = {} THEN W!Idle
                                 ELSE [work[r] EXCEPT !.at = "mention", !.todo = work[r].for]
                          /\ Fits(w)
    <3>1. CASE work[r].for = {} BY <3>1, IdleFits
    <3>2. CASE work[r].for # {}
      <4>1. PICK w \in Work : w = [work[r] EXCEPT !.at = "mention", !.todo = work[r].for]
        BY <1>1 DEF Work, W!Label
      <4>2. w.at = "mention" /\ w.who = work[r].who BY <1>1, <4>1 DEF Work
      <4>3. Fits(w) BY <2>2, <4>2 DEF Fits, About
      <4>4. QED BY <3>2, <4>1, <4>3
    <3>3. QED BY <3>1, <3>2
  <2>6. work' = [work EXCEPT ![r] = w] BY <2>1, <2>5
  <2>7. QED BY <2>1, <2>4, <2>5, <2>6, PosWork
<1>3. CASE W!Delete(r)
  <2>1. /\ post' = [post EXCEPT ![work[r].on] = [post[work[r].on] EXCEPT !.gone = TRUE]]
        /\ work' = [q \in Request |-> IF q = r THEN W!Idle
                ELSE [work[q] EXCEPT !.late = work[q].late \/ work[q].on = work[r].on]]
        /\ UNCHANGED <<comment, like, open, settled, taps, doubled>>
        /\ work[r].at = "delete"
    BY <1>3 DEF W!Delete, W!At
  <2>2. work[r].on \in Post BY <1>1, <2>1 DEF Fits, About
  <2>3. [post[work[r].on] EXCEPT !.gone = TRUE] \in PostRow BY <1>1, <2>2 DEF PostRow
  <2>4. post' \in [Post -> PostRow] BY <1>1, <2>1, <2>3
  <2>5. ASSUME NEW q \in Request PROVE work'[q] \in Work /\ Fits(work'[q])
    <3>1. CASE q = r BY <2>1, <3>1, IdleFits
    <3>2. CASE q # r
      <4>1. PICK b \in BOOLEAN : b = (work[q].late \/ work[q].on = work[r].on) OBVIOUS
      <4>2. work'[q] = [work[q] EXCEPT !.late = b] BY <2>1, <3>2, <4>1
      <4>3. work[q].late => b BY <4>1
      <4>4. QED BY <4>2, <4>3, LateFits
    <3>3. QED BY <3>1, <3>2
  <2>6. work' \in [Request -> Work] BY <2>1, <2>5
  <2>7. QED BY <2>1, <2>4, <2>5, <2>6, PosFrame
<1>4. QED BY <1>2, <1>3

\* Toggles add up: a like is only deleted by who has seen it.
LEMMA PosToggles ==
  ASSUME PosIInv, NEW r \in Request, W!Like(r) \/ W!Unlike(r) PROVE PosIInv'
<1> DEFINE x == <<work[r].on, work[r].who>>
<1>1. /\ work[r] \in Work /\ Fits(work[r]) /\ W!Idle \in Work /\ Fits(W!Idle)
      /\ like \in [W!Liked \X User -> Nat] /\ taps \in [W!Liked \X User -> Nat]
  BY IdleFits DEF PosIInv, PostTypes, Fitting
<1>2. x \in W!Liked \X User
  BY <1>1 DEF W!Like, W!Unlike, W!At, Fits, About
<1>3. /\ UNCHANGED <<post, comment, open, settled, doubled>>
      /\ taps' = [taps EXCEPT ![x] = taps[x] + 1]
      /\ work' = [work EXCEPT ![r] = W!Idle]
      /\ \/ like' = [like EXCEPT ![x] = 0] /\ like[x] # 0
         \/ like' = [like EXCEPT ![x] = taps[x] + 1] /\ like[x] = 0
  <2>1. CASE W!Like(r)
    BY <2>1, Zenon DEF W!Like, W!Toggles, W!Return
  <2>2. CASE W!Unlike(r)
    <3>1. work[r].at = "unlike" BY <2>2 DEF W!Unlike, W!At
    <3>2. work[r].row # 0 BY <1>1, <3>1 DEF Fits
    <3>3. like[x] = work[r].row /\ W!Toggles(r, 0) BY <2>2, Zenon DEF W!Unlike
    <3>4. like[x] # 0 BY <3>2, <3>3
    <3>5. QED BY <3>3, <3>4, Zenon DEF W!Toggles, W!Return
  <2>3. QED BY <2>1, <2>2
<1> HIDE DEF x
<1>4. like[x] \in {0, taps[x]} /\ (like[x] # 0 <=> taps[x] % 2 = 1) /\ taps[x] \in Nat
  BY <1>1, <1>2 DEF PosIInv, W!LikesAddUp
<1>5. /\ taps'[x] = taps[x] + 1 /\ like'[x] \in Nat
      /\ like'[x] \in {0, taps'[x]} /\ (like'[x] # 0 <=> taps'[x] % 2 = 1)
  <2>1. (taps[x] + 1) % 2 = 1 <=> taps[x] % 2 # 1 BY <1>4
  <2>2. taps[x] + 1 # 0 /\ taps[x] + 1 \in Nat BY <1>4
  <2>3. QED BY <1>1, <1>2, <1>3, <1>4, <2>1, <2>2
<1>6. /\ like' \in [W!Liked \X User -> Nat] /\ taps' \in [W!Liked \X User -> Nat]
      /\ \A y \in (W!Liked \X User) \ {x} : like'[y] = like[y] /\ taps'[y] = taps[y]
  BY <1>1, <1>2, <1>3, <1>4
<1>7. W!LikesAddUp'
  <2>1. \A y \in W!Liked \X User :
          like'[y] \in {0, taps'[y]} /\ (like'[y] # 0 <=> taps'[y] % 2 = 1)
    <3>1. ASSUME NEW y \in W!Liked \X User
          PROVE  like'[y] \in {0, taps'[y]} /\ (like'[y] # 0 <=> taps'[y] % 2 = 1)
      <4>1. CASE y = x BY <1>5, <4>1
      <4>2. CASE y # x
        <5>1. like'[y] = like[y] /\ taps'[y] = taps[y] BY <1>6, <4>2
        <5>2. like[y] \in {0, taps[y]} /\ (like[y] # 0 <=> taps[y] % 2 = 1)
          BY <1>1 DEF PosIInv, W!LikesAddUp
        <5>3. QED BY <5>1, <5>2
      <4>3. QED BY <4>1, <4>2
    <3>2. QED BY <3>1
  <2>2. DOMAIN like' = W!Liked \X User BY <1>6
  <2>3. QED BY <2>1, <2>2 DEF W!LikesAddUp
<1>8. /\ work' \in [Request -> Work]
      /\ \A q \in Request : work'[q] = IF q = r THEN W!Idle ELSE work[q]
  BY <1>1, <1>3 DEF PosIInv, PostTypes
<1>9. \A q \in Request : Fits(work'[q])
  BY <1>1, <1>8 DEF PosIInv, Fitting
<1>10. PostTypes' BY <1>3, <1>6, <1>8 DEF PosIInv, PostTypes, W!Liked, W!Reported
<1>11. Fitting' BY <1>3, <1>9 DEF Fitting, Fits, About, W!Liked, W!Reported
<1>12. Threads' /\ W!ReportedOnce' BY <1>3 DEF PosIInv, Threads, W!ReportedOnce
<1>13. QED BY <1>7, <1>10, <1>11, <1>12 DEF PosIInv

\* A comment that is written is on its post, and so is the one it answers.
LEMMA PosComments ==
  ASSUME PosIInv, NEW r \in Request, W!CreateComment(r) PROVE PosIInv'
<1>1. /\ work[r] \in Work /\ Fits(work[r]) /\ W!Idle \in Work /\ Fits(W!Idle)
      /\ comment \in [Comment -> CommentRow] /\ work[r].at = "comment"
  BY IdleFits DEF PosIInv, PostTypes, Fitting, W!CreateComment, W!At
<1>2. /\ work[r].on \in Post /\ work[r].for \subseteq Comment
      /\ \A d \in work[r].for : comment[d].of = work[r].on
  BY <1>1 DEF Fits, About
<1>3. PICK c \in Comment :
        /\ comment[c] = W!NoComment
        /\ comment' = [comment EXCEPT ![c] = [of |-> work[r].on,
             parent |-> IF work[r].for = {} THEN None ELSE CHOOSE d \in work[r].for : TRUE]]
  BY DEF W!CreateComment
<1>4. PICK m \in Comment \cup {None} :
        /\ m = IF work[r].for = {} THEN None ELSE CHOOSE d \in work[r].for : TRUE
        /\ m # None => m \in work[r].for
  <2>1. CASE work[r].for = {} BY <2>1
  <2>2. CASE work[r].for # {}
    <3>1. (CHOOSE d \in work[r].for : TRUE) \in work[r].for BY <2>2
    <3>2. QED BY <1>2, <2>2, <3>1
  <2>3. QED BY <2>1, <2>2
<1>5. PICK k \in CommentRow : k = [of |-> work[r].on, parent |-> m]
  BY <1>2 DEF CommentRow
<1>6. comment' = [comment EXCEPT ![c] = k] /\ k.of = work[r].on /\ k.parent = m
  BY <1>3, <1>4, <1>5
<1>7. /\ comment' \in [Comment -> CommentRow] /\ comment'[c] = k
      /\ \A d \in Comment \ {c} : comment'[d] = comment[d]
      /\ comment[c].of = None
  <2>1. comment[c].of = None BY <1>3 DEF W!NoComment
  <2>2. QED BY <1>1, <1>6, <2>1
<1>8. \A p \in Post : None # p BY ConstantsOK
<1>9. \A d \in Comment : comment[d].of \in Post => d # c /\ comment'[d].of = comment[d].of
  BY <1>7, <1>8
<1>10. Threads'
  <2> SUFFICES ASSUME NEW d \in Comment, comment'[d].parent # None
               PROVE  /\ comment'[d].of \in Post
                      /\ comment'[d].of = comment'[comment'[d].parent].of
    BY DEF Threads
  <2>1. CASE d = c
    <3>1. m \in work[r].for /\ comment[m].of \in Post /\ comment'[d] = k /\ m \in Comment
      BY <1>2, <1>4, <1>6, <1>7, <2>1
    <3>2. comment'[m].of = work[r].on BY <1>2, <1>9, <3>1
    <3>3. QED BY <1>2, <1>6, <3>1, <3>2
  <2>2. CASE d # c
    <3>1. comment'[d] = comment[d] BY <1>7, <2>2
    <3>2. /\ comment[d].of \in Post /\ comment[d].of = comment[comment[d].parent].of
          /\ comment[d].parent \in Comment
      BY <1>1, <3>1 DEF PosIInv, Threads, CommentRow
    <3>3. QED BY <1>9, <3>1, <3>2
  <2>3. QED BY <2>1, <2>2
<1>11. /\ UNCHANGED <<post, like, taps, open, settled, doubled>>
       /\ work' = [work EXCEPT ![r] = W!Idle]
  BY DEF W!CreateComment, W!Return
<1>12. /\ work' \in [Request -> Work]
       /\ \A q \in Request : work'[q] = IF q = r THEN W!Idle ELSE work[q]
  BY <1>1, <1>11 DEF PosIInv, PostTypes
<1>13. Fitting'
  <2> SUFFICES ASSUME NEW q \in Request PROVE Fits(work[q])'
    BY DEF Fitting
  <2>1. CASE q = r
    <3>1. work'[q] = W!Idle BY <1>12, <2>1
    <3>2. W!Idle.at = "idle" BY DEF W!Idle
    <3>3. QED BY <3>1, <3>2 DEF Fits
  <2>2. CASE q # r
    <3>1. work'[q] = work[q] /\ Fits(work[q]) BY <1>12, <2>2 DEF PosIInv, Fitting
    <3>2. About(work[q])' <=> About(work[q]) BY <3>1 DEF About, W!Liked, W!Reported
    <3>3. work[q].at = "comment" => \A d \in work[q].for : comment'[d].of = work[q].on
      BY <1>9, <3>1 DEF Fits, About
    <3>4. QED BY <1>11, <3>1, <3>2, <3>3 DEF Fits
  <2>3. QED BY <2>1, <2>2
<1>14. PostTypes' BY <1>7, <1>11, <1>12 DEF PosIInv, PostTypes, W!Liked, W!Reported
<1>15. W!LikesAddUp' /\ W!ReportedOnce' BY <1>11 DEF PosIInv, W!LikesAddUp, W!ReportedOnce
<1>16. QED BY <1>10, <1>13, <1>14, <1>15 DEF PosIInv

\* One more report of x, or one less: whoever is about to report it too is late.
LEMMA PosReported ==
  ASSUME PosIInv, NEW x \in User \X W!Reported, NEW n \in Nat,
         open' = [open EXCEPT ![x] = n],
         settled' \in [User \X W!Reported -> Nat],
         n > 1 => x \in doubled', doubled \subseteq doubled',
         doubled' \subseteq User \X W!Reported,
         UNCHANGED <<post, comment, like, taps>>,
         work' \in [Request -> Work],
         \A q \in Request : Fits(work'[q]),
         \A q \in Request : work'[q].at = "report" /\ <<work'[q].who, work'[q].on>> = x
           => n <= open[x] \/ work'[q].late
  PROVE  PosIInv'
<1>1. /\ open \in [User \X W!Reported -> Nat] /\ open' \in [User \X W!Reported -> Nat]
      /\ open'[x] = n /\ \A y \in (User \X W!Reported) \ {x} : open'[y] = open[y]
  BY DEF PosIInv, PostTypes
<1>2. W!ReportedOnce'
  <2>1. \A y \in User \X W!Reported : open[y] <= 1 \/ y \in doubled
    BY <1>1 DEF PosIInv, W!ReportedOnce
  <2>2. \A y \in User \X W!Reported : open'[y] <= 1 \/ y \in doubled'
    <3>1. ASSUME NEW y \in User \X W!Reported PROVE open'[y] <= 1 \/ y \in doubled'
      <4>1. CASE y = x BY <1>1, <4>1
      <4>2. CASE y # x BY <1>1, <2>1, <4>2
      <4>3. QED BY <4>1, <4>2
    <3>2. QED BY <3>1
  <2>3. QED BY <1>1, <2>2 DEF W!ReportedOnce
<1>3. Fitting'
  <2> SUFFICES ASSUME NEW q \in Request PROVE Fits(work[q])'
    BY DEF Fitting
  <2>1. Fits(work'[q]) OBVIOUS
  <2>2. About(work[q])' <=> About(work'[q]) BY DEF About, W!Liked, W!Reported
  <2>3. ASSUME work'[q].at = "report", open'[<<work'[q].who, work'[q].on>>] > 0
        PROVE  work'[q].late
    <3>1. PICK y \in User \X W!Reported : y = <<work'[q].who, work'[q].on>>
      BY <2>1, <2>3 DEF Fits, About
    <3>2. CASE y = x /\ ~(n <= open[x]) BY <2>3, <3>1, <3>2
    <3>3. CASE y = x /\ n <= open[x]
      <4>1. open[y] > 0 BY <1>1, <2>3, <3>1, <3>3
      <4>2. QED BY <2>1, <2>3, <3>1, <4>1 DEF Fits
    <3>4. CASE y # x
      <4>1. open[y] > 0 BY <1>1, <2>3, <3>1, <3>4
      <4>2. QED BY <2>1, <2>3, <3>1, <4>1 DEF Fits
    <3>5. QED BY <3>2, <3>3, <3>4
  <2>4. QED BY <2>1, <2>2, <2>3 DEF Fits
<1>4. PostTypes' BY <1>1 DEF PosIInv, PostTypes, W!Liked, W!Reported
<1>5. Threads' /\ W!LikesAddUp' BY DEF PosIInv, Threads, W!LikesAddUp
<1>6. QED BY <1>2, <1>3, <1>4, <1>5 DEF PosIInv

\* Who is beaten still fits, and knows it.
LEMMA BeatenFits ==
  ASSUME PosIInv, NEW q \in Request, NEW x
  PROVE  /\ W!Beaten(q, x) \in Work /\ Fits(W!Beaten(q, x))
         /\ W!Beaten(q, x).at = "report" /\ <<W!Beaten(q, x).who, W!Beaten(q, x).on>> = x
              => W!Beaten(q, x).late
<1>1. work[q] \in Work BY DEF PosIInv, PostTypes
<1>2. PICK b \in BOOLEAN :
        b = (work[q].late \/ (work[q].at = "report" /\ <<work[q].who, work[q].on>> = x))
  OBVIOUS
<1>3. W!Beaten(q, x) = [work[q] EXCEPT !.late = b]
  BY <1>2 DEF W!Beaten, W!At
<1>4. work[q].late => b BY <1>2
<1>5. PICK w \in Work : w = [work[q] EXCEPT !.late = b] /\ Fits(w)
  BY <1>4, LateFits
<1>6. w.at = work[q].at /\ w.who = work[q].who /\ w.on = work[q].on /\ w.late = b
  BY <1>1, <1>5 DEF Work
<1>7. w.at = "report" /\ <<w.who, w.on>> = x => w.late BY <1>2, <1>6
<1>8. QED BY <1>3, <1>5, <1>7

LEMMA PosReports ==
  ASSUME PosIInv, NEW r \in Request, W!CreateReport(r) PROVE PosIInv'
<1>1. /\ work[r] \in Work /\ Fits(work[r]) /\ work[r].at = "report"
      /\ open \in [User \X W!Reported -> Nat] /\ settled \in [User \X W!Reported -> Nat]
      /\ doubled \subseteq User \X W!Reported
  BY DEF PosIInv, PostTypes, Fitting, W!CreateReport, W!At
<1>2. PICK x \in User \X W!Reported : x = <<work[r].who, work[r].on>>
  BY <1>1 DEF Fits, About
<1>3. /\ open' = [open EXCEPT ![x] = open[x] + 1]
      /\ doubled' = IF work[r].late THEN doubled \cup {x} ELSE doubled
      /\ work' = [q \in Request |-> IF q = r THEN W!Idle ELSE W!Beaten(q, x)]
      /\ UNCHANGED <<post, comment, like, settled, taps>>
  BY <1>2 DEF W!CreateReport
<1>4. open[x] > 0 => work[r].late BY <1>1, <1>2 DEF Fits
<1>5. open[x] \in Nat BY <1>1
<1>6. PICK n \in Nat : n = open[x] + 1 /\ (n > 1 => work[r].late)
  <2>1. open[x] + 1 > 1 => open[x] > 0 BY <1>5
  <2>2. QED BY <1>4, <1>5, <2>1
<1>7. open' = [open EXCEPT ![x] = n] BY <1>3, <1>6
<1>8. /\ n > 1 => x \in doubled'
      /\ doubled \subseteq doubled' /\ doubled' \subseteq User \X W!Reported
  BY <1>1, <1>3, <1>6
<1>9. ASSUME NEW q \in Request
      PROVE  /\ work'[q] \in Work /\ Fits(work'[q])
             /\ work'[q].at = "report" /\ <<work'[q].who, work'[q].on>> = x => work'[q].late
  <2>1. CASE q = r
    <3>1. work'[q] = W!Idle BY <1>3, <2>1
    <3>2. W!Idle.at = "idle" BY DEF W!Idle
    <3>3. QED BY <3>1, <3>2, IdleFits
  <2>2. CASE q # r
    <3>1. work'[q] = W!Beaten(q, x) BY <1>3, <2>2
    <3>2. QED BY <3>1, BeatenFits
  <2>3. QED BY <2>1, <2>2
<1>10. work' \in [Request -> Work] BY <1>3, <1>9
<1>11. settled' \in [User \X W!Reported -> Nat] BY <1>1, <1>3
<1>12. QED BY <1>3, <1>7, <1>8, <1>9, <1>10, <1>11, PosReported

LEMMA PosSettles ==
  ASSUME PosIInv, NEW x \in DOMAIN open, W!Settle(x) \/ W!Reopen(x) PROVE PosIInv'
<1>1. /\ open \in [User \X W!Reported -> Nat] /\ settled \in [User \X W!Reported -> Nat]
      /\ doubled \subseteq User \X W!Reported /\ work \in [Request -> Work]
      /\ x \in User \X W!Reported /\ open[x] \in Nat /\ settled[x] \in Nat
      /\ \A q \in Request : Fits(work[q])
  BY DEF PosIInv, PostTypes, Fitting
<1>2. CASE W!Settle(x)
  <2>1. /\ open[x] > 0 /\ open' = [open EXCEPT ![x] = open[x] - 1]
        /\ settled' = [settled EXCEPT ![x] = settled[x] + 1]
        /\ UNCHANGED <<post, comment, like, taps, work, doubled>>
    BY <1>2 DEF W!Settle
  <2>2. PICK n \in Nat : n = open[x] - 1 /\ n <= open[x] BY <1>1, <2>1
  <2>3. n > 1 => x \in doubled'
    <3>1. open[x] <= 1 \/ x \in doubled BY <1>1 DEF PosIInv, W!ReportedOnce
    <3>2. QED BY <1>1, <2>1, <2>2, <3>1
  <2>4. settled' \in [User \X W!Reported -> Nat] BY <1>1, <2>1
  <2>5. open' = [open EXCEPT ![x] = n] BY <2>1, <2>2
  <2>6. /\ work' \in [Request -> Work] /\ \A q \in Request : Fits(work'[q])
        /\ doubled \subseteq doubled' /\ doubled' \subseteq User \X W!Reported
    BY <1>1, <2>1
  <2>7. QED BY <1>1, <2>1, <2>2, <2>3, <2>4, <2>5, <2>6, PosReported
<1>3. CASE W!Reopen(x)
  <2>1. /\ settled[x] > 0 /\ open' = [open EXCEPT ![x] = open[x] + 1]
        /\ settled' = [settled EXCEPT ![x] = settled[x] - 1]
        /\ doubled' = IF open[x] > 0 THEN doubled \cup {x} ELSE doubled
        /\ work' = [q \in Request |-> W!Beaten(q, x)]
        /\ UNCHANGED <<post, comment, like, taps>>
    BY <1>3 DEF W!Reopen
  <2>2. PICK n \in Nat : n = open[x] + 1 BY <1>1
  <2>3. n > 1 => open[x] > 0 BY <1>1, <2>2
  <2>4. /\ n > 1 => x \in doubled'
        /\ doubled \subseteq doubled' /\ doubled' \subseteq User \X W!Reported
    BY <1>1, <2>1, <2>3
  <2>5. settled[x] - 1 \in Nat BY <1>1, <2>1
  <2>6. settled' \in [User \X W!Reported -> Nat] BY <1>1, <2>1, <2>5
  <2>7. open' = [open EXCEPT ![x] = n] BY <2>1, <2>2
  <2>8. ASSUME NEW q \in Request
        PROVE  /\ work'[q] \in Work /\ Fits(work'[q])
               /\ work'[q].at = "report" /\ <<work'[q].who, work'[q].on>> = x => work'[q].late
    <3>1. work'[q] = W!Beaten(q, x) BY <2>1
    <3>2. QED BY <3>1, BeatenFits
  <2>9. work' \in [Request -> Work] BY <2>1, <2>8
  <2>10. UNCHANGED <<post, comment, like, taps>> BY <2>1
  <2>11. QED BY <1>1, <2>2, <2>4, <2>6, <2>7, <2>8, <2>9, <2>10, PosReported
<1>4. QED BY <1>2, <1>3

\* A block or a removal is noted by who is at work.
LEMMA PosParted ==
  ASSUME PosIInv, work' = W!Parted(friends', blocks'),
         UNCHANGED <<post, comment, like, taps, open, settled, doubled>>
  PROVE  PosIInv'
<1>1. ASSUME NEW q \in Request PROVE work'[q] \in Work /\ Fits(work'[q])
  <2>1. work[q] \in Work /\ Fits(work[q]) BY DEF PosIInv, PostTypes, Fitting
  <2>2. PICK s \in SUBSET User : work'[q] = [work[q] EXCEPT !.since = s]
    <3> DEFINE t == {v \in User : \/ {work[q].who, v} \in friends \ friends'
                                  \/ {<<work[q].who, v>>, <<v, work[q].who>>} \cap (blocks' \ blocks) # {}}
    <3>1. work'[q] = [work[q] EXCEPT !.since = work[q].since \cup t]
      BY DEF W!Parted
    <3>2. work[q].since \cup t \in SUBSET User BY <2>1 DEF Work
    <3> HIDE DEF t
    <3>3. QED BY <3>1, <3>2
  <2>3. PICK w \in Work : w = [work[q] EXCEPT !.since = s] BY <2>1 DEF Work
  <2>4. /\ w.at = work[q].at /\ w.who = work[q].who /\ w.on = work[q].on
        /\ w.for = work[q].for /\ w.row = work[q].row /\ w.late = work[q].late
    BY <2>1, <2>3 DEF Work
  <2>5. Fits(w) BY <2>1, <2>4 DEF Fits, About
  <2>6. QED BY <2>2, <2>3, <2>5
<1>2. work' \in [Request -> Work] BY <1>1 DEF W!Parted
<1>3. QED BY <1>1, <1>2, PosMoves

LEMMA PosStep == ASSUME PosIInv, W!Next PROVE PosIInv'
<1>1. \A r \in W!Working : r \in Request BY DEF W!Working
<1>2. ASSUME NEW r \in W!Working,
             \/ \E v \in User : W!TestTag(r, v) \/ W!Mention(r, v)
             \/ W!CreatePost(r) \/ W!Delete(r) \/ W!FindLike(r) \/ W!Like(r) \/ W!Unlike(r)
             \/ W!FindParent(r) \/ W!CreateComment(r) \/ W!Share(r) \/ W!ReadPage(r)
             \/ W!TestReport(r) \/ W!CreateReport(r) \/ W!Fail(r)
      PROVE  PosIInv'
  BY <1>1, <1>2, PosReads, PosPosts, PosToggles, PosComments, PosReports
<1>3. QED BY <1>2, PosArrives, PosSettles DEF W!Next

-----------------------------------------------------------------------------
(* What is shown, tagged and added *)

\* A page leaves out whom its reader has blocked, or was blocked by, when it
\* began; the friends tested so far were friends; who is about to add something
\* to a post has read it before it went.
Knows(w) ==
  /\ w.at = "page" => \A v \in User : W!Blocked(w.who, v) => v \in w.for \cup w.since
  /\ w.at = "tags" => \A v \in w.for \ w.todo : {w.who, v} \in friends \/ v \in w.since
  /\ w.at = "delete" => W!Written(w.on)
  /\ w.at \in {"find", "like", "unlike", "parent", "comment", "share"} /\ w.on \in Post =>
       (post[w.on].gone => w.late)
Authored == \A p \in Post : W!Written(p) => post[p].by \in User
TelIInv == Authored /\ shares \in [Post -> Nat] /\ \A r \in Request : Knows(work[r])

LEMMA TelStands == PosIInv /\ TelIInv => W!PageSilent
BY DEF TelIInv, Authored, Knows, W!PageSilent, W!At, W!Page, W!Shown

LEMMA IdleKnows == Knows(W!Idle)
BY DEF Knows, W!Idle

LEMMA TelInit == W!Init => TelIInv
<1> SUFFICES ASSUME W!Init PROVE TelIInv
  OBVIOUS
<1>1. shares = [p \in Post |-> 0] /\ work = [r \in Request |-> W!Idle]
      /\ post \in [Post -> {W!NoPost} \cup [by : User, tagged : {{}}, gone : {FALSE}]]
  BY DEF W!Init
<1>2. Authored
  <2>1. \A x \in [by : User, tagged : {{}}, gone : {FALSE}] : x.by \in User OBVIOUS
  <2>2. QED BY <1>1, <2>1 DEF Authored, W!Written
<1>3. QED BY <1>1, <1>2, IdleKnows DEF TelIInv

LEMMA WorkAt ==
  ASSUME PosIInv, NEW r \in Request, NEW w \in Work, work' = [work EXCEPT ![r] = w]
  PROVE  \A q \in Request : work'[q] = IF q = r THEN w ELSE work[q]
BY DEF PosIInv, PostTypes

\* One request goes on, and no post goes.
LEMMA TelGoes ==
  ASSUME PosIInv, TelIInv, UNCHANGED <<friends, blocks>>, Authored', shares' \in [Post -> Nat],
         \A p \in Post : /\ post'[p].gone => post[p].gone
                         /\ W!Written(p) => W!Written(p)',
         NEW r \in Request, NEW w \in Work, work' = [work EXCEPT ![r] = w], Knows(w),
         w.at = "delete" => w.on \in Post
  PROVE  TelIInv'
<1>1. \A q \in Request : work'[q] = IF q = r THEN w ELSE work[q]
  BY WorkAt
<1>2. \A q \in Request : /\ Knows(work'[q])
                         /\ work'[q].at = "delete" => work'[q].on \in Post
  <2>1. ASSUME NEW q \in Request, q # r
        PROVE  Knows(work[q]) /\ (work[q].at = "delete" => work[q].on \in Post)
    BY DEF TelIInv, PosIInv, Fitting, Fits, About
  <2>2. QED BY <1>1, <2>1
<1>3. ASSUME NEW q \in Request PROVE Knows(work[q])'
  BY <1>2 DEF Knows, W!Blocked
<1>4. QED BY <1>3 DEF TelIInv

LEMMA TelMoves ==
  ASSUME PosIInv, TelIInv, UNCHANGED <<friends, blocks, post>>, shares' \in [Post -> Nat],
         NEW r \in Request, NEW w \in Work, work' = [work EXCEPT ![r] = w], Knows(w),
         w.at = "delete" => w.on \in Post
  PROVE  TelIInv'
<1>1. Authored' BY DEF TelIInv, Authored, W!Written
<1>2. \A p \in Post : (post'[p].gone => post[p].gone) /\ (W!Written(p) => W!Written(p)')
  BY DEF W!Written
<1>3. QED BY <1>1, <1>2, TelGoes

LEMMA TelReturns ==
  ASSUME PosIInv, TelIInv, UNCHANGED <<friends, blocks, post>>, shares' \in [Post -> Nat],
         NEW r \in Request, W!Return(r)
  PROVE  TelIInv'
<1>1. W!Idle.at # "delete" BY DEF W!Idle
<1>2. QED BY <1>1, IdleFits, IdleKnows, TelMoves DEF W!Return

LEMMA TelBegins ==
  ASSUME PosIInv, TelIInv, NEW r \in Request, NEW u \in User,
         NEW x \in W!Reported \cup Comment \cup {None},
         NEW s \in SUBSET (User \cup Comment), NEW l \in W!Label, W!Begin(r, u, x, s, l),
         l = "page" => \A v \in User : W!Blocked(u, v) => v \in s,
         l = "delete" => x \in Post /\ W!Written(x),
         l \in {"find", "like", "unlike", "parent", "comment", "share"} /\ x \in Post =>
           ~post[x].gone
  PROVE  TelIInv'
<1> DEFINE w == [W!Idle EXCEPT !.at = l, !.who = u, !.on = x, !.for = s, !.todo = s]
<1>1. /\ w \in Work /\ w.at = l /\ w.who = u /\ w.on = x /\ w.for = s /\ w.todo = s
  <2>1. w \in Work BY IdleFits DEF Work
  <2>2. w.at = l /\ w.who = u /\ w.on = x /\ w.for = s /\ w.todo = s BY DEF W!Idle
  <2>3. QED BY <2>1, <2>2
<1>2. work' = [work EXCEPT ![r] = w] BY DEF W!Begin
<1>3. UNCHANGED <<friends, blocks, post>> /\ shares' \in [Post -> Nat]
  BY DEF W!Begin, W!ties, W!tables, TelIInv
<1> HIDE DEF w
<1>4. Knows(w) BY <1>1 DEF Knows
<1>5. QED BY <1>1, <1>2, <1>3, <1>4, TelMoves

LEMMA TelArrives ==
  ASSUME PosIInv, TelIInv, NEW r \in W!Arriving, NEW u \in User,
         \/ \E tags \in SUBSET User : W!BeginPost(r, u, tags)
         \/ \E p \in Post : \/ W!BeginDelete(r, u, p) \/ W!BeginShare(r, u, p)
                            \/ \E c \in Comment \cup {None} : W!BeginComment(r, u, p, c)
         \/ \E x \in W!Liked : W!BeginLike(r, u, x)
         \/ W!BeginPage(r, u)
         \/ \E x \in W!Reported : W!BeginReport(r, u, x)
  PROVE  TelIInv'
<1>1. r \in Request BY DEF W!Arriving
<1>2. /\ Post \subseteq W!Reported /\ W!Liked \subseteq W!Reported \cup Comment
      /\ {"tags", "delete", "find", "parent", "comment", "share", "page", "test"} \subseteq W!Label
      /\ {} \in SUBSET (User \cup Comment)
  BY DEF W!Liked, W!Reported, W!Label
<1>3. ASSUME NEW tags \in SUBSET User, W!BeginPost(r, u, tags) PROVE TelIInv'
  <2>1. tags \in SUBSET (User \cup Comment) /\ W!Begin(r, u, None, tags, "tags")
    BY <1>3 DEF W!BeginPost
  <2>2. QED BY <1>1, <1>2, <2>1, TelBegins
<1>4. ASSUME NEW p \in Post, W!BeginDelete(r, u, p) PROVE TelIInv'
  <2>1. W!Begin(r, u, p, {}, "delete") /\ W!Written(p) BY <1>4 DEF W!BeginDelete, W!Shown
  <2>2. QED BY <1>1, <1>2, <2>1, TelBegins
<1>5. ASSUME NEW p \in Post, W!BeginShare(r, u, p) PROVE TelIInv'
  <2>1. W!Begin(r, u, p, {}, "share") /\ ~post[p].gone BY <1>5 DEF W!BeginShare, W!Shown
  <2>2. QED BY <1>1, <1>2, <2>1, TelBegins
<1>6. ASSUME NEW p \in Post, NEW c \in Comment \cup {None}, W!BeginComment(r, u, p, c) PROVE TelIInv'
  <2>1. ~post[p].gone BY <1>6 DEF W!BeginComment, W!Shown
  <2>2. CASE c = None
    <3>1. W!Begin(r, u, p, {}, "comment") BY <1>6, <2>2 DEF W!BeginComment
    <3>2. QED BY <1>1, <1>2, <2>1, <3>1, TelBegins
  <2>3. CASE c # None
    <3>1. W!Begin(r, u, p, {c}, "parent") /\ {c} \in SUBSET (User \cup Comment)
      BY <1>6, <2>3 DEF W!BeginComment
    <3>2. QED BY <1>1, <1>2, <2>1, <3>1, TelBegins
  <2>4. QED BY <2>2, <2>3
<1>7. ASSUME NEW x \in W!Liked, W!BeginLike(r, u, x) PROVE TelIInv'
  <2>1. W!Begin(r, u, x, {}, "find") /\ (x \in Post => ~post[x].gone)
    BY <1>7 DEF W!BeginLike, W!Shown
  <2>2. QED BY <1>1, <1>2, <2>1, TelBegins
<1>8. CASE W!BeginPage(r, u)
  <2>1. PICK s \in SUBSET (User \cup Comment) :
          W!Begin(r, u, None, s, "page") /\ s = {v \in User : W!Blocked(u, v)}
    BY <1>8 DEF W!BeginPage
  <2>2. \A v \in User : W!Blocked(u, v) => v \in s BY <2>1
  <2>3. QED BY <1>1, <1>2, <2>1, <2>2, TelBegins
<1>9. ASSUME NEW x \in W!Reported, W!BeginReport(r, u, x) PROVE TelIInv'
  <2>1. W!Begin(r, u, x, {}, "test") BY <1>9 DEF W!BeginReport
  <2>2. QED BY <1>1, <1>2, <2>1, TelBegins
<1>10. QED BY <1>3, <1>4, <1>5, <1>6, <1>7, <1>8, <1>9

\* What is read on the way keeps what is known.
LEMMA TelReads ==
  ASSUME PosIInv, TelIInv, NEW r \in Request,
         \/ \E v \in User : W!TestTag(r, v) \/ W!Mention(r, v)
         \/ W!FindLike(r) \/ W!FindParent(r) \/ W!TestReport(r)
         \/ W!ReadPage(r) \/ W!Fail(r)
  PROVE  TelIInv'
<1>1. /\ work[r] \in Work /\ Knows(work[r]) /\ shares \in [Post -> Nat]
      /\ work[r].todo \in SUBSET (User \cup Comment)
  BY DEF PosIInv, PostTypes, TelIInv, Work
<1>2. UNCHANGED <<friends, blocks, post>> /\ shares' \in [Post -> Nat]
  BY <1>1 DEF W!TestTag, W!Mention, W!FindLike, W!FindParent, W!TestReport, W!ReadPage, W!Fail,
              W!ties, W!tables
<1>3. CASE W!Return(r) BY <1>2, <1>3, TelReturns
<1>4. ASSUME NEW l \in W!Label, NEW n \in Nat,
             work' = [work EXCEPT ![r] = [work[r] EXCEPT !.row = n, !.at = l]],
             \/ l = "report"
             \/ l = "comment" /\ work[r].at = "parent"
             \/ l \in {"like", "unlike"} /\ work[r].at = "find"
      PROVE  TelIInv'
  <2>1. PICK w \in Work : w = [work[r] EXCEPT !.row = n, !.at = l]
    BY <1>1 DEF Work
  <2>2. w.at = l /\ w.on = work[r].on /\ w.late = work[r].late BY <1>1, <2>1 DEF Work
  <2>3. Knows(w) BY <1>1, <1>4, <2>2 DEF Knows
  <2>4. work' = [work EXCEPT ![r] = w] BY <1>4, <2>1
  <2>5. QED BY <1>2, <1>4, <2>2, <2>3, <2>4, TelMoves
<1>5. ASSUME NEW l \in W!Label, W!Goto(r, l),
             l = "report" \/ (l = "comment" /\ work[r].at = "parent")
      PROVE  TelIInv'
  <2>1. work[r].row \in Nat /\ [work[r] EXCEPT !.at = l] = [work[r] EXCEPT !.row = work[r].row, !.at = l]
    BY <1>1 DEF Work
  <2>2. QED BY <1>4, <1>5, <2>1 DEF W!Goto
<1>6. ASSUME NEW v \in User, work' = [work EXCEPT ![r] = [work[r] EXCEPT !.todo = work[r].todo \ {v}]],
             \/ work[r].at = "mention"
             \/ work[r].at = "tags" /\ {work[r].who, v} \in friends
      PROVE  TelIInv'
  <2>1. PICK t \in SUBSET (User \cup Comment) : t = work[r].todo \ {v} BY <1>1
  <2>2. PICK w \in Work : w = [work[r] EXCEPT !.todo = t] BY <1>1 DEF Work
  <2>3. /\ w.at = work[r].at /\ w.on = work[r].on /\ w.who = work[r].who /\ w.for = work[r].for
        /\ w.todo = t /\ w.since = work[r].since
    BY <1>1, <2>2 DEF Work
  <2>4. Knows(w) BY <1>1, <1>6, <2>1, <2>3 DEF Knows
  <2>5. work' = [work EXCEPT ![r] = w] BY <1>6, <2>1, <2>2
  <2>6. QED BY <1>2, <1>6, <2>3, <2>4, <2>5, TelMoves
<1>7. CASE \E v \in User : W!TestTag(r, v) \/ W!Mention(r, v)
  BY <1>3, <1>6, <1>7 DEF W!TestTag, W!Mention, W!At
<1>8. CASE W!FindLike(r)
  <2>1. work[r].at = "find" /\ work[r].on \in W!Liked /\ work[r].who \in User
    BY <1>8 DEF W!FindLike, W!At, PosIInv, Fitting, Fits, About
  <2>2. PICK id \in Nat : id = like[<<work[r].on, work[r].who>>]
    BY <2>1 DEF PosIInv, PostTypes
  <2>3. work' = [work EXCEPT ![r] = [work[r] EXCEPT !.row = id,
                                        !.at = IF id = 0 THEN "like" ELSE "unlike"]]
    BY <1>8, <2>2 DEF W!FindLike
  <2>4. PICK l \in {"like", "unlike"} : l = IF id = 0 THEN "like" ELSE "unlike"
    OBVIOUS
  <2>5. l \in W!Label BY DEF W!Label
  <2>6. QED BY <1>4, <2>1, <2>3, <2>4, <2>5
<1>9. CASE W!FindParent(r)
  <2>1. "comment" \in W!Label BY DEF W!Label
  <2>2. QED BY <1>5, <1>9, <2>1 DEF W!FindParent, W!At
<1>10. CASE W!TestReport(r)
  <2>1. "report" \in W!Label BY DEF W!Label
  <2>2. QED BY <1>5, <1>10, <2>1 DEF W!TestReport
<1>11. CASE W!ReadPage(r) \/ W!Fail(r)
  BY <1>3, <1>11 DEF W!ReadPage, W!Fail
<1>12. QED BY <1>7, <1>8, <1>9, <1>10, <1>11

\* What is written is read by who is at work on it only when it is deleted.
LEMMA TelPosts ==
  ASSUME PosIInv, TelIInv, NEW r \in Request, W!CreatePost(r) PROVE TelIInv' /\ W!TagsFriends
<1>1. /\ work[r] \in Work /\ Fits(work[r]) /\ Knows(work[r]) /\ post \in [Post -> PostRow]
      /\ work[r].at = "tags" /\ work[r].todo = {}
  BY DEF PosIInv, PostTypes, Fitting, TelIInv, W!CreatePost, W!At
<1>2. PICK p \in Post :
        /\ ~W!Written(p)
        /\ post' = [post EXCEPT ![p] = [by |-> work[r].who, tagged |-> work[r].for, gone |-> FALSE]]
        /\ work' = [work EXCEPT ![r] = IF work[r].for = {} THEN W!Idle
                              ELSE [work[r] EXCEPT !.at = "mention", !.todo = work[r].for]]
        /\ UNCHANGED <<friends, blocks, shares>>
  BY DEF W!CreatePost, W!Publishes, W!ties
<1>3. work[r].who \in User /\ work[r].for \subseteq User
  BY <1>1 DEF Fits, About
<1>4. PICK n \in PostRow : n = [by |-> work[r].who, tagged |-> work[r].for, gone |-> FALSE]
  BY <1>3 DEF PostRow
<1>5. n.by = work[r].who /\ n.tagged = work[r].for /\ ~n.gone BY <1>4
<1>6. post'[p] = n /\ \A q \in Post \ {p} : post'[q] = post[q]
  BY <1>1, <1>2, <1>4
<1>7. n # W!NoPost BY <1>3, <1>5, ConstantsOK DEF W!NoPost
<1>8. PICK w \in Work : /\ w = IF work[r].for = {} THEN W!Idle
                               ELSE [work[r] EXCEPT !.at = "mention", !.todo = work[r].for]
                        /\ w.at \in {"idle", "mention"}
  <2>1. CASE work[r].for = {} BY <2>1, IdleFits DEF W!Idle
  <2>2. CASE work[r].for # {}
    <3>1. PICK w \in Work : w = [work[r] EXCEPT !.at = "mention", !.todo = work[r].for]
      BY <1>1 DEF Work, W!Label
    <3>2. w.at = "mention" BY <1>1, <3>1 DEF Work
    <3>3. QED BY <2>2, <3>1, <3>2
  <2>3. QED BY <2>1, <2>2
<1>9. work' = [work EXCEPT ![r] = w] BY <1>2, <1>8
<1>10. Knows(w) BY <1>8 DEF Knows
<1>11. Authored' BY <1>3, <1>5, <1>6 DEF TelIInv, Authored, W!Written
<1>12. \A q \in Post : (post'[q].gone => post[q].gone) /\ (W!Written(q) => W!Written(q)')
  BY <1>5, <1>6, <1>7 DEF W!Written
<1>13. TelIInv'
  <2>1. shares' \in [Post -> Nat] /\ UNCHANGED <<friends, blocks>> BY <1>2 DEF TelIInv
  <2>2. QED BY <1>8, <1>9, <1>10, <1>11, <1>12, <2>1, TelGoes
<1>14. W!TagsFriends
  <2>1. work'[r] # work[r]
    <3>1. work'[r] = w BY <1>9, WorkAt, ZenonT(40)
    <3>2. QED BY <1>1, <1>8, <3>1
  <2>2. \A v \in post'[p].tagged : {post'[p].by, v} \in friends \/ v \in work[r].since
    BY <1>1, <1>5, <1>6 DEF Knows
  <2>3. \A q \in Post : W!Written(q)' /\ ~W!Written(q) => q = p
    BY <1>6 DEF W!Written
  <2>4. QED BY <1>1, <2>1, <2>2, <2>3 DEF W!TagsFriends, W!At
<1>15. QED BY <1>13, <1>14

\* Who is late still knows, and so does who is told of a post that goes.
LEMMA LateKnows ==
  ASSUME PosIInv, TelIInv, NEW q \in Request, NEW b \in BOOLEAN, work[q].late => b
  PROVE  LET w == [work[q] EXCEPT !.late = b]
         IN  Knows(w) /\ w.on = work[q].on /\ (w.late <=> b) /\ w.at = work[q].at
<1>1. work[q] \in Work /\ Knows(work[q]) BY DEF PosIInv, PostTypes, TelIInv
<1>2. PICK w \in Work : w = [work[q] EXCEPT !.late = b] BY <1>1 DEF Work
<1>3. /\ w.at = work[q].at /\ w.who = work[q].who /\ w.on = work[q].on /\ w.todo = work[q].todo
      /\ w.for = work[q].for /\ w.since = work[q].since /\ w.late = b
  BY <1>1, <1>2 DEF Work
<1>4. Knows(w) BY <1>1, <1>3 DEF Knows
<1>5. QED BY <1>2, <1>3, <1>4

LEMMA TelDeletes ==
  ASSUME PosIInv, TelIInv, NEW r \in Request, W!Delete(r) PROVE TelIInv' /\ W!TagsFriends
<1> DEFINE p == work[r].on
<1>1. /\ work[r] \in Work /\ Fits(work[r]) /\ Knows(work[r]) /\ post \in [Post -> PostRow]
      /\ work[r].at = "delete"
  BY DEF PosIInv, PostTypes, Fitting, TelIInv, W!Delete, W!At
<1>2. p \in Post /\ W!Written(p) BY <1>1 DEF Fits, About, Knows
<1>3. /\ post' = [post EXCEPT ![p] = [post[p] EXCEPT !.gone = TRUE]]
      /\ work' = [q \in Request |-> IF q = r THEN W!Idle
              ELSE [work[q] EXCEPT !.late = work[q].late \/ work[q].on = p]]
      /\ UNCHANGED <<friends, blocks, shares>>
  BY DEF W!Delete, W!ties
<1> HIDE DEF p
<1>4. /\ \A q \in Post \ {p} : post'[q] = post[q]
      /\ post'[p].gone /\ post'[p].by = post[p].by
  BY <1>1, <1>2, <1>3 DEF PostRow
<1>5. \A q \in Post : W!Written(q) <=> W!Written(q)'
  BY <1>2, <1>4 DEF W!Written, W!NoPost
<1>6. Authored' BY <1>4, <1>5 DEF TelIInv, Authored
<1>7. ASSUME NEW q \in Request
      PROVE  /\ Knows(work'[q]) /\ (work'[q].on = p => work'[q].late \/ work'[q].at = "idle")
             /\ work'[q].at = "delete" => work'[q].on \in Post
  <2>1. CASE q = r
    <3>1. work'[q] = W!Idle BY <1>3, <2>1
    <3>2. QED BY <3>1, IdleKnows DEF W!Idle
  <2>2. CASE q # r
    <3>1. PICK b \in BOOLEAN : b = (work[q].late \/ work[q].on = p) OBVIOUS
    <3>2. work'[q] = [work[q] EXCEPT !.late = b] BY <1>3, <2>2, <3>1
    <3>3. work[q].late => b BY <3>1
    <3>4. /\ Knows(work'[q]) /\ work'[q].on = work[q].on /\ (work'[q].late <=> b)
          /\ work'[q].at = work[q].at
      BY <3>2, <3>3, LateKnows
    <3>5. work[q].at = "delete" => work[q].on \in Post
      BY DEF PosIInv, Fitting, Fits, About
    <3>6. QED BY <3>1, <3>4, <3>5
  <2>3. QED BY <2>1, <2>2
<1>8. ASSUME NEW q \in Request PROVE Knows(work[q])'
  <2>1. UNCHANGED <<friends, blocks>> BY <1>3
  <2>2. QED BY <1>4, <1>5, <1>7, <2>1 DEF Knows, W!Blocked
<1>9. TelIInv' BY <1>3, <1>6, <1>8 DEF TelIInv
<1>10. QED BY <1>5, <1>9 DEF W!TagsFriends

\* Reports tell who is about to report.
LEMMA TelReports ==
  ASSUME PosIInv, TelIInv,
         \/ \E r \in Request : W!CreateReport(r)
         \/ \E x \in DOMAIN open : W!Settle(x) \/ W!Reopen(x)
  PROVE  TelIInv'
<1>1. UNCHANGED <<friends, blocks, post, shares>>
  BY DEF W!CreateReport, W!Settle, W!Reopen, W!ties
<1>2. \/ UNCHANGED work
      \/ \E r \in Request : work' =
           [q \in Request |-> IF q = r THEN W!Idle ELSE W!Beaten(q, <<work[r].who, work[r].on>>)]
      \/ \E x \in DOMAIN open : work' = [q \in Request |-> W!Beaten(q, x)]
  BY DEF W!CreateReport, W!Settle, W!Reopen
<1>3. ASSUME NEW q \in Request, NEW x
      PROVE  LET w == W!Beaten(q, x)
             IN  Knows(w) /\ (w.at = "delete" => w.on \in Post)
  <2>1. PICK b \in BOOLEAN :
          b = (work[q].late \/ (work[q].at = "report" /\ <<work[q].who, work[q].on>> = x))
    OBVIOUS
  <2>2. W!Beaten(q, x) = [work[q] EXCEPT !.late = b] BY <2>1 DEF W!Beaten, W!At
  <2>3. work[q].late => b BY <2>1
  <2>4. work[q].at = "delete" => work[q].on \in Post BY DEF PosIInv, Fitting, Fits, About
  <2>5. QED BY <2>2, <2>3, <2>4, LateKnows
<1>4. W!Idle.at # "delete" BY DEF W!Idle
<1>5. ASSUME NEW q \in Request
      PROVE  Knows(work'[q]) /\ (work'[q].at = "delete" => work'[q].on \in Post)
  <2>1. Knows(work[q]) /\ (work[q].at = "delete" => work[q].on \in Post)
    BY DEF TelIInv, PosIInv, Fitting, Fits, About
  <2>2. \/ work'[q] = work[q] \/ work'[q] = W!Idle
        \/ \E r \in Request : work'[q] = W!Beaten(q, <<work[r].who, work[r].on>>)
        \/ \E x \in DOMAIN open : work'[q] = W!Beaten(q, x)
    BY <1>2
  <2>3. QED BY <1>3, <1>4, <2>1, <2>2, IdleKnows
<1>6. ASSUME NEW q \in Request PROVE Knows(work[q])'
  BY <1>1, <1>5 DEF Knows, W!Blocked, W!Written
<1>7. QED BY <1>1, <1>6 DEF TelIInv, Authored, W!Written

\* Shares, comments and likes are added by who has read the post.
LEMMA TelAdds ==
  ASSUME PosIInv, TelIInv, NEW r \in Request,
         W!Share(r) \/ W!CreateComment(r) \/ W!Like(r) \/ W!Unlike(r)
  PROVE  TelIInv' /\ W!TagsFriends /\ W!GoneIsQuiet
<1>1. /\ work[r].at \in {"like", "unlike", "comment", "share"} /\ W!Return(r)
      /\ UNCHANGED <<friends, blocks, post>>
  BY DEF W!Share, W!CreateComment, W!Like, W!Unlike, W!Toggles, W!At, W!ties
<1>2. /\ work[r] \in Work /\ Fits(work[r]) /\ Knows(work[r]) /\ shares \in [Post -> Nat]
      /\ work'[r] = W!Idle
  BY <1>1, IdleFits, WorkAt DEF PosIInv, PostTypes, Fitting, TelIInv, W!Return
<1>3. /\ shares' \in [Post -> Nat]
      /\ \A p \in Post : shares'[p] # shares[p] => work[r].on = p
  <2>1. CASE W!Share(r)
    <3>1. work[r].on \in Post BY <1>2, <2>1 DEF W!Share, W!At, Fits, About
    <3>2. shares' = [shares EXCEPT ![work[r].on] = shares[work[r].on] + 1]
      BY <2>1 DEF W!Share
    <3>3. QED BY <1>2, <3>1, <3>2
  <2>2. CASE UNCHANGED shares BY <1>2, <2>2
  <2>3. QED BY <2>1, <2>2 DEF W!CreateComment, W!Like, W!Unlike, W!Toggles
<1>4. ASSUME NEW c \in Comment, NEW p \in Post, comment'[c].of = p, comment[c].of # p
      PROVE  work[r].on = p
  <2>1. CASE W!CreateComment(r)
    <3>1. PICK d \in Comment, m \in {IF work[r].for = {} THEN None ELSE CHOOSE e \in work[r].for : TRUE} :
            comment' = [comment EXCEPT ![d] = [of |-> work[r].on, parent |-> m]]
      BY <2>1 DEF W!CreateComment
    <3>2. comment \in [Comment -> CommentRow] BY DEF PosIInv, PostTypes
    <3>3. comment'[c].of = IF c = d THEN work[r].on ELSE comment[c].of BY <3>1, <3>2
    <3>4. QED BY <1>4, <3>3
  <2>2. CASE UNCHANGED comment BY <1>4, <2>2
  <2>3. QED BY <2>1, <2>2 DEF W!Share, W!Like, W!Unlike, W!Toggles
<1>5. ASSUME NEW u \in User, NEW p \in Post, like'[<<p, u>>] # like[<<p, u>>]
      PROVE  work[r].on = p
  <2>1. CASE W!Like(r) \/ W!Unlike(r)
    <3>1. PICK id : like' = [like EXCEPT ![<<work[r].on, work[r].who>>] = id]
      BY <2>1 DEF W!Like, W!Unlike, W!Toggles
    <3>2. like \in [W!Liked \X User -> Nat] /\ <<p, u>> \in W!Liked \X User
      BY DEF PosIInv, PostTypes, W!Liked
    <3>3. like'[<<p, u>>] # like[<<p, u>>] => <<p, u>> = <<work[r].on, work[r].who>>
      BY <3>1, <3>2
    <3>4. QED BY <1>5, <3>3
  <2>2. CASE UNCHANGED like BY <1>5, <2>2
  <2>3. QED BY <2>1, <2>2 DEF W!Share, W!CreateComment
<1>6. TelIInv' BY <1>1, <1>3, TelReturns
<1>7. ASSUME NEW p \in Post, post[p].gone, work[r].on = p
      PROVE  \E q \in Request : work[q].on = p /\ work[q].late /\ work'[q] = W!Idle
  BY <1>1, <1>2, <1>7 DEF Knows
<1>8. W!GoneIsQuiet
  <2> SUFFICES ASSUME NEW p \in Post, post[p].gone,
                      \/ shares'[p] # shares[p]
                      \/ \E c \in Comment : comment'[c].of = p /\ comment[c].of # p
                      \/ \E u \in User : like'[p, u] # like[p, u]
               PROVE  \E q \in Request : work[q].on = p /\ work[q].late /\ work'[q] = W!Idle
    BY Zenon DEF W!GoneIsQuiet
  <2>1. (\E u \in User : like'[p, u] # like[p, u]) => \E u \in User : like'[<<p, u>>] # like[<<p, u>>]
    BY Zenon
  <2>2. work[r].on = p BY <1>3, <1>4, <1>5, <2>1
  <2>3. QED BY <1>7, <2>2
<1>9. QED BY <1>1, <1>6, <1>8 DEF W!TagsFriends, W!Written

\* Whoever else is at work adds nothing.
LEMMA NothingAdded ==
  ASSUME UNCHANGED <<shares, comment, like>> PROVE W!GoneIsQuiet
BY Zenon DEF W!GoneIsQuiet

LEMMA TelStep ==
  ASSUME PosIInv, TelIInv, W!Next PROVE TelIInv' /\ W!TagsFriends /\ W!GoneIsQuiet
<1>1. \A r \in W!Working : r \in Request BY DEF W!Working
<1>2. ASSUME UNCHANGED post PROVE W!TagsFriends
  BY <1>2 DEF W!TagsFriends, W!Written
<1>3. ASSUME NEW r \in W!Arriving, NEW u \in User,
             \/ \E tags \in SUBSET User : W!BeginPost(r, u, tags)
             \/ \E p \in Post : \/ W!BeginDelete(r, u, p) \/ W!BeginShare(r, u, p)
                                \/ \E c \in Comment \cup {None} : W!BeginComment(r, u, p, c)
             \/ \E x \in W!Liked : W!BeginLike(r, u, x)
             \/ W!BeginPage(r, u)
             \/ \E x \in W!Reported : W!BeginReport(r, u, x)
      PROVE  TelIInv' /\ W!TagsFriends /\ W!GoneIsQuiet
  <2>1. UNCHANGED <<post, shares, comment, like>>
    BY <1>3 DEF W!BeginPost, W!BeginDelete, W!BeginShare, W!BeginComment, W!BeginLike,
                W!BeginPage, W!BeginReport, W!Begin, W!tables
  <2>2. QED BY <1>2, <1>3, <2>1, NothingAdded, TelArrives
<1>4. ASSUME NEW r \in W!Working,
             \/ \E v \in User : W!TestTag(r, v) \/ W!Mention(r, v)
             \/ W!FindLike(r) \/ W!FindParent(r) \/ W!TestReport(r) \/ W!ReadPage(r) \/ W!Fail(r)
      PROVE  TelIInv' /\ W!TagsFriends /\ W!GoneIsQuiet
  <2>1. UNCHANGED <<post, shares, comment, like>>
    BY <1>4 DEF W!TestTag, W!Mention, W!FindLike, W!FindParent, W!TestReport, W!ReadPage, W!Fail,
                W!tables
  <2>2. QED BY <1>1, <1>2, <1>4, <2>1, NothingAdded, TelReads
<1>5. ASSUME NEW r \in W!Working, W!CreatePost(r) \/ W!Delete(r)
      PROVE  TelIInv' /\ W!TagsFriends /\ W!GoneIsQuiet
  <2>1. UNCHANGED <<shares, comment, like>>
    BY <1>5 DEF W!CreatePost, W!Publishes, W!Delete
  <2>2. QED BY <1>1, <1>5, <2>1, NothingAdded, TelPosts, TelDeletes
<1>6. ASSUME NEW r \in W!Working, W!Share(r) \/ W!CreateComment(r) \/ W!Like(r) \/ W!Unlike(r)
      PROVE  TelIInv' /\ W!TagsFriends /\ W!GoneIsQuiet
  BY <1>1, <1>6, TelAdds
<1>7. ASSUME \/ \E r \in W!Working : W!CreateReport(r)
             \/ \E x \in DOMAIN open : W!Settle(x) \/ W!Reopen(x)
      PROVE  TelIInv' /\ W!TagsFriends /\ W!GoneIsQuiet
  <2>1. UNCHANGED <<post, shares, comment, like>>
    BY <1>7 DEF W!CreateReport, W!Settle, W!Reopen
  <2>2. TelIInv' BY <1>1, <1>7, TelReports
  <2>3. QED BY <1>2, <2>1, <2>2, NothingAdded
<1>8. QED BY <1>3, <1>4, <1>5, <1>6, <1>7 DEF W!Next

\* A block or a removal is noted by who is at work.
LEMMA TelParted ==
  ASSUME PosIInv, TelIInv, work' = W!Parted(friends', blocks'), UNCHANGED <<post, shares>>
  PROVE  TelIInv'
<1>1. ASSUME NEW q \in Request PROVE Knows(work[q])'
  <2>1. work[q] \in Work /\ Knows(work[q]) BY DEF PosIInv, PostTypes, TelIInv
  <2>2. PICK s \in SUBSET User :
          /\ work'[q] = [work[q] EXCEPT !.since = s] /\ work[q].since \subseteq s
          /\ \A v \in User : {work[q].who, v} \in friends \ friends' => v \in s
          /\ \A v \in User : <<work[q].who, v>> \in blocks' \ blocks => v \in s
          /\ \A v \in User : <<v, work[q].who>> \in blocks' \ blocks => v \in s
    <3> DEFINE t == {v \in User : \/ {work[q].who, v} \in friends \ friends'
                                  \/ {<<work[q].who, v>>, <<v, work[q].who>>} \cap (blocks' \ blocks) # {}}
    <3>1. work'[q] = [work[q] EXCEPT !.since = work[q].since \cup t]
      BY DEF W!Parted
    <3>2. work[q].since \cup t \in SUBSET User BY <2>1 DEF Work
    <3>3. /\ \A v \in User : {work[q].who, v} \in friends \ friends' => v \in t
          /\ \A v \in User : <<work[q].who, v>> \in blocks' \ blocks => v \in t
          /\ \A v \in User : <<v, work[q].who>> \in blocks' \ blocks => v \in t
      OBVIOUS
    <3> HIDE DEF t
    <3>4. QED BY <3>1, <3>2, <3>3
  <2>3. /\ work'[q].at = work[q].at /\ work'[q].who = work[q].who /\ work'[q].on = work[q].on
        /\ work'[q].for = work[q].for /\ work'[q].todo = work[q].todo
        /\ work'[q].late = work[q].late /\ work'[q].since = s
    BY <2>1, <2>2 DEF Work
  <2>4. ASSUME work[q].at = "page", NEW v \in User, W!Blocked(work[q].who, v)'
        PROVE  v \in work[q].for \cup s
    BY <2>1, <2>2, <2>3, <2>4 DEF Knows, W!Blocked
  <2>5. ASSUME work[q].at = "tags", NEW v \in work[q].for \ work[q].todo
        PROVE  {work[q].who, v} \in friends' \/ v \in s
    <3>1. v \in User BY <2>5 DEF PosIInv, Fitting, Fits, About
    <3>2. QED BY <2>1, <2>2, <2>5, <3>1 DEF Knows
  <2>6. QED BY <2>1, <2>3, <2>4, <2>5 DEF Knows, W!Blocked, W!Written
<1>2. QED BY <1>1 DEF TelIInv, Authored, W!Written

LEMMA TelStill ==
  ASSUME TelIInv, UNCHANGED <<friends, blocks, post, shares, work>> PROVE TelIInv'
BY DEF TelIInv, Authored, Knows, W!Blocked, W!Written

-----------------------------------------------------------------------------
(* Sockets *)

SocketTypes ==
  /\ version \in Nat /\ revoking \in Nat /\ signed \in [Socket -> Nat]
  /\ shake \in [Socket -> P!Shake] /\ leave \in [Socket -> P!Leave]
  /\ joined \subseteq connected /\ connected \subseteq Socket

\* Who is connected has not begun to leave, and is in the set when in the room.
InPlace ==
  /\ \A s \in Socket : shake[s] = "new" => leave[s] = "no"
  /\ \A s \in connected :
       /\ leave[s] = "no" /\ shake[s] # "new"
       /\ shake[s] \in {"join", "done"} => s \in online
  /\ \A s \in joined : shake[s] = "done"

\* Who passed the test for a version that is gone waits to be disconnected, or
\* was not yet in the room when that was done.
Revoked ==
  \A s \in Socket : (shake[s] \in {"flag", "add", "join"} \/ s \in joined) /\ signed[s] < version =>
    revoking > 0 \/ s \in late

PreIInv == SocketTypes /\ InPlace /\ Revoked

LEMMA PreStands == PreIInv => P!LiveIsOnline /\ P!RevokedSocketsLeave
BY DEF PreIInv, SocketTypes, InPlace, Revoked, P!LiveIsOnline, P!RevokedSocketsLeave

LEMMA PreInit == P!Init => PreIInv
BY DEF P!Init, PreIInv, SocketTypes, InPlace, Revoked, P!Shake, P!Leave

\* The steps of the handshake.
LEMMA PreShakes ==
  ASSUME PreIInv, NEW s \in Socket,
         \/ \E v \in 0..MaxVersion : P!Connect(s, v)
         \/ P!Accept(s) \/ P!SetOnline(s) \/ P!AddToSet(s) \/ P!Join(s)
  PROVE  PreIInv'
<1>1. ASSUME NEW v \in 0..MaxVersion, P!Connect(s, v) PROVE PreIInv'
  <2>1. v \in Nat BY ConstantsOK
  <2>2. QED BY <1>1, <2>1 DEF P!Connect, PreIInv, SocketTypes, InPlace, Revoked, P!Shake, P!Leave
<1>2. CASE P!Accept(s)
  BY <1>2 DEF P!Accept, P!state, PreIInv, SocketTypes, InPlace, Revoked, P!Shake, P!Leave
<1>3. CASE P!SetOnline(s)
  BY <1>3 DEF P!SetOnline, PreIInv, SocketTypes, InPlace, Revoked, P!Shake, P!Leave
<1>4. CASE P!AddToSet(s)
  BY <1>4 DEF P!AddToSet, PreIInv, SocketTypes, InPlace, Revoked, P!Shake, P!Leave
<1>5. CASE P!Join(s)
  BY <1>5 DEF P!Join, PreIInv, SocketTypes, InPlace, Revoked, P!Shake, P!Leave
<1>6. QED BY <1>1, <1>2, <1>3, <1>4, <1>5

\* The sockets in gone leave.
LEMMA PreLeaves ==
  ASSUME PreIInv, NEW gone \in SUBSET connected, P!Leaving(gone),
         UNCHANGED <<version, online, signed>>, revoking' \in Nat,
         shake' \in [Socket -> P!Shake],
         \A s \in Socket : \/ shake'[s] = shake[s]
                           \/ shake'[s] = "refused" /\ s \notin connected \ gone,
         late \subseteq late',
         \/ revoking' = revoking
         \/ \A s \in Socket : shake'[s] \in {"flag", "add", "join"} \/ s \in joined' => s \in late'
  PROVE  PreIInv'
<1>1. SocketTypes'
  BY DEF P!Leaving, PreIInv, SocketTypes, P!Leave
<1>2. InPlace'
  BY DEF P!Leaving, PreIInv, SocketTypes, InPlace
<1>3. Revoked'
  <2>1. joined' \subseteq joined /\ version' = version /\ signed' = signed BY DEF P!Leaving
  <2>2. \A s \in Socket : shake'[s] \in {"flag", "add", "join"} => shake[s] = shake'[s]
    OBVIOUS
  <2>3. QED BY <2>1, <2>2 DEF PreIInv, Revoked
<1>4. QED BY <1>1, <1>2, <1>3 DEF PreIInv

LEMMA PreGoes ==
  ASSUME PreIInv,
         \/ \E s \in Socket : P!Refuse(s) \/ P!HandshakeFails(s) \/ P!GoAway(s)
         \/ P!DisconnectUser
  PROVE  PreIInv'
<1>1. ASSUME NEW s \in Socket, P!Refuse(s) \/ P!HandshakeFails(s) PROVE PreIInv'
  <2>1. /\ shake' = [shake EXCEPT ![s] = "refused"]
        /\ P!Leaving({s} \cap connected)
        /\ UNCHANGED <<version, online, signed, revoking, late>>
    BY <1>1 DEF P!Refuse, P!HandshakeFails
  <2>2. /\ shake' \in [Socket -> P!Shake]
        /\ \A q \in Socket : \/ shake'[q] = shake[q]
                             \/ shake'[q] = "refused" /\ q \notin connected \ ({s} \cap connected)
    BY <2>1 DEF PreIInv, SocketTypes, P!Shake
  <2>3. revoking' \in Nat BY <2>1 DEF PreIInv, SocketTypes
  <2>4. {s} \cap connected \in SUBSET connected OBVIOUS
  <2>5. QED BY <2>1, <2>2, <2>3, <2>4, PreLeaves
<1>2. ASSUME NEW s \in Socket, P!GoAway(s) PROVE PreIInv'
  <2>1. /\ P!Leaving({s}) /\ s \in connected
        /\ UNCHANGED <<version, online, signed, revoking, late, shake>>
    BY <1>2 DEF P!GoAway
  <2>2. shake' \in [Socket -> P!Shake] /\ revoking' \in Nat
    BY <2>1 DEF PreIInv, SocketTypes
  <2>3. {s} \in SUBSET connected BY <2>1
  <2>4. QED BY <2>1, <2>2, <2>3, PreLeaves
<1>3. CASE P!DisconnectUser
  <2>1. /\ P!Leaving(joined) /\ revoking > 0 /\ revoking' = revoking - 1
        /\ UNCHANGED <<version, online, signed, shake>>
        /\ late' = late \cup {s \in Socket : shake[s] \in {"flag", "add", "join"}}
    BY <1>3 DEF P!DisconnectUser
  <2>2. shake' \in [Socket -> P!Shake] /\ revoking' \in Nat /\ joined \in SUBSET connected
    BY <2>1 DEF PreIInv, SocketTypes
  <2>3. /\ late \subseteq late'
        /\ \A s \in Socket : shake'[s] \in {"flag", "add", "join"} \/ s \in joined' => s \in late'
    BY <2>1 DEF P!Leaving
  <2>4. QED BY <2>1, <2>2, <2>3, PreLeaves
<1>4. QED BY <1>1, <1>2, <1>3

LEMMA PreStep == ASSUME PreIInv, P!Next PROVE PreIInv'
<1>1. ASSUME NEW s \in Socket,
             P!RemoveFromSet(s) \/ P!CountSet(s) \/ P!SetOffline(s) \/ P!LeaveFails(s)
      PROVE  PreIInv'
  <2>1. CASE P!RemoveFromSet(s)
    BY <2>1 DEF P!RemoveFromSet, PreIInv, SocketTypes, InPlace, Revoked, P!Leave
  <2>2. CASE P!CountSet(s)
    BY <2>2 DEF P!CountSet, P!state, PreIInv, SocketTypes, InPlace, Revoked, P!Leave
  <2>3. CASE P!SetOffline(s)
    BY <2>3 DEF P!SetOffline, PreIInv, SocketTypes, InPlace, Revoked, P!Leave
  <2>4. CASE P!LeaveFails(s)
    BY <2>4 DEF P!LeaveFails, P!state, PreIInv, SocketTypes, InPlace, Revoked, P!Leave
  <2>5. QED BY <1>1, <2>1, <2>2, <2>3, <2>4
<1>2. CASE P!HealRead \/ P!HealWrite
  BY <1>2 DEF P!HealRead, P!HealWrite, P!state, PreIInv, SocketTypes, InPlace, Revoked
<1>3. CASE P!Revoke
  BY <1>3 DEF P!Revoke, PreIInv, SocketTypes, InPlace, Revoked
<1>4. QED BY <1>1, <1>2, <1>3, PreShakes, PreGoes DEF P!Next

-----------------------------------------------------------------------------
(* Notifications, badges and devices *)

Errand == [at : N!Label, to : SUBSET User, kind : N!Kind \cup {None}, count : Nat,
           devices : SUBSET Device, stale : BOOLEAN, moved : SUBSET Device]

InboxTypes ==
  /\ unread \in [User \X N!Kind -> Nat] /\ seen \in [User \X N!Kind -> Nat]
  /\ badge \in [User -> Nat] /\ wants \in [User -> N!Preferences]
  /\ owner \in [Device -> User \cup {None}] /\ holder \in [Device -> User \cup {None}]
  /\ errand \in [Request -> Errand]

Inbox(u) == unread[<<u, "INBOX">>]

\* What a request has counted, asked or read still stands, or it is marked.
Told(e) ==
  /\ e.at \in {"count", "emit"} => \E u \in User : e.to = {u}
  /\ e.at = "emit" /\ ~e.stale => \A u \in e.to : e.count = Inbox(u)
  /\ e.at \in {"devices", "send"} =>
       e.kind = "NEWS" \/ e.stale \/ \A u \in e.to : N!Wanted(u, e.kind)
  /\ e.at = "send" => \A d \in e.devices : owner[d] \in e.to \/ d \in e.moved
  /\ e.at = "clean" => e.devices \subseteq dead
AllTold == \A r \in Request : Told(errand[r])

Summing(r, u) == u \in errand[r].to /\ errand[r].at \in {"count", "emit"}
Badges == \A u \in User : badge[u] = Inbox(u) \/ u \in skewed \/ \E r \in Request : Summing(r, u)

BoxIInv == InboxTypes /\ AllTold /\ Badges /\ N!DeviceFollows

LEMMA BoxStands == BoxIInv => N!BadgeAgrees /\ N!PushesFollow /\ N!DeviceFollows
<1> SUFFICES ASSUME BoxIInv PROVE N!BadgeAgrees /\ N!PushesFollow
  BY DEF BoxIInv
<1>1. N!BadgeAgrees
  <2>1. \A u \in User : badge[u] = unread[u, "INBOX"] \/ u \in skewed \/ \E r \in Request : Summing(r, u)
    BY Zenon DEF BoxIInv, Badges, Inbox
  <2>2. QED BY <2>1, Zenon DEF N!BadgeAgrees, Summing
<1>2. N!PushesFollow
  BY DEF BoxIInv, AllTold, Told, N!PushesFollow, N!At
<1>3. QED BY <1>1, <1>2

LEMMA BoxInit == N!Init => BoxIInv
<1> SUFFICES ASSUME N!Init PROVE BoxIInv
  OBVIOUS
<1>1. unread = [x \in User \X N!Kind |-> 0] /\ seen = unread
  BY DEF N!Init
<1>2. /\ badge = [u \in User |-> 0] /\ errand = [r \in Request |-> N!Idle]
      /\ owner \in [Device -> User \cup {None}] /\ holder = owner
      /\ wants \in [User -> N!Preferences]
  BY DEF N!Init
<1>3. N!Idle \in Errand /\ N!Idle.at = "idle"
  BY DEF N!Idle, Errand, N!Label
<1>4. \A u \in User : Inbox(u) = 0
  BY <1>1 DEF Inbox, N!Kind
<1>5. InboxTypes BY <1>1, <1>2, <1>3 DEF InboxTypes
<1>6. AllTold BY <1>2, <1>3 DEF AllTold, Told
<1>7. Badges BY <1>2, <1>4 DEF Badges
<1>8. N!DeviceFollows BY <1>2 DEF N!DeviceFollows
<1>9. QED BY <1>5, <1>6, <1>7, <1>8 DEF BoxIInv

\* One request goes on: a summary it owes is still owed, or its users are marked.
LEMMA BoxGoes ==
  ASSUME BoxIInv, NEW r \in Request, NEW e \in Errand, errand' = [errand EXCEPT ![r] = e],
         Told(e), UNCHANGED <<unread, seen, wants, owner, dead, badge, holder>>,
         skewed \subseteq skewed',
         errand[r].at \in {"count", "emit"} =>
           \/ e.at \in {"count", "emit"} /\ e.to = errand[r].to
           \/ errand[r].to \subseteq skewed'
  PROVE  BoxIInv'
<1>1. /\ \A q \in Request : errand'[q] = IF q = r THEN e ELSE errand[q]
      /\ errand' \in [Request -> Errand]
  BY DEF BoxIInv, InboxTypes
<1>2. InboxTypes' BY <1>1 DEF BoxIInv, InboxTypes
<1>3. AllTold' BY <1>1 DEF BoxIInv, AllTold, Told, Inbox, N!Wanted
<1>4. Badges'
  <2> SUFFICES ASSUME NEW u \in User
               PROVE  badge'[u] = Inbox(u)' \/ u \in skewed' \/ \E q \in Request : Summing(q, u)'
    BY DEF Badges
  <2>1. CASE badge[u] = Inbox(u) \/ u \in skewed BY <2>1 DEF Inbox
  <2>2. CASE \E q \in Request : Summing(q, u)
    <3>1. PICK q \in Request : Summing(q, u) BY <2>2
    <3>2. Summing(q, u)' \/ u \in skewed' BY <1>1, <3>1 DEF Summing
    <3>3. QED BY <3>2
  <2>3. QED BY <2>1, <2>2 DEF BoxIInv, Badges
<1>5. N!DeviceFollows' BY DEF BoxIInv, N!DeviceFollows
<1>6. QED BY <1>2, <1>3, <1>4, <1>5 DEF BoxIInv

LEMMA IdleTold == N!Idle \in Errand /\ Told(N!Idle)
BY DEF N!Idle, Errand, N!Label, Told

\* What goes on at another label is the same request.
LEMMA ErrandAt ==
  ASSUME BoxIInv, NEW r \in Request, NEW l \in N!Label
  PROVE  LET e == [errand[r] EXCEPT !.at = l]
         IN  /\ e \in Errand /\ e.at = l /\ e.to = errand[r].to /\ e.kind = errand[r].kind
             /\ e.stale = errand[r].stale /\ e.devices = errand[r].devices
             /\ e.count = errand[r].count /\ e.moved = errand[r].moved
             /\ errand[r] \in Errand /\ Told(errand[r])
<1>1. errand[r] \in Errand /\ Told(errand[r]) BY DEF BoxIInv, InboxTypes, AllTold
<1>2. QED BY <1>1 DEF Errand

\* Counting, asking for preferences and for devices, and what fails.
LEMMA BoxReads ==
  ASSUME BoxIInv, NEW r \in Request,
         \/ N!Summarise(r) \/ N!SkipSummary(r) \/ N!ReadPreferences(r)
         \/ N!ReadDevices(r) \/ N!Send(r) \/ N!Fail(r)
  PROVE  BoxIInv'
<1>1. errand[r] \in Errand /\ Told(errand[r]) BY DEF BoxIInv, InboxTypes, AllTold
<1>2. N!Idle \in Errand /\ Told(N!Idle) /\ N!Idle.at = "idle"
  BY IdleTold DEF N!Idle
<1>3. {"idle", "emit", "prefs", "devices", "send", "clean"} \subseteq N!Label
  BY DEF N!Label
<1>4. UNCHANGED <<unread, seen, wants, owner, dead, badge, holder>>
  BY DEF N!Summarise, N!SkipSummary, N!ReadPreferences, N!ReadDevices, N!Send, N!Fail,
         N!tables, N!history
<1>5. CASE N!Summarise(r)
  <2>1. PICK u \in User : errand[r].to = {u} /\ errand[r].at = "count"
    BY <1>1, <1>5 DEF Told, N!Summarise, N!At
  <2>2. (CHOOSE v \in errand[r].to : TRUE) = u BY <2>1
  <2>3. PICK n \in Nat : n = Inbox(u)
    BY DEF BoxIInv, InboxTypes, Inbox, N!Kind
  <2>4. errand' = [errand EXCEPT ![r] = [errand[r] EXCEPT !.at = "emit", !.count = n]]
    <3>1. errand' = [errand EXCEPT ![r].at = "emit", ![r].count =
                       LET v == CHOOSE v \in errand[r].to : TRUE IN unread[<<v, "INBOX">>]]
      BY <1>5, Zenon DEF N!Summarise
    <3>2. unread[<<CHOOSE v \in errand[r].to : TRUE, "INBOX">>] = n
      BY <2>2, <2>3 DEF Inbox
    <3>3. errand' = [errand EXCEPT ![r].at = "emit", ![r].count = n]
      BY <3>1, <3>2, Zenon
    <3>4. QED BY <3>3 DEF BoxIInv, InboxTypes
  <2>5. PICK e \in Errand : e = [errand[r] EXCEPT !.at = "emit", !.count = n]
    BY <1>1, <1>3 DEF Errand
  <2>6. e.at = "emit" /\ e.count = n /\ e.to = {u}
    BY <1>1, <2>1, <2>5 DEF Errand
  <2>7. Told(e) BY <2>3, <2>6 DEF Told
  <2>8. UNCHANGED skewed BY <1>5 DEF N!Summarise, N!history
  <2>9. errand' = [errand EXCEPT ![r] = e] BY <2>4, <2>5
  <2>10. QED BY <1>4, <2>1, <2>6, <2>7, <2>8, <2>9, BoxGoes
<1>6. CASE N!SkipSummary(r)
  <2>1. errand' = [errand EXCEPT ![r] = [errand[r] EXCEPT !.at = "prefs"]]
    BY <1>6 DEF N!SkipSummary, N!Goto
  <2>2. PICK e \in Errand : e = [errand[r] EXCEPT !.at = "prefs"] BY <1>1, <1>3 DEF Errand
  <2>3. e.at = "prefs" BY <1>1, <2>2 DEF Errand
  <2>4. Told(e) BY <2>3 DEF Told
  <2>5. skewed' = skewed \cup errand[r].to BY <1>6 DEF N!SkipSummary
  <2>6. errand' = [errand EXCEPT ![r] = e] BY <2>1, <2>2
  <2>7. QED BY <1>4, <2>4, <2>5, <2>6, BoxGoes
<1>7. CASE N!Fail(r)
  <2>1. errand' = [errand EXCEPT ![r] = N!Idle] BY <1>7 DEF N!Fail, N!Return
  <2>2. skewed \subseteq skewed' /\ (errand[r].at \in {"count", "emit"} => errand[r].to \subseteq skewed')
    BY <1>7 DEF N!Fail
  <2>3. QED BY <1>2, <1>4, <2>1, <2>2, BoxGoes
<1>8. CASE N!ReadPreferences(r) \/ N!ReadDevices(r) \/ N!Send(r)
  <2>1. UNCHANGED skewed /\ errand[r].at \notin {"count", "emit"}
    BY <1>8 DEF N!ReadPreferences, N!ReadDevices, N!Send, N!history, N!At
  <2>2. CASE N!Return(r)
    <3>1. errand' = [errand EXCEPT ![r] = N!Idle] BY <2>2 DEF N!Return
    <3>2. QED BY <1>2, <1>4, <2>1, <3>1, BoxGoes
  <2>3. CASE ~N!Return(r) /\ N!ReadPreferences(r)
    <3>1. /\ errand' = [errand EXCEPT ![r] = [errand[r] EXCEPT !.at = "devices", !.stale = FALSE]]
          /\ \A u \in errand[r].to : N!Wanted(u, errand[r].kind)
      BY <2>3 DEF N!ReadPreferences, BoxIInv, InboxTypes
    <3>2. PICK e \in Errand : e = [errand[r] EXCEPT !.at = "devices", !.stale = FALSE]
      BY <1>1, <1>3 DEF Errand
    <3>3. e.at = "devices" /\ e.to = errand[r].to /\ e.kind = errand[r].kind
      BY <1>1, <3>2 DEF Errand
    <3>4. Told(e) BY <3>1, <3>3 DEF Told
    <3>5. errand' = [errand EXCEPT ![r] = e] BY <3>1, <3>2
    <3>6. QED BY <1>4, <2>1, <3>4, <3>5, BoxGoes
  <2>4. CASE ~N!Return(r) /\ N!ReadDevices(r)
    <3> DEFINE ds == N!Devices(errand[r].to)
    <3>1. /\ errand' = [errand EXCEPT ![r] = [errand[r] EXCEPT !.at = "send", !.devices = ds, !.moved = {}]]
          /\ errand[r].at = "devices"
      BY <2>4 DEF N!ReadDevices, N!At, BoxIInv, InboxTypes
    <3>2. ds \in SUBSET Device /\ \A d \in ds : owner[d] \in errand[r].to
      BY DEF N!Devices
    <3> HIDE DEF ds
    <3>3. PICK e \in Errand : e = [errand[r] EXCEPT !.at = "send", !.devices = ds, !.moved = {}]
      BY <1>1, <1>3, <3>2 DEF Errand
    <3>4. e.at = "send" /\ e.to = errand[r].to /\ e.kind = errand[r].kind
          /\ e.devices = ds /\ e.stale = errand[r].stale
      BY <1>1, <3>3 DEF Errand
    <3>5. Told(e) BY <1>1, <3>1, <3>2, <3>4 DEF Told
    <3>6. errand' = [errand EXCEPT ![r] = e] BY <3>1, <3>3
    <3>7. QED BY <1>4, <2>1, <3>5, <3>6, BoxGoes
  <2>5. CASE ~N!Return(r) /\ N!Send(r)
    <3> DEFINE unknown == errand[r].devices \cap dead
    <3>1. errand' = [errand EXCEPT ![r] = [errand[r] EXCEPT !.at = "clean", !.devices = unknown]]
      BY <2>5 DEF N!Send, BoxIInv, InboxTypes
    <3>2. unknown \in SUBSET Device /\ unknown \subseteq dead BY <1>1 DEF Errand
    <3> HIDE DEF unknown
    <3>3. PICK e \in Errand : e = [errand[r] EXCEPT !.at = "clean", !.devices = unknown]
      BY <1>1, <1>3, <3>2 DEF Errand
    <3>4. e.at = "clean" /\ e.devices = unknown BY <1>1, <3>3 DEF Errand
    <3>5. Told(e) BY <3>2, <3>4 DEF Told
    <3>6. errand' = [errand EXCEPT ![r] = e] BY <3>1, <3>3
    <3>7. QED BY <1>4, <2>1, <3>5, <3>6, BoxGoes
  <2>6. QED BY <1>8, <2>2, <2>3, <2>4, <2>5
<1>9. QED BY <1>5, <1>6, <1>7, <1>8

\* A summary is what is unread, or it was overtaken.
LEMMA BoxEmits ==
  ASSUME BoxIInv, NEW r \in Request, N!EmitSummary(r) PROVE BoxIInv'
<1>1. errand[r] \in Errand /\ Told(errand[r]) /\ errand[r].at = "emit"
  BY DEF BoxIInv, InboxTypes, AllTold, N!EmitSummary, N!At
<1>2. PICK u \in User : errand[r].to = {u} BY <1>1 DEF Told
<1>3. /\ badge' = [v \in User |-> IF v = u THEN errand[r].count ELSE badge[v]]
      /\ skewed' = IF errand[r].stale THEN skewed \cup {u} ELSE skewed \ {u}
      /\ UNCHANGED <<unread, seen, wants, owner, dead, holder>>
  BY <1>2 DEF N!EmitSummary, N!tables
<1>4. PICK e \in Errand : errand' = [errand EXCEPT ![r] = e] /\ e.at \in {"idle", "prefs"}
  <2>1. CASE errand[r].kind = None
    BY <2>1, IdleTold DEF N!EmitSummary, N!Return, N!Idle
  <2>2. CASE errand[r].kind # None
    <3>1. errand' = [errand EXCEPT ![r] = [errand[r] EXCEPT !.at = "prefs"]]
      BY <2>2 DEF N!EmitSummary, N!Goto
    <3>2. PICK e \in Errand : e = [errand[r] EXCEPT !.at = "prefs"]
      BY <1>1 DEF Errand, N!Label
    <3>3. e.at = "prefs" BY <1>1, <3>2 DEF Errand
    <3>4. QED BY <3>1, <3>2, <3>3
  <2>3. QED BY <2>1, <2>2
<1>5. /\ \A q \in Request : errand'[q] = IF q = r THEN e ELSE errand[q]
      /\ errand' \in [Request -> Errand] /\ Told(e)
  BY <1>4 DEF BoxIInv, InboxTypes, Told
<1>6. InboxTypes'
  <2>1. errand[r].count \in Nat BY <1>1 DEF Errand
  <2>2. QED BY <1>3, <1>5, <2>1 DEF BoxIInv, InboxTypes
<1>7. AllTold' BY <1>3, <1>5 DEF BoxIInv, AllTold, Told, Inbox, N!Wanted
<1>8. Badges'
  <2> SUFFICES ASSUME NEW v \in User
               PROVE  badge'[v] = Inbox(v)' \/ v \in skewed' \/ \E q \in Request : Summing(q, v)'
    BY DEF Badges
  <2>1. CASE v = u
    <3>1. errand[r].stale \/ errand[r].count = Inbox(u) BY <1>1, <1>2 DEF Told
    <3>2. QED BY <1>3, <2>1, <3>1 DEF Inbox
  <2>2. CASE v # u
    <3>1. badge[v] = Inbox(v) \/ v \in skewed \/ \E q \in Request : Summing(q, v)
      BY DEF BoxIInv, Badges
    <3>2. ASSUME NEW q \in Request, Summing(q, v) PROVE Summing(q, v)'
      <4>1. q # r BY <1>2, <2>2, <3>2 DEF Summing
      <4>2. QED BY <1>5, <3>2, <4>1 DEF Summing
    <3>3. badge'[v] = badge[v] /\ (v \in skewed => v \in skewed') BY <1>3, <2>2
    <3>4. Inbox(v)' = Inbox(v) BY <1>3 DEF Inbox
    <3>5. QED BY <3>1, <3>2, <3>3, <3>4
  <2>3. QED BY <2>1, <2>2
<1>9. N!DeviceFollows' BY <1>3 DEF BoxIInv, N!DeviceFollows
<1>10. QED BY <1>6, <1>7, <1>8, <1>9 DEF BoxIInv

\* A request writes notifications of the users us, and owes them a summary if
\* what it wrote counts; who has counted before is marked.
LEMMA BoxChanges ==
  ASSUME BoxIInv, NEW r \in Request, errand[r] = N!Idle, NEW us \in SUBSET User,
         NEW k \in N!Kind \cup {None}, NEW l \in {"count", "prefs", "devices"},
         NEW counts \in BOOLEAN, N!Changes(r, us, k, l, counts),
         unread' \in [User \X N!Kind -> Nat], seen' \in [User \X N!Kind -> Nat],
         l = "count" => \E u \in User : us = {u},
         l = "devices" => k = "NEWS",
         \A u \in User : Inbox(u)' = Inbox(u) \/ (counts /\ us = {u} /\ l = "count")
  PROVE  BoxIInv'
<1>1. /\ errand' = [q \in Request |-> IF q = r THEN N!Starts(us, k, l)
           ELSE [errand[q] EXCEPT !.stale = errand[q].stale \/
                   (counts /\ errand[q].at = "emit" /\ errand[q].to = us)]]
      /\ UNCHANGED <<wants, owner, dead, badge, skewed, holder>>
  BY DEF N!Changes, N!history
<1>2. PICK e \in Errand : e = N!Starts(us, k, l) /\ e.at = l /\ e.to = us /\ e.kind = k
  <2> DEFINE e == N!Starts(us, k, l)
  <2>1. l \in N!Label BY DEF N!Label
  <2>2. e \in Errand BY <2>1, IdleTold DEF N!Starts, Errand
  <2>3. e.at = l /\ e.to = us /\ e.kind = k BY DEF N!Starts, N!Idle
  <2>4. QED BY <2>2, <2>3
<1>3. ASSUME NEW q \in Request, q # r
      PROVE  /\ errand'[q] \in Errand /\ errand'[q].at = errand[q].at
             /\ errand'[q].to = errand[q].to /\ errand'[q].kind = errand[q].kind
             /\ errand'[q].devices = errand[q].devices /\ errand'[q].moved = errand[q].moved
             /\ errand'[q].count = errand[q].count
             /\ errand[q].stale => errand'[q].stale
             /\ counts /\ errand[q].at = "emit" /\ errand[q].to = us => errand'[q].stale
  <2>1. PICK b \in BOOLEAN : b = (errand[q].stale \/
                   (counts /\ errand[q].at = "emit" /\ errand[q].to = us))
    OBVIOUS
  <2>2. errand'[q] = [errand[q] EXCEPT !.stale = b] BY <1>1, <1>3, <2>1
  <2>3. errand[q] \in Errand BY DEF BoxIInv, InboxTypes
  <2>4. PICK f \in Errand : f = [errand[q] EXCEPT !.stale = b] BY <2>3 DEF Errand
  <2>5. f.at = errand[q].at /\ f.to = errand[q].to /\ f.kind = errand[q].kind
        /\ f.devices = errand[q].devices /\ f.moved = errand[q].moved
        /\ f.count = errand[q].count /\ f.stale = b
    BY <2>3, <2>4 DEF Errand
  <2>6. (errand[q].stale => b) /\ (counts /\ errand[q].at = "emit" /\ errand[q].to = us => b)
    BY <2>1
  <2>7. QED BY <2>2, <2>4, <2>5, <2>6
<1>4. errand'[r] = e BY <1>1, <1>2
<1>5. errand' \in [Request -> Errand]
  <2>1. \A q \in Request : errand'[q] \in Errand BY <1>2, <1>3, <1>4
  <2>2. QED BY <1>1, <2>1
<1>6. InboxTypes' BY <1>1, <1>5 DEF BoxIInv, InboxTypes
<1>7. AllTold'
  <2> SUFFICES ASSUME NEW q \in Request PROVE Told(errand[q])'
    BY DEF AllTold
  <2>1. CASE q = r
    BY <1>2, <1>4, <2>1 DEF Told
  <2>2. CASE q # r
    <3>1. Told(errand[q]) BY DEF BoxIInv, AllTold
    <3>2. /\ errand'[q].at = errand[q].at
          /\ errand'[q].to = errand[q].to /\ errand'[q].kind = errand[q].kind
          /\ errand'[q].devices = errand[q].devices /\ errand'[q].moved = errand[q].moved
          /\ errand'[q].count = errand[q].count
          /\ errand[q].stale => errand'[q].stale
          /\ counts /\ errand[q].at = "emit" /\ errand[q].to = us => errand'[q].stale
      BY <1>3, <2>2
    <3>3. ASSUME errand'[q].at = "emit", ~errand'[q].stale, NEW u \in errand[q].to
          PROVE  errand[q].count = Inbox(u)'
      <4>1. errand[q].to = {u} /\ u \in User /\ ~errand[q].stale BY <3>1, <3>2, <3>3 DEF Told
      <4>2. ~(counts /\ us = {u}) BY <3>2, <3>3, <4>1
      <4>3. QED BY <3>1, <3>2, <3>3, <4>1, <4>2 DEF Told
    <3>4. wants' = wants BY <1>1
    <3>6. errand'[q].at \in {"devices", "send"} =>
            \/ errand'[q].kind = "NEWS" \/ errand'[q].stale
            \/ \A u \in errand'[q].to : N!Wanted(u, errand'[q].kind)
      BY <3>1, <3>2 DEF Told
    <3>7. errand'[q].at = "send" =>
            \A d \in errand'[q].devices : owner'[d] \in errand'[q].to \/ d \in errand'[q].moved
      BY <1>1, <3>1, <3>2 DEF Told
    <3>8. /\ errand'[q].at \in {"count", "emit"} => \E u \in User : errand'[q].to = {u}
          /\ errand'[q].at = "clean" => errand'[q].devices \subseteq dead'
      BY <1>1, <3>1, <3>2 DEF Told
    <3>9. errand'[q].at = "emit" /\ ~errand'[q].stale =>
            \A u \in errand'[q].to : errand'[q].count = Inbox(u)'
      BY <3>2, <3>3
    <3>10. QED BY <3>4, <3>6, <3>7, <3>8, <3>9 DEF Told, N!Wanted
  <2>3. QED BY <2>1, <2>2
<1>8. Badges'
  <2> SUFFICES ASSUME NEW u \in User
               PROVE  badge'[u] = Inbox(u)' \/ u \in skewed' \/ \E q \in Request : Summing(q, u)'
    BY DEF Badges
  <2>1. CASE us = {u} /\ l = "count" BY <1>2, <1>4, <2>1 DEF Summing
  <2>2. CASE ~(us = {u} /\ l = "count")
    <3>1. Inbox(u)' = Inbox(u) BY <2>2
    <3>2. ASSUME NEW q \in Request, Summing(q, u) PROVE Summing(q, u)'
      <4>1. q # r BY <3>2 DEF Summing, N!Idle
      <4>2. QED BY <1>3, <3>2, <4>1 DEF Summing
    <3>3. badge[u] = Inbox(u) \/ u \in skewed \/ \E q \in Request : Summing(q, u)
      BY DEF BoxIInv, Badges
    <3>4. QED BY <1>1, <3>1, <3>2, <3>3
  <2>3. QED BY <2>1, <2>2
<1>9. N!DeviceFollows' BY <1>1 DEF BoxIInv, N!DeviceFollows
<1>10. QED BY <1>6, <1>7, <1>8, <1>9 DEF BoxIInv

\* Devices move: a push that is about to go to them, for who had them, knows.
LEMMA BoxMoves ==
  ASSUME BoxIInv, NEW r \in Request, NEW ds \in SUBSET Device, NEW u \in User \cup {None},
         N!Moves(r, ds, u), errand[r].at \notin {"count", "emit"},
         UNCHANGED <<unread, seen, wants, dead, badge, skewed>>,
         holder' \in [Device -> User \cup {None}], N!DeviceFollows'
  PROVE  BoxIInv'
<1>1. /\ owner' = [d \in Device |-> IF d \in ds THEN u ELSE owner[d]]
      /\ errand' = [q \in Request |->
           IF q = r THEN N!Idle
           ELSE IF errand[q].at = "send"
                  THEN [errand[q] EXCEPT !.moved = errand[q].moved \cup {d \in ds : owner[d] # u}]
           ELSE errand[q]]
  BY DEF N!Moves
<1>2. ASSUME NEW q \in Request, q # r
      PROVE  /\ errand'[q] \in Errand /\ errand'[q].at = errand[q].at
             /\ errand'[q].to = errand[q].to /\ Told(errand[q])'
  <2>1. errand[q] \in Errand /\ Told(errand[q]) BY DEF BoxIInv, InboxTypes, AllTold
  <2>2. CASE errand[q].at # "send"
    <3>1. errand'[q] = errand[q] BY <1>1, <1>2, <2>2
    <3>2. QED BY <2>1, <2>2, <3>1 DEF Told, Inbox, N!Wanted
  <2>3. CASE errand[q].at = "send"
    <3> DEFINE m == errand[q].moved \cup {d \in ds : owner[d] # u}
    <3>1. m \in SUBSET Device BY <2>1 DEF Errand
    <3>2. errand'[q] = [errand[q] EXCEPT !.moved = m] BY <1>1, <1>2, <2>3
    <3>3. /\ errand[q].moved \subseteq m
          /\ \A d \in Device : owner'[d] = owner[d] \/ d \in m
      BY <1>1 DEF BoxIInv, InboxTypes
    <3> HIDE DEF m
    <3>4. PICK e \in Errand : e = [errand[q] EXCEPT !.moved = m] BY <2>1, <3>1 DEF Errand
    <3>5. /\ e.at = "send" /\ e.to = errand[q].to /\ e.kind = errand[q].kind
          /\ e.devices = errand[q].devices /\ e.stale = errand[q].stale /\ e.moved = m
      BY <2>1, <2>3, <3>4 DEF Errand
    <3>6. errand'[q] = e BY <3>2, <3>4
    <3>7. \A d \in e.devices : owner'[d] \in e.to \/ d \in e.moved
      <4>1. e.devices \subseteq Device BY DEF Errand
      <4>2. QED BY <2>1, <2>3, <3>3, <3>5, <4>1 DEF Told
    <3>8. Told(errand[q])' BY <2>1, <2>3, <3>5, <3>6, <3>7 DEF Told, N!Wanted
    <3>9. QED BY <2>3, <3>5, <3>6, <3>8
  <2>4. QED BY <2>2, <2>3
<1>3. errand'[r] = N!Idle BY <1>1
<1>4. errand' \in [Request -> Errand] /\ owner' \in [Device -> User \cup {None}]
  <2>1. \A q \in Request : errand'[q] \in Errand BY <1>2, <1>3, IdleTold
  <2>2. QED BY <1>1, <2>1 DEF BoxIInv, InboxTypes
<1>5. InboxTypes' BY <1>4 DEF BoxIInv, InboxTypes
<1>6. AllTold'
  <2>1. Told(errand[r])' BY <1>3 DEF Told, N!Idle
  <2>2. QED BY <1>2, <2>1 DEF AllTold
<1>7. Badges'
  <2> SUFFICES ASSUME NEW v \in User
               PROVE  badge'[v] = Inbox(v)' \/ v \in skewed' \/ \E q \in Request : Summing(q, v)'
    BY DEF Badges
  <2>1. ASSUME NEW q \in Request, Summing(q, v) PROVE Summing(q, v)'
    <3>1. q # r BY <2>1 DEF Summing
    <3>2. QED BY <1>2, <2>1, <3>1 DEF Summing
  <2>2. QED BY <2>1 DEF BoxIInv, Badges, Inbox
<1>8. QED BY <1>5, <1>6, <1>7 DEF BoxIInv

LEMMA BoxRegisters ==
  ASSUME BoxIInv, NEW r \in Request,
         \/ N!Register(r) \/ N!RemoveUnknown(r)
         \/ errand[r] = N!Idle /\ \E u \in User, d \in Device : N!Unregister(r, u, d)
  PROVE  BoxIInv'
<1>1. /\ errand[r] \in Errand /\ Told(errand[r])
      /\ owner \in [Device -> User \cup {None}] /\ holder \in [Device -> User \cup {None}]
      /\ \A d \in Device : owner[d] = holder[d] \/ (owner[d] = None /\ d \in dead)
  BY DEF BoxIInv, InboxTypes, AllTold, N!DeviceFollows
<1>2. CASE N!Register(r)
  <2>1. PICK d \in errand[r].devices, u \in errand[r].to :
          /\ N!Moves(r, {d}, u) /\ errand[r].at \in {"assign", "insert"}
          /\ holder' = [holder EXCEPT ![d] = u]
          /\ UNCHANGED <<unread, seen, wants, dead, badge, skewed>>
    BY <1>2 DEF N!Register, N!At
  <2>2. d \in Device /\ u \in User BY <1>1 DEF Errand
  <2>3. owner' = [e \in Device |-> IF e = d THEN u ELSE owner[e]] BY <2>1 DEF N!Moves
  <2>4. N!DeviceFollows' BY <1>1, <2>1, <2>2, <2>3 DEF N!DeviceFollows
  <2>5. holder' \in [Device -> User \cup {None}] BY <1>1, <2>1, <2>2
  <2>6. {d} \in SUBSET Device /\ u \in User \cup {None} BY <2>2
  <2>7. QED BY <2>1, <2>4, <2>5, <2>6, BoxMoves
<1>3. CASE N!RemoveUnknown(r)
  <2>1. /\ N!Moves(r, errand[r].devices, None) /\ errand[r].at = "clean"
        /\ UNCHANGED <<unread, seen, wants, dead, badge, skewed, holder>>
    BY <1>3 DEF N!RemoveUnknown, N!At, N!history
  <2>2. errand[r].devices \in SUBSET Device /\ errand[r].devices \subseteq dead
    BY <1>1, <2>1 DEF Errand, Told
  <2>3. owner' = [e \in Device |-> IF e \in errand[r].devices THEN None ELSE owner[e]]
    BY <2>1 DEF N!Moves
  <2>4. N!DeviceFollows' BY <1>1, <2>1, <2>2, <2>3 DEF N!DeviceFollows
  <2>5. QED BY <1>1, <2>1, <2>2, <2>4, BoxMoves
<1>4. ASSUME errand[r] = N!Idle, NEW u \in User, NEW d \in Device, N!Unregister(r, u, d)
      PROVE  BoxIInv'
  <2> DEFINE ds == {e \in {d} : owner[e] = u}
  <2>1. /\ N!Moves(r, ds, None)
        /\ holder' = [holder EXCEPT ![d] = IF holder[d] = u THEN None ELSE holder[d]]
        /\ UNCHANGED <<unread, seen, wants, dead, badge, skewed>>
    BY <1>4 DEF N!Unregister
  <2>2. errand[r].at \notin {"count", "emit"} BY <1>4 DEF N!Idle
  <2>3. owner' = [e \in Device |-> IF e = d /\ owner[e] = u THEN None ELSE owner[e]]
    BY <2>1 DEF N!Moves
  <2>4. holder' = [e \in Device |-> IF e = d /\ holder[e] = u THEN None ELSE holder[e]]
    BY <1>1, <2>1
  <2>5. N!DeviceFollows'
    <3> SUFFICES ASSUME NEW e \in Device
                 PROVE  owner'[e] = holder'[e] \/ (owner'[e] = None /\ e \in dead')
      BY DEF N!DeviceFollows
    <3>1. u # None BY ConstantsOK
    <3>2. QED BY <1>1, <2>1, <2>3, <2>4, <3>1
  <2>6. holder' \in [Device -> User \cup {None}] BY <1>1, <2>4
  <2>7. ds \in SUBSET Device OBVIOUS
  <2> HIDE DEF ds
  <2>8. QED BY <2>1, <2>2, <2>5, <2>6, <2>7, BoxMoves
<1>5. QED BY <1>2, <1>3, <1>4

\* Who has asked whether a user wants to hear of it goes on, and is marked.
LEMMA BoxPrefers ==
  ASSUME BoxIInv, NEW r \in Request, NEW u \in User, NEW p \in N!Preferences,
         N!SetPreferences(r, u, p)
  PROVE  BoxIInv'
<1>1. /\ wants' = [wants EXCEPT ![u] = p]
      /\ UNCHANGED <<unread, seen, owner, dead, badge, skewed, holder>>
  BY DEF N!SetPreferences, N!history
<1>2. ASSUME NEW q \in Request
      PROVE  /\ errand'[q] \in Errand /\ errand'[q].at = errand[q].at
             /\ errand'[q].to = errand[q].to /\ Told(errand[q])'
  <2>1. errand[q] \in Errand /\ Told(errand[q]) BY DEF BoxIInv, InboxTypes, AllTold
  <2>2. PICK b \in BOOLEAN : b = (errand[q].stale \/
                  (errand[q].at \in {"devices", "send"} /\ u \in errand[q].to))
    OBVIOUS
  <2>3. errand'[q] = [errand[q] EXCEPT !.stale = b]
    BY <2>2 DEF N!SetPreferences
  <2>4. PICK e \in Errand : e = [errand[q] EXCEPT !.stale = b] BY <2>1 DEF Errand
  <2>5. /\ e.at = errand[q].at /\ e.to = errand[q].to /\ e.kind = errand[q].kind
        /\ e.devices = errand[q].devices /\ e.stale = b /\ e.moved = errand[q].moved
        /\ e.count = errand[q].count
    BY <2>1, <2>4 DEF Errand
  <2>6. errand'[q] = e BY <2>3, <2>4
  <2>7. e.at \in {"devices", "send"} =>
          e.kind = "NEWS" \/ e.stale \/ \A v \in e.to : N!Wanted(v, e.kind)'
    <3>1. \A v \in e.to : v # u => wants'[v] = wants[v]
      BY <1>1, <2>4 DEF BoxIInv, InboxTypes, Errand
    <3>2. QED BY <2>1, <2>2, <2>5, <3>1 DEF Told, N!Wanted
  <2>8. Told(errand[q])'
    <3>1. e.at \in {"count", "emit"} => \E v \in User : e.to = {v} BY <2>1, <2>5 DEF Told
    <3>2. e.at = "emit" /\ ~e.stale => \A v \in e.to : e.count = Inbox(v)'
      BY <1>1, <2>1, <2>2, <2>5 DEF Told, Inbox
    <3>3. e.at = "send" => \A d \in e.devices : owner'[d] \in e.to \/ d \in e.moved
      BY <1>1, <2>1, <2>5 DEF Told
    <3>4. e.at = "clean" => e.devices \subseteq dead' BY <1>1, <2>1, <2>5 DEF Told
    <3>5. QED BY <2>6, <2>7, <3>1, <3>2, <3>3, <3>4 DEF Told
  <2>9. QED BY <2>5, <2>6, <2>8
<1>3. errand' \in [Request -> Errand] BY <1>2 DEF N!SetPreferences
<1>4. InboxTypes' BY <1>1, <1>3 DEF BoxIInv, InboxTypes, N!Preferences
<1>5. AllTold' BY <1>2 DEF AllTold
<1>6. Badges' BY <1>1, <1>2 DEF BoxIInv, Badges, Inbox, Summing
<1>7. N!DeviceFollows' BY <1>1 DEF BoxIInv, N!DeviceFollows
<1>8. QED BY <1>4, <1>5, <1>6, <1>7 DEF BoxIInv

UnreadTypes == unread \in [User \X N!Kind -> Nat] /\ seen \in [User \X N!Kind -> Nat]

\* One user's notifications are written or read, and summed up.
LEMMA BoxSums ==
  ASSUME BoxIInv, NEW r \in Request, errand[r] = N!Idle, NEW u \in User,
         NEW k \in N!Kind \cup {None}, NEW counts \in BOOLEAN,
         N!Changes(r, {u}, k, "count", counts), UnreadTypes',
         \A v \in User : Inbox(v)' = Inbox(v) \/ (counts /\ {u} = {v})
  PROVE  BoxIInv'
<1>1. PICK us \in SUBSET User : us = {u} OBVIOUS
<1>2. PICK l \in {"count", "prefs", "devices"} : l = "count" OBVIOUS
<1>3. N!Changes(r, us, k, l, counts) BY <1>1, <1>2
<1>4. (l = "count" => \E v \in User : us = {v}) /\ (l = "devices" => k = "NEWS")
  BY <1>1, <1>2
<1>5. \A v \in User : Inbox(v)' = Inbox(v) \/ (counts /\ us = {v} /\ l = "count")
  BY <1>1, <1>2
<1>6. unread' \in [User \X N!Kind -> Nat] /\ seen' \in [User \X N!Kind -> Nat]
  BY DEF UnreadTypes
<1>7. QED BY <1>3, <1>4, <1>5, <1>6, BoxChanges, SMTT(30)

\* Notifications that are written, read, or only pushed.
LEMMA BoxArrives ==
  ASSUME BoxIInv, NEW r \in Request, errand[r] = N!Idle,
         \/ N!NotifyAll(r)
         \/ \E u \in User :
              \/ \E k \in N!Kind : N!Create(r, u, k) \/ N!CreateAgain(r, u, k)
                                   \/ N!PushOnly(r, u, k) \/ N!MarkRead(r, u, k)
              \/ N!MarkAllRead(r, u) \/ N!MarkCategoryRead(r, u)
  PROVE  BoxIInv'
<1>1. /\ unread \in [User \X N!Kind -> Nat] /\ seen \in [User \X N!Kind -> Nat]
      /\ "INBOX" \in N!Kind /\ "NEWS" \in N!Kind
  BY DEF BoxIInv, InboxTypes, N!Kind
<1>2. CASE N!NotifyAll(r)
  <2>1. /\ unread' = [x \in User \X N!Kind |-> unread[x] + IF x[2] = "NEWS" THEN 1 ELSE 0]
        /\ seen' = seen /\ N!Changes(r, User, "NEWS", "devices", FALSE)
    BY <1>2 DEF N!NotifyAll
  <2>2. unread' \in [User \X N!Kind -> Nat] /\ seen' \in [User \X N!Kind -> Nat]
    BY <1>1, <2>1
  <2>3. \A u \in User : Inbox(u)' = Inbox(u)
    <3>1. ASSUME NEW u \in User PROVE Inbox(u)' = Inbox(u)
      <4>1. <<u, "INBOX">> \in User \X N!Kind /\ <<u, "INBOX">>[2] # "NEWS" BY <1>1
      <4>2. unread'[<<u, "INBOX">>] = unread[<<u, "INBOX">>] + 0 BY <2>1, <4>1
      <4>3. unread[<<u, "INBOX">>] \in Nat BY <1>1, <4>1
      <4>4. QED BY <4>2, <4>3 DEF Inbox
    <3>2. QED BY <3>1
  <2>4. QED BY <1>1, <2>1, <2>2, <2>3, BoxChanges
<1>3. ASSUME NEW u \in User, NEW k \in N!Kind, N!Create(r, u, k) PROVE BoxIInv'
  <2>1. /\ unread' = [unread EXCEPT ![<<u, k>>] = unread[<<u, k>>] + 1] /\ seen' = seen
        /\ N!Changes(r, {u}, k, "count", k = "INBOX")
    BY <1>3 DEF N!Create
  <2>2. unread' \in [User \X N!Kind -> Nat] /\ seen' \in [User \X N!Kind -> Nat]
    BY <1>1, <2>1
  <2>3. \A v \in User : Inbox(v)' = Inbox(v) \/ (k = "INBOX" /\ {u} = {v})
    <3>1. ASSUME NEW v \in User PROVE Inbox(v)' = Inbox(v) \/ (k = "INBOX" /\ {u} = {v})
      <4>1. CASE <<v, "INBOX">> = <<u, k>> BY <4>1
      <4>2. CASE <<v, "INBOX">> # <<u, k>> BY <1>1, <2>1, <4>2 DEF Inbox
      <4>3. QED BY <4>1, <4>2
    <3>2. QED BY <3>1
  <2>4. PICK counts \in BOOLEAN : counts = (k = "INBOX") OBVIOUS
  <2>5. N!Changes(r, {u}, k, "count", counts) BY <2>1, <2>4
  <2>6. \A v \in User : Inbox(v)' = Inbox(v) \/ (counts /\ {u} = {v}) BY <2>3, <2>4
  <2>7. UnreadTypes' BY <2>2 DEF UnreadTypes
  <2>8. QED BY <2>4, <2>5, <2>6, <2>7, BoxSums
<1>4. ASSUME NEW u \in User, NEW k \in N!Kind, N!CreateAgain(r, u, k) \/ N!PushOnly(r, u, k)
      PROVE  BoxIInv'
  <2>1. /\ UNCHANGED <<unread, seen>>
        /\ N!Changes(r, {u}, k, "count", FALSE) \/ N!Changes(r, {u}, k, "prefs", FALSE)
    BY <1>4, Zenon DEF N!CreateAgain, N!PushOnly
  <2>2. unread' \in [User \X N!Kind -> Nat] /\ seen' \in [User \X N!Kind -> Nat]
    BY <1>1, <2>1
  <2>3. \A v \in User : Inbox(v)' = Inbox(v) BY <2>1 DEF Inbox
  <2>4. UnreadTypes' BY <2>2 DEF UnreadTypes
  <2>5. CASE N!Changes(r, {u}, k, "count", FALSE)
    BY <2>3, <2>4, <2>5, BoxSums
  <2>6. CASE N!Changes(r, {u}, k, "prefs", FALSE)
    <3>1. {u} \in SUBSET User /\ k \in N!Kind \cup {None} OBVIOUS
    <3>2. QED BY <2>2, <2>3, <2>6, <3>1, BoxChanges
  <2>7. QED BY <2>1, <2>5, <2>6
<1>5. ASSUME NEW u \in User, NEW k \in N!Kind, NEW n \in Nat, N!Reads(r, u, k, n),
             n <= unread[<<u, k>>]
      PROVE  BoxIInv'
  <2>1. /\ unread' = [unread EXCEPT ![<<u, k>>] = unread[<<u, k>>] - n]
        /\ seen' = [seen EXCEPT ![<<u, k>>] = seen[<<u, k>>] + n]
        /\ N!Changes(r, {u}, None, "count", k = "INBOX" /\ n > 0)
    BY <1>5 DEF N!Reads
  <2>2. <<u, k>> \in User \X N!Kind /\ unread[<<u, k>>] - n \in Nat /\ seen[<<u, k>>] + n \in Nat
    <3>1. <<u, k>> \in User \X N!Kind OBVIOUS
    <3>2. unread[<<u, k>>] \in Nat /\ seen[<<u, k>>] \in Nat BY <1>1, <3>1
    <3>3. QED BY <1>5, <3>1, <3>2
  <2>3. unread' \in [User \X N!Kind -> Nat] /\ seen' \in [User \X N!Kind -> Nat]
    BY <1>1, <2>1, <2>2
  <2>4. PICK counts \in BOOLEAN : counts = (k = "INBOX" /\ n > 0) OBVIOUS
  <2>5. \A v \in User : Inbox(v)' = Inbox(v) \/ (counts /\ {u} = {v})
    <3>1. ASSUME NEW v \in User PROVE Inbox(v)' = Inbox(v) \/ (counts /\ {u} = {v})
      <4>1. CASE <<v, "INBOX">> = <<u, k>> /\ n > 0 BY <2>4, <4>1
      <4>2. CASE <<v, "INBOX">> = <<u, k>> /\ n = 0
        <5>1. unread[<<u, k>>] \in Nat BY <1>1, <2>2
        <5>2. unread'[<<u, k>>] = unread[<<u, k>>] - n BY <1>1, <2>1, <2>2
        <5>3. unread'[<<u, k>>] = unread[<<u, k>>] BY <4>2, <5>1, <5>2
        <5>4. QED BY <4>2, <5>3 DEF Inbox
      <4>3. CASE <<v, "INBOX">> # <<u, k>> BY <1>1, <2>1, <4>3 DEF Inbox
      <4>4. QED BY <4>1, <4>2, <4>3
    <3>2. QED BY <3>1
  <2>6. N!Changes(r, {u}, None, "count", counts) BY <2>1, <2>4
  <2>7. UnreadTypes' BY <2>3 DEF UnreadTypes
  <2>8. QED BY <2>4, <2>5, <2>6, <2>7, BoxSums
<1>6. ASSUME NEW u \in User, NEW k \in N!Kind, N!MarkRead(r, u, k) PROVE BoxIInv'
  <2>1. <<u, k>> \in User \X N!Kind OBVIOUS
  <2>2. unread[<<u, k>>] \in Nat BY <1>1, <2>1
  <2>3. \/ unread[<<u, k>>] > 0 /\ N!Reads(r, u, k, 1)
        \/ N!Reads(r, u, k, 0)
    BY <1>6, Zenon DEF N!MarkRead
  <2>4. CASE unread[<<u, k>>] > 0 /\ N!Reads(r, u, k, 1)
    <3>1. 1 <= unread[<<u, k>>] BY <2>2, <2>4
    <3>2. QED BY <1>5, <2>4, <3>1
  <2>5. CASE N!Reads(r, u, k, 0)
    <3>1. 0 <= unread[<<u, k>>] BY <2>2
    <3>2. QED BY <1>5, <2>5, <3>1
  <2>6. QED BY <2>3, <2>4, <2>5
<1>7. ASSUME NEW u \in User, N!MarkAllRead(r, u) \/ N!MarkCategoryRead(r, u) PROVE BoxIInv'
  <2>1. \/ N!Reads(r, u, "INBOX", unread[<<u, "INBOX">>])
        \/ N!Reads(r, u, "NEWS", unread[<<u, "NEWS">>])
    BY <1>7, Zenon DEF N!MarkAllRead, N!MarkCategoryRead
  <2>2. \A k \in N!Kind : unread[<<u, k>>] \in Nat /\ unread[<<u, k>>] <= unread[<<u, k>>]
    BY <1>1
  <2>3. QED BY <1>1, <1>5, <2>1, <2>2
<1>8. QED BY <1>2, <1>3, <1>4, <1>6, <1>7

LEMMA BoxAsks ==
  ASSUME BoxIInv, NEW r \in Request, errand[r] = N!Idle, NEW u \in User, NEW d \in Device,
         N!BeginRegister(r, u, d)
  PROVE  BoxIInv'
<1> DEFINE l == IF owner[d] = None THEN "insert" ELSE "assign"
           e == [N!Starts({u}, None, l) EXCEPT !.devices = {d}]
<1>1. /\ errand' = [errand EXCEPT ![r] = e]
      /\ UNCHANGED <<unread, seen, wants, owner, dead, badge, holder, skewed>>
  BY DEF N!BeginRegister, N!tables, N!history
<1>2. l \in {"insert", "assign"} OBVIOUS
<1> HIDE DEF l
<1>3. l \in N!Label BY <1>2 DEF N!Label
<1>4. e \in Errand BY <1>3, IdleTold DEF N!Starts, Errand
<1>5. e.at = l BY DEF N!Starts, N!Idle
<1> HIDE DEF e
<1>6. Told(e) BY <1>2, <1>5 DEF Told
<1>7. errand[r].at \notin {"count", "emit"} BY DEF N!Idle
<1>8. QED BY <1>1, <1>4, <1>6, <1>7, BoxGoes

LEMMA BoxForgets ==
  ASSUME BoxIInv, NEW d \in Device, N!Uninstall(d) PROVE BoxIInv'
<1>1. /\ dead \subseteq dead'
      /\ UNCHANGED <<unread, seen, wants, owner, badge, errand, skewed, holder>>
  BY DEF N!Uninstall, N!history
<1>2. InboxTypes' BY <1>1 DEF BoxIInv, InboxTypes
<1>3. AllTold' BY <1>1 DEF BoxIInv, AllTold, Told, Inbox, N!Wanted
<1>4. Badges' BY <1>1 DEF BoxIInv, Badges, Inbox, Summing
<1>5. N!DeviceFollows' BY <1>1 DEF BoxIInv, N!DeviceFollows
<1>6. QED BY <1>2, <1>3, <1>4, <1>5 DEF BoxIInv

LEMMA BoxStep == ASSUME BoxIInv, N!Next PROVE BoxIInv'
<1>1. /\ \A r \in N!Arriving : r \in Request /\ errand[r] = N!Idle
      /\ \A r \in N!Working : r \in Request
  BY DEF N!Arriving, N!Working
<1>2. ASSUME NEW r \in N!Arriving, NEW u \in User,
             \/ \E k \in N!Kind : N!Create(r, u, k) \/ N!CreateAgain(r, u, k)
                                  \/ N!PushOnly(r, u, k) \/ N!MarkRead(r, u, k)
             \/ N!MarkAllRead(r, u) \/ N!MarkCategoryRead(r, u)
      PROVE  BoxIInv'
  BY <1>1, <1>2, BoxArrives
<1>3. ASSUME NEW r \in N!Arriving, N!NotifyAll(r) PROVE BoxIInv'
  BY <1>1, <1>3, BoxArrives
<1>4. ASSUME NEW r \in N!Arriving, NEW u \in User, NEW d \in Device,
             N!BeginRegister(r, u, d) \/ N!Unregister(r, u, d)
      PROVE  BoxIInv'
  BY <1>1, <1>4, BoxAsks, BoxRegisters
<1>5. ASSUME NEW r \in N!Arriving, NEW u \in User, NEW p \in N!Preferences,
             N!SetPreferences(r, u, p)
      PROVE  BoxIInv'
  BY <1>1, <1>5, BoxPrefers
<1>6. ASSUME NEW r \in N!Working,
             \/ N!Summarise(r) \/ N!EmitSummary(r) \/ N!SkipSummary(r)
             \/ N!ReadPreferences(r) \/ N!ReadDevices(r) \/ N!Send(r) \/ N!RemoveUnknown(r)
             \/ N!Register(r) \/ N!Fail(r)
      PROVE  BoxIInv'
  BY <1>1, <1>6, BoxReads, BoxEmits, BoxRegisters
<1>7. QED BY <1>2, <1>3, <1>4, <1>5, <1>6, BoxForgets DEF N!Next

-----------------------------------------------------------------------------
(* Unread messages *)

Line == [room : Room \cup {None}, by : User]
ChatTypes ==
  /\ room \in [Room -> [kind : C!Kind, members : SUBSET User]]
  /\ log \in Seq(Line) /\ Len(log) <= MaxMessages
  /\ readers \in [C!Msg -> SUBSET User]
  /\ lastRead \in [Room -> [User -> Nat]]
  /\ \A x \in Room, u \in User : lastRead[x][u] <= Len(log)
  /\ cpc \in [Request -> C!Label]
  /\ me \in [Request -> User \cup {None}] /\ at \in [Request -> Room \cup {None}]
  /\ them \in [Request -> SUBSET User] /\ todo \in [Request -> SUBSET C!Msg]
  /\ \A r \in Request : cpc[r] # "idle" => me[r] \in User

\* Whoever has been stamped has what is older read, or a request at it, or one
\* that died.
Marked ==
  \A x \in Room, u \in User : \A n \in C!Unread(x, u) :
    n <= lastRead[x][u] => C!Marking(n, u) \/ <<x, u>> \in lost

ChaIInv == ChatTypes /\ Marked

LEMMA ChaStands == ChaIInv => C!ReadLedgersAgree
<1> SUFFICES ASSUME ChaIInv, NEW x \in Room, NEW u \in C!Members(x),
                    NEW n \in C!Unread(x, u) \ C!Counted(u), u \notin hidden[x],
                    <<x, u>> \notin lost
             PROVE  C!Marking(n, u)
  BY DEF C!ReadLedgersAgree
<1>1. u \in User /\ x \in C!MyRooms(u)
  BY DEF ChaIInv, ChatTypes, C!Members, C!MyRooms
<1>2. C!RoomSummary(x, u).unread = C!UnreadSince(x, u)
  BY DEF C!RoomSummary
<1>3. n \notin C!UnreadSince(x, u) BY <1>1, <1>2 DEF C!Counted
<1>4. ~(n > lastRead[x][u]) /\ n \in DOMAIN log
  BY <1>3 DEF C!Unread, C!UnreadSince
<1>5. n \in Nat BY <1>4, LenProperties DEF ChaIInv, ChatTypes
<1>6. lastRead[x][u] \in Nat BY <1>1 DEF ChaIInv, ChatTypes
<1>7. n <= lastRead[x][u] BY <1>4, <1>5, <1>6
<1>8. QED BY <1>1, <1>7 DEF ChaIInv, Marked

LEMMA ChaInit == C!Init => ChaIInv
<1> SUFFICES ASSUME C!Init PROVE ChaIInv
  OBVIOUS
<1>1. /\ log = << >> /\ readers = [n \in C!Msg |-> {}]
      /\ lastRead = [x \in Room |-> [u \in User |-> 0]]
      /\ cpc = [r \in Request |-> "idle"]
      /\ me = [r \in Request |-> None] /\ at = [r \in Request |-> None]
      /\ them = [r \in Request |-> {}] /\ todo = [r \in Request |-> {}]
  BY DEF C!Init
<1>2. room \in [Room -> [kind : C!Kind, members : SUBSET User]]
  <2>1. C!NoRoom \in [kind : C!Kind, members : SUBSET User] BY DEF C!NoRoom, C!Kind
  <2>2. C!Groups \subseteq SUBSET User BY DEF C!Groups
  <2>3. \A k \in [kind : {"DIRECT"}, members : {m \in C!Groups : C!Cardinality(m) = 2}] :
          k \in [kind : C!Kind, members : SUBSET User]
    BY <2>2 DEF C!Kind
  <2>4. \A k \in [kind : {"GROUP"}, members : C!Groups] :
          k \in [kind : C!Kind, members : SUBSET User]
    BY <2>2 DEF C!Kind
  <2>5. room \in [Room -> {C!NoRoom}
                    \cup [kind : {"DIRECT"}, members : {m \in C!Groups : C!Cardinality(m) = 2}]
                    \cup [kind : {"GROUP"}, members : C!Groups]]
    BY DEF C!Init
  <2>6. QED BY <2>1, <2>3, <2>4, <2>5
<1>3. log \in Seq(Line) /\ Len(log) = 0 /\ MaxMessages \in Nat /\ DOMAIN log = {}
  BY <1>1, ConstantsOK
<1>4. \A x \in Room, u \in User : lastRead[x][u] = 0 BY <1>1
<1>5. ChatTypes BY <1>1, <1>2, <1>3, <1>4 DEF ChatTypes, C!Label
<1>6. Marked BY <1>3 DEF Marked, C!Unread
<1>7. QED BY <1>5, <1>6 DEF ChaIInv

\* What one request is at changes; what is read stays read, and the marking it
\* leaves is done or lost.
Others(r) == \A q \in Request \ {r} : /\ cpc'[q] = cpc[q] /\ me'[q] = me[q]
                                      /\ at'[q] = at[q] /\ todo'[q] = todo[q]
LocalTypes ==
  /\ cpc \in [Request -> C!Label]
  /\ me \in [Request -> User \cup {None}] /\ at \in [Request -> Room \cup {None}]
  /\ them \in [Request -> SUBSET User] /\ todo \in [Request -> SUBSET C!Msg]
  /\ \A r \in Request : cpc[r] # "idle" => me[r] \in User

LEMMA ChaGoes ==
  ASSUME ChaIInv, NEW r \in Request, Others(r), LocalTypes',
         room' \in [Room -> [kind : C!Kind, members : SUBSET User]],
         UNCHANGED <<log, lastRead>>, lost \subseteq lost',
         readers' \in [C!Msg -> SUBSET User], \A n \in C!Msg : readers[n] \subseteq readers'[n],
         \/ cpc[r] \notin {"scan", "readAll"}
         \/ cpc[r] = "readAll" /\ todo[r] = {}
         \/ <<at[r], me[r]>> \in lost'
  PROVE  ChaIInv'
<1>1. ChatTypes' BY DEF ChaIInv, ChatTypes, LocalTypes
<1>2. \A n \in DOMAIN log : n \in C!Msg
  BY LenProperties, ConstantsOK DEF ChaIInv, ChatTypes, C!Msg
<1>3. Marked'
  <2> SUFFICES ASSUME NEW x \in Room, NEW u \in User, NEW n \in C!Unread(x, u)',
                      n <= lastRead'[x][u], <<x, u>> \notin lost'
               PROVE  C!Marking(n, u)'
    BY DEF Marked
  <2>1. n \in C!Unread(x, u) /\ log[n].room = x BY <1>2 DEF C!Unread
  <2>2. C!Marking(n, u) BY <2>1 DEF ChaIInv, Marked
  <2>3. PICK q \in Request : /\ me[q] = u /\ at[q] = log[n].room
                             /\ cpc[q] = "scan" \/ (cpc[q] = "readAll" /\ n \in todo[q])
    BY <2>2 DEF C!Marking
  <2>4. q # r BY <2>1, <2>3
  <2>5. /\ me'[q] = u /\ at'[q] = log'[n].room
        /\ cpc'[q] = "scan" \/ (cpc'[q] = "readAll" /\ n \in todo'[q])
    BY <2>3, <2>4 DEF Others
  <2>6. QED BY <2>5 DEF C!Marking
<1>4. QED BY <1>1, <1>3 DEF ChaIInv

LEMMA ChaLocal == ChaIInv => LocalTypes
BY DEF ChaIInv, ChatTypes, LocalTypes

\* r arrives, goes on, or answers.
LEMMA ChaArrives ==
  ASSUME ChaIInv, NEW r \in Request, NEW u \in User, NEW x \in Room \cup {None},
         NEW vs \in SUBSET User, NEW ns \in SUBSET C!Msg,
         NEW l \in C!Label, C!Arrives(r, u, x, vs, ns, l)
  PROVE  ChaIInv'
<1>1. /\ cpc' = [cpc EXCEPT ![r] = l] /\ me' = [me EXCEPT ![r] = u]
      /\ at' = [at EXCEPT ![r] = x] /\ them' = [them EXCEPT ![r] = vs]
      /\ todo' = [todo EXCEPT ![r] = ns] /\ cpc[r] = "idle"
      /\ UNCHANGED <<room, log, readers, lastRead, lost>>
  BY DEF C!Arrives, C!rooms, C!messages
<1>2. Others(r) BY <1>1 DEF Others, ChaIInv, ChatTypes
<1>3. LocalTypes' BY <1>1 DEF ChaIInv, ChatTypes, LocalTypes
<1>4. /\ room' \in [Room -> [kind : C!Kind, members : SUBSET User]]
      /\ readers' \in [C!Msg -> SUBSET User] /\ \A n \in C!Msg : readers[n] \subseteq readers'[n]
  BY <1>1 DEF ChaIInv, ChatTypes
<1>5. QED BY <1>1, <1>2, <1>3, <1>4, ChaGoes

LEMMA ChaSteps ==
  ASSUME ChaIInv, NEW r \in Request, NEW l \in C!Label, C!Goto(r, l),
         cpc[r] \notin {"idle", "scan", "readAll"},
         at' \in [Request -> Room \cup {None}], \A q \in Request \ {r} : at'[q] = at[q],
         UNCHANGED <<room, log, readers, lastRead, lost, todo>>
  PROVE  ChaIInv'
<1>1. cpc' = [cpc EXCEPT ![r] = l] /\ UNCHANGED <<me, them>> BY DEF C!Goto
<1>2. Others(r) BY <1>1 DEF Others, ChaIInv, ChatTypes
<1>3. LocalTypes' BY <1>1 DEF ChaIInv, ChatTypes, LocalTypes
<1>4. /\ room' \in [Room -> [kind : C!Kind, members : SUBSET User]]
      /\ readers' \in [C!Msg -> SUBSET User] /\ \A n \in C!Msg : readers[n] \subseteq readers'[n]
  BY DEF ChaIInv, ChatTypes
<1>5. QED BY <1>2, <1>3, <1>4, ChaGoes

LEMMA ChaReturns ==
  ASSUME ChaIInv, NEW r \in Request, C!Return(r),
         room' \in [Room -> [kind : C!Kind, members : SUBSET User]],
         UNCHANGED <<log, lastRead>>, lost \subseteq lost',
         readers' \in [C!Msg -> SUBSET User], \A n \in C!Msg : readers[n] \subseteq readers'[n],
         \/ cpc[r] \notin {"scan", "readAll"}
         \/ cpc[r] = "readAll" /\ todo[r] = {}
         \/ <<at[r], me[r]>> \in lost'
  PROVE  ChaIInv'
<1>1. /\ cpc' = [cpc EXCEPT ![r] = "idle"] /\ me' = [me EXCEPT ![r] = None]
      /\ at' = [at EXCEPT ![r] = None] /\ them' = [them EXCEPT ![r] = {}]
      /\ todo' = [todo EXCEPT ![r] = {}]
  BY DEF C!Return
<1>2. Others(r) BY <1>1 DEF Others, ChaIInv, ChatTypes
<1>3. LocalTypes' BY <1>1 DEF ChaIInv, ChatTypes, LocalTypes, C!Label
<1>4. QED BY <1>2, <1>3, ChaGoes

\* A row of the log is a message, and its room has the members it has.
LEMMA ChaRows ==
  ASSUME ChaIInv
  PROVE  /\ DOMAIN log \subseteq C!Msg /\ \A n \in DOMAIN log : log[n] \in Line
         /\ \A x \in Room : C!Members(x) \in SUBSET User
BY LenProperties, ElementOfSeq, ConstantsOK DEF ChaIInv, ChatTypes, C!Msg, C!Members

LEMMA ChaBegins ==
  ASSUME ChaIInv, NEW r \in Request, NEW u \in User,
         \/ \E v \in User : C!OpenTestBlock(r, u, v)
         \/ \E vs \in SUBSET User : C!GroupStart(r, u, vs)
         \/ \E x \in Room : C!SendTestBlock(r, u, x) \/ C!HideFind(r, u, x)
         \/ \E n \in DOMAIN log : C!ReactFind(r, u, n) \/ C!MarkReadFind(r, u, n)
  PROVE  ChaIInv'
<1>1. {"openFriends", "groupTest", "sendFriends", "insert", "hide", "unreact", "react", "read"}
        \subseteq C!Label
  BY DEF C!Label
<1>2. {} \in SUBSET C!Msg /\ {} \in SUBSET User OBVIOUS
<1>3. ASSUME NEW v \in User, C!OpenTestBlock(r, u, v) PROVE ChaIInv'
  <2>1. {v} \in SUBSET User /\ C!Arrives(r, u, None, {v}, {}, "openFriends")
    BY <1>3 DEF C!OpenTestBlock
  <2>2. QED BY <1>1, <1>2, <2>1, ChaArrives
<1>4. ASSUME NEW vs \in SUBSET User, C!GroupStart(r, u, vs) PROVE ChaIInv'
  <2>1. vs \ {u} \in SUBSET User /\ C!Arrives(r, u, None, vs \ {u}, {}, "groupTest")
    BY <1>4 DEF C!GroupStart
  <2>2. QED BY <1>1, <1>2, <2>1, ChaArrives
<1>5. ASSUME NEW x \in Room, C!SendTestBlock(r, u, x) PROVE ChaIInv'
  <2>1. C!Members(x) \ {u} \in SUBSET User BY ChaRows
  <2>2. \/ C!Arrives(r, u, x, C!Members(x) \ {u}, {}, "sendFriends")
        \/ C!Arrives(r, u, x, C!Members(x) \ {u}, {}, "insert")
    BY <1>5 DEF C!SendTestBlock
  <2>3. QED BY <1>1, <1>2, <2>1, <2>2, ChaArrives
<1>6. ASSUME NEW x \in Room, C!HideFind(r, u, x) PROVE ChaIInv'
  <2>1. C!Arrives(r, u, x, {}, {}, "hide") BY <1>6 DEF C!HideFind
  <2>2. QED BY <1>1, <1>2, <2>1, ChaArrives
<1>7. ASSUME NEW n \in DOMAIN log, C!ReactFind(r, u, n) \/ C!MarkReadFind(r, u, n) PROVE ChaIInv'
  <2>1. {n} \in SUBSET C!Msg /\ log[n].room \in Room \cup {None} BY ChaRows DEF Line
  <2>2. PICK l \in C!Label : C!Arrives(r, u, log[n].room, {}, {n}, l)
    BY <1>1, <1>7 DEF C!ReactFind, C!MarkReadFind
  <2>3. QED BY <1>2, <2>1, <2>2, ChaArrives
<1>8. QED BY <1>3, <1>4, <1>5, <1>6, <1>7

LEMMA ChaGoesOn ==
  ASSUME ChaIInv, NEW r \in Request,
         \/ C!OpenTestFriends(r) \/ C!OpenFind(r) \/ C!GroupTest(r) \/ C!SendTestFriends(r)
  PROVE  ChaIInv'
<1>1. {"openFind", "openCreate", "reopen", "groupCreate", "insert"} \subseteq C!Label
  BY DEF C!Label
<1>2. at \in [Request -> Room \cup {None}] BY DEF ChaIInv, ChatTypes
<1>3. CASE C!OpenTestFriends(r) \/ C!GroupTest(r) \/ C!SendTestFriends(r)
  <2>1. /\ cpc[r] \notin {"idle", "scan", "readAll"}
        /\ UNCHANGED <<room, log, readers, lastRead, lost, todo, at>>
    BY <1>3 DEF C!OpenTestFriends, C!GroupTest, C!SendTestFriends, C!AtStep, C!rooms, C!messages
  <2>2. PICK l \in C!Label : C!Goto(r, l)
    BY <1>1, <1>3 DEF C!OpenTestFriends, C!GroupTest, C!SendTestFriends
  <2>3. QED BY <1>2, <2>1, <2>2, ChaSteps
<1>4. CASE C!OpenFind(r)
  <2>1. /\ cpc[r] \notin {"idle", "scan", "readAll"}
        /\ UNCHANGED <<room, log, readers, lastRead, lost, todo>>
    BY <1>4 DEF C!OpenFind, C!AtStep, C!rooms, C!messages
  <2>2. PICK l \in C!Label : C!Goto(r, l)
    BY <1>1, <1>4 DEF C!OpenFind
  <2>3. at' \in [Request -> Room \cup {None}] /\ \A q \in Request \ {r} : at'[q] = at[q]
    BY <1>2, <1>4 DEF C!OpenFind
  <2>4. QED BY <2>1, <2>2, <2>3, ChaSteps
<1>5. QED BY <1>3, <1>4

LEMMA ChaAnswers ==
  ASSUME ChaIInv, NEW r \in Request,
         \/ C!Reopen(r) \/ C!OpenCreate(r) \/ C!GroupCreate(r) \/ C!SendUnhide(r)
         \/ C!ReactWrite(r) \/ C!MarkRead(r) \/ C!RoomReadDone(r) \/ C!HideWrite(r) \/ C!Fail(r)
  PROVE  ChaIInv'
<1>1. /\ readers \in [C!Msg -> SUBSET User]
      /\ room \in [Room -> [kind : C!Kind, members : SUBSET User]]
      /\ cpc[r] # "idle" => me[r] \in User
      /\ them[r] \in SUBSET User
  BY DEF ChaIInv, ChatTypes
<1>2. CASE C!Reopen(r) \/ C!SendUnhide(r) \/ C!ReactWrite(r) \/ C!RoomReadDone(r) \/ C!HideWrite(r)
  <2>1. /\ UNCHANGED <<room, log, readers, lastRead, lost>> /\ C!Return(r)
        /\ cpc[r] \notin {"scan", "readAll"} \/ (cpc[r] = "readAll" /\ todo[r] = {})
    BY <1>2 DEF C!Reopen, C!SendUnhide, C!ReactWrite, C!RoomReadDone, C!HideWrite, C!AtStep,
                C!rooms, C!messages
  <2>2. QED BY <1>1, <2>1, ChaReturns
<1>3. CASE C!OpenCreate(r) \/ C!GroupCreate(r)
  <2>1. /\ UNCHANGED <<log, readers, lastRead, lost>> /\ C!Return(r)
        /\ cpc[r] \notin {"scan", "readAll"} /\ cpc[r] # "idle"
    BY <1>3 DEF C!OpenCreate, C!GroupCreate, C!AtStep, C!messages
  <2>2. PICK x \in Room, k \in C!Kind :
          room' = [room EXCEPT ![x] = [kind |-> k, members |-> {me[r]} \cup them[r]]]
    BY <1>3 DEF C!OpenCreate, C!GroupCreate, C!Unused, C!Kind
  <2>3. [kind |-> k, members |-> {me[r]} \cup them[r]] \in [kind : C!Kind, members : SUBSET User]
    BY <1>1, <2>1
  <2>4. room' \in [Room -> [kind : C!Kind, members : SUBSET User]] BY <1>1, <2>2, <2>3
  <2>5. QED BY <1>1, <2>1, <2>4, ChaReturns
<1>4. CASE C!MarkRead(r)
  <2>1. /\ UNCHANGED <<room, log, lastRead, lost>> /\ C!Return(r) /\ cpc[r] = "read"
        /\ readers' = [n \in C!Msg |-> readers[n] \cup IF n \in todo[r] THEN {me[r]} ELSE {}]
    BY <1>4 DEF C!MarkRead, C!AtStep, C!rooms
  <2>2. readers' \in [C!Msg -> SUBSET User] /\ \A n \in C!Msg : readers[n] \subseteq readers'[n]
    BY <1>1, <2>1
  <2>3. QED BY <1>1, <2>1, <2>2, ChaReturns
<1>5. CASE C!Fail(r)
  <2>1. /\ UNCHANGED <<room, log, readers, lastRead>> /\ C!Return(r) /\ lost \subseteq lost'
        /\ cpc[r] \in {"scan", "readAll"} => <<at[r], me[r]>> \in lost'
    BY <1>5 DEF C!Fail, C!rooms, C!messages
  <2>2. QED BY <1>1, <2>1, ChaReturns
<1>6. QED BY <1>2, <1>3, <1>4, <1>5

\* A new message is later than every stamp.
LEMMA ChaInserts ==
  ASSUME ChaIInv, NEW r \in Request, C!SendInsert(r) PROVE ChaIInv'
<1>1. /\ log' = Append(log, [room |-> at[r], by |-> me[r]]) /\ Len(log) < MaxMessages
      /\ cpc[r] = "insert" /\ cpc' = [cpc EXCEPT ![r] = "unhide"]
      /\ UNCHANGED <<room, readers, lastRead, me, at, them, todo, lost>>
  BY DEF C!SendInsert, C!AtStep, C!Goto, C!rooms
<1>2. /\ log \in Seq(Line) /\ [room |-> at[r], by |-> me[r]] \in Line /\ Len(log) \in Nat
      /\ MaxMessages \in Nat
  BY <1>1, LenProperties, ConstantsOK DEF ChaIInv, ChatTypes, Line
<1>3. /\ log' \in Seq(Line) /\ Len(log') = Len(log) + 1 /\ DOMAIN log' = 1..(Len(log) + 1)
      /\ DOMAIN log = 1..Len(log) /\ \A n \in DOMAIN log : log'[n] = log[n]
  BY <1>1, <1>2, AppendProperties, LenProperties
<1>4. Len(log') <= MaxMessages BY <1>1, <1>2, <1>3
<1>5. \A x \in Room, u \in User : lastRead[x][u] \in Nat /\ lastRead[x][u] <= Len(log)
  BY DEF ChaIInv, ChatTypes
<1>6. \A x \in Room, u \in User : lastRead'[x][u] <= Len(log')
  BY <1>1, <1>2, <1>3, <1>5
<1>7. ChatTypes' BY <1>1, <1>3, <1>4, <1>6 DEF ChaIInv, ChatTypes, C!Label
<1>8. \A q \in Request : (cpc'[q] = "scan" <=> cpc[q] = "scan") /\ (cpc'[q] = "readAll" <=> cpc[q] = "readAll")
  BY <1>1 DEF ChaIInv, ChatTypes
<1>9. Marked'
  <2> SUFFICES ASSUME NEW x \in Room, NEW u \in User, NEW n \in C!Unread(x, u)',
                      n <= lastRead'[x][u], <<x, u>> \notin lost'
               PROVE  C!Marking(n, u)'
    BY DEF Marked
  <2>1. n \in 1..(Len(log) + 1) BY <1>3 DEF C!Unread
  <2>2. n <= Len(log) BY <1>1, <1>2, <1>5, <2>1
  <2>3. n \in DOMAIN log BY <1>2, <1>3, <2>1, <2>2
  <2>4. n \in C!Unread(x, u) /\ log'[n] = log[n] BY <1>1, <1>3, <2>3 DEF C!Unread
  <2>5. C!Marking(n, u) BY <1>1, <2>4 DEF ChaIInv, Marked
  <2>6. QED BY <1>1, <1>8, <2>4, <2>5 DEF C!Marking
<1>10. QED BY <1>7, <1>9 DEF ChaIInv

\* markRoomRead: the stamp owes a marking, ...
LEMMA ChaStamps ==
  ASSUME ChaIInv, NEW r \in Request, NEW u \in User, NEW x \in Room, C!RoomReadStamp(r, u, x)
  PROVE  ChaIInv'
<1>1. /\ cpc[r] = "idle" /\ cpc' = [cpc EXCEPT ![r] = "scan"]
      /\ me' = [me EXCEPT ![r] = u] /\ at' = [at EXCEPT ![r] = x]
      /\ UNCHANGED <<room, log, readers, them, todo, lost>>
  BY DEF C!RoomReadStamp, C!rooms
<1>2. lastRead' = [lastRead EXCEPT ![x] = [lastRead[x] EXCEPT ![u] = Len(log)]]
  BY DEF C!RoomReadStamp
<1>3. Len(log) \in Nat /\ lastRead \in [Room -> [User -> Nat]]
  BY LenProperties DEF ChaIInv, ChatTypes
<1>4. /\ lastRead' \in [Room -> [User -> Nat]]
      /\ \A y \in Room, v \in User : lastRead'[y][v] =
           IF y = x /\ v = u THEN Len(log) ELSE lastRead[y][v]
  BY <1>2, <1>3
<1>5. \A y \in Room, v \in User : lastRead'[y][v] <= Len(log')
  <2>1. \A y \in Room, v \in User : lastRead[y][v] <= Len(log) BY DEF ChaIInv, ChatTypes
  <2>2. Len(log) <= Len(log) /\ log' = log BY <1>1, <1>3
  <2>3. QED BY <1>4, <2>1, <2>2
<1>6. /\ \A q \in Request \ {r} : cpc'[q] = cpc[q] /\ me'[q] = me[q] /\ at'[q] = at[q]
      /\ cpc'[r] = "scan" /\ me'[r] = u /\ at'[r] = x
  BY <1>1 DEF ChaIInv, ChatTypes
<1>7. ChatTypes' BY <1>1, <1>4, <1>5 DEF ChaIInv, ChatTypes, C!Label
<1>8. Marked'
  <2> SUFFICES ASSUME NEW y \in Room, NEW v \in User, NEW n \in C!Unread(y, v)',
                      n <= lastRead'[y][v], <<y, v>> \notin lost'
               PROVE  C!Marking(n, v)'
    BY DEF Marked
  <2>1. n \in C!Unread(y, v) /\ log'[n].room = y BY <1>1 DEF C!Unread
  <2>2. CASE y = x /\ v = u BY <1>6, <2>1, <2>2 DEF C!Marking
  <2>3. CASE ~(y = x /\ v = u)
    <3>1. C!Marking(n, v) BY <1>1, <1>4, <2>1, <2>3 DEF ChaIInv, Marked
    <3>2. QED BY <1>1, <1>6, <3>1 DEF C!Marking
  <2>4. QED BY <2>2, <2>3
<1>9. QED BY <1>7, <1>8 DEF ChaIInv

\* ... the scan finds all that is unread, ...
LEMMA ChaScans ==
  ASSUME ChaIInv, NEW r \in Request, C!RoomReadScan(r) PROVE ChaIInv'
<1>1. /\ cpc[r] = "scan" /\ cpc' = [cpc EXCEPT ![r] = "readAll"]
      /\ todo' = [todo EXCEPT ![r] = C!Unread(at[r], me[r])]
      /\ lost' = lost \ {<<at[r], me[r]>>}
      /\ UNCHANGED <<room, log, readers, lastRead, me, at, them>>
  BY DEF C!RoomReadScan, C!AtStep, C!Goto, C!rooms, C!messages
<1>2. C!Unread(at[r], me[r]) \in SUBSET C!Msg BY ChaRows DEF C!Unread
<1>3. ChatTypes' BY <1>1, <1>2 DEF ChaIInv, ChatTypes, C!Label
<1>4. /\ \A q \in Request \ {r} : cpc'[q] = cpc[q] /\ todo'[q] = todo[q]
      /\ cpc'[r] = "readAll" /\ todo'[r] = C!Unread(at[r], me[r])
  BY <1>1, <1>2 DEF ChaIInv, ChatTypes
<1>5. Marked'
  <2> SUFFICES ASSUME NEW x \in Room, NEW u \in User, NEW n \in C!Unread(x, u)',
                      n <= lastRead'[x][u], <<x, u>> \notin lost'
               PROVE  C!Marking(n, u)'
    BY DEF Marked
  <2>1. n \in C!Unread(x, u) /\ log[n].room = x BY <1>1 DEF C!Unread
  <2>2. CASE x = at[r] /\ u = me[r]
    BY <1>1, <1>4, <2>1, <2>2 DEF C!Marking
  <2>3. CASE ~(x = at[r] /\ u = me[r])
    <3>1. <<x, u>> \notin lost BY <1>1, <2>3
    <3>2. C!Marking(n, u) BY <1>1, <2>1, <3>1 DEF ChaIInv, Marked
    <3>3. QED BY <1>1, <1>4, <2>1, <2>3, <3>2 DEF C!Marking
  <2>4. QED BY <2>2, <2>3
<1>6. QED BY <1>3, <1>5 DEF ChaIInv

\* ... and each of it is marked.
LEMMA ChaMarks ==
  ASSUME ChaIInv, NEW r \in Request, C!RoomReadNext(r) PROVE ChaIInv'
<1>1. PICK n \in todo[r] :
        /\ readers' = [readers EXCEPT ![n] = readers[n] \cup {me[r]}]
        /\ todo' = [todo EXCEPT ![r] = todo[r] \ {n}]
  BY DEF C!RoomReadNext
<1>2. /\ cpc[r] = "readAll" /\ cpc' = [cpc EXCEPT ![r] = "readAll"]
      /\ UNCHANGED <<room, log, lastRead, me, at, them, lost>>
  BY DEF C!RoomReadNext, C!AtStep, C!Goto, C!rooms
<1>3. n \in C!Msg /\ me[r] \in User /\ cpc' = cpc
  BY <1>1, <1>2 DEF ChaIInv, ChatTypes
<1>4. /\ readers' \in [C!Msg -> SUBSET User] /\ me[r] \in readers'[n]
      /\ \A k \in C!Msg : readers[k] \subseteq readers'[k]
  BY <1>1, <1>3 DEF ChaIInv, ChatTypes
<1>5. /\ todo' \in [Request -> SUBSET C!Msg]
      /\ \A q \in Request : \A k \in todo[q] : k \in todo'[q] \/ (q = r /\ k = n)
  BY <1>1 DEF ChaIInv, ChatTypes
<1>6. ChatTypes' BY <1>2, <1>3, <1>4, <1>5 DEF ChaIInv, ChatTypes
<1>7. Marked'
  <2> SUFFICES ASSUME NEW x \in Room, NEW u \in User, NEW k \in C!Unread(x, u)',
                      k <= lastRead'[x][u], <<x, u>> \notin lost'
               PROVE  C!Marking(k, u)'
    BY DEF Marked
  <2>1. k \in C!Unread(x, u) /\ log[k].room = x /\ u \notin readers'[k]
    BY <1>2, <1>4, ChaRows DEF C!Unread
  <2>2. C!Marking(k, u) BY <1>2, <2>1 DEF ChaIInv, Marked
  <2>3. PICK q \in Request : /\ me[q] = u /\ at[q] = log[k].room
                             /\ cpc[q] = "scan" \/ (cpc[q] = "readAll" /\ k \in todo[q])
    BY <2>2 DEF C!Marking
  <2>4. ~(q = r /\ k = n) BY <1>4, <2>1, <2>3
  <2>5. QED BY <1>2, <1>3, <1>5, <2>3, <2>4 DEF C!Marking
<1>8. QED BY <1>6, <1>7 DEF ChaIInv

LEMMA ChaStep == ASSUME ChaIInv, C!Next PROVE ChaIInv'
<1>1. \A r \in C!Arriving \cup C!Working : r \in Request BY DEF C!Arriving, C!Working
<1>2. ASSUME NEW r \in C!Arriving, NEW u \in User,
             \/ \E v \in User : C!OpenTestBlock(r, u, v)
             \/ \E vs \in SUBSET User : C!GroupStart(r, u, vs)
             \/ \E x \in Room : \/ C!SendTestBlock(r, u, x) \/ C!RoomReadStamp(r, u, x)
                                \/ C!HideFind(r, u, x)
             \/ \E n \in DOMAIN log : C!ReactFind(r, u, n) \/ C!MarkReadFind(r, u, n)
      PROVE  ChaIInv'
  BY <1>1, <1>2, ChaBegins, ChaStamps
<1>3. ASSUME NEW r \in C!Working,
             \/ C!OpenTestFriends(r) \/ C!OpenFind(r) \/ C!Reopen(r) \/ C!OpenCreate(r)
             \/ C!GroupTest(r) \/ C!GroupCreate(r)
             \/ C!SendTestFriends(r) \/ C!SendInsert(r) \/ C!SendUnhide(r)
             \/ C!ReactWrite(r) \/ C!MarkRead(r)
             \/ C!RoomReadScan(r) \/ C!RoomReadNext(r) \/ C!RoomReadDone(r)
             \/ C!HideWrite(r) \/ C!Fail(r)
      PROVE  ChaIInv'
  BY <1>1, <1>3, ChaGoesOn, ChaAnswers, ChaInserts, ChaScans, ChaMarks
<1>4. QED BY <1>2, <1>3 DEF C!Next

\* Friends hides rooms and creates none.
LEMMA RoomsStay == F!Next => UNCHANGED room
<1> USE DEF F!Arrives, F!Goto, F!rooms
<1>1. ASSUME NEW r \in Request, NEW u \in User, NEW v \in User,
             \/ F!SendTestBlock(r, u, v) \/ F!CancelRead(r, u, v)
             \/ \E l \in F!Label : F!RespondRead(r, u, v, l)
             \/ F!RemoveFriendship(r, u, v) \/ F!Block(r, u, v)
      PROVE  UNCHANGED room
  BY <1>1 DEF F!SendTestBlock, F!CancelRead, F!RespondRead, F!RemoveFriendship, F!Block
<1>2. ASSUME NEW r \in Request,
             \/ F!SendTestFriends(r) \/ F!SendFindIncoming(r) \/ F!SendFindExisting(r)
             \/ F!SendUpsert(r) \/ F!RespondAgain(r) \/ F!Accept(r)
      PROVE  UNCHANGED room
  BY <1>2 DEF F!SendTestFriends, F!SendFindIncoming, F!SendFindExisting, F!SendUpsert,
              F!RespondAgain, F!Accept
<1>3. ASSUME NEW r \in Request,
             \/ F!Reject(r) \/ F!Cancel(r) \/ F!RemoveRequests(r) \/ F!HideFind(r)
             \/ F!HideWrite(r) \/ F!Fail(r)
      PROVE  UNCHANGED room
  BY <1>3 DEF F!Reject, F!Cancel, F!RemoveRequests, F!HideFind, F!HideWrite, F!Fail
<1>4. ASSUME NEW p \in blocks, F!Unblock(p[1], p[2]) PROVE UNCHANGED room
  BY <1>4 DEF F!Unblock
<1>5. ASSUME F!Next PROVE UNCHANGED room
  BY <1>1, <1>2, <1>3, <1>4, <1>5 DEF F!Next, F!Arriving, F!Working
<1>6. QED BY <1>5

-----------------------------------------------------------------------------
(* What is said across a block *)

\* Who is about to write in a direct room has tested all the others in it, and
\* is told of a block that comes after the test.
Sending(r) == cpc[r] \in {"sendFriends", "insert"}
Tested(r) ==
  /\ at[r] \in Room /\ room[at[r]].kind # "NONE"
  /\ room[at[r]].kind = "DIRECT" =>
       /\ C!Members(at[r]) \ {me[r]} \subseteq them[r]
       /\ parted[r] \/ \A v \in them[r] : ~C!Blocked(me[r], v)
SenIInv ==
  /\ parted \in [Request -> BOOLEAN]
  /\ \A r \in Request : Sending(r) => Tested(r)

LEMMA SenInit == C!Init => SenIInv
BY DEF C!Init, SenIInv, Sending

\* Rooms that are used stay as they are.
RoomsKept == \A x \in Room : room[x].kind # "NONE" => room'[x] = room[x]

\* One request goes on.
LEMMA SenGoes ==
  ASSUME ChaIInv, SenIInv, RoomsKept, UNCHANGED blocks, parted' \in [Request -> BOOLEAN],
         NEW r \in Request,
         \A q \in Request \ {r} :
           /\ cpc'[q] = cpc[q] /\ me'[q] = me[q] /\ at'[q] = at[q] /\ them'[q] = them[q]
           /\ parted'[q] = parted[q],
         Sending(r)' => Tested(r)'
  PROVE  SenIInv'
<1>1. ASSUME NEW q \in Request, q # r, Sending(q)' PROVE Tested(q)'
  <2>1. Sending(q) /\ Tested(q) BY <1>1 DEF Sending, SenIInv
  <2>2. room'[at[q]] = room[at[q]] BY <2>1 DEF Tested, RoomsKept
  <2>3. QED BY <1>1, <2>1, <2>2 DEF Tested, C!Members, C!Blocked
<1>2. QED BY <1>1 DEF SenIInv

LEMMA SenArrives ==
  ASSUME ChaIInv, SenIInv, NEW r \in Request, NEW u \in User, NEW x \in Room \cup {None},
         NEW vs \in SUBSET User, NEW ns, NEW l, C!Arrives(r, u, x, vs, ns, l),
         l \in {"sendFriends", "insert"} =>
           /\ x \in Room /\ room[x].kind # "NONE"
           /\ room[x].kind = "DIRECT" =>
                C!Members(x) \ {u} \subseteq vs /\ \A v \in vs : ~C!Blocked(u, v)
  PROVE  SenIInv'
<1>1. /\ cpc' = [cpc EXCEPT ![r] = l] /\ me' = [me EXCEPT ![r] = u]
      /\ at' = [at EXCEPT ![r] = x] /\ them' = [them EXCEPT ![r] = vs]
      /\ UNCHANGED <<blocks, room, parted>>
  BY DEF C!Arrives, C!rooms
<1>2. /\ \A q \in Request \ {r} : /\ cpc'[q] = cpc[q] /\ me'[q] = me[q]
                                  /\ at'[q] = at[q] /\ them'[q] = them[q]
      /\ cpc'[r] = l /\ me'[r] = u /\ at'[r] = x /\ them'[r] = vs
  BY <1>1 DEF ChaIInv, ChatTypes
<1>3. Sending(r)' => Tested(r)' BY <1>1, <1>2 DEF Sending, Tested, C!Members, C!Blocked
<1>4. RoomsKept BY <1>1 DEF RoomsKept
<1>5. QED BY <1>1, <1>2, <1>3, <1>4, SenGoes DEF SenIInv

LEMMA SenBegins ==
  ASSUME ChaIInv, SenIInv, NEW r \in Request, NEW u \in User,
         \/ \E v \in User : C!OpenTestBlock(r, u, v)
         \/ \E vs \in SUBSET User : C!GroupStart(r, u, vs)
         \/ \E x \in Room : \/ C!SendTestBlock(r, u, x) \/ C!RoomReadStamp(r, u, x)
                            \/ C!HideFind(r, u, x)
         \/ \E n \in DOMAIN log : C!ReactFind(r, u, n) \/ C!MarkReadFind(r, u, n)
  PROVE  SenIInv'
<1>1. ASSUME NEW v \in User, C!OpenTestBlock(r, u, v) PROVE SenIInv'
  BY <1>1, SenArrives DEF C!OpenTestBlock
<1>2. ASSUME NEW vs \in SUBSET User, C!GroupStart(r, u, vs) PROVE SenIInv'
  BY <1>2, SenArrives DEF C!GroupStart
<1>3. ASSUME NEW x \in Room, C!SendTestBlock(r, u, x) PROVE SenIInv'
  <2>1. C!Members(x) \ {u} \in SUBSET User BY ChaRows
  <2>2. PICK l \in {"sendFriends", "insert"} : C!Arrives(r, u, x, C!Members(x) \ {u}, {}, l)
    BY <1>3 DEF C!SendTestBlock
  <2>3. /\ room[x].kind # "NONE"
        /\ room[x].kind = "DIRECT" => \A v \in C!Members(x) \ {u} : ~C!Blocked(u, v)
    BY <1>3 DEF C!SendTestBlock
  <2>4. QED BY <2>1, <2>2, <2>3, SenArrives
<1>4. ASSUME NEW x \in Room, C!HideFind(r, u, x) PROVE SenIInv'
  BY <1>4, SenArrives DEF C!HideFind
<1>5. ASSUME NEW n \in DOMAIN log, C!ReactFind(r, u, n) \/ C!MarkReadFind(r, u, n) PROVE SenIInv'
  <2>1. log[n].room \in Room \cup {None} BY ChaRows DEF Line
  <2>2. PICK l \in {"read", "react", "unreact"} : C!Arrives(r, u, log[n].room, {}, {n}, l)
    BY <1>5 DEF C!ReactFind, C!MarkReadFind
  <2>3. QED BY <2>1, <2>2, SenArrives
<1>6. ASSUME NEW x \in Room, C!RoomReadStamp(r, u, x) PROVE SenIInv'
  <2>1. /\ cpc' = [cpc EXCEPT ![r] = "scan"] /\ me' = [me EXCEPT ![r] = u]
        /\ at' = [at EXCEPT ![r] = x] /\ UNCHANGED <<blocks, room, them, parted>>
    BY <1>6 DEF C!RoomReadStamp, C!rooms
  <2>2. /\ \A q \in Request \ {r} : /\ cpc'[q] = cpc[q] /\ me'[q] = me[q]
                                    /\ at'[q] = at[q] /\ them'[q] = them[q]
        /\ cpc'[r] = "scan"
    BY <2>1 DEF ChaIInv, ChatTypes
  <2>3. RoomsKept BY <2>1 DEF RoomsKept
  <2>4. QED BY <2>1, <2>2, <2>3, SenGoes DEF SenIInv, Sending
<1>7. QED BY <1>1, <1>2, <1>3, <1>4, <1>5, <1>6

\* Who answers, reads or creates a room is not sending.
LEMMA SenGoesOn ==
  ASSUME ChaIInv, SenIInv, NEW r \in Request,
         \/ C!OpenTestFriends(r) \/ C!OpenFind(r) \/ C!Reopen(r) \/ C!OpenCreate(r)
         \/ C!GroupTest(r) \/ C!GroupCreate(r)
         \/ C!SendTestFriends(r) \/ C!SendInsert(r) \/ C!SendUnhide(r)
         \/ C!ReactWrite(r) \/ C!MarkRead(r)
         \/ C!RoomReadScan(r) \/ C!RoomReadNext(r) \/ C!RoomReadDone(r)
         \/ C!HideWrite(r) \/ C!Fail(r)
  PROVE  SenIInv'
<1>1. UNCHANGED blocks
  BY DEF C!OpenTestFriends, C!OpenFind, C!Reopen, C!OpenCreate, C!GroupTest, C!GroupCreate,
         C!SendTestFriends, C!SendInsert, C!SendUnhide, C!ReactWrite, C!MarkRead,
         C!RoomReadScan, C!RoomReadNext, C!RoomReadDone, C!HideWrite, C!Fail, C!Return, C!Goto
<1>2. ASSUME C!Return(r), RoomsKept PROVE SenIInv'
  <2>1. /\ cpc' = [cpc EXCEPT ![r] = "idle"] /\ me' = [me EXCEPT ![r] = None]
        /\ at' = [at EXCEPT ![r] = None] /\ them' = [them EXCEPT ![r] = {}]
        /\ parted' = [parted EXCEPT ![r] = FALSE]
    BY <1>2 DEF C!Return
  <2>2. /\ \A q \in Request \ {r} : /\ cpc'[q] = cpc[q] /\ me'[q] = me[q] /\ at'[q] = at[q]
                                    /\ them'[q] = them[q] /\ parted'[q] = parted[q]
        /\ cpc'[r] = "idle" /\ parted' \in [Request -> BOOLEAN]
    BY <2>1 DEF ChaIInv, ChatTypes, SenIInv
  <2>3. QED BY <1>1, <1>2, <2>2, SenGoes DEF Sending
<1>3. ASSUME NEW l, C!Goto(r, l), UNCHANGED <<room, parted>>,
             \/ l \notin {"sendFriends", "insert"} /\ \A q \in Request \ {r} : at'[q] = at[q]
             \/ cpc[r] = "sendFriends" /\ UNCHANGED at
      PROVE  SenIInv'
  <2>1. cpc' = [cpc EXCEPT ![r] = l] /\ UNCHANGED <<me, them>> BY <1>3 DEF C!Goto
  <2>2. /\ \A q \in Request \ {r} : cpc'[q] = cpc[q] /\ at'[q] = at[q]
        /\ cpc'[r] = l /\ RoomsKept
    BY <1>3, <2>1 DEF ChaIInv, ChatTypes, RoomsKept
  <2>3. Sending(r)' => Tested(r)'
    BY <1>1, <1>3, <2>1, <2>2 DEF SenIInv, Sending, Tested, C!Members, C!Blocked
  <2>4. QED BY <1>1, <1>3, <2>1, <2>2, <2>3, SenGoes DEF SenIInv
<1>4. CASE C!OpenTestFriends(r) \/ C!GroupTest(r) \/ C!SendInsert(r)
  BY <1>3, <1>4 DEF C!OpenTestFriends, C!GroupTest, C!SendInsert, C!rooms
<1>5. CASE C!SendTestFriends(r)
  BY <1>3, <1>5 DEF C!SendTestFriends, C!rooms, C!AtStep
<1>6. CASE C!RoomReadScan(r) \/ C!RoomReadNext(r)
  BY <1>3, <1>6 DEF C!RoomReadScan, C!RoomReadNext, C!rooms
<1>7. CASE C!OpenFind(r)
  <2>1. PICK l \in {"openCreate", "reopen"} : C!Goto(r, l) BY <1>7 DEF C!OpenFind
  <2>2. UNCHANGED <<room, parted>> /\ \A q \in Request \ {r} : at'[q] = at[q]
    BY <1>7 DEF C!OpenFind, C!rooms, ChaIInv, ChatTypes
  <2>3. QED BY <1>3, <2>1, <2>2
<1>8. CASE C!OpenCreate(r) \/ C!GroupCreate(r)
  <2>1. PICK x \in Room, k \in C!Kind :
          /\ room' = [room EXCEPT ![x] = [kind |-> k, members |-> {me[r]} \cup them[r]]]
          /\ room[x].kind = "NONE" /\ C!Return(r)
    BY <1>8 DEF C!OpenCreate, C!GroupCreate, C!Unused, C!Kind
  <2>2. RoomsKept BY <2>1 DEF RoomsKept, ChaIInv, ChatTypes
  <2>3. QED BY <1>2, <2>1, <2>2
<1>9. CASE \/ C!Reopen(r) \/ C!SendUnhide(r) \/ C!ReactWrite(r) \/ C!MarkRead(r)
           \/ C!RoomReadDone(r) \/ C!HideWrite(r) \/ C!Fail(r)
  <2>1. C!Return(r) /\ UNCHANGED room
    BY <1>9 DEF C!Reopen, C!SendUnhide, C!ReactWrite, C!MarkRead, C!RoomReadDone, C!HideWrite,
                C!Fail, C!rooms
  <2>2. QED BY <1>2, <2>1 DEF RoomsKept
<1>10. QED BY <1>4, <1>5, <1>6, <1>7, <1>8, <1>9

\* A message is only written by who has tested.
Silent ==
  \A n \in DOMAIN log' \ DOMAIN log : \A v \in C!Members(log'[n].room) \ {log'[n].by} :
    room[log'[n].room].kind = "DIRECT" /\ C!Blocked(log'[n].by, v) =>
      \E r \in Request : cpc[r] = "insert" /\ me[r] = log'[n].by /\ parted[r]

LEMMA SenInserts ==
  ASSUME ChaIInv, SenIInv, NEW r \in Request, C!SendInsert(r) PROVE Silent
<1>1. /\ log' = Append(log, [room |-> at[r], by |-> me[r]]) /\ cpc[r] = "insert"
  BY DEF C!SendInsert, C!AtStep
<1>2. log \in Seq(Line) /\ [room |-> at[r], by |-> me[r]] \in Line
  BY <1>1 DEF ChaIInv, ChatTypes, Line
<1>3. \A n \in DOMAIN log' \ DOMAIN log : log'[n].room = at[r] /\ log'[n].by = me[r]
  <2>1. /\ DOMAIN log' = 1..(Len(log) + 1) /\ DOMAIN log = 1..Len(log) /\ Len(log) \in Nat
        /\ log'[Len(log) + 1] = [room |-> at[r], by |-> me[r]]
    BY <1>1, <1>2, AppendProperties, LenProperties
  <2>2. \A n \in DOMAIN log' \ DOMAIN log : n = Len(log) + 1 BY <2>1
  <2>3. QED BY <2>1, <2>2
<1>4. Tested(r) BY <1>1 DEF SenIInv, Sending
<1>5. QED BY <1>1, <1>3, <1>4 DEF Silent, Tested

LEMMA SenStep == ASSUME ChaIInv, SenIInv, C!Next PROVE SenIInv' /\ Silent
<1>1. \A r \in C!Arriving \cup C!Working : r \in Request BY DEF C!Arriving, C!Working
<1>2. UNCHANGED log => Silent BY DEF Silent
<1>3. ASSUME NEW r \in C!Arriving, NEW u \in User,
             \/ \E v \in User : C!OpenTestBlock(r, u, v)
             \/ \E vs \in SUBSET User : C!GroupStart(r, u, vs)
             \/ \E x \in Room : \/ C!SendTestBlock(r, u, x) \/ C!RoomReadStamp(r, u, x)
                                \/ C!HideFind(r, u, x)
             \/ \E n \in DOMAIN log : C!ReactFind(r, u, n) \/ C!MarkReadFind(r, u, n)
      PROVE  SenIInv' /\ Silent
  <2>1. UNCHANGED log
    BY <1>3 DEF C!OpenTestBlock, C!GroupStart, C!SendTestBlock, C!RoomReadStamp, C!HideFind,
                C!ReactFind, C!MarkReadFind, C!Arrives, C!messages
  <2>2. QED BY <1>1, <1>2, <1>3, <2>1, SenBegins
<1>4. ASSUME NEW r \in C!Working,
             \/ C!OpenTestFriends(r) \/ C!OpenFind(r) \/ C!Reopen(r) \/ C!OpenCreate(r)
             \/ C!GroupTest(r) \/ C!GroupCreate(r)
             \/ C!SendTestFriends(r) \/ C!SendInsert(r) \/ C!SendUnhide(r)
             \/ C!ReactWrite(r) \/ C!MarkRead(r)
             \/ C!RoomReadScan(r) \/ C!RoomReadNext(r) \/ C!RoomReadDone(r)
             \/ C!HideWrite(r) \/ C!Fail(r)
      PROVE  SenIInv' /\ Silent
  <2>1. UNCHANGED log \/ C!SendInsert(r)
    BY <1>4 DEF C!OpenTestFriends, C!OpenFind, C!Reopen, C!OpenCreate, C!GroupTest, C!GroupCreate,
                C!SendTestFriends, C!SendUnhide, C!ReactWrite, C!MarkRead, C!RoomReadScan,
                C!RoomReadNext, C!RoomReadDone, C!HideWrite, C!Fail, C!messages
  <2>2. Silent BY <1>1, <1>2, <2>1, SenInserts
  <2>3. SenIInv' BY <1>1, <1>4, SenGoesOn
  <2>4. QED BY <2>2, <2>3
<1>5. QED BY <1>3, <1>4 DEF C!Next

\* A block is noted by who is at work for the two.
LEMMA SenParted ==
  ASSUME SenIInv, parted' = PartedBy(blocks'), UNCHANGED <<room, cpc, me, at, them>>
  PROVE  SenIInv'
<1>1. ASSUME NEW r \in Request
      PROVE  /\ parted'[r] \in BOOLEAN /\ (parted[r] => parted'[r])
             /\ \A v \in them[r] : <<me[r], v>> \in blocks' \ blocks => parted'[r]
             /\ \A v \in them[r] : <<v, me[r]>> \in blocks' \ blocks => parted'[r]
  <2>1. parted'[r] = (parted[r] \/ \E v \in them[r] : \/ <<me[r], v>> \in blocks' \ blocks
                                                      \/ <<v, me[r]>> \in blocks' \ blocks)
    BY DEF PartedBy
  <2>2. QED BY <2>1
<1>2. parted' \in [Request -> BOOLEAN] BY <1>1 DEF PartedBy
<1>3. ASSUME NEW r \in Request, Sending(r)' PROVE Tested(r)'
  <2>1. Tested(r) BY <1>3 DEF SenIInv, Sending
  <2>2. QED BY <1>1, <2>1 DEF Tested, C!Members, C!Blocked
<1>4. QED BY <1>2, <1>3 DEF SenIInv

LEMMA SenStill ==
  ASSUME SenIInv, UNCHANGED <<room, cpc, me, at, them, parted, blocks>> PROVE SenIInv'
BY DEF SenIInv, Sending, Tested, C!Members, C!Blocked

\* Friends marks who is at work on the feed, and hides rooms; all else keeps to
\* its own tables.
LEMMA InitRest == Init => PosIInv /\ PreIInv /\ BoxIInv /\ ChaIInv
BY PosInit, PreInit, BoxInit, ChaInit DEF Init

LEMMA PreStill ==
  ASSUME PreIInv,
         UNCHANGED <<version, revoking, signed, shake, leave, joined, connected, online, late>>
  PROVE  PreIInv'
BY DEF PreIInv, SocketTypes, InPlace, Revoked

LEMMA BoxStill ==
  ASSUME BoxIInv,
         UNCHANGED <<unread, seen, badge, wants, owner, dead, errand, skewed, holder>>
  PROVE  BoxIInv'
<1>1. InboxTypes' BY DEF BoxIInv, InboxTypes
<1>2. AllTold' BY DEF BoxIInv, AllTold, Told, Inbox, N!Wanted
<1>3. Badges' BY DEF BoxIInv, Badges, Summing, Inbox
<1>4. QED BY <1>1, <1>2, <1>3 DEF BoxIInv, N!DeviceFollows

LEMMA ChaStill ==
  ASSUME ChaIInv,
         UNCHANGED <<room, log, readers, lastRead, cpc, me, at, them, todo, lost>>
  PROVE  ChaIInv'
BY DEF ChaIInv, ChatTypes, Marked, C!Unread, C!Marking

LEMMA StepPosts == PosIInv /\ [Next]_vars => PosIInv'
<1> SUFFICES ASSUME PosIInv, [Next]_vars PROVE PosIInv'
  OBVIOUS
<1>1. CASE FeedStep BY <1>1, PosStep DEF FeedStep
<1>2. CASE FriendsStep BY <1>2, PosParted DEF FriendsStep, written
<1>3. CASE UNCHANGED <<written, work>>
  <2>1. UNCHANGED <<post, comment, like, taps, open, settled, doubled, work>>
    BY <1>3 DEF written
  <2>2. \A r \in Request : Fits(work'[r])
    BY <2>1 DEF PosIInv, PostTypes, Fitting, Fits, About
  <2>3. QED BY <2>1, <2>2, PosMoves DEF PosIInv, PostTypes
<1>4. QED
  BY <1>1, <1>2, <1>3 DEF Next, ChatStep, PresenceStep, InboxStep, AccountsStep, ErasureStep, vars

LEMMA StepSockets == PreIInv /\ [Next]_vars => PreIInv'
<1> SUFFICES ASSUME PreIInv, [Next]_vars PROVE PreIInv'
  OBVIOUS
<1>1. CASE PresenceStep BY <1>1, PreStep DEF PresenceStep
<1>2. CASE UNCHANGED present
  <2>1. UNCHANGED <<version, revoking, signed, shake, leave, joined, connected, online, late>>
    BY <1>2 DEF present
  <2>2. QED BY <2>1, PreStill
<1>3. QED
  BY <1>1, <1>2 DEF Next, FriendsStep, ChatStep, FeedStep, InboxStep, AccountsStep, ErasureStep, vars

LEMMA StepInbox == BoxIInv /\ [Next]_vars => BoxIInv'
<1> SUFFICES ASSUME BoxIInv, [Next]_vars PROVE BoxIInv'
  OBVIOUS
<1>1. CASE InboxStep BY <1>1, BoxStep DEF InboxStep
<1>2. CASE UNCHANGED inbox
  <2>1. UNCHANGED <<unread, seen, badge, wants, owner, dead, errand, skewed, holder>>
    BY <1>2 DEF inbox
  <2>2. QED BY <2>1, BoxStill
<1>3. QED
  BY <1>1, <1>2 DEF Next, FriendsStep, ChatStep, FeedStep, PresenceStep, AccountsStep, ErasureStep, vars

LEMMA StepChat == ChaIInv /\ [Next]_vars => ChaIInv'
<1> SUFFICES ASSUME ChaIInv, [Next]_vars PROVE ChaIInv'
  OBVIOUS
<1>1. CASE ChatStep BY <1>1, ChaStep DEF ChatStep
<1>2. CASE UNCHANGED room /\ UNCHANGED chatty
  <2>1. UNCHANGED <<room, log, readers, lastRead, cpc, me, at, them, todo, lost>>
    BY <1>2 DEF chatty
  <2>2. QED BY <2>1, ChaStill
<1>3. CASE FriendsStep BY <1>2, <1>3, RoomsStay DEF FriendsStep
<1>4. QED
  BY <1>1, <1>2, <1>3 DEF Next, FeedStep, PresenceStep, InboxStep, AccountsStep, ErasureStep,
                          vars, social, rooms

\* However likes, comments, removals and reports overlap, a post's likes are
\* what was tapped, a comment answers one of its own post, and nobody's report
\* is open twice unless two of them raced.
THEOREM PostsAddUpHolds == Spec => []PostsAddUp
<1>1. Spec => []PosIInv
  BY InitRest, StepPosts, PTL DEF Spec
<1>2. QED BY <1>1, PosStands, PTL

\* Whatever sockets, revocations and notifications overlap, who receives
\* messages is online, a socket outlives a revocation only if its handshake had
\* compared the version before, and pushes reach devices of their users, who
\* have them on.
THEOREM DevicesAgreeHolds == Spec => []DevicesAgree
<1>1. Spec => [](PreIInv /\ BoxIInv)
  <2>1. Init => PreIInv /\ BoxIInv BY InitRest
  <2>2. PreIInv /\ BoxIInv /\ [Next]_vars => PreIInv' /\ BoxIInv' BY StepSockets, StepInbox
  <2>3. QED BY <2>1, <2>2, PTL DEF Spec
<1>2. PreIInv /\ BoxIInv => DevicesAgree BY PreStands, BoxStands DEF DevicesAgree
<1>3. QED BY <1>1, <1>2, PTL

\* What the counter of a room leaves out, though its messages are unread, some
\* request is marking, or one that died would have; and the badge last sent is
\* the number of unread notifications unless a summary is on its way, was
\* counted before another request wrote, or died with its request.
THEOREM BadgesAgreeHolds == Spec => []BadgesAgree
<1>1. Spec => [](ChaIInv /\ BoxIInv)
  <2>1. Init => ChaIInv /\ BoxIInv BY InitRest
  <2>2. ChaIInv /\ BoxIInv /\ [Next]_vars => ChaIInv' /\ BoxIInv' BY StepChat, StepInbox
  <2>3. QED BY <2>1, <2>2, PTL DEF Spec
<1>2. ChaIInv /\ BoxIInv => BadgesAgree BY ChaStands, BoxStands DEF BadgesAgree
<1>3. QED BY <1>1, <1>2, PTL

\* Nothing is said, shown or tagged across a block, ...
TestIInv == PosIInv /\ TelIInv /\ ChaIInv /\ SenIInv /\ AccIInv

LEMMA TestInit == Init => TestIInv
BY InitRest, TelInit, SenInit, AccInit DEF Init, TestIInv

LEMMA StepKnows ==
  PosIInv /\ TelIInv /\ [Next]_vars => TelIInv' /\ W!TagsFriends /\ W!GoneIsQuiet
<1> SUFFICES ASSUME PosIInv, TelIInv, [Next]_vars
             PROVE  TelIInv' /\ W!TagsFriends /\ W!GoneIsQuiet
  OBVIOUS
<1>1. CASE FeedStep BY <1>1, TelStep DEF FeedStep
<1>2. CASE ~FeedStep
  <2>1. UNCHANGED written
    BY <1>2 DEF Next, FriendsStep, ChatStep, PresenceStep, InboxStep, AccountsStep, ErasureStep, vars
  <2>2. W!TagsFriends /\ W!GoneIsQuiet
    BY <2>1, NothingAdded DEF written, W!TagsFriends, W!Written
  <2>3. CASE FriendsStep BY <2>1, <2>2, <2>3, TelParted DEF FriendsStep, written
  <2>4. CASE ChatStep
    BY <2>1, <2>2, <2>4, ChatReads, TelStill DEF ChatStep, written
  <2>5. CASE UNCHANGED <<ties, work>> BY <2>1, <2>2, <2>5, TelStill DEF written, ties
  <2>6. QED
    BY <1>2, <2>3, <2>4, <2>5 DEF Next, PresenceStep, InboxStep, AccountsStep, ErasureStep,
                                  vars, social
<1>3. QED BY <1>1, <1>2

LEMMA StepTests == ChaIInv /\ SenIInv /\ [Next]_vars => SenIInv' /\ Silent
<1> SUFFICES ASSUME ChaIInv, SenIInv, [Next]_vars PROVE SenIInv' /\ Silent
  OBVIOUS
<1>1. UNCHANGED log => Silent BY DEF Silent
<1>2. CASE ChatStep BY <1>2, SenStep DEF ChatStep
<1>3. CASE FriendsStep
  <2>1. UNCHANGED <<room, cpc, me, at, them, log>> /\ parted' = PartedBy(blocks')
    BY <1>3, RoomsStay DEF FriendsStep, chatty
  <2>2. QED BY <1>1, <2>1, SenParted
<1>4. CASE UNCHANGED social
  <2>1. UNCHANGED <<room, cpc, me, at, them, parted, blocks, log>>
    BY <1>4 DEF social, ties, rooms, chatty
  <2>2. QED BY <1>1, <2>1, SenStill
<1>5. QED
  BY <1>2, <1>3, <1>4 DEF Next, FeedStep, PresenceStep, InboxStep, AccountsStep, ErasureStep,
                          vars, social

LEMMA StepTakes == AccIInv /\ [Next]_vars => AccIInv' /\ A!AccountStands
<1> SUFFICES ASSUME AccIInv, [Next]_vars PROVE AccIInv' /\ A!AccountStands
  OBVIOUS
<1>1. UNCHANGED registered => UNCHANGED A!vars BY DEF registered, A!vars
<1>2. A!Next \/ UNCHANGED registered
  BY DEF Next, FriendsStep, ChatStep, FeedStep, PresenceStep, InboxStep, AccountsStep,
         ErasureStep, vars
<1>3. QED BY <1>1, <1>2, AccStep, AccTakes

\* No direct message is written across a block, no author shown and no stranger
\* tagged, unless the block or the end of the friendship has come after the
\* request had tested for it, and told it; nothing is added to a deleted post
\* but by who had read it before; no registration takes over an account that it
\* has not seen deleted.
THEOREM TestsHoldAlways == Spec => TestsHold
<1>1. Spec => []TestIInv
  <2>1. TestIInv /\ [Next]_vars => TestIInv'
    BY StepPosts, StepKnows, StepChat, StepTests, StepTakes DEF TestIInv
  <2>2. QED BY TestInit, <2>1, PTL DEF Spec
<1>2. TestIInv /\ [Next]_vars =>
        [/\ \A n \in DOMAIN log' \ DOMAIN log : \A v \in C!Members(log'[n].room) \ {log'[n].by} :
              room[log'[n].room].kind = "DIRECT" /\ C!Blocked(log'[n].by, v) =>
                \E r \in Request : /\ cpc[r] = "insert" /\ me[r] = log'[n].by
                                   /\ parted[r]
         /\ W!PageSilent /\ W!TagsFriends /\ W!GoneIsQuiet
         /\ A!AccountStands]_vars
  BY StepKnows, StepTests, StepTakes, TelStands DEF TestIInv, Silent
<1>3. QED BY <1>1, <1>2, PTL DEF Spec, TestsHold
-----------------------------------------------------------------------------
(* Types, with the bounds: no figure outgrows the requests that were served *)

SharedTypes == served \in 0..MaxServed /\ hidden \in [Room -> SUBSET User]
FriendTypes ==
  /\ friends \subseteq F!Pair /\ stray \subseteq F!Pair
  /\ blocks \subseteq F!Ordered /\ acted \subseteq F!Ordered
  /\ found \in [Request -> SUBSET Room] /\ both \in [Request -> BOOLEAN]

\* Two users are a pair.
LEMMA PairOf ==
  ASSUME NEW p \in F!Ordered PROVE {p[1], p[2]} \in F!Pair /\ <<p[2], p[1]>> \in F!Ordered
<1>1. p[1] \in User /\ p[2] \in User /\ p[1] # p[2] BY DEF F!Ordered
<1>2. Cardinality({p[1], p[2]}) = 2
  <2>1. IsFiniteSet({p[1]}) /\ Cardinality({p[1]}) = 1 BY FS_Singleton, Zenon
  <2>2. \A S, x : IsFiniteSet(S) /\ x \notin S => Cardinality(S \cup {x}) = Cardinality(S) + 1
    BY FS_AddElement
  <2>3. Cardinality({p[1]} \cup {p[2]}) = 1 + 1 BY <1>1, <2>1, <2>2
  <2>4. {p[1], p[2]} = {p[1]} \cup {p[2]} OBVIOUS
  <2>5. QED BY <2>3, <2>4
<1>3. \A S : F!Cardinality(S) = Cardinality(S) BY Zenon DEF F!Cardinality, Cardinality
<1>4. QED BY <1>1, <1>2, <1>3 DEF F!Pair, F!Ordered

LEMMA FriInit == Init => FriendTypes /\ SharedTypes
<1> SUFFICES ASSUME Init PROVE FriendTypes /\ SharedTypes
  OBVIOUS
<1>1. PICK asked \in SUBSET F!Ordered : \E agreed \in SUBSET asked :
        /\ friends = {{p[1], p[2]} : p \in agreed}
        /\ acted = asked \cup {<<p[2], p[1]>> : p \in agreed}
  BY DEF Init, F!Init
<1>2. PICK agreed \in SUBSET asked : /\ friends = {{p[1], p[2]} : p \in agreed}
                                     /\ acted = asked \cup {<<p[2], p[1]>> : p \in agreed}
  BY <1>1
<1>3. friends \subseteq F!Pair /\ acted \subseteq F!Ordered BY <1>2, PairOf
<1>4. QED BY <1>3 DEF Init, F!Init, C!Init, FriendTypes, SharedTypes

\* What the requests of Friends do to these.
LEMMA FriArrives ==
  ASSUME FriendTypes, SharedTypes, NEW r \in F!Arriving, NEW u \in User, NEW v \in User \ {u},
         \/ F!SendTestBlock(r, u, v) \/ F!CancelRead(r, u, v)
         \/ \E l \in F!Label : F!RespondRead(r, u, v, l)
         \/ F!RemoveFriendship(r, u, v) \/ F!Block(r, u, v)
  PROVE  FriendTypes' /\ SharedTypes'
<1> USE ConstantsOK DEF F!Arrives, F!database, F!rooms, FriendTypes, SharedTypes
<1>u. <<u, v>> \in F!Ordered /\ r \in Request BY DEF F!Ordered, F!Arriving
<1>1. CASE F!SendTestBlock(r, u, v) BY <1>1 DEF F!SendTestBlock
<1>2. CASE F!CancelRead(r, u, v) BY <1>2 DEF F!CancelRead
<1>3. CASE \E l \in F!Label : F!RespondRead(r, u, v, l) BY <1>3 DEF F!RespondRead
<1>4. CASE F!RemoveFriendship(r, u, v) BY <1>u, <1>4 DEF F!RemoveFriendship
<1>5. CASE F!Block(r, u, v) BY <1>u, <1>5 DEF F!Block
<1>6. QED BY <1>1, <1>2, <1>3, <1>4, <1>5

LEMMA FriWorks ==
  ASSUME IInv, FriendTypes, SharedTypes, NEW r \in F!Working,
         \/ F!SendTestFriends(r) \/ F!SendFindIncoming(r) \/ F!SendFindExisting(r)
         \/ F!SendUpsert(r) \/ F!RespondAgain(r) \/ F!Accept(r) \/ F!Reject(r) \/ F!Cancel(r)
         \/ F!RemoveRequests(r) \/ F!HideFind(r) \/ F!HideWrite(r) \/ F!Fail(r)
  PROVE  FriendTypes' /\ SharedTypes'
<1> USE DEF F!Goto, F!database, F!rooms, F!Who, F!Peer
<1>r. r \in Request /\ job[r] \in F!Ordered BY DEF F!Working, IInv, Types
<1>u. /\ job[r][1] \in User /\ job[r][2] \in User /\ <<job[r][1], job[r][2]>> \in F!Ordered
      /\ {job[r][1], job[r][2]} \in F!Pair
  BY <1>r, PairOf DEF F!Ordered
<1>1. CASE F!SendTestFriends(r) \/ F!SendFindIncoming(r) \/ F!SendFindExisting(r)
  BY <1>1 DEF F!SendTestFriends, F!SendFindIncoming, F!SendFindExisting, FriendTypes, SharedTypes
<1>2. CASE F!SendUpsert(r) BY <1>u, <1>2 DEF F!SendUpsert, FriendTypes, SharedTypes
<1>3. CASE F!RespondAgain(r) BY <1>3 DEF F!RespondAgain, FriendTypes, SharedTypes
<1>4. CASE F!Accept(r) BY <1>u, <1>4 DEF F!Accept, FriendTypes, SharedTypes
<1>5. CASE F!Reject(r) \/ F!Cancel(r) \/ F!RemoveRequests(r)
  BY <1>5 DEF F!Reject, F!Cancel, F!RemoveRequests, FriendTypes, SharedTypes
<1>6. CASE F!HideFind(r) BY <1>r, <1>6 DEF F!HideFind, F!Direct, FriendTypes, SharedTypes
<1>7. CASE F!HideWrite(r) BY <1>r, <1>u, <1>7 DEF F!HideWrite, FriendTypes, SharedTypes
<1>8. CASE F!Fail(r) BY <1>r, <1>8 DEF F!Fail, FriendTypes, SharedTypes
<1>9. QED BY <1>1, <1>2, <1>3, <1>4, <1>5, <1>6, <1>7, <1>8

LEMMA FriStep == ASSUME IInv, FriendTypes, SharedTypes, F!Next PROVE FriendTypes' /\ SharedTypes'
<1>1. ASSUME NEW p \in blocks, F!Unblock(p[1], p[2]) PROVE FriendTypes' /\ SharedTypes'
  <2>1. /\ served < MaxServed /\ served' = served + 1 /\ blocks' \subseteq blocks
        /\ UNCHANGED <<friends, stray, acted, found, both, hidden>>
    BY <1>1 DEF F!Unblock, F!rooms, F!locals, F!history
  <2>2. QED BY <2>1, ConstantsOK DEF FriendTypes, SharedTypes
<1>2. QED BY <1>1, FriArrives, FriWorks DEF F!Next

\* A request of Chat that is past its first test knows its room, unless it is
\* opening one.
Located == {"reopen", "sendFriends", "insert", "unhide", "unreact", "react", "read",
            "scan", "readAll", "hide"}
RoomTypes ==
  /\ log \in Seq(C!Message) /\ reacted \in [C!Msg -> SUBSET User]
  /\ lost \subseteq Room \X User
  /\ \A r \in Request : cpc[r] \in Located => at[r] \in Room

LEMMA RooInit == C!Init => RoomTypes
BY DEF C!Init, RoomTypes, Located

LEMMA RooArrives ==
  ASSUME ChaIInv, RoomTypes, SharedTypes, NEW r \in C!Arriving, NEW u \in User,
         \/ \E v \in User : C!OpenTestBlock(r, u, v)
         \/ \E vs \in SUBSET User : C!GroupStart(r, u, vs)
         \/ \E x \in Room : C!SendTestBlock(r, u, x) \/ C!RoomReadStamp(r, u, x)
                            \/ C!HideFind(r, u, x)
         \/ \E n \in DOMAIN log : C!ReactFind(r, u, n) \/ C!MarkReadFind(r, u, n)
  PROVE  RoomTypes' /\ SharedTypes'
<1> DEFINE Goes(x, l) ==
      /\ served < MaxServed /\ served' = served + 1
      /\ cpc' = [cpc EXCEPT ![r] = l] /\ at' = [at EXCEPT ![r] = x]
      /\ UNCHANGED <<log, reacted, lost, hidden>>
<1>r. r \in Request BY DEF C!Arriving
<1>1. ASSUME NEW x, NEW l, Goes(x, l), l \in Located => x \in Room
      PROVE  RoomTypes' /\ SharedTypes'
  BY <1>r, <1>1, ConstantsOK DEF RoomTypes, SharedTypes, ChaIInv, ChatTypes
<1>2. ASSUME NEW x, NEW l, NEW vs, NEW ns, C!Arrives(r, u, x, vs, ns, l) PROVE Goes(x, l)
  BY <1>2 DEF C!Arrives, C!rooms, C!messages
<1>3. CASE \/ \E v \in User : C!OpenTestBlock(r, u, v)
           \/ \E vs \in SUBSET User : C!GroupStart(r, u, vs)
  <2>1. \E l \in {"openFriends", "groupTest"} : Goes(None, l)
    BY <1>2, <1>3 DEF C!OpenTestBlock, C!GroupStart
  <2> HIDE DEF Goes
  <2>2. QED BY <1>1, <2>1 DEF Located
<1>4. CASE \E x \in Room : C!SendTestBlock(r, u, x) \/ C!RoomReadStamp(r, u, x)
                           \/ C!HideFind(r, u, x)
  <2>1. \E x \in Room : \E l \in Located : Goes(x, l)
    <3>1. PICK x \in Room : C!SendTestBlock(r, u, x) \/ C!RoomReadStamp(r, u, x)
                            \/ C!HideFind(r, u, x)
      BY <1>4
    <3>2. CASE C!SendTestBlock(r, u, x)
      <4>1. Goes(x, "sendFriends") \/ Goes(x, "insert") BY <1>2, <3>2 DEF C!SendTestBlock
      <4>2. QED BY <4>1 DEF Located
    <3>3. CASE C!RoomReadStamp(r, u, x)
      <4>1. Goes(x, "scan") BY <3>3 DEF C!RoomReadStamp, C!rooms
      <4>2. QED BY <4>1 DEF Located
    <3>4. CASE C!HideFind(r, u, x)
      <4>1. Goes(x, "hide") BY <1>2, <3>4 DEF C!HideFind
      <4>2. QED BY <4>1 DEF Located
    <3>5. QED BY <3>1, <3>2, <3>3, <3>4
  <2> HIDE DEF Goes
  <2>2. QED BY <1>1, <2>1
<1>5. CASE \E n \in DOMAIN log : C!ReactFind(r, u, n) \/ C!MarkReadFind(r, u, n)
  <2>1. PICK n \in DOMAIN log : C!ReactFind(r, u, n) \/ C!MarkReadFind(r, u, n)
    BY <1>5
  <2>2. log[n].room \in Room
    <3>1. log[n] \in C!Message BY <2>1 DEF RoomTypes
    <3>2. QED BY <3>1 DEF C!Message
  <2>3. \E l \in {"unreact", "react", "read"} : Goes(log[n].room, l)
    BY <1>2, <2>1 DEF C!ReactFind, C!MarkReadFind
  <2> HIDE DEF Goes
  <2>4. QED BY <1>1, <2>2, <2>3
<1>6. QED BY <1>3, <1>4, <1>5

LEMMA RooWorks ==
  ASSUME ChaIInv, RoomTypes, SharedTypes, NEW r \in C!Working,
         \/ C!OpenTestFriends(r) \/ C!OpenFind(r) \/ C!Reopen(r) \/ C!OpenCreate(r)
         \/ C!GroupTest(r) \/ C!GroupCreate(r)
         \/ C!SendTestFriends(r) \/ C!SendInsert(r) \/ C!SendUnhide(r)
         \/ C!ReactWrite(r) \/ C!MarkRead(r)
         \/ C!RoomReadScan(r) \/ C!RoomReadNext(r) \/ C!RoomReadDone(r)
         \/ C!HideWrite(r) \/ C!Fail(r)
  PROVE  RoomTypes' /\ SharedTypes'
<1> USE DEF C!Goto, C!Return, C!AtStep, C!rooms, C!messages
<1>r. r \in Request /\ me[r] \in User BY DEF C!Working, ChaIInv, ChatTypes
<1>t. /\ cpc \in [Request -> C!Label] /\ at \in [Request -> Room \cup {None}]
      /\ todo \in [Request -> SUBSET C!Msg]
  BY DEF ChaIInv, ChatTypes
<1>1. CASE C!OpenTestFriends(r) \/ C!GroupTest(r) \/ C!SendTestFriends(r)
  BY <1>r, <1>t, <1>1 DEF C!OpenTestFriends, C!GroupTest, C!SendTestFriends, RoomTypes,
                          SharedTypes, Located
<1>2. CASE C!OpenFind(r)
  BY <1>r, <1>t, <1>2 DEF C!OpenFind, RoomTypes, SharedTypes, Located
<1>3. CASE C!Reopen(r) \/ C!SendUnhide(r) \/ C!HideWrite(r)
  <2>1. at[r] \in Room
    BY <1>r, <1>3 DEF C!Reopen, C!SendUnhide, C!HideWrite, RoomTypes, Located
  <2>2. RoomTypes' /\ UNCHANGED served
    BY <1>r, <1>t, <1>3 DEF C!Reopen, C!SendUnhide, C!HideWrite, RoomTypes, Located
  <2>3. \E vs \in SUBSET User : hidden' = [hidden EXCEPT ![at[r]] = vs]
    <3>1. hidden[at[r]] \subseteq User BY <2>1 DEF SharedTypes
    <3>2. /\ hidden[at[r]] \ {me[r]} \subseteq User /\ hidden[at[r]] \cap {me[r]} \subseteq User
          /\ hidden[at[r]] \cup {me[r]} \subseteq User
      BY <1>r, <3>1
    <3>3. QED BY <1>3, <3>2 DEF C!Reopen, C!SendUnhide, C!HideWrite
  <2>4. QED BY <2>1, <2>2, <2>3 DEF SharedTypes
<1>4. CASE C!OpenCreate(r) \/ C!GroupCreate(r)
  BY <1>r, <1>t, <1>4 DEF C!OpenCreate, C!GroupCreate, RoomTypes, SharedTypes, Located
<1>5. CASE C!SendInsert(r)
  <2>1. at[r] \in Room BY <1>r, <1>5 DEF C!SendInsert, RoomTypes, Located
  <2>2. [room |-> at[r], by |-> me[r]] \in C!Message BY <1>r, <2>1 DEF C!Message
  <2>3. log' \in Seq(C!Message) BY <1>5, <2>2 DEF C!SendInsert, RoomTypes
  <2>4. QED BY <1>r, <1>t, <1>5, <2>1, <2>3 DEF C!SendInsert, RoomTypes, SharedTypes, Located
<1>6. CASE C!ReactWrite(r)
  BY <1>r, <1>t, <1>6 DEF C!ReactWrite, RoomTypes, SharedTypes, Located
<1>7. CASE C!MarkRead(r) \/ C!RoomReadDone(r)
  BY <1>r, <1>t, <1>7 DEF C!MarkRead, C!RoomReadDone, RoomTypes, SharedTypes, Located
<1>8. CASE C!RoomReadScan(r) \/ C!RoomReadNext(r)
  BY <1>r, <1>t, <1>8 DEF C!RoomReadScan, C!RoomReadNext, RoomTypes, SharedTypes, Located
<1>9. CASE C!Fail(r)
  BY <1>r, <1>t, <1>9 DEF C!Fail, RoomTypes, SharedTypes, Located
<1>10. QED BY <1>1, <1>2, <1>3, <1>4, <1>5, <1>6, <1>7, <1>8, <1>9

LEMMA RooStep ==
  ASSUME ChaIInv, RoomTypes, SharedTypes, C!Next PROVE RoomTypes' /\ SharedTypes'
BY RooArrives, RooWorks DEF C!Next

\* A token is of a version there has been, and there are no more revocations on
\* their way than have been made.
ArrivedTypes ==
  /\ version \in 0..MaxVersion /\ revoking \in 0..version
  /\ \A s \in Socket : signed[s] \in 0..version
  /\ flag \in BOOLEAN /\ healing \in BOOLEAN /\ arrived \in 0..MaxArrived
  /\ online \subseteq Socket /\ late \subseteq Socket

LEMMA ArrInit == P!Init => ArrivedTypes
<1> SUFFICES ASSUME P!Init PROVE ArrivedTypes
  OBVIOUS
<1>1. 0 \in 0..MaxVersion /\ 0 \in 0..0 BY ConstantsOK
<1>2. version = 0 /\ revoking = 0 /\ \A s \in Socket : signed[s] = 0 BY DEF P!Init
<1>3. QED BY <1>1, <1>2 DEF P!Init, ArrivedTypes

LEMMA ArrStep == ASSUME PreIInv, ArrivedTypes, P!Next PROVE ArrivedTypes'
<1> USE ConstantsOK DEF ArrivedTypes, P!state
<1>t. signed \in [Socket -> Nat] BY DEF PreIInv, SocketTypes
<1>1. ASSUME NEW s \in Socket, NEW v \in 0..MaxVersion, P!Connect(s, v) PROVE ArrivedTypes'
  BY <1>t, <1>1 DEF P!Connect
<1>2. ASSUME NEW s \in Socket,
             \/ P!Accept(s) \/ P!Refuse(s) \/ P!SetOnline(s) \/ P!AddToSet(s) \/ P!Join(s)
             \/ P!HandshakeFails(s) \/ P!GoAway(s)
             \/ P!RemoveFromSet(s) \/ P!CountSet(s) \/ P!SetOffline(s) \/ P!LeaveFails(s)
      PROVE  ArrivedTypes'
  BY <1>2 DEF P!Accept, P!Refuse, P!SetOnline, P!AddToSet, P!Join, P!HandshakeFails, P!GoAway,
              P!RemoveFromSet, P!CountSet, P!SetOffline, P!LeaveFails
<1>3. CASE P!HealRead \/ P!HealWrite BY <1>3 DEF P!HealRead, P!HealWrite
<1>4. CASE P!Revoke BY <1>4 DEF P!Revoke
<1>5. CASE P!DisconnectUser BY <1>5 DEF P!DisconnectUser
<1>6. QED BY <1>1, <1>2, <1>3, <1>4, <1>5 DEF P!Next

\* Each request served has written at most one notification of a kind to a user,
\* and nothing is ever counted that was not written.
Notes == User \X N!Kind
Tally ==
  /\ sent \in 0..MaxSent
  /\ \A x \in Notes : unread[x] + seen[x] <= sent
  /\ \A u \in User : badge[u] <= sent
  /\ \A r \in Request : errand[r].count <= sent
  /\ dead \subseteq Device /\ skewed \subseteq User

LEMMA TalInit == N!Init => Tally
<1> SUFFICES ASSUME N!Init PROVE Tally
  OBVIOUS
<1>1. \A x \in Notes : unread[x] = 0 /\ seen[x] = 0 BY DEF N!Init, Notes
<1>2. \A r \in Request : errand[r].count = 0 BY DEF N!Init, N!Idle
<1>3. \A u \in User : badge[u] = 0 BY DEF N!Init
<1>4. sent \in 0..MaxSent /\ dead = {} /\ skewed = {} BY DEF N!Init
<1>5. QED BY <1>1, <1>2, <1>3, <1>4, ConstantsOK DEF Tally

\* One more request is served, or one goes on.
Serves == sent < MaxSent /\ sent' = sent + 1
LEMMA TalGoes ==
  ASSUME BoxIInv, Tally, Serves \/ sent' = sent,
         sent' = sent => UNCHANGED <<unread, seen>>,
         \A x \in Notes : unread'[x] + seen'[x] <= unread[x] + seen[x] + 1,
         \A x \in Notes : unread'[x] \in Nat /\ seen'[x] \in Nat,
         \A q \in Request : errand'[q].count \in {0, errand[q].count},
         badge' = badge, dead' \subseteq Device, skewed' \subseteq User
  PROVE  Tally'
<1>1. sent \in Nat /\ sent' \in 0..MaxSent /\ sent <= sent'
  BY ConstantsOK DEF Tally, Serves
<1>2. \A x \in Notes : unread'[x] + seen'[x] <= sent'
  <2> SUFFICES ASSUME NEW x \in Notes PROVE unread'[x] + seen'[x] <= sent'
    OBVIOUS
  <2>1. unread[x] \in Nat /\ seen[x] \in Nat BY DEF BoxIInv, InboxTypes, Notes
  <2>2. unread[x] + seen[x] <= sent BY DEF Tally
  <2>3. unread'[x] + seen'[x] <= unread[x] + seen[x] + 1 /\ unread'[x] \in Nat /\ seen'[x] \in Nat
    OBVIOUS
  <2>4. CASE Serves BY <1>1, <2>1, <2>2, <2>3, <2>4 DEF Serves
  <2>5. CASE sent' = sent /\ UNCHANGED <<unread, seen>> BY <2>2, <2>5
  <2>6. QED BY <2>4, <2>5
<1>3. \A q \in Request : errand'[q].count <= sent'
  <2> SUFFICES ASSUME NEW q \in Request PROVE errand'[q].count <= sent'
    OBVIOUS
  <2>1. errand[q].count \in Nat BY DEF BoxIInv, InboxTypes, Errand
  <2>2. errand[q].count <= sent BY DEF Tally
  <2>3. QED BY <1>1, <2>1, <2>2
<1>4. \A u \in User : badge'[u] <= sent'
  <2> SUFFICES ASSUME NEW u \in User PROVE badge'[u] <= sent'
    OBVIOUS
  <2>1. badge[u] \in Nat BY DEF BoxIInv, InboxTypes
  <2>2. badge[u] <= sent BY DEF Tally
  <2>3. QED BY <1>1, <2>1, <2>2
<1>5. QED BY <1>1, <1>2, <1>3, <1>4 DEF Tally

\* A request that writes notifications, reads them, or only pushes.
LEMMA TalChanges ==
  ASSUME BoxIInv, Tally, NEW r \in Request, sent < MaxSent, NEW us, NEW k, NEW l, NEW counts,
         N!Changes(r, us, k, l, counts),
         \A x \in Notes : unread'[x] \in Nat /\ seen'[x] \in Nat,
         \A x \in Notes : unread'[x] + seen'[x] <= unread[x] + seen[x] + 1
  PROVE  Tally'
<1>1. /\ sent' = sent + 1 /\ UNCHANGED <<dead, badge, skewed>>
      /\ errand' = [q \in Request |-> IF q = r THEN N!Starts(us, k, l)
           ELSE [errand[q] EXCEPT !.stale = errand[q].stale \/
                   (counts /\ errand[q].at = "emit" /\ errand[q].to = us)]]
  BY DEF N!Changes, N!history
<1>2. ASSUME NEW q \in Request PROVE errand'[q].count \in {0, errand[q].count}
  <2>1. CASE q = r
    <3>1. errand'[q] = N!Starts(us, k, l) BY <1>1, <2>1
    <3>2. N!Starts(us, k, l).count = 0 BY DEF N!Starts, N!Idle
    <3>3. QED BY <3>1, <3>2
  <2>2. CASE q # r
    <3>1. PICK b : errand'[q] = [errand[q] EXCEPT !.stale = b] BY <1>1, <2>2
    <3>2. errand[q] \in Errand BY DEF BoxIInv, InboxTypes
    <3>3. QED BY <3>1, <3>2 DEF Errand
  <2>3. QED BY <2>1, <2>2
<1>3. sent' # sent BY <1>1 DEF Tally
<1>4. QED BY <1>1, <1>2, <1>3, TalGoes DEF Tally, Serves

LEMMA TalArrives ==
  ASSUME BoxIInv, BoxIInv', Tally, NEW r \in Request, sent < MaxSent,
         \/ N!NotifyAll(r)
         \/ \E u \in User :
              \/ \E k \in N!Kind : N!Create(r, u, k) \/ N!CreateAgain(r, u, k)
                                   \/ N!PushOnly(r, u, k) \/ N!MarkRead(r, u, k)
              \/ N!MarkAllRead(r, u) \/ N!MarkCategoryRead(r, u)
  PROVE  Tally'
<1>1. /\ unread \in [Notes -> Nat] /\ seen \in [Notes -> Nat]
      /\ "INBOX" \in N!Kind /\ "NEWS" \in N!Kind
  BY DEF BoxIInv, InboxTypes, N!Kind, Notes
<1>n. \A x \in Notes : unread'[x] \in Nat /\ seen'[x] \in Nat
  BY DEF BoxIInv, InboxTypes, Notes
<1>2. CASE N!NotifyAll(r)
  <2>1. /\ unread' = [x \in Notes |-> unread[x] + IF x[2] = "NEWS" THEN 1 ELSE 0]
        /\ seen' = seen /\ N!Changes(r, User, "NEWS", "devices", FALSE)
    BY <1>2 DEF N!NotifyAll, Notes
  <2>2. \A x \in Notes : unread'[x] + seen'[x] <= unread[x] + seen[x] + 1
    <3> SUFFICES ASSUME NEW x \in Notes PROVE unread'[x] + seen'[x] <= unread[x] + seen[x] + 1
      OBVIOUS
    <3>1. unread'[x] = unread[x] + (IF x[2] = "NEWS" THEN 1 ELSE 0) BY <2>1
    <3>2. unread[x] \in Nat /\ seen[x] \in Nat /\ seen'[x] = seen[x] BY <1>1, <2>1
    <3>3. QED BY <3>1, <3>2
  <2>3. QED BY <1>n, <2>1, <2>2, TalChanges
<1>3. ASSUME NEW u \in User, NEW k \in N!Kind, N!Create(r, u, k) PROVE Tally'
  <2>1. /\ unread' = [unread EXCEPT ![<<u, k>>] = unread[<<u, k>>] + 1] /\ seen' = seen
        /\ N!Changes(r, {u}, k, "count", k = "INBOX")
    BY <1>3 DEF N!Create
  <2>2. \A x \in Notes : unread'[x] + seen'[x] <= unread[x] + seen[x] + 1
    BY <1>1, <2>1
  <2>3. QED BY <1>n, <2>1, <2>2, TalChanges
<1>4. ASSUME NEW u \in User, NEW k \in N!Kind, N!CreateAgain(r, u, k) \/ N!PushOnly(r, u, k)
      PROVE  Tally'
  <2>1. /\ unread' = unread /\ seen' = seen
        /\ N!Changes(r, {u}, k, "count", FALSE) \/ N!Changes(r, {u}, k, "prefs", FALSE)
    BY <1>4, Zenon DEF N!CreateAgain, N!PushOnly
  <2>2. \A x \in Notes : unread'[x] + seen'[x] <= unread[x] + seen[x] + 1
    BY <1>1, <2>1
  <2>3. QED BY <1>n, <2>1, <2>2, TalChanges
<1>5. ASSUME NEW u \in User, NEW k \in N!Kind, NEW n \in Nat, N!Reads(r, u, k, n),
             n <= unread[<<u, k>>]
      PROVE  Tally'
  <2>1. /\ unread' = [unread EXCEPT ![<<u, k>>] = unread[<<u, k>>] - n]
        /\ seen' = [seen EXCEPT ![<<u, k>>] = seen[<<u, k>>] + n]
        /\ N!Changes(r, {u}, None, "count", k = "INBOX" /\ n > 0)
    BY <1>5 DEF N!Reads
  <2>2. \A x \in Notes : unread'[x] + seen'[x] <= unread[x] + seen[x] + 1
    <3> SUFFICES ASSUME NEW x \in Notes PROVE unread'[x] + seen'[x] <= unread[x] + seen[x] + 1
      OBVIOUS
    <3>1. unread[x] \in Nat /\ seen[x] \in Nat BY <1>1
    <3>2. CASE x = <<u, k>>
      <4>1. unread'[x] = unread[x] - n /\ seen'[x] = seen[x] + n BY <1>1, <2>1, <3>2
      <4>2. QED BY <3>1, <4>1
    <3>3. CASE x # <<u, k>>
      <4>1. unread'[x] = unread[x] /\ seen'[x] = seen[x] BY <1>1, <2>1, <3>3
      <4>2. QED BY <3>1, <4>1
    <3>4. QED BY <3>2, <3>3
  <2>3. QED BY <1>n, <2>1, <2>2, TalChanges
<1>6. ASSUME NEW u \in User, NEW k \in N!Kind, N!MarkRead(r, u, k) PROVE Tally'
  <2>1. <<u, k>> \in Notes BY DEF Notes
  <2>2. unread[<<u, k>>] \in Nat BY <1>1, <2>1
  <2>3. \/ unread[<<u, k>>] > 0 /\ N!Reads(r, u, k, 1)
        \/ N!Reads(r, u, k, 0)
    BY <1>6, Zenon DEF N!MarkRead
  <2>4. CASE unread[<<u, k>>] > 0 /\ N!Reads(r, u, k, 1)
    <3>1. 1 <= unread[<<u, k>>] BY <2>2, <2>4
    <3>2. QED BY <1>5, <2>4, <3>1
  <2>5. CASE N!Reads(r, u, k, 0)
    <3>1. 0 <= unread[<<u, k>>] BY <2>2
    <3>2. QED BY <1>5, <2>5, <3>1
  <2>6. QED BY <2>3, <2>4, <2>5
<1>7. ASSUME NEW u \in User, N!MarkAllRead(r, u) \/ N!MarkCategoryRead(r, u) PROVE Tally'
  <2>1. \/ N!Reads(r, u, "INBOX", unread[<<u, "INBOX">>])
        \/ N!Reads(r, u, "NEWS", unread[<<u, "NEWS">>])
    BY <1>7, Zenon DEF N!MarkAllRead, N!MarkCategoryRead
  <2>2. \A k \in N!Kind : unread[<<u, k>>] \in Nat /\ unread[<<u, k>>] <= unread[<<u, k>>]
    BY <1>1 DEF Notes
  <2>3. QED BY <1>1, <1>5, <2>1, <2>2
<1>8. QED BY <1>2, <1>3, <1>4, <1>6, <1>7

\* Requests at work: only the summary counts, and only what was written.
LEMMA TalWorks ==
  ASSUME BoxIInv, Tally, NEW r \in N!Working,
         \/ N!Summarise(r) \/ N!EmitSummary(r) \/ N!SkipSummary(r)
         \/ N!ReadPreferences(r) \/ N!ReadDevices(r) \/ N!Send(r) \/ N!RemoveUnknown(r)
         \/ N!Register(r) \/ N!Fail(r)
  PROVE  Tally'
<1>r. r \in Request BY DEF N!Working
<1>t. /\ \A q \in Request : errand[q] \in Errand /\ errand[q].count <= sent
      /\ errand \in [Request -> Errand] /\ errand[r].to \subseteq User
  BY <1>r DEF BoxIInv, InboxTypes, Tally, Errand
<1>0. N!Idle.count = 0 BY DEF N!Idle
<1>1. ASSUME sent' = sent, UNCHANGED <<unread, seen, badge, dead>>, skewed' \subseteq User,
             \A q \in Request : errand'[q].count \in {0, errand[q].count}
      PROVE  Tally'
  <2>1. \A x \in Notes : unread[x] \in Nat /\ seen[x] \in Nat BY DEF BoxIInv, InboxTypes, Notes
  <2>2. \A x \in Notes : unread'[x] + seen'[x] <= unread[x] + seen[x] + 1 BY <1>1, <2>1
  <2>3. QED BY <1>1, <2>1, <2>2, TalGoes DEF Tally
<1>2. CASE N!Summarise(r)
  <2>1. PICK u \in User : errand[r].to = {u}
    BY <1>r, <1>2 DEF N!Summarise, N!At, BoxIInv, AllTold, Told
  <2>2. (CHOOSE v \in errand[r].to : TRUE) = u BY <2>1
  <2>3. errand' = [errand EXCEPT ![r].at = "emit", ![r].count = unread[<<u, "INBOX">>]]
    <3>1. errand' = [errand EXCEPT ![r].at = "emit",
            ![r].count = LET v == CHOOSE v \in errand[r].to : TRUE IN unread[<<v, "INBOX">>]]
      BY <1>2, Zenon DEF N!Summarise
    <3>2. QED BY <2>2, <3>1, Zenon
  <2>4. <<u, "INBOX">> \in Notes BY DEF Notes, N!Kind
  <2>5. unread[<<u, "INBOX">>] <= sent
    <3>1. unread[<<u, "INBOX">>] + seen[<<u, "INBOX">>] <= sent BY <2>4 DEF Tally
    <3>2. unread[<<u, "INBOX">>] \in Nat /\ seen[<<u, "INBOX">>] \in Nat
      BY <2>4 DEF BoxIInv, InboxTypes, Notes
    <3>3. QED BY <3>1, <3>2 DEF Tally
  <2>6. ASSUME NEW q \in Request PROVE errand'[q].count <= sent
    <3>1. errand'[r].count = unread[<<u, "INBOX">>] BY <1>r, <1>t, <2>3 DEF Errand
    <3>2. q # r => errand'[q] = errand[q] BY <1>t, <2>3
    <3>3. QED BY <1>t, <2>5, <3>1, <3>2
  <2>7. UNCHANGED <<unread, seen, dead, badge, sent, skewed>>
    BY <1>2 DEF N!Summarise, N!tables, N!history
  <2>8. QED BY <2>6, <2>7 DEF Tally
<1>3. CASE N!EmitSummary(r)
  <2>1. badge' = [u \in User |-> IF u \in errand[r].to THEN errand[r].count ELSE badge[u]]
    BY <1>3 DEF N!EmitSummary
  <2>2. \A u \in User : badge'[u] <= sent BY <1>r, <1>t, <2>1 DEF Tally
  <2>3. /\ UNCHANGED <<unread, seen, dead, sent>> /\ skewed' \subseteq User
        /\ errand' = [errand EXCEPT ![r] = N!Idle] \/ errand' = [errand EXCEPT ![r].at = "prefs"]
    BY <1>t, <1>3 DEF N!EmitSummary, N!tables, N!Return, N!Goto, Tally
  <2>4. \A q \in Request : errand'[q].count \in {0, errand[q].count}
    BY <1>r, <1>0, <1>t, <2>3 DEF Errand
  <2>5. \A q \in Request : errand'[q].count <= sent BY <1>t, <2>4 DEF Tally
  <2>6. QED BY <2>2, <2>3, <2>5 DEF Tally
<1>4. CASE N!SkipSummary(r)
  <2>1. errand' = [errand EXCEPT ![r].at = "prefs"] BY <1>4 DEF N!SkipSummary, N!Goto
  <2>2. \A q \in Request : errand'[q].count \in {0, errand[q].count}
    BY <1>r, <1>t, <2>1 DEF Errand
  <2>3. QED BY <1>t, <1>1, <1>4, <2>2 DEF N!SkipSummary, N!tables, Tally
<1>5. CASE N!ReadPreferences(r) \/ N!ReadDevices(r) \/ N!Send(r) \/ N!Fail(r)
  <2>1. \/ errand' = [errand EXCEPT ![r] = N!Idle]
        \/ errand' = [errand EXCEPT ![r].at = "devices", ![r].stale = FALSE]
        \/ \E ds : errand' = [errand EXCEPT ![r].at = "send", ![r].devices = ds, ![r].moved = {}]
        \/ \E ds : errand' = [errand EXCEPT ![r].at = "clean", ![r].devices = ds]
    BY <1>5 DEF N!ReadPreferences, N!ReadDevices, N!Send, N!Fail, N!Return
  <2>2. \A q \in Request : errand'[q].count \in {0, errand[q].count}
    <3>1. ASSUME NEW e, errand' = [errand EXCEPT ![r] = e], e.count \in {0, errand[r].count}
          PROVE  \A q \in Request : errand'[q].count \in {0, errand[q].count}
      BY <1>t, <3>1
    <3>2. errand[r] \in Errand BY <1>r, <1>t
    <3>3. /\ [errand[r] EXCEPT !.at = "devices", !.stale = FALSE].count = errand[r].count
          /\ \A ds : [errand[r] EXCEPT !.at = "send", !.devices = ds, !.moved = {}].count
                       = errand[r].count
          /\ \A ds : [errand[r] EXCEPT !.at = "clean", !.devices = ds].count = errand[r].count
      BY <3>2 DEF Errand
    <3>4. \E e : errand' = [errand EXCEPT ![r] = e] /\ e.count \in {0, errand[r].count}
      <4>1. \/ errand' = [errand EXCEPT ![r] = N!Idle]
            \/ errand' = [errand EXCEPT ![r] = [errand[r] EXCEPT !.at = "devices", !.stale = FALSE]]
            \/ \E ds : errand' = [errand EXCEPT ![r] =
                         [errand[r] EXCEPT !.at = "send", !.devices = ds, !.moved = {}]]
            \/ \E ds : errand' = [errand EXCEPT ![r] =
                         [errand[r] EXCEPT !.at = "clean", !.devices = ds]]
        BY <1>r, <1>t, <2>1
      <4>2. QED BY <1>0, <3>3, <4>1
    <3>5. QED BY <3>1, <3>4
  <2>3. skewed' \subseteq User /\ UNCHANGED <<unread, seen, dead, badge, sent>>
    BY <1>t, <1>5 DEF N!ReadPreferences, N!ReadDevices, N!Send, N!Fail, N!tables, N!history, Tally
  <2>4. QED BY <1>1, <2>2, <2>3
<1>6. CASE N!RemoveUnknown(r) \/ N!Register(r)
  <2>1. /\ \E ds, u : N!Moves(r, ds, u)
        /\ UNCHANGED <<unread, seen, dead, badge, sent, skewed>>
    BY <1>6 DEF N!RemoveUnknown, N!Register, N!history
  <2>2. \A q \in Request : errand'[q].count \in {0, errand[q].count}
    BY <1>0, <1>t, <2>1 DEF N!Moves, Errand
  <2>3. QED BY <1>1, <2>1, <2>2 DEF Tally
<1>7. QED BY <1>2, <1>3, <1>4, <1>5, <1>6

LEMMA TalStep == ASSUME BoxIInv, BoxIInv', Tally, N!Next PROVE Tally'
<1>1. \A x \in Notes : unread[x] \in Nat /\ seen[x] \in Nat BY DEF BoxIInv, InboxTypes, Notes
<1>2. \A q \in Request : errand[q] \in Errand BY DEF BoxIInv, InboxTypes
<1>0. N!Idle.count = 0 BY DEF N!Idle
<1>3. ASSUME Serves, UNCHANGED <<unread, seen, badge, dead, skewed>>,
             \A q \in Request : errand'[q].count \in {0, errand[q].count}
      PROVE  Tally'
  <2>1. \A x \in Notes : unread'[x] + seen'[x] <= unread[x] + seen[x] + 1 BY <1>1, <1>3
  <2>2. QED BY <1>1, <1>3, <2>1, TalGoes DEF Tally
<1>4. ASSUME NEW r \in N!Arriving, NEW u \in User, NEW d \in Device,
             N!BeginRegister(r, u, d) \/ N!Unregister(r, u, d)
      PROVE  Tally'
  <2>1. r \in Request /\ errand[r] = N!Idle /\ Serves /\ UNCHANGED <<unread, seen, badge, dead, skewed>>
    BY <1>4 DEF N!Arriving, N!BeginRegister, N!Unregister, N!tables, N!history, Serves
  <2>2. CASE N!BeginRegister(r, u, d)
    <3>1. PICK l : errand' = [errand EXCEPT ![r] = [N!Starts({u}, None, l) EXCEPT !.devices = {d}]]
      BY <2>2 DEF N!BeginRegister
    <3>2. [N!Starts({u}, None, l) EXCEPT !.devices = {d}].count = 0 BY DEF N!Starts, N!Idle
    <3>3. errand \in [Request -> Errand] BY DEF BoxIInv, InboxTypes
    <3>4. \A q \in Request : errand'[q].count \in {0, errand[q].count} BY <3>1, <3>2, <3>3
    <3>5. QED BY <1>3, <2>1, <3>4
  <2>3. CASE N!Unregister(r, u, d)
    <3>1. \E ds, v : N!Moves(r, ds, v) BY <2>3 DEF N!Unregister
    <3>2. \A q \in Request : errand'[q].count \in {0, errand[q].count}
      BY <1>0, <1>2, <3>1 DEF N!Moves, Errand
    <3>3. QED BY <1>3, <2>1, <3>2
  <2>4. QED BY <1>4, <2>2, <2>3
<1>5. ASSUME NEW r \in N!Arriving, NEW u \in User, NEW p \in N!Preferences,
             N!SetPreferences(r, u, p)
      PROVE  Tally'
  <2>1. Serves /\ UNCHANGED <<unread, seen, badge, dead, skewed>>
    BY <1>5 DEF N!Arriving, N!SetPreferences, N!history, Serves
  <2>2. \A q \in Request : errand'[q].count \in {0, errand[q].count}
    <3>1. ASSUME NEW q \in Request PROVE errand'[q].count = errand[q].count
      <4>1. PICK b : errand'[q] = [errand[q] EXCEPT !.stale = b] BY <1>5 DEF N!SetPreferences
      <4>2. QED BY <1>2, <4>1 DEF Errand
    <3>2. QED BY <3>1
  <2>3. QED BY <1>3, <2>1, <2>2
<1>6. ASSUME NEW d \in Device, N!Uninstall(d) PROVE Tally'
  <2>1. dead' = dead \cup {d} /\ UNCHANGED <<unread, seen, badge, sent, errand, skewed>>
    BY <1>6 DEF N!Uninstall, N!history
  <2>2. QED BY <2>1 DEF Tally
<1>7. ASSUME NEW r \in N!Arriving PROVE r \in Request /\ sent < MaxSent
  BY DEF N!Arriving
<1>8. QED BY <1>4, <1>5, <1>6, <1>7, TalArrives, TalWorks DEF N!Next

\* Each request of the feed adds at most once: what has been added to a row and
\* what is at work are no more than were served.
Busy == {r \in Request : work[r].at # "idle"}
Added(n) == n + Cardinality(Busy) <= fed
Fed ==
  /\ fed \in 0..MaxFed /\ IsFiniteSet(Busy) /\ shares \in [Post -> Nat]
  /\ \A p \in Post : Added(shares[p])
  /\ \A x \in W!Liked \X User : Added(taps[x])
  /\ \A x \in User \X W!Reported : Added(open[x] + settled[x])
  /\ \A r \in Request : work[r].row <= fed

LEMMA FedInit == W!Init => Fed
<1> SUFFICES ASSUME W!Init PROVE Fed
  OBVIOUS
<1>1. fed \in 0..MaxFed /\ fed \in Nat BY ConstantsOK DEF W!Init
<1>2. Busy = {} /\ \A r \in Request : work[r].row = 0 BY DEF W!Init, W!Idle, Busy
<1>3. IsFiniteSet(Busy) /\ Cardinality(Busy) = 0 BY <1>2, FS_EmptySet
<1>4. /\ shares \in [Post -> Nat] /\ \A p \in Post : shares[p] = 0
      /\ \A x \in W!Liked \X User : taps[x] = 0
      /\ \A x \in User \X W!Reported : open[x] = 0 /\ settled[x] = 0
  BY DEF W!Init
<1>5. Added(0) BY <1>1, <1>3 DEF Added
<1>6. QED BY <1>1, <1>2, <1>3, <1>4, <1>5 DEF Fed

\* k more are added to a row, by requests that are done.
LEMMA FedAdds ==
  ASSUME PosIInv, PosIInv', Fed, NEW k \in {0, 1}, shares' \in [Post -> Nat],
         IsFiniteSet(Busy'), fed' \in 0..MaxFed, fed <= fed',
         Cardinality(Busy') + k + fed <= Cardinality(Busy) + fed',
         \A p \in Post : shares'[p] <= shares[p] + k,
         \A x \in W!Liked \X User : taps'[x] <= taps[x] + k,
         \A x \in User \X W!Reported : open'[x] + settled'[x] <= open[x] + settled[x] + k,
         \A r \in Request : work'[r].row <= fed'
  PROVE  Fed'
<1>1. /\ Cardinality(Busy) \in Nat /\ Cardinality(Busy') \in Nat /\ fed \in Nat /\ fed' \in Nat
  BY ConstantsOK, FS_CardinalityType DEF Fed
<1>2. ASSUME NEW m \in Nat, NEW n \in Nat, n <= m + k, Added(m) PROVE n + Cardinality(Busy') <= fed'
  BY <1>1, <1>2 DEF Added
<1>3. \A p \in Post : Added(shares[p])'
  BY <1>2 DEF Fed, Added
<1>4. \A x \in W!Liked \X User : Added(taps[x])'
  <2>1. \A x \in W!Liked \X User : taps[x] \in Nat /\ taps'[x] \in Nat
    BY DEF PosIInv, PostTypes, W!Liked
  <2>2. QED BY <1>2, <2>1 DEF Fed, Added
<1>5. \A x \in User \X W!Reported : Added(open[x] + settled[x])'
  <2> SUFFICES ASSUME NEW x \in User \X W!Reported
               PROVE  (open'[x] + settled'[x]) + Cardinality(Busy') <= fed'
    BY DEF Added, W!Reported
  <2>1. open[x] \in Nat /\ settled[x] \in Nat /\ open'[x] \in Nat /\ settled'[x] \in Nat
    BY DEF PosIInv, PostTypes, W!Reported
  <2>2. open[x] + settled[x] \in Nat /\ open'[x] + settled'[x] \in Nat BY <2>1
  <2>3. Added(open[x] + settled[x]) BY DEF Fed
  <2>4. QED BY <1>2, <2>2, <2>3
<1>6. QED BY <1>3, <1>4, <1>5 DEF Fed, W!Liked, W!Reported

\* A request begins, goes on, or is done.
LEMMA FedBegins ==
  ASSUME PosIInv, PosIInv', Fed, NEW r \in Request, Busy' \subseteq Busy \cup {r},
         fed < MaxFed, fed' = fed + 1, UNCHANGED <<shares, taps, open, settled>>,
         \A q \in Request : work'[q].row \in {0, work[q].row}
  PROVE  Fed'
<1>1. /\ fed \in Nat /\ fed' \in 0..MaxFed /\ fed <= fed'
  BY ConstantsOK DEF Fed
<1>2. IsFiniteSet(Busy \cup {r}) /\ Cardinality(Busy \cup {r}) <= Cardinality(Busy) + 1
  <2>1. IsFiniteSet(Busy) /\ Cardinality(Busy) \in Nat BY FS_CardinalityType DEF Fed
  <2>2. /\ IsFiniteSet(Busy \cup {r})
        /\ Cardinality(Busy \cup {r}) = IF r \in Busy THEN Cardinality(Busy) ELSE Cardinality(Busy) + 1
    BY <2>1, FS_AddElement
  <2>3. QED BY <2>1, <2>2
<1>3. IsFiniteSet(Busy') /\ Cardinality(Busy') <= Cardinality(Busy \cup {r})
  BY <1>2, FS_Subset
<1>4. Cardinality(Busy) \in Nat /\ Cardinality(Busy \cup {r}) \in Nat /\ Cardinality(Busy') \in Nat
  BY <1>2, <1>3, FS_CardinalityType DEF Fed
<1>5. Cardinality(Busy') + 0 + fed <= Cardinality(Busy) + fed' BY <1>1, <1>2, <1>3, <1>4
<1>6. \A q \in Request : work'[q].row <= fed'
  <2> SUFFICES ASSUME NEW q \in Request PROVE work'[q].row <= fed'
    OBVIOUS
  <2>1. work[q].row \in Nat BY DEF PosIInv, PostTypes, Work
  <2>2. QED BY <1>1, <2>1 DEF Fed
<1>7. /\ \A p \in Post : shares'[p] <= shares[p] + 0
      /\ \A x \in W!Liked \X User : taps'[x] <= taps[x] + 0
      /\ \A x \in User \X W!Reported : open'[x] + settled'[x] <= open[x] + settled[x] + 0
  BY DEF Fed, PosIInv, PostTypes
<1>8. shares' \in [Post -> Nat] BY DEF Fed
<1>9. QED BY <1>1, <1>3, <1>5, <1>6, <1>7, <1>8, FedAdds

LEMMA FedGoes ==
  ASSUME PosIInv, PosIInv', Fed, Busy' \subseteq Busy, fed' = fed, UNCHANGED <<shares, taps>>,
         \A x \in User \X W!Reported : open'[x] + settled'[x] = open[x] + settled[x],
         \A q \in Request : work'[q].row <= fed
  PROVE  Fed'
<1>1. fed \in Nat /\ fed' \in 0..MaxFed /\ fed <= fed'
  BY ConstantsOK DEF Fed
<1>2. IsFiniteSet(Busy') /\ Cardinality(Busy') <= Cardinality(Busy) BY FS_Subset DEF Fed
<1>3. Cardinality(Busy) \in Nat /\ Cardinality(Busy') \in Nat
  BY <1>2, FS_CardinalityType DEF Fed
<1>4. Cardinality(Busy') + 0 + fed <= Cardinality(Busy) + fed' BY <1>1, <1>2, <1>3
<1>5. /\ \A p \in Post : shares'[p] <= shares[p] + 0
      /\ \A x \in W!Liked \X User : taps'[x] <= taps[x] + 0
  BY DEF Fed, PosIInv, PostTypes
<1>6. \A x \in User \X W!Reported : open'[x] + settled'[x] <= open[x] + settled[x] + 0
  BY DEF PosIInv, PostTypes
<1>7. shares' \in [Post -> Nat] /\ \A q \in Request : work'[q].row <= fed' BY DEF Fed
<1>8. QED BY <1>1, <1>2, <1>4, <1>5, <1>6, <1>7, FedAdds

LEMMA FedEnds ==
  ASSUME PosIInv, PosIInv', Fed, NEW r \in Busy, Busy' \subseteq Busy \ {r}, fed' = fed,
         shares' \in [Post -> Nat],
         \A p \in Post : shares'[p] <= shares[p] + 1,
         \A x \in W!Liked \X User : taps'[x] <= taps[x] + 1,
         \A x \in User \X W!Reported : open'[x] + settled'[x] <= open[x] + settled[x] + 1,
         \A q \in Request : work'[q].row <= fed
  PROVE  Fed'
<1>1. fed \in Nat /\ fed' \in 0..MaxFed /\ fed <= fed'
  BY ConstantsOK DEF Fed
<1>2. IsFiniteSet(Busy \ {r}) /\ Cardinality(Busy \ {r}) = Cardinality(Busy) - 1
  BY FS_RemoveElement DEF Fed
<1>3. IsFiniteSet(Busy') /\ Cardinality(Busy') <= Cardinality(Busy \ {r})
  BY <1>2, FS_Subset
<1>4. Cardinality(Busy) \in Nat /\ Cardinality(Busy \ {r}) \in Nat /\ Cardinality(Busy') \in Nat
  BY <1>2, <1>3, FS_CardinalityType DEF Fed
<1>5. Cardinality(Busy') + 1 + fed <= Cardinality(Busy) + fed' BY <1>1, <1>2, <1>3, <1>4
<1>6. \A q \in Request : work'[q].row <= fed' OBVIOUS
<1>7. QED BY <1>1, <1>3, <1>5, <1>6, FedAdds

LEMMA FedMoves ==
  ASSUME PosIInv, PosIInv', Fed, NEW r \in Request, NEW w \in Work,
         work' = [work EXCEPT ![r] = w], w.row <= fed, w.at = "idle" \/ work[r].at # "idle",
         UNCHANGED <<fed, shares, taps, open, settled>>
  PROVE  Fed'
<1>1. \A q \in Request : work'[q] = IF q = r THEN w ELSE work[q]
  BY DEF PosIInv, PostTypes
<1>2. \A q \in Request : work'[q].row <= fed BY <1>1 DEF Fed
<1>3. Busy' \subseteq Busy BY <1>1 DEF Busy
<1>4. QED BY <1>2, <1>3, FedGoes

LEMMA FedReturns ==
  ASSUME PosIInv, PosIInv', Fed, NEW r \in Request, W!Return(r),
         UNCHANGED <<fed, shares, taps, open, settled>>
  PROVE  Fed'
<1>1. W!Idle \in Work /\ W!Idle.row = 0 /\ W!Idle.at = "idle" BY IdleFits DEF W!Idle
<1>2. 0 <= fed BY ConstantsOK DEF Fed
<1>3. QED BY <1>1, <1>2, FedMoves DEF W!Return

\* Who is done adds; the others go on where they are.
LEMMA FedCloses ==
  ASSUME PosIInv, PosIInv', Fed, NEW r \in Request, work[r].at # "idle",
         work'[r] = W!Idle,
         \A q \in Request \ {r} : work'[q].at = work[q].at /\ work'[q].row = work[q].row,
         fed' = fed, shares' \in [Post -> Nat],
         \A p \in Post : shares'[p] <= shares[p] + 1,
         \A x \in W!Liked \X User : taps'[x] <= taps[x] + 1,
         \A x \in User \X W!Reported : open'[x] + settled'[x] <= open[x] + settled[x] + 1
  PROVE  Fed'
<1>1. W!Idle.row = 0 /\ W!Idle.at = "idle" BY DEF W!Idle
<1>2. 0 <= fed BY ConstantsOK DEF Fed
<1>3. r \in Busy BY DEF Busy
<1>4. Busy' \subseteq Busy \ {r} BY <1>1 DEF Busy
<1>5. ASSUME NEW q \in Request PROVE work'[q].row <= fed
  <2>1. CASE q = r BY <1>1, <1>2, <2>1
  <2>2. CASE q # r BY <2>2 DEF Fed
  <2>3. QED BY <2>1, <2>2
<1>6. QED BY <1>3, <1>4, <1>5, FedEnds

\* What is at work when blocks, removals and reports come goes on where it is.
LEMMA FedStays ==
  ASSUME PosIInv, PosIInv', Fed,
         \A q \in Request : work'[q].at = work[q].at /\ work'[q].row = work[q].row,
         UNCHANGED <<fed, shares, taps>>,
         \A x \in User \X W!Reported : open'[x] + settled'[x] = open[x] + settled[x]
  PROVE  Fed'
<1>1. Busy' \subseteq Busy BY DEF Busy
<1>2. \A q \in Request : work'[q].row <= fed BY DEF Fed
<1>3. QED BY <1>1, <1>2, FedGoes

LEMMA FedArrives ==
  ASSUME PosIInv, PosIInv', Fed, NEW r \in W!Arriving,
         NEW u, NEW x, NEW s, NEW l, W!Begin(r, u, x, s, l)
  PROVE  Fed'
<1>1. /\ r \in Request /\ fed < MaxFed /\ fed' = fed + 1
      /\ UNCHANGED <<shares, taps, open, settled>>
  BY DEF W!Arriving, W!Begin, W!tables
<1>2. PICK w : w = [W!Idle EXCEPT !.at = l, !.who = u, !.on = x, !.for = s, !.todo = s]
  OBVIOUS
<1>3. w.row = 0 BY <1>2 DEF W!Idle
<1>4. work' = [work EXCEPT ![r] = w] BY <1>2 DEF W!Begin
<1>5. \A q \in Request : work'[q] = IF q = r THEN w ELSE work[q]
  BY <1>4 DEF PosIInv, PostTypes
<1>6. \A q \in Request : work'[q].row \in {0, work[q].row} BY <1>3, <1>5
<1>7. Busy' \subseteq Busy \cup {r} BY <1>5 DEF Busy
<1>8. QED BY <1>1, <1>6, <1>7, FedBegins

LEMMA FedReads ==
  ASSUME PosIInv, PosIInv', Fed, NEW r \in Request,
         \/ \E v \in User : W!TestTag(r, v) \/ W!Mention(r, v)
         \/ W!CreatePost(r) \/ W!FindLike(r) \/ W!FindParent(r) \/ W!TestReport(r)
         \/ W!ReadPage(r) \/ W!Fail(r)
  PROVE  Fed'
<1>1. work[r] \in Work /\ Fits(work[r]) /\ work[r].row <= fed BY DEF PosIInv, PostTypes, Fitting, Fed
<1>2. UNCHANGED <<fed, shares, taps, open, settled>>
  BY DEF W!TestTag, W!Mention, W!CreatePost, W!Publishes, W!FindLike, W!FindParent, W!TestReport,
         W!ReadPage, W!Fail, W!tables
<1>3. CASE W!Return(r) BY <1>2, <1>3, FedReturns
<1>4. CASE (\E v \in User : W!TestTag(r, v) \/ W!Mention(r, v)) /\ ~W!Return(r)
  <2>1. PICK v \in User : W!TestTag(r, v) \/ W!Mention(r, v) BY <1>4
  <2>2. work' = [work EXCEPT ![r] = [work[r] EXCEPT !.todo = @ \ {v}]] /\ work[r].at # "idle"
    BY <1>4, <2>1 DEF W!TestTag, W!Mention, W!At
  <2>3. PICK w \in Work : w = [work[r] EXCEPT !.todo = @ \ {v}]
    <3>1. work[r].todo \in SUBSET (User \cup Comment) BY <1>1 DEF Work
    <3>2. work[r].todo \ {v} \in SUBSET (User \cup Comment) BY <3>1
    <3>3. [work[r] EXCEPT !.todo = work[r].todo \ {v}] \in Work BY <1>1, <3>2 DEF Work
    <3>4. QED BY <3>3
  <2>4. w.row = work[r].row BY <1>1, <2>3 DEF Work
  <2>5. work' = [work EXCEPT ![r] = w] BY <2>2, <2>3
  <2>6. QED BY <1>1, <1>2, <2>2, <2>4, <2>5, FedMoves
<1>5. CASE W!CreatePost(r)
  <2>1. /\ work' = [work EXCEPT ![r] = IF work[r].for = {} THEN W!Idle
                                ELSE [work[r] EXCEPT !.at = "mention", !.todo = work[r].for]]
        /\ work[r].at = "tags"
    BY <1>5 DEF W!CreatePost, W!Publishes, W!At
  <2>2. CASE work[r].for = {} BY <1>2, <2>1, <2>2, FedReturns DEF W!Return
  <2>3. CASE work[r].for # {}
    <3>1. PICK w \in Work : w = [work[r] EXCEPT !.at = "mention", !.todo = work[r].for]
      BY <1>1 DEF Work, W!Label
    <3>2. w.row = work[r].row BY <1>1, <3>1 DEF Work
    <3>3. work' = [work EXCEPT ![r] = w] BY <2>1, <2>3, <3>1
    <3>4. QED BY <1>1, <1>2, <2>1, <3>2, <3>3, FedMoves
  <2>4. QED BY <2>2, <2>3
<1>6. CASE W!FindLike(r)
  <2>1. work[r].at = "find" BY <1>6 DEF W!FindLike, W!At
  <2>2. PICK x \in W!Liked \X User : x = <<work[r].on, work[r].who>>
    BY <1>1, <2>1 DEF Fits, About
  <2>3. like[x] \in {0, taps[x]} /\ like[x] \in Nat /\ taps[x] \in Nat
    BY DEF PosIInv, PostTypes, W!LikesAddUp
  <2>4. like[x] <= fed
    <3>1. taps[x] + Cardinality(Busy) <= fed BY DEF Fed, Added
    <3>2. Cardinality(Busy) \in Nat /\ fed \in Nat BY ConstantsOK, FS_CardinalityType DEF Fed
    <3>3. QED BY <2>3, <3>1, <3>2
  <2>5. PICK id \in Nat : id = like[x] BY <2>3
  <2>6. work' = [work EXCEPT ![r] = [work[r] EXCEPT !.row = id,
                                        !.at = IF id = 0 THEN "like" ELSE "unlike"]]
    BY <1>6, <2>2, <2>5 DEF W!FindLike
  <2>7. PICK l \in {"like", "unlike"} : l = IF id = 0 THEN "like" ELSE "unlike"
    OBVIOUS
  <2>8. PICK w \in Work : w = [work[r] EXCEPT !.row = id, !.at = l]
    <3>1. l \in W!Label BY DEF W!Label
    <3>2. [work[r] EXCEPT !.row = id, !.at = l] \in Work BY <1>1, <3>1 DEF Work
    <3>3. QED BY <3>2
  <2>9. w.row = id BY <1>1, <2>8 DEF Work
  <2>10. work' = [work EXCEPT ![r] = w] BY <2>6, <2>7, <2>8
  <2>11. w.row <= fed BY <2>4, <2>5, <2>9
  <2>12. QED BY <1>2, <2>1, <2>10, <2>11, FedMoves
<1>7. CASE W!FindParent(r) \/ W!TestReport(r)
  <2>1. PICK l \in W!Label : W!Goto(r, l) /\ work[r].at # "idle"
    BY <1>7, Zenon DEF W!FindParent, W!TestReport, W!At, W!Label
  <2>2. PICK w \in Work : w = [work[r] EXCEPT !.at = l]
    BY <1>1 DEF Work
  <2>3. w.row = work[r].row BY <1>1, <2>2 DEF Work
  <2>4. work' = [work EXCEPT ![r] = w] BY <2>1, <2>2 DEF W!Goto
  <2>5. QED BY <1>1, <1>2, <2>1, <2>3, <2>4, FedMoves
<1>8. CASE W!ReadPage(r) \/ W!Fail(r) BY <1>3, <1>8 DEF W!ReadPage, W!Fail
<1>9. QED BY <1>3, <1>4, <1>5, <1>6, <1>7, <1>8
LEMMA FedWrites ==
  ASSUME PosIInv, PosIInv', Fed, NEW r \in Request,
         W!Delete(r) \/ W!Like(r) \/ W!Unlike(r) \/ W!CreateComment(r) \/ W!Share(r)
  PROVE  Fed'
<1>1. work[r] \in Work /\ Fits(work[r]) BY DEF PosIInv, PostTypes, Fitting
<1>2. /\ \A p \in Post : shares[p] \in Nat
      /\ \A x \in W!Liked \X User : taps[x] \in Nat
      /\ \A x \in User \X W!Reported : open[x] \in Nat /\ settled[x] \in Nat
  BY DEF Fed, PosIInv, PostTypes
<1>3. CASE W!Delete(r)
  <2>1. /\ work' = [q \in Request |-> IF q = r THEN W!Idle
                ELSE [work[q] EXCEPT !.late = work[q].late \/ work[q].on = work[r].on]]
        /\ UNCHANGED <<fed, shares, open, settled, taps>>
        /\ work[r].at # "idle"
    BY <1>3 DEF W!Delete, W!At
  <2>2. ASSUME NEW q \in Request \ {r}
        PROVE  work'[q].at = work[q].at /\ work'[q].row = work[q].row
    <3>1. PICK b \in BOOLEAN : b = (work[q].late \/ work[q].on = work[r].on) OBVIOUS
    <3>2. PICK w : w = [work[q] EXCEPT !.late = b] OBVIOUS
    <3>3. work'[q] = w BY <2>1, <3>1, <3>2
    <3>4. work[q] \in Work BY DEF PosIInv, PostTypes
    <3>5. w.at = work[q].at /\ w.row = work[q].row BY <3>2, <3>4 DEF Work
    <3>6. QED BY <3>3, <3>5
  <2>3. work'[r] = W!Idle BY <2>1
  <2>4. /\ shares' \in [Post -> Nat] /\ \A p \in Post : shares'[p] <= shares[p] + 1
        /\ \A x \in W!Liked \X User : taps'[x] <= taps[x] + 1
        /\ \A x \in User \X W!Reported : open'[x] + settled'[x] <= open[x] + settled[x] + 1
    BY <1>2, <2>1 DEF Fed
  <2>5. QED BY <2>1, <2>2, <2>3, <2>4, FedCloses
<1>4. ASSUME W!Return(r), work[r].at # "idle", UNCHANGED <<fed, open, settled>>,
             shares' \in [Post -> Nat],
             \A p \in Post : shares'[p] <= shares[p] + 1,
             \A x \in W!Liked \X User : taps'[x] <= taps[x] + 1
      PROVE  Fed'
  <2>1. \A q \in Request : work'[q] = IF q = r THEN W!Idle ELSE work[q]
    BY <1>4 DEF W!Return, PosIInv, PostTypes
  <2>2. \A x \in User \X W!Reported : open'[x] + settled'[x] <= open[x] + settled[x] + 1
    BY <1>2, <1>4
  <2>3. QED BY <1>4, <2>1, <2>2, FedCloses
<1>5. CASE W!Like(r) \/ W!Unlike(r)
  <2>1. work[r].at \in {"like", "unlike"} BY <1>5 DEF W!Like, W!Unlike, W!At
  <2>2. PICK x \in W!Liked \X User : x = <<work[r].on, work[r].who>>
    BY <1>1, <2>1 DEF Fits, About
  <2>3. taps' = [taps EXCEPT ![x] = taps[x] + 1] /\ W!Return(r)
        /\ UNCHANGED <<fed, open, settled, shares>>
    BY <1>5, <2>2, Zenon DEF W!Like, W!Unlike, W!Toggles
  <2>4. taps \in [W!Liked \X User -> Nat] BY DEF PosIInv, PostTypes
  <2>5. \A y \in W!Liked \X User : taps'[y] <= taps[y] + 1
    BY <1>2, <2>3, <2>4
  <2>6. shares' \in [Post -> Nat] /\ \A p \in Post : shares'[p] <= shares[p] + 1
    BY <1>2, <2>3 DEF Fed
  <2>7. QED BY <1>4, <2>1, <2>3, <2>5, <2>6
<1>6. CASE W!CreateComment(r)
  <2>1. W!Return(r) /\ work[r].at # "idle" /\ UNCHANGED <<fed, open, settled, shares, taps>>
    BY <1>6 DEF W!CreateComment, W!At
  <2>2. /\ shares' \in [Post -> Nat] /\ \A p \in Post : shares'[p] <= shares[p] + 1
        /\ \A x \in W!Liked \X User : taps'[x] <= taps[x] + 1
    BY <1>2, <2>1 DEF Fed
  <2>3. QED BY <1>4, <2>1, <2>2
<1>7. CASE W!Share(r)
  <2>1. W!Return(r) /\ work[r].at = "share" /\ UNCHANGED <<fed, open, settled, taps>>
        /\ shares' = [shares EXCEPT ![work[r].on] = @ + 1]
    BY <1>7 DEF W!Share, W!At
  <2>2. work[r].on \in Post BY <1>1, <2>1 DEF Fits, About
  <2>3. /\ shares' \in [Post -> Nat] /\ \A p \in Post : shares'[p] <= shares[p] + 1
        /\ \A x \in W!Liked \X User : taps'[x] <= taps[x] + 1
    BY <1>2, <2>1, <2>2 DEF Fed
  <2>4. QED BY <1>4, <2>1, <2>3
<1>8. QED BY <1>3, <1>5, <1>6, <1>7

\* Beating a request leaves it where it is.
LEMMA BeatenStays ==
  ASSUME PosIInv, NEW q \in Request, NEW x
  PROVE  W!Beaten(q, x).at = work[q].at /\ W!Beaten(q, x).row = work[q].row
<1>1. work[q] \in Work BY DEF PosIInv, PostTypes
<1>2. PICK b \in BOOLEAN :
        b = (work[q].late \/ (work[q].at = "report" /\ <<work[q].who, work[q].on>> = x))
  OBVIOUS
<1>3. W!Beaten(q, x) = [work[q] EXCEPT !.late = b]
  BY <1>2 DEF W!Beaten, W!At
<1>4. PICK w : w = [work[q] EXCEPT !.late = b] OBVIOUS
<1>5. w.at = work[q].at /\ w.row = work[q].row BY <1>1, <1>4 DEF Work
<1>6. QED BY <1>3, <1>4, <1>5

LEMMA FedReports ==
  ASSUME PosIInv, PosIInv', Fed, NEW r \in Request, W!CreateReport(r) PROVE Fed'
<1>1. work[r] \in Work /\ Fits(work[r]) /\ work[r].at = "report"
  BY DEF PosIInv, PostTypes, Fitting, W!CreateReport, W!At
<1>2. PICK x \in User \X W!Reported : x = <<work[r].who, work[r].on>>
  BY <1>1 DEF Fits, About
<1>3. /\ open' = [open EXCEPT ![x] = open[x] + 1]
      /\ work' = [q \in Request |-> IF q = r THEN W!Idle ELSE W!Beaten(q, x)]
      /\ UNCHANGED <<settled, taps, shares, fed>>
  BY <1>2 DEF W!CreateReport
<1>4. /\ open \in [User \X W!Reported -> Nat] /\ settled \in [User \X W!Reported -> Nat]
      /\ taps \in [W!Liked \X User -> Nat]
  BY DEF PosIInv, PostTypes
<1>5. \A y \in User \X W!Reported : open'[y] + settled'[y] <= open[y] + settled[y] + 1
  <2>1. \A y \in User \X W!Reported : open'[y] <= open[y] + 1 /\ open'[y] \in Nat
    BY <1>3, <1>4
  <2>2. QED BY <1>3, <1>4, <2>1
<1>6. work'[r] = W!Idle BY <1>3
<1>7. \A q \in Request \ {r} : work'[q].at = work[q].at /\ work'[q].row = work[q].row
  BY <1>3, BeatenStays
<1>8. /\ shares' \in [Post -> Nat] /\ \A p \in Post : shares'[p] <= shares[p] + 1
      /\ \A y \in W!Liked \X User : taps'[y] <= taps[y] + 1
  BY <1>3, <1>4 DEF Fed
<1>9. QED BY <1>1, <1>3, <1>5, <1>6, <1>7, <1>8, FedCloses

LEMMA FedSettles ==
  ASSUME PosIInv, PosIInv', Fed, NEW x \in DOMAIN open, W!Settle(x) \/ W!Reopen(x) PROVE Fed'
<1>1. /\ open \in [User \X W!Reported -> Nat] /\ settled \in [User \X W!Reported -> Nat]
      /\ x \in User \X W!Reported
  BY DEF PosIInv, PostTypes
<1>2. PICK d \in {1, -1} : /\ open' = [open EXCEPT ![x] = open[x] + d]
                           /\ settled' = [settled EXCEPT ![x] = settled[x] - d]
  <2>1. CASE W!Settle(x)
    <3>1. open' = [open EXCEPT ![x] = open[x] - 1] /\ settled' = [settled EXCEPT ![x] = settled[x] + 1]
      BY <2>1 DEF W!Settle
    <3>2. open[x] - 1 = open[x] + (-1) /\ settled[x] + 1 = settled[x] - (-1) BY <1>1
    <3>3. QED BY <3>1, <3>2
  <2>2. CASE W!Reopen(x)
    <3>1. open' = [open EXCEPT ![x] = open[x] + 1] /\ settled' = [settled EXCEPT ![x] = settled[x] - 1]
      BY <2>2 DEF W!Reopen
    <3>2. QED BY <3>1
  <2>3. QED BY <2>1, <2>2
<1>3. \A y \in User \X W!Reported : open'[y] + settled'[y] = open[y] + settled[y]
  BY <1>1, <1>2
<1>4. UNCHANGED <<fed, shares, taps>>
      /\ \/ work' = work
         \/ work' = [q \in Request |-> W!Beaten(q, x)]
  BY DEF W!Settle, W!Reopen
<1>5. \A q \in Request : work'[q].at = work[q].at /\ work'[q].row = work[q].row
  BY <1>4, BeatenStays
<1>6. QED BY <1>3, <1>4, <1>5, FedStays

LEMMA FedParted ==
  ASSUME PosIInv, PosIInv', Fed, work' = W!Parted(friends', blocks'),
         UNCHANGED <<fed, shares, taps, open, settled>>
  PROVE  Fed'
<1>1. ASSUME NEW q \in Request PROVE work'[q].at = work[q].at /\ work'[q].row = work[q].row
  <2>1. PICK s : work'[q] = [work[q] EXCEPT !.since = s] BY DEF W!Parted
  <2>2. work[q] \in Work BY DEF PosIInv, PostTypes
  <2>3. PICK w : w = [work[q] EXCEPT !.since = s] OBVIOUS
  <2>4. w.at = work[q].at /\ w.row = work[q].row BY <2>2, <2>3 DEF Work
  <2>5. QED BY <2>1, <2>3, <2>4
<1>2. \A x \in User \X W!Reported : open'[x] + settled'[x] = open[x] + settled[x] OBVIOUS
<1>3. QED BY <1>1, <1>2, FedStays

LEMMA FedStep == ASSUME PosIInv, PosIInv', Fed, W!Next PROVE Fed'
<1>1. \A r \in W!Working : r \in Request BY DEF W!Working
<1>2. ASSUME NEW r \in W!Arriving, NEW u \in User,
             \/ \E tags \in SUBSET User : W!BeginPost(r, u, tags)
             \/ \E p \in Post : \/ W!BeginDelete(r, u, p) \/ W!BeginShare(r, u, p)
                                \/ \E c \in Comment \cup {None} : W!BeginComment(r, u, p, c)
             \/ \E x \in W!Liked : W!BeginLike(r, u, x)
             \/ W!BeginPage(r, u)
             \/ \E x \in W!Reported : W!BeginReport(r, u, x)
      PROVE  Fed'
  <2>1. \E x, s, l : W!Begin(r, u, x, s, l)
    BY <1>2, ZenonT(30) DEF W!BeginPost, W!BeginDelete, W!BeginShare, W!BeginComment, W!BeginLike,
       W!BeginPage, W!BeginReport
  <2>2. QED BY <2>1, FedArrives
<1>3. ASSUME NEW r \in W!Working,
             \/ \E v \in User : W!TestTag(r, v) \/ W!Mention(r, v)
             \/ W!CreatePost(r) \/ W!Delete(r) \/ W!FindLike(r) \/ W!Like(r) \/ W!Unlike(r)
             \/ W!FindParent(r) \/ W!CreateComment(r) \/ W!Share(r) \/ W!ReadPage(r)
             \/ W!TestReport(r) \/ W!CreateReport(r) \/ W!Fail(r)
      PROVE  Fed'
  BY <1>1, <1>3, FedReads, FedWrites, FedReports
<1>4. QED BY <1>2, <1>3, FedSettles DEF W!Next

-----------------------------------------------------------------------------
(* The types of the whole *)

FigIInv ==
  /\ FriendTypes /\ SharedTypes /\ RoomTypes
  /\ ArrivedTypes /\ Tally /\ Fed
TypeIInv ==
  /\ IInv /\ PosIInv /\ PreIInv /\ BoxIInv /\ ChaIInv /\ SenIInv
  /\ AccIInv /\ EraIInv /\ FigIInv

LEMMA FriendTypesStand == IInv /\ FriendTypes /\ SharedTypes => F!TypeOK
BY DEF IInv, Types, FriendTypes, SharedTypes, F!TypeOK

LEMMA RoomTypesStand == ChaIInv /\ RoomTypes /\ SharedTypes /\ SenIInv => C!TypeOK
<1> SUFFICES ASSUME ChaIInv, RoomTypes, SharedTypes, SenIInv PROVE C!TypeOK
  OBVIOUS
<1>1. /\ lastRead \in [Room -> [User -> Nat]] /\ log \in Seq(Line) /\ Len(log) <= MaxMessages
      /\ \A x \in Room, u \in User : lastRead[x][u] <= Len(log)
  BY DEF ChaIInv, ChatTypes
<1>2. lastRead \in [Room -> [User -> 0..MaxMessages]]
  <2>1. Len(log) \in Nat BY <1>1, LenProperties
  <2>2. \A x \in Room, u \in User : lastRead[x][u] \in 0..MaxMessages
    BY <1>1, <2>1, ConstantsOK
  <2>3. \A x \in Room : lastRead[x] \in [User -> 0..MaxMessages] BY <1>1, <2>2
  <2>4. QED BY <1>1, <2>3
<1>3. QED BY <1>1, <1>2 DEF ChaIInv, ChatTypes, RoomTypes, SharedTypes, SenIInv, C!TypeOK

LEMMA SocketTypesStand == PreIInv /\ ArrivedTypes => P!TypeOK
<1> SUFFICES ASSUME PreIInv, ArrivedTypes PROVE P!TypeOK
  OBVIOUS
<1>1. version \in Nat /\ MaxVersion \in Nat /\ version <= MaxVersion
  BY ConstantsOK DEF ArrivedTypes
<1>2. 0..version \subseteq 0..MaxVersion BY <1>1
<1>3. signed \in [Socket -> 0..MaxVersion] /\ revoking \in 0..MaxVersion
  BY <1>2 DEF PreIInv, SocketTypes, ArrivedTypes
<1>4. QED BY <1>3 DEF PreIInv, SocketTypes, ArrivedTypes, P!TypeOK

LEMMA FeedTypesStand == PosIInv /\ Fed => W!TypeOK
<1> SUFFICES ASSUME PosIInv, Fed PROVE W!TypeOK
  OBVIOUS
<1>1. /\ fed \in Nat /\ MaxFed \in Nat /\ fed <= MaxFed /\ Cardinality(Busy) \in Nat
  BY ConstantsOK, FS_CardinalityType DEF Fed
<1>2. ASSUME NEW n \in Nat, Added(n) PROVE n \in 0..MaxFed
  BY <1>1, <1>2 DEF Added
<1>3. shares \in [Post -> 0..MaxFed]
  <2>1. shares \in [Post -> Nat] /\ \A p \in Post : shares[p] \in 0..MaxFed BY <1>2 DEF Fed
  <2>2. QED BY <2>1
<1>4. taps \in [W!Liked \X User -> 0..MaxFed] /\ like \in [W!Liked \X User -> 0..MaxFed]
  <2>1. taps \in [W!Liked \X User -> Nat] /\ like \in [W!Liked \X User -> Nat]
    BY DEF PosIInv, PostTypes
  <2>2. \A x \in W!Liked \X User : taps[x] \in 0..MaxFed BY <1>2, <2>1 DEF Fed
  <2>3. \A x \in W!Liked \X User : like[x] \in {0, taps[x]} BY <2>1 DEF PosIInv, W!LikesAddUp
  <2>4. \A x \in W!Liked \X User : like[x] \in 0..MaxFed BY <1>1, <2>2, <2>3
  <2>5. QED BY <2>1, <2>2, <2>4
<1>5. /\ open \in [User \X W!Reported -> 0..MaxFed]
      /\ settled \in [User \X W!Reported -> 0..MaxFed]
  <2>1. open \in [User \X W!Reported -> Nat] /\ settled \in [User \X W!Reported -> Nat]
    BY DEF PosIInv, PostTypes
  <2>2. ASSUME NEW x \in User \X W!Reported PROVE open[x] \in 0..MaxFed /\ settled[x] \in 0..MaxFed
    <3>1. open[x] \in Nat /\ settled[x] \in Nat /\ open[x] + settled[x] \in Nat BY <2>1
    <3>2. open[x] + settled[x] \in 0..MaxFed BY <1>2, <3>1 DEF Fed
    <3>3. QED BY <1>1, <3>1, <3>2
  <2>3. QED BY <2>1, <2>2
<1>6. work \in [Request -> [at : W!Label, who : User \cup {None},
                            on : W!Reported \cup Comment \cup {None},
                            for : SUBSET (User \cup Comment), todo : SUBSET (User \cup Comment),
                            row : 0..MaxFed, since : SUBSET User, late : BOOLEAN]]
  <2>1. work \in [Request -> Work] BY DEF PosIInv, PostTypes
  <2>2. \A r \in Request : work[r].row \in 0..MaxFed
    <3>1. \A r \in Request : work[r].row \in Nat /\ work[r].row <= fed BY <2>1 DEF Work, Fed
    <3>2. QED BY <1>1, <3>1
  <2>3. QED BY <2>1, <2>2 DEF Work
<1>7. fed \in 0..MaxFed BY DEF Fed
<1>8. QED BY <1>3, <1>4, <1>5, <1>6, <1>7
          DEF PosIInv, PostTypes, PostRow, CommentRow, W!TypeOK

LEMMA InboxTypesStand == BoxIInv /\ Tally => N!TypeOK
<1> SUFFICES ASSUME BoxIInv, Tally PROVE N!TypeOK
  OBVIOUS
<1>1. sent \in Nat /\ MaxSent \in Nat /\ sent <= MaxSent /\ sent \in 0..MaxSent
  BY ConstantsOK DEF Tally
<1>2. unread \in [User \X N!Kind -> 0..MaxSent] /\ seen \in [User \X N!Kind -> 0..MaxSent]
  <2>1. unread \in [User \X N!Kind -> Nat] /\ seen \in [User \X N!Kind -> Nat]
    BY DEF BoxIInv, InboxTypes
  <2>2. \A x \in User \X N!Kind : unread[x] \in 0..MaxSent /\ seen[x] \in 0..MaxSent
    BY <1>1, <2>1 DEF Tally, Notes
  <2>3. QED BY <2>1, <2>2
<1>3. badge \in [User -> 0..MaxSent]
  <2>1. badge \in [User -> Nat] BY DEF BoxIInv, InboxTypes
  <2>2. \A u \in User : badge[u] \in 0..MaxSent BY <1>1, <2>1 DEF Tally
  <2>3. QED BY <2>1, <2>2
<1>4. errand \in [Request -> [at : N!Label, to : SUBSET User, kind : N!Kind \cup {None},
                              count : 0..MaxSent, devices : SUBSET Device,
                              stale : BOOLEAN, moved : SUBSET Device]]
  <2>1. errand \in [Request -> Errand] BY DEF BoxIInv, InboxTypes
  <2>2. \A r \in Request : errand[r].count \in 0..MaxSent
    <3>1. \A r \in Request : errand[r].count \in Nat /\ errand[r].count <= sent
      BY <2>1 DEF Errand, Tally
    <3>2. QED BY <1>1, <3>1
  <2>3. QED BY <2>1, <2>2 DEF Errand
<1>5. QED BY <1>1, <1>2, <1>3, <1>4 DEF BoxIInv, InboxTypes, Tally, N!TypeOK

LEMMA TypesStand == TypeIInv => TypeOK
BY FriendTypesStand, RoomTypesStand, SocketTypesStand, FeedTypesStand, InboxTypesStand,
   AccStands, EraStands
   DEF TypeIInv, FigIInv, TypeOK

LEMMA TypeInit == Init => TypeIInv
<1> SUFFICES ASSUME Init PROVE TypeIInv
  OBVIOUS
<1>1. C!Init /\ P!Init /\ W!Init /\ N!Init BY DEF Init
<1>2. FigIInv BY <1>1, FriInit, RooInit, ArrInit, TalInit, FedInit DEF FigIInv
<1>3. QED BY <1>1, <1>2, InitIInv, InitRest, InitAccounts, SenInit DEF TypeIInv

LEMMA StepFriendTypes ==
  IInv /\ ChaIInv /\ FriendTypes /\ SharedTypes /\ RoomTypes /\ [Next]_vars =>
    FriendTypes' /\ SharedTypes' /\ RoomTypes'
<1> SUFFICES ASSUME IInv, ChaIInv, FriendTypes, SharedTypes, RoomTypes, [Next]_vars
             PROVE  FriendTypes' /\ SharedTypes' /\ RoomTypes'
  OBVIOUS
<1>1. UNCHANGED <<ties, friendly>> => FriendTypes'
  BY DEF ties, friendly, FriendTypes
<1>2. UNCHANGED chatty => RoomTypes' BY DEF chatty, RoomTypes
<1>3. CASE FriendsStep
  BY <1>2, <1>3, FriStep DEF FriendsStep
<1>4. CASE ChatStep
  <2>1. UNCHANGED <<friends, blocks, friendly>>
    BY <1>4, ChatReads DEF ChatStep
  <2>2. FriendTypes' BY <2>1 DEF friendly, FriendTypes
  <2>3. QED BY <1>4, <2>2, RooStep DEF ChatStep
<1>5. CASE UNCHANGED social
  BY <1>1, <1>2, <1>5 DEF social, rooms, SharedTypes
<1>6. QED
  BY <1>3, <1>4, <1>5 DEF Next, FeedStep, PresenceStep, InboxStep, AccountsStep, ErasureStep,
                          vars, social

LEMMA StepFigures ==
  /\ PosIInv /\ PosIInv' /\ PreIInv /\ BoxIInv /\ BoxIInv'
  /\ ArrivedTypes /\ Tally /\ Fed /\ [Next]_vars
  => ArrivedTypes' /\ Tally' /\ Fed'
<1> SUFFICES ASSUME PosIInv, PosIInv', PreIInv, BoxIInv, BoxIInv', ArrivedTypes, Tally, Fed, [Next]_vars
             PROVE  ArrivedTypes' /\ Tally' /\ Fed'
  OBVIOUS
<1>1. UNCHANGED present => ArrivedTypes' BY DEF present, ArrivedTypes
<1>2. UNCHANGED inbox => Tally' BY DEF inbox, Tally
<1>3. UNCHANGED <<written, work>> => Fed' BY DEF written, Fed, Busy, Added, W!Liked, W!Reported
<1>4. CASE FeedStep BY <1>1, <1>2, <1>4, FedStep DEF FeedStep
<1>5. CASE FriendsStep BY <1>1, <1>2, <1>5, FedParted DEF FriendsStep, written
<1>6. CASE PresenceStep BY <1>2, <1>3, <1>6, ArrStep DEF PresenceStep
<1>7. CASE InboxStep BY <1>1, <1>3, <1>7, TalStep DEF InboxStep
<1>8. CASE UNCHANGED <<present, inbox, written, work>> BY <1>1, <1>2, <1>3, <1>8
<1>9. QED
  BY <1>4, <1>5, <1>6, <1>7, <1>8 DEF Next, ChatStep, AccountsStep, ErasureStep, vars

LEMMA TypeStep == TypeIInv /\ [Next]_vars => TypeIInv'
<1> SUFFICES ASSUME TypeIInv, [Next]_vars PROVE TypeIInv'
  OBVIOUS
<1>1. IInv' /\ PosIInv' /\ PreIInv' /\ BoxIInv' /\ ChaIInv'
  BY StepIInv, StepPosts, StepSockets, StepInbox, StepChat DEF TypeIInv
<1>2. SenIInv' /\ AccIInv' /\ EraIInv' BY StepTests, StepAccounts DEF TypeIInv
<1>3. FriendTypes' /\ SharedTypes' /\ RoomTypes' BY StepFriendTypes DEF TypeIInv, FigIInv
<1>4. ArrivedTypes' /\ Tally' /\ Fed' BY <1>1, StepFigures DEF TypeIInv, FigIInv
<1>5. QED BY <1>1, <1>2, <1>3, <1>4 DEF TypeIInv, FigIInv

\* Every table has its type, however requests overlap, and no figure outgrows
\* the requests that were served: a request adds to a row at most once, and a
\* like, a message read or a version seen is one that there was.
THEOREM TypeCorrect == Spec => []TypeOK
<1>1. Spec => []TypeIInv BY TypeInit, TypeStep, PTL DEF Spec
<1>2. QED BY <1>1, TypesStand, PTL
=============================================================================
