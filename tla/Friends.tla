------------------------------- MODULE Friends -------------------------------
(***************************************************************************)
(* Friend requests, friendships and blocks (friends.service.ts).           *)
(*                                                                         *)
(* Every handler tests what it reads, awaits, and writes later.  Accepting *)
(* and blocking write in one transaction; removing a friend does not.      *)
(* Removing and blocking then hide the direct rooms of the two, which are  *)
(* the chat's: room and hidden are shared with Chat.                       *)
(***************************************************************************)
EXTENDS Integers, FiniteSets

CONSTANTS
  User, Room,
  Request,     \* requests the server may be working on at once
  MaxServed,   \* bound: requests served in all
  None

VARIABLES
  request,    \* request[<<a, b>>] : status of the row sender a, receiver b
  friends,    \* friendships: sets of two users
  blocks,     \* <<initiator, target>>
  room,       \* room[x] : its kind and members
  hidden,     \* hidden[x] : the members who have it hidden
  served,     \* bound: requests so far
  pc,
  job,        \* job[r] : whose request r is, and the other user
  found,      \* found[r] : direct rooms r is going to hide
  both,       \* both[r] : it hides them from both
  acted,      \* history: <<a, b>> once a has asked b or accepted b
  overtaken,  \* history: r's two users were parted by a block during r
  stray       \* history: pairs for which an overtaken handler has written

database == <<request, friends, blocks>>
rooms == <<room, hidden>>
locals == <<job, found, both>>
history == <<acted, overtaken, stray>>
vars == <<database, rooms, served, pc, locals, history>>

Pair == {p \in SUBSET User : Cardinality(p) = 2}
Ordered == {p \in User \X User : p[1] # p[2]}
Status == {"NONE", "PENDING", "ACCEPTED", "REJECTED", "CANCELLED"}
Kind == {"NONE", "DIRECT", "GROUP"}
Label == {"idle", "testFriends", "findIncoming", "findRespond", "findExisting",
          "upsert", "respondAccept", "accept", "reject", "cancel",
          "removeRequests", "hideFind", "hideWrite"}

Who(r) == job[r][1]
Peer(r) == job[r][2]

Blocked(a, b) == <<a, b>> \in blocks \/ <<b, a>> \in blocks

\* What a user is shown: friends, who else has asked and waits for an answer,
\* who has been asked; and, on the friends' leaderboard, the same friends and
\* the user.
FriendsOf(u) == {v \in User : {u, v} \in friends}
PendingFor(u) == {v \in User \ {u} : request[<<v, u>>] = "PENDING"}
SentBy(u) == {v \in User \ {u} : request[<<u, v>>] = "PENDING"}
Board(u) == FriendsOf(u) \cup {u}

\* Rooms of exactly these two members.
Direct(a, b) == {x \in Room : room[x].kind = "DIRECT" /\ room[x].members = {a, b}}

-----------------------------------------------------------------------------

\* Some users have asked others, and some of these have accepted.
Init ==
  /\ blocks = {}
  /\ \E asked \in SUBSET Ordered : \E agreed \in SUBSET asked :
       /\ \A p \in asked : <<p[2], p[1]>> \notin asked
       /\ request = [p \in Ordered |->
            IF p \in agreed THEN "ACCEPTED" ELSE IF p \in asked THEN "PENDING" ELSE "NONE"]
       /\ friends = {{p[1], p[2]} : p \in agreed}
       /\ acted = asked \cup {<<p[2], p[1]>> : p \in agreed}
  /\ served \in 0..MaxServed
  /\ pc = [r \in Request |-> "idle"]
  /\ job = [r \in Request |-> None]
  /\ found = [r \in Request |-> {}]
  /\ both = [r \in Request |-> FALSE]
  /\ stray = {}
  /\ overtaken = [r \in Request |-> FALSE]

\* A request of u about another user v arrives and gets as far as label l.
Arrives(r, u, v, l) ==
  /\ pc[r] = "idle"
  /\ served < MaxServed /\ served' = served + 1
  /\ pc' = [pc EXCEPT ![r] = l]
  /\ job' = [job EXCEPT ![r] = <<u, v>>]
  /\ overtaken' = [overtaken EXCEPT ![r] = FALSE]
  /\ UNCHANGED <<rooms, found, acted>>

\* r goes on to l, or is done and forgets what it had read.
Goto(r, l) ==
  /\ pc' = [pc EXCEPT ![r] = l]
  /\ job' = IF l = "idle" THEN [job EXCEPT ![r] = None] ELSE job
  /\ overtaken' = IF l = "idle" THEN [overtaken EXCEPT ![r] = FALSE] ELSE overtaken
  /\ UNCHANGED served

AtStep(r, l) == pc[r] = l

\* sendRequest: isBlocked ...
SendTestBlock(r, u, v) ==
  /\ ~Blocked(u, v)
  /\ Arrives(r, u, v, "testFriends")
  /\ UNCHANGED <<database, both, stray>>

\* ... areFriends: then the answer is already-friends ...
SendTestFriends(r) ==
  /\ AtStep(r, "testFriends")
  /\ Goto(r, IF {Who(r), Peer(r)} \in friends THEN "idle" ELSE "findIncoming")
  /\ UNCHANGED <<database, rooms, found, both, acted, stray>>

\* ... the other one's request, which is accepted by respond ...
SendFindIncoming(r) ==
  /\ AtStep(r, "findIncoming")
  /\ Goto(r, IF request[<<Peer(r), Who(r)>>] = "PENDING"
             THEN "findRespond" ELSE "findExisting")
  /\ UNCHANGED <<database, rooms, found, both, acted, stray>>

\* ... the user's own, which is sent only once ...
SendFindExisting(r) ==
  /\ AtStep(r, "findExisting")
  /\ Goto(r, IF request[<<Who(r), Peer(r)>>] = "PENDING" THEN "idle" ELSE "upsert")
  /\ UNCHANGED <<database, rooms, found, both, acted, stray>>

\* ... and the upsert, whatever has happened to the row since.
SendUpsert(r) ==
  /\ AtStep(r, "upsert")
  /\ request' = [request EXCEPT ![<<Who(r), Peer(r)>>] = "PENDING"]
  /\ acted' = acted \cup {<<Who(r), Peer(r)>>}
  /\ stray' = IF overtaken[r] THEN stray \cup {{Who(r), Peer(r)}} ELSE stray
  /\ Goto(r, "idle")
  /\ UNCHANGED <<friends, blocks, rooms, found, both>>

\* respond: only the receiver, only a pending request.
RespondRead(r, u, v, l) ==
  /\ l \in {"accept", "reject"}
  /\ request[<<v, u>>] = "PENDING"
  /\ Arrives(r, u, v, l)
  /\ UNCHANGED <<database, both, stray>>

\* respond, called by sendRequest, reads the row again.
RespondAgain(r) ==
  /\ AtStep(r, "findRespond")
  /\ Goto(r, IF request[<<Peer(r), Who(r)>>] = "PENDING" THEN "accept" ELSE "idle")
  /\ UNCHANGED <<database, rooms, found, both, acted, stray>>

\* The transaction: the row by id, a pending crossed request, the friendship.
Accept(r) ==
  LET u == Who(r)
      v == Peer(r)
  IN
  /\ AtStep(r, "accept")
  /\ request' = [request EXCEPT
       ![<<v, u>>] = "ACCEPTED",
       ![<<u, v>>] = IF @ = "PENDING" THEN "ACCEPTED" ELSE @]
  /\ friends' = friends \cup {{u, v}}
  /\ acted' = acted \cup {<<u, v>>}
  /\ stray' = IF overtaken[r] THEN stray \cup {{u, v}} ELSE stray
  /\ Goto(r, "idle")
  /\ UNCHANGED <<blocks, rooms, found, both>>

Reject(r) ==
  /\ AtStep(r, "reject")
  /\ request' = [request EXCEPT ![<<Peer(r), Who(r)>>] = "REJECTED"]
  /\ Goto(r, "idle")
  /\ UNCHANGED <<friends, blocks, rooms, found, both, acted, stray>>

\* cancelRequest: only the sender, only a pending request.
CancelRead(r, u, v) ==
  /\ request[<<u, v>>] = "PENDING"
  /\ Arrives(r, u, v, "cancel")
  /\ UNCHANGED <<database, both, stray>>

Cancel(r) ==
  /\ AtStep(r, "cancel")
  /\ request' = [request EXCEPT ![<<Who(r), Peer(r)>>] = "CANCELLED"]
  /\ Goto(r, "idle")
  /\ UNCHANGED <<friends, blocks, rooms, found, both, acted, stray>>

\* Pending requests between u and v, either way, end as CANCELLED.
CancelledBetween(u, v) ==
  [p \in Ordered |-> IF p \in {<<u, v>>, <<v, u>>} /\ request[p] = "PENDING"
                     THEN "CANCELLED" ELSE request[p]]

\* removeFriend: three statements in no transaction, the last one hides.
RemoveFriendship(r, u, v) ==
  /\ {u, v} \in friends
  /\ Arrives(r, u, v, "removeRequests")
  /\ friends' = friends \ {{u, v}}
  /\ both' = [both EXCEPT ![r] = FALSE]
  /\ UNCHANGED <<request, blocks, stray>>

RemoveRequests(r) ==
  /\ AtStep(r, "removeRequests")
  /\ request' = CancelledBetween(Who(r), Peer(r))
  /\ Goto(r, "hideFind")
  /\ UNCHANGED <<friends, blocks, rooms, found, both, acted, stray>>

\* Mutant of Block: only the initiator's own requests are cancelled.
BlockOwnRequests(r, u, v) ==
  /\ pc[r] = "idle"
  /\ served < MaxServed /\ served' = served + 1
  /\ blocks' = blocks \cup {<<u, v>>}
  /\ friends' = friends \ {{u, v}}
  /\ request' = [request EXCEPT ![<<u, v>>] = IF @ = "PENDING" THEN "CANCELLED" ELSE @]
  /\ pc' = [pc EXCEPT ![r] = "hideFind"]
  /\ job' = [job EXCEPT ![r] = <<u, v>>]
  /\ both' = [both EXCEPT ![r] = TRUE]
  /\ overtaken' = [q \in Request |-> q # r /\
       (overtaken[q] \/ job[q] \in {<<u, v>>, <<v, u>>})]
  /\ stray' = stray \ {{u, v}}
  /\ UNCHANGED <<rooms, found, acted>>

\* block: one transaction.  Handlers already running for the two go on.
Block(r, u, v) ==
  /\ pc[r] = "idle"
  /\ served < MaxServed /\ served' = served + 1
  /\ blocks' = blocks \cup {<<u, v>>}
  /\ friends' = friends \ {{u, v}}
  /\ request' = CancelledBetween(u, v)
  /\ pc' = [pc EXCEPT ![r] = "hideFind"]
  /\ job' = [job EXCEPT ![r] = <<u, v>>]
  /\ both' = [both EXCEPT ![r] = TRUE]
  /\ overtaken' = [q \in Request |-> q # r /\
       (overtaken[q] \/ job[q] \in {<<u, v>>, <<v, u>>})]
  /\ stray' = stray \ {{u, v}}
  /\ UNCHANGED <<rooms, found, acted>>

\* hideDirectRoomsBetween: list the rooms of the two ...
HideFind(r) ==
  /\ AtStep(r, "hideFind")
  /\ found' = [found EXCEPT ![r] = Direct(Who(r), Peer(r))]
  /\ Goto(r, IF found'[r] = {} THEN "idle" ELSE "hideWrite")
  /\ UNCHANGED <<database, rooms, both, acted, stray>>

\* ... and hide them from the one who removed, or from both after a block.
HideWrite(r) ==
  LET from == IF both[r] THEN {Who(r), Peer(r)} ELSE {Who(r)} IN
  /\ AtStep(r, "hideWrite")
  /\ hidden' = [x \in Room |-> hidden[x] \cup IF x \in found[r] THEN from ELSE {}]
  /\ found' = [found EXCEPT ![r] = {}]
  /\ Goto(r, "idle")
  /\ UNCHANGED <<database, room, both, acted, stray>>

\* unblock takes back the user's own block only.
Unblock(u, v) ==
  /\ served < MaxServed /\ served' = served + 1
  /\ blocks' = blocks \ {<<u, v>>}
  /\ UNCHANGED <<request, friends, rooms, pc, locals, history>>

\* A query fails or the process dies: what was committed stays.
Fail(r) ==
  /\ pc[r] # "idle"
  /\ Goto(r, "idle")
  /\ found' = [found EXCEPT ![r] = {}]
  /\ UNCHANGED <<database, rooms, both, acted, stray>>

\* Requests that may arrive, while the bound allows, and those at work.
Arriving == {r \in Request : pc[r] = "idle" /\ served < MaxServed}
Working == {r \in Request : pc[r] # "idle"}

Next ==
  \/ \E r \in Arriving, u \in User : \E v \in User \ {u} :
       \/ SendTestBlock(r, u, v)
       \/ CancelRead(r, u, v)
       \/ \E l \in Label : RespondRead(r, u, v, l)
       \/ RemoveFriendship(r, u, v)
       \/ Block(r, u, v)
  \/ \E p \in blocks : Unblock(p[1], p[2])
  \/ \E r \in Working :
       \/ SendTestFriends(r) \/ SendFindIncoming(r) \/ SendFindExisting(r)
       \/ SendUpsert(r) \/ RespondAgain(r) \/ Accept(r) \/ Reject(r) \/ Cancel(r)
       \/ RemoveRequests(r) \/ HideFind(r) \/ HideWrite(r) \/ Fail(r)

Spec == Init /\ [][Next]_vars

-----------------------------------------------------------------------------

TypeOK ==
  /\ request \in [Ordered -> Status]
  /\ friends \subseteq Pair
  /\ blocks \subseteq Ordered
  /\ served \in 0..MaxServed
  /\ pc \in [Request -> Label]
  /\ job \in [Request -> Ordered \cup {None}]
  /\ found \in [Request -> SUBSET Room]
  /\ both \in [Request -> BOOLEAN]
  /\ acted \subseteq Ordered
  /\ overtaken \in [Request -> BOOLEAN]
  /\ stray \subseteq Pair

\* Nobody becomes a friend without having asked or accepted: a user who only
\* sends requests cannot accept them, in whatever order requests, answers,
\* cancellations and removals overlap (respond's test of the receiver, and the
\* crossed request that sendRequest accepts).
FriendsByConsent ==
  \A a, b \in User : {a, b} \in friends /\ a # b =>
    <<a, b>> \in acted /\ <<b, a>> \in acted

\* friends.service.ts never tests a block when a request is accepted or a list
\* is read.  Still what a user is shown names nobody across a block, unless a
\* handler that was already running when the block was committed has written a
\* request or a friendship: block takes away every row a later one starts from.
BlockSeparates ==
  \A u \in User : \A v \in (Board(u) \cup PendingFor(u) \cup SentBy(u)) \ {u} :
    Blocked(u, v) => {u, v} \in stray
=============================================================================
