-------------------------------- MODULE Chat --------------------------------
(***************************************************************************)
(* Chat rooms and messages (chat.service.ts).  friends and blocks belong   *)
(* to Friends and are only read here; room and hidden are shared with it.  *)
(* What a message says, replies and previews are left out: a reply only    *)
(* adds a test that refuses.  One emoji stands for all.                    *)
(*                                                                         *)
(* A message's number is its place in time: lastRead[x][u] = n says that   *)
(* last_read_at is later than message n and earlier than message n + 1.    *)
(***************************************************************************)
EXTENDS Integers, FiniteSets, Sequences

CONSTANTS
  User, Room,
  Request,      \* requests and socket events the server may be working on
  MaxMessages,  \* bound: messages
  MaxServed,    \* bound: requests served in all
  None

VARIABLES
  friends, blocks,  \* of Friends
  room,             \* room[x] : its kind and members, fixed once it exists
  hidden,           \* hidden[x] : the members who have it hidden
  log,              \* the messages, in the order of their creation
  readers,          \* readers[n] : users with a message_reads row for n
  reacted,          \* reacted[n] : users who have reacted to n
  lastRead,         \* lastRead[x][u] : chat_participants.last_read_at
  served,           \* bound: requests so far
  pc,
  me, at, them,     \* r's user, room and the other users it is about
  todo,             \* todo[r] : the messages r has still to mark
  parted,           \* history: r's user and peer were blocked during r
  lost              \* history: <<x, u>> whose marking as read died half way

messages == <<log, readers, reacted, lastRead>>
rooms == <<room, hidden>>
locals == <<me, at, them, todo>>
vars == <<friends, blocks, rooms, messages, served, pc, locals, parted, lost>>

Msg == 1..MaxMessages
Kind == {"NONE", "DIRECT", "GROUP"}
Label == {"idle", "openFriends", "openFind", "reopen", "openCreate", "groupTest",
          "groupCreate", "sendFriends", "insert", "unhide", "unreact", "react",
          "read", "scan", "readAll", "hide"}

NoRoom == [kind |-> "NONE", members |-> {}]

Blocked(a, b) == <<a, b>> \in blocks \/ <<b, a>> \in blocks
Members(x) == room[x].members
Groups == {m \in SUBSET User : Cardinality(m) > 1}
Unused == {x \in Room : room[x].kind = "NONE"}

\* What u has not read in x, by message_reads (pushSummary, messengerSummary) ...
Unread(x, u) ==
  {n \in DOMAIN log : log[n].room = x /\ log[n].by # u /\ u \notin readers[n]}

\* ... and by last_read_at (unreadCountForRoom).
UnreadSince(x, u) ==
  {n \in DOMAIN log : log[n].room = x /\ log[n].by # u /\ n > lastRead[x][u]}

\* The user's chat list, and what the client's counter adds up over it.
MyRooms(u) == {x \in Room : u \in Members(x) /\ u \notin hidden[x]}
RoomSummary(x, u) ==
  LET sent == {n \in DOMAIN log : log[n].room = x} IN
  [peer |-> IF room[x].kind = "DIRECT" THEN Members(x) \ {u} ELSE {},
   unread |-> UnreadSince(x, u),
   seen |-> \E n \in sent : (\A k \in sent : k <= n) /\ readers[n] \ {u} # {}]
Counted(u) == UNION {RoomSummary(x, u).unread : x \in MyRooms(u)}

-----------------------------------------------------------------------------

\* Who are or were friends may have a direct room, and groups may exist.
Init ==
  /\ room \in [Room -> {NoRoom} \cup [kind : {"DIRECT"}, members : {m \in Groups : Cardinality(m) = 2}]
                      \cup [kind : {"GROUP"}, members : Groups]]
  /\ hidden = [x \in Room |-> {}]
  /\ log = << >>
  /\ readers = [n \in Msg |-> {}] /\ reacted = [n \in Msg |-> {}]
  /\ lastRead = [x \in Room |-> [u \in User |-> 0]]
  /\ pc = [r \in Request |-> "idle"]
  /\ me = [r \in Request |-> None] /\ at = [r \in Request |-> None]
  /\ them = [r \in Request |-> {}] /\ todo = [r \in Request |-> {}]
  /\ parted = [r \in Request |-> FALSE]
  /\ lost = {}

Arrives(r, u, x, vs, ns, l) ==
  /\ pc[r] = "idle"
  /\ served < MaxServed /\ served' = served + 1
  /\ pc' = [pc EXCEPT ![r] = l]
  /\ me' = [me EXCEPT ![r] = u] /\ at' = [at EXCEPT ![r] = x]
  /\ them' = [them EXCEPT ![r] = vs] /\ todo' = [todo EXCEPT ![r] = ns]
  /\ UNCHANGED <<friends, blocks, rooms, messages, parted, lost>>

Goto(r, l) ==
  /\ pc' = [pc EXCEPT ![r] = l]
  /\ UNCHANGED <<friends, blocks, served, me, them>>

\* r answers and forgets what it had read.
Return(r) ==
  /\ pc' = [pc EXCEPT ![r] = "idle"]
  /\ me' = [me EXCEPT ![r] = None] /\ at' = [at EXCEPT ![r] = None]
  /\ them' = [them EXCEPT ![r] = {}] /\ todo' = [todo EXCEPT ![r] = {}]
  /\ parted' = [parted EXCEPT ![r] = FALSE]
  /\ UNCHANGED <<friends, blocks, served>>

AtStep(r, l) == pc[r] = l

\* getOrCreateRoom: areBlocked ...
OpenTestBlock(r, u, v) ==
  /\ u # v /\ ~Blocked(u, v)
  /\ Arrives(r, u, None, {v}, {}, "openFriends")

\* ... areFriends ...
OpenTestFriends(r) ==
  /\ AtStep(r, "openFriends")
  /\ {me[r]} \cup them[r] \in friends
  /\ Goto(r, "openFind")
  /\ UNCHANGED <<rooms, messages, at, todo, parted, lost>>

\* ... an existing direct room of the two, if there is one ...
OpenFind(r) ==
  LET existing == {x \in Room : /\ room[x].kind = "DIRECT"
                                /\ Members(x) = {me[r]} \cup them[r]} IN
  /\ AtStep(r, "openFind")
  /\ \/ existing = {} /\ Goto(r, "openCreate") /\ UNCHANGED at
     \/ \E x \in existing : Goto(r, "reopen") /\ at' = [at EXCEPT ![r] = x]
  /\ UNCHANGED <<rooms, messages, todo, parted, lost>>

\* ... is shown to the user again ...
Reopen(r) ==
  /\ AtStep(r, "reopen")
  /\ hidden' = [hidden EXCEPT ![at[r]] = @ \ {me[r]}]
  /\ Return(r)
  /\ UNCHANGED <<room, messages, lost>>

\* ... else one is created.  Two requests that both found none create two.
OpenCreate(r) ==
  /\ AtStep(r, "openCreate")
  /\ \E x \in Unused :
       room' = [room EXCEPT ![x] = [kind |-> "DIRECT", members |-> {me[r]} \cup them[r]]]
  /\ Return(r)
  /\ UNCHANGED <<hidden, messages, lost>>

\* createGroup: each chosen member is tested in turn (the two tests of one
\* member are one step: nothing said here depends on what falls between) ...
GroupStart(r, u, vs) ==
  /\ vs \ {u} # {}
  /\ Arrives(r, u, None, vs \ {u}, {}, "groupTest")

GroupTest(r) ==
  /\ AtStep(r, "groupTest")
  /\ \A v \in them[r] : ~Blocked(me[r], v) /\ {me[r], v} \in friends
  /\ Goto(r, "groupCreate")
  /\ UNCHANGED <<rooms, messages, at, todo, parted, lost>>

\* ... before the group is created.
GroupCreate(r) ==
  /\ AtStep(r, "groupCreate")
  /\ \E x \in Unused :
       room' = [room EXCEPT ![x] = [kind |-> "GROUP", members |-> {me[r]} \cup them[r]]]
  /\ Return(r)
  /\ UNCHANGED <<hidden, messages, lost>>

\* Mutant of SendTestBlock: only the sender's own block counts.
SendTestOwnBlock(r, u, x) ==
  /\ u \in Members(x)
  /\ \/ /\ room[x].kind = "DIRECT"
        /\ \A v \in Members(x) \ {u} : <<u, v>> \notin blocks
        /\ Arrives(r, u, x, Members(x) \ {u}, {}, "sendFriends")
     \/ /\ room[x].kind = "GROUP"
        /\ Arrives(r, u, x, Members(x) \ {u}, {}, "insert")

\* sendMessage: a participant; in a direct room not blocked, either way ...
SendTestBlock(r, u, x) ==
  /\ u \in Members(x)
  /\ \/ /\ room[x].kind = "DIRECT"
        /\ \A v \in Members(x) \ {u} : ~Blocked(u, v)
        /\ Arrives(r, u, x, Members(x) \ {u}, {}, "sendFriends")
     \/ /\ room[x].kind = "GROUP"
        /\ Arrives(r, u, x, Members(x) \ {u}, {}, "insert")

\* ... and friends ...
SendTestFriends(r) ==
  /\ AtStep(r, "sendFriends")
  /\ Members(at[r]) \in friends
  /\ Goto(r, "insert")
  /\ UNCHANGED <<rooms, messages, at, todo, parted, lost>>

\* ... the message is created ...
SendInsert(r) ==
  /\ AtStep(r, "insert")
  /\ Len(log) < MaxMessages
  /\ log' = Append(log, [room |-> at[r], by |-> me[r]])
  /\ Goto(r, "unhide")
  /\ UNCHANGED <<rooms, readers, reacted, lastRead, at, todo, parted, lost>>

\* ... and the others see the room again.
SendUnhide(r) ==
  /\ AtStep(r, "unhide")
  /\ hidden' = [hidden EXCEPT ![at[r]] = @ \cap {me[r]}]
  /\ Return(r)
  /\ UNCHANGED <<room, messages, lost>>

\* toggleReaction: find the user's own, then delete it or create it.
ReactFind(r, u, n) ==
  /\ n \in DOMAIN log /\ u \in Members(log[n].room)
  /\ Arrives(r, u, log[n].room, {}, {n}, IF u \in reacted[n] THEN "unreact" ELSE "react")

\* The delete of a row that is gone and the second create only fail.
ReactWrite(r) ==
  /\ pc[r] \in {"react", "unreact"}
  /\ reacted' = [n \in Msg |->
       IF n \notin todo[r] THEN reacted[n]
       ELSE IF pc[r] = "react" THEN reacted[n] \cup {me[r]} ELSE reacted[n] \ {me[r]}]
  /\ Return(r)
  /\ UNCHANGED <<rooms, log, readers, lastRead, lost>>

\* markRead: the room is the message's, never the client's.
MarkReadFind(r, u, n) ==
  /\ n \in DOMAIN log /\ u \in Members(log[n].room)
  /\ Arrives(r, u, log[n].room, {}, {n}, "read")

MarkRead(r) ==
  /\ AtStep(r, "read")
  /\ readers' = [n \in Msg |-> readers[n] \cup IF n \in todo[r] THEN {me[r]} ELSE {}]
  /\ Return(r)
  /\ UNCHANGED <<rooms, log, reacted, lastRead, lost>>

\* markRoomRead: last_read_at first ...
RoomReadStamp(r, u, x) ==
  /\ u \in Members(x)
  /\ pc[r] = "idle"
  /\ served < MaxServed /\ served' = served + 1
  /\ lastRead' = [lastRead EXCEPT ![x][u] = Len(log)]
  /\ pc' = [pc EXCEPT ![r] = "scan"]
  /\ me' = [me EXCEPT ![r] = u] /\ at' = [at EXCEPT ![r] = x]
  /\ UNCHANGED <<friends, blocks, rooms, log, readers, reacted, them, todo, parted, lost>>

\* ... then the messages without a read of this user ...
RoomReadScan(r) ==
  /\ AtStep(r, "scan")
  /\ todo' = [todo EXCEPT ![r] = Unread(at[r], me[r])]
  /\ lost' = lost \ {<<at[r], me[r]>>}
  /\ Goto(r, "readAll")
  /\ UNCHANGED <<rooms, messages, at, parted>>

\* ... each of them by a markRead of its own, in any order.
RoomReadNext(r) ==
  /\ AtStep(r, "readAll")
  /\ \E n \in todo[r] :
       /\ readers' = [readers EXCEPT ![n] = @ \cup {me[r]}]
       /\ todo' = [todo EXCEPT ![r] = @ \ {n}]
  /\ Goto(r, "readAll")
  /\ UNCHANGED <<rooms, log, reacted, lastRead, at, parted, lost>>

\* Mutant of RoomReadDone: last_read_at is written when all is marked.
RoomReadDoneStamping(r) ==
  /\ AtStep(r, "readAll") /\ todo[r] = {}
  /\ lastRead' = [lastRead EXCEPT ![at[r]][me[r]] = Len(log)]
  /\ Return(r)
  /\ UNCHANGED <<rooms, log, readers, reacted, lost>>

RoomReadDone(r) ==
  /\ AtStep(r, "readAll") /\ todo[r] = {}
  /\ Return(r)
  /\ UNCHANGED <<rooms, messages, lost>>

\* hideRoom: only for this user.
HideFind(r, u, x) ==
  /\ u \in Members(x)
  /\ Arrives(r, u, x, {}, {}, "hide")

HideWrite(r) ==
  /\ AtStep(r, "hide")
  /\ hidden' = [hidden EXCEPT ![at[r]] = @ \cup {me[r]}]
  /\ Return(r)
  /\ UNCHANGED <<room, messages, lost>>

\* A test refuses, a query fails or the process dies.
Fail(r) ==
  /\ pc[r] # "idle"
  /\ lost' = lost \cup IF pc[r] \in {"scan", "readAll"} THEN {<<at[r], me[r]>>} ELSE {}
  /\ Return(r)
  /\ UNCHANGED <<rooms, messages>>

\* Requests that may arrive, while the bound allows, and those at work.
Arriving == {r \in Request : pc[r] = "idle" /\ served < MaxServed}
Working == {r \in Request : pc[r] # "idle"}

Next ==
  \/ \E r \in Arriving, u \in User :
       \/ \E v \in User : OpenTestBlock(r, u, v)
       \/ \E vs \in SUBSET User : GroupStart(r, u, vs)
       \/ \E x \in Room : SendTestBlock(r, u, x) \/ RoomReadStamp(r, u, x) \/ HideFind(r, u, x)
       \/ \E n \in DOMAIN log : ReactFind(r, u, n) \/ MarkReadFind(r, u, n)
  \/ \E r \in Working :
       \/ OpenTestFriends(r) \/ OpenFind(r) \/ Reopen(r) \/ OpenCreate(r)
       \/ GroupTest(r) \/ GroupCreate(r)
       \/ SendTestFriends(r) \/ SendInsert(r) \/ SendUnhide(r)
       \/ ReactWrite(r) \/ MarkRead(r)
       \/ RoomReadScan(r) \/ RoomReadNext(r) \/ RoomReadDone(r)
       \/ HideWrite(r) \/ Fail(r)

-----------------------------------------------------------------------------

Message == [room : Room, by : User]

TypeOK ==
  /\ room \in [Room -> [kind : Kind, members : SUBSET User]]
  /\ hidden \in [Room -> SUBSET User]
  /\ log \in Seq(Message) /\ Len(log) <= MaxMessages
  /\ readers \in [Msg -> SUBSET User] /\ reacted \in [Msg -> SUBSET User]
  /\ lastRead \in [Room -> [User -> 0..MaxMessages]]
  /\ pc \in [Request -> Label]
  /\ me \in [Request -> User \cup {None}] /\ at \in [Request -> Room \cup {None}]
  /\ them \in [Request -> SUBSET User] /\ todo \in [Request -> SUBSET Msg]
  /\ parted \in [Request -> BOOLEAN]
  /\ lost \subseteq Room \X User

\* markRoomRead is about to write, or has yet to find, u's read of n.
Marking(n, u) ==
  \E r \in Request :
    /\ me[r] = u /\ at[r] = log[n].room
    /\ pc[r] = "scan" \/ (pc[r] = "readAll" /\ n \in todo[r])

\* The counter of the chat list and the badge count by different columns,
\* written in different statements of markRoomRead.  Whatever else arrives
\* meanwhile, what the badge counts the list shows too, unless the user has
\* hidden the room, once the request is done; if it died half way, the next one
\* repairs it.
ReadLedgersAgree ==
  \A x \in Room : \A u \in Members(x) : \A n \in Unread(x, u) \ Counted(u) :
    u \in hidden[x] \/ Marking(n, u) \/ <<x, u>> \in lost
=============================================================================
