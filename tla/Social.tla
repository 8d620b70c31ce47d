------------------------------- MODULE Social -------------------------------
(***************************************************************************)
(* Friends, chat, feed and presence of one server: Friends and Chat share  *)
(* the friendships, the blocks and the rooms with their hidden marks,      *)
(* which the feed reads; a revocation of sessions reaches the sockets;     *)
(* notifications, registrations and deletions of accounts run beside them, *)
(* on tables of their own.                                                 *)
(***************************************************************************)
EXTENDS Integers, FiniteSets, Sequences

CONSTANTS
  User, Room, Request, Socket, Post, Comment, Device, Email, Object,
  Birth, Today, \* birth dates given at registration, and the day it is
  MaxMessages,  \* bound: messages
  MaxVersion,   \* bound: revocations
  MaxServed,    \* bound: requests of Friends and Chat served in all
  MaxFed,       \* bound: requests of the feed
  MaxSent,      \* bound: requests about notifications and devices
  MaxApplied,   \* bound: registrations, codes and soft deletions
  MaxErased,    \* bound: uploads, uses of them and deletions of accounts
  MaxArrived,   \* bound: connections and revocations in all
  None

ASSUME ConstantsOK ==
  /\ MaxMessages \in Nat /\ MaxVersion \in Nat /\ MaxServed \in Nat /\ MaxArrived \in Nat
  /\ MaxFed \in Nat /\ MaxSent \in Nat /\ MaxApplied \in Nat /\ MaxErased \in Nat
  /\ None \notin User /\ None \notin Room /\ None \notin User \X User
  /\ None \notin Post /\ None \notin Comment /\ None \notin Email /\ None \notin Object
  /\ None \notin {"USER", "BAR"}
  /\ Birth \subseteq [y : Int, m : Int, d : Int] /\ Today \in [y : Int, m : Int, d : Int]

VARIABLES
  request, friends, blocks, room, hidden,
  fpc, job, found, both, acted, overtaken, stray,
  log, readers, reacted, lastRead,
  cpc, me, at, them, todo, parted, lost,
  version, flag, online, shake, leave, connected, joined, signed, revoking,
  healing, late, arrived,
  post, comment, like, shares, open, settled, fed, work, taps, doubled,
  unread, seen, badge, wants, owner, dead, sent, errand, skewed, holder,
  account, codes, bars, progress, applied, form, carried, overlapped,
  standing, object, presence, events, booked, erased, chore, left, after,
  served

ties == <<request, friends, blocks>>
rooms == <<room, hidden>>
friendly == <<fpc, job, found, both, acted, overtaken, stray>>
chatty == <<log, readers, reacted, lastRead, cpc, me, at, them, todo, lost>>
present == <<version, flag, online, shake, leave, connected, joined, signed,
             revoking, healing, late, arrived>>
written == <<post, comment, like, shares, open, settled, fed, taps, doubled>>
inbox == <<unread, seen, badge, wants, owner, dead, sent, errand, skewed, holder>>
registered == <<account, codes, bars, progress, applied, form, carried, overlapped>>
erasing == <<standing, object, presence, events, booked, erased, chore, left, after>>
vars == <<ties, rooms, friendly, chatty, parted, present, written, work, inbox, served,
          registered, erasing>>

F == INSTANCE Friends WITH pc <- fpc
C == INSTANCE Chat WITH pc <- cpc
P == INSTANCE Presence WITH overtaken <- late
W == INSTANCE Posts WITH served <- fed, MaxServed <- MaxFed
N == INSTANCE Inbox WITH served <- sent, MaxServed <- MaxSent
A == INSTANCE Accounts
E == INSTANCE Erasure

-----------------------------------------------------------------------------

Init == F!Init /\ C!Init /\ P!Init /\ W!Init /\ N!Init /\ A!Init /\ E!Init

\* Chat does not know that a block has come between two users it works for.
PartedBy(newBlocks) ==
  [r \in Request |-> parted[r] \/ \E v \in them[r] :
     \/ <<me[r], v>> \in newBlocks \ blocks
     \/ <<v, me[r]>> \in newBlocks \ blocks]

FriendsStep ==
  /\ F!Next
  /\ parted' = PartedBy(blocks') /\ work' = W!Parted(friends', blocks')
  /\ UNCHANGED <<chatty, present, written, inbox, registered, erasing>>

ChatStep ==
  /\ C!Next
  /\ UNCHANGED <<request, friendly, present, written, work, inbox, registered, erasing>>

\* The rest shares nothing that it writes.
social == <<ties, rooms, friendly, chatty, parted, served>>
FeedStep == W!Next /\ UNCHANGED <<social, present, inbox, registered, erasing>>
PresenceStep == P!Next /\ UNCHANGED <<social, written, work, inbox, registered, erasing>>
InboxStep == N!Next /\ UNCHANGED <<social, present, written, work, registered, erasing>>
AccountsStep == A!Next /\ UNCHANGED <<social, present, written, work, inbox, erasing>>
ErasureStep == E!Next /\ UNCHANGED <<social, present, written, work, inbox, registered>>

Next ==
  \/ FriendsStep \/ ChatStep \/ PresenceStep \/ FeedStep \/ InboxStep
  \/ AccountsStep \/ ErasureStep

Spec == Init /\ [][Next]_vars

-----------------------------------------------------------------------------

TypeOK == F!TypeOK /\ C!TypeOK /\ P!TypeOK /\ W!TypeOK /\ N!TypeOK /\ A!TypeOK /\ E!TypeOK

\* No friendship without both having asked or accepted, and only handlers
\* overtaken by a block leave one across it (Friends).
FriendshipsStand == F!FriendsByConsent /\ F!BlockSeparates

\* Counter and badge of unread messages agree (Chat), and so do the unread
\* notifications and the badge that was last sent (Inbox).
BadgesAgree == C!ReadLedgersAgree /\ N!BadgeAgrees

\* Who receives messages is online, and a revocation empties the user's room,
\* but for handshakes that had compared the version before (Presence).  Pushes
\* follow their users, and devices who registered them last (Inbox).
DevicesAgree ==
  P!LiveIsOnline /\ P!RevokedSocketsLeave /\ N!PushesFollow /\ N!DeviceFollows

\* Likes, threads and reports are what their requests add up to, in whatever
\* order these overlap (Posts).
PostsAddUp == W!LikesAddUp /\ W!ThreadsHold /\ W!ReportedOnce

\* Accounts have one code, come back with nothing of their former life and are
\* of age (Accounts), and leave nothing behind when they are deleted (Erasure),
\* but for requests that were overtaken.
AccountsStand == A!OneCode /\ A!FreshStart /\ A!OwnersHaveBars /\ E!Erased

\* Whatever friendships, rooms and requests are left or come back across a
\* block, no direct message is written across it, except by a request that had
\* tested for blocks before the block was committed (sendMessage); the same for
\* the pages of the feed and for who is tagged in a post (Posts), and for the
\* registration that takes an account over (Accounts).
TestsHold ==
  [][/\ \A n \in DOMAIN log' \ DOMAIN log : \A v \in C!Members(log'[n].room) \ {log'[n].by} :
          room[log'[n].room].kind = "DIRECT" /\ C!Blocked(log'[n].by, v) =>
            \E r \in Request : /\ cpc[r] = "insert" /\ me[r] = log'[n].by
                               /\ parted[r]
     /\ W!PageSilent /\ W!TagsFriends /\ W!GoneIsQuiet
     /\ A!AccountStands]_vars
=============================================================================
