------------------------------- MODULE Posts --------------------------------
(***************************************************************************)
(* The activity feed (feed.service.ts) and the reports of what is found in *)
(* it and in the chat (reports.service.ts).  Every handler reads, awaits   *)
(* and writes by id later; a deleted post keeps its row.  Friendships,     *)
(* blocks, rooms and messages are those of Friends and Chat and only read  *)
(* here.  The notifications these handlers end with are Inbox's.           *)
(***************************************************************************)
EXTENDS Integers, FiniteSets, Sequences

CONSTANTS
  User, Request,
  Post, Comment,
  MaxMessages,  \* bound: Chat's messages
  MaxServed,    \* bound: requests served in all
  None

VARIABLES
  friends, blocks, room, log,  \* of Friends and Chat
  post,       \* post[p] : author, who is tagged, deleted or not
  comment,    \* comment[c] : its post and the comment it answers
  like,       \* like[x, u] : id of u's like of x, or 0
  shares,     \* shares[p] : shareCount
  open,       \* open[u, x] : u's reports of x that are OPEN or REVIEWING
  settled,    \* settled[u, x] : those that are not
  served,
  work,       \* work[r] : what r does, for whom, and what it has read
  taps,       \* history: toggles of a like that were answered
  doubled     \* history: <<u, x>> reported or reopened though u had another
              \* report of x, made since the test

ties == <<friends, blocks, room, log>>
tables == <<post, comment, like, shares, open, settled>>
vars == <<ties, tables, served, work, taps, doubled>>

NoPost == [by |-> None, tagged |-> {}, gone |-> FALSE]
NoComment == [of |-> None, parent |-> None]
Liked == Post \cup Comment
Reported == User \cup Post \cup (1..MaxMessages)
Label == {"idle", "tags", "mention", "delete", "find", "like", "unlike", "parent", "comment",
          "share", "page", "test", "report"}
Idle == [at |-> "idle", who |-> None, on |-> None, for |-> {}, todo |-> {}, row |-> 0,
         since |-> {}, late |-> FALSE]

Written(p) == post[p] # NoPost
Shown(p) == Written(p) /\ ~post[p].gone
Blocked(u, v) == <<u, v>> \in blocks \/ <<v, u>> \in blocks

-----------------------------------------------------------------------------

\* Some posts have been written before, and comments on them.
Init ==
  /\ post \in [Post -> {NoPost} \cup [by : User, tagged : {{}}, gone : {FALSE}]]
  /\ comment \in [Comment -> {NoComment} \cup [of : {p \in Post : Written(p)}, parent : {None}]]
  /\ like = [x \in Liked \X User |-> 0] /\ shares = [p \in Post |-> 0]
  /\ open = [x \in User \X Reported |-> 0] /\ settled = open
  /\ served \in 0..MaxServed
  /\ work = [r \in Request |-> Idle]
  /\ taps = like /\ doubled = {}

\* A request of u about x arrives, reads, and goes on to l with the set s.
Begin(r, u, x, s, l) ==
  /\ served' = served + 1
  /\ work' = [work EXCEPT ![r] = [Idle EXCEPT !.at = l, !.who = u, !.on = x,
                                              !.for = s, !.todo = s]]
  /\ UNCHANGED <<ties, tables, taps, doubled>>

At(r, l) == work[r].at = l
Goto(r, l) == work' = [work EXCEPT ![r].at = l]
Return(r) == work' = [work EXCEPT ![r] = Idle]

\* Those at work when blocks and removals leave the friendships f and blocks b.
Parted(f, b) ==
  [r \in Request |-> [work[r] EXCEPT !.since = @ \cup {v \in User :
     \/ {work[r].who, v} \in friends \ f
     \/ {<<work[r].who, v>>, <<v, work[r].who>>} \cap (b \ blocks) # {}}]]

-----------------------------------------------------------------------------
(* createPost, and createSystemPostSafe, which tags nobody *)

BeginPost(r, u, tags) == u \notin tags /\ Begin(r, u, None, tags, "tags")

\* resolveTaggedFriendsMeta: one after the other.
TestTag(r, v) ==
  /\ At(r, "tags") /\ v \in work[r].todo
  /\ {work[r].who, v} \in friends
  /\ work' = [work EXCEPT ![r].todo = @ \ {v}]
  /\ UNCHANGED <<ties, tables, served, taps, doubled>>

Publishes(r) ==
  \E p \in Post :
    /\ ~Written(p)
    /\ post' = [post EXCEPT ![p] = [by |-> work[r].who, tagged |-> work[r].for, gone |-> FALSE]]
    /\ work' = [work EXCEPT ![r] = IF work[r].for = {} THEN Idle
                                   ELSE [@ EXCEPT !.at = "mention", !.todo = work[r].for]]
    /\ UNCHANGED <<ties, comment, like, shares, open, settled, served, taps, doubled>>

CreatePost(r) == At(r, "tags") /\ work[r].todo = {} /\ Publishes(r)

\* notifyFeedPostAudience; what fails here is not reported.
Mention(r, v) ==
  /\ At(r, "mention") /\ v \in work[r].todo
  /\ IF work[r].todo = {v} THEN Return(r) ELSE work' = [work EXCEPT ![r].todo = @ \ {v}]
  /\ UNCHANGED <<ties, tables, served, taps, doubled>>

\* softDeletePost: the author's.
BeginDelete(r, u, p) == Shown(p) /\ post[p].by = u /\ Begin(r, u, p, {}, "delete")

Delete(r) ==
  /\ At(r, "delete")
  /\ post' = [post EXCEPT ![work[r].on].gone = TRUE]
  /\ work' = [q \in Request |-> IF q = r THEN Idle
                ELSE [work[q] EXCEPT !.late = @ \/ work[q].on = work[r].on]]
  /\ UNCHANGED <<ties, comment, like, shares, open, settled, served, taps, doubled>>

-----------------------------------------------------------------------------
(* like, likeComment, comment and share, none of which asks for blocks *)

\* A comment is liked whether its post is deleted or not.
BeginLike(r, u, x) ==
  /\ IF x \in Post THEN Shown(x) ELSE comment[x] # NoComment
  /\ Begin(r, u, x, {}, "find")

FindLike(r) ==
  LET id == like[work[r].on, work[r].who] IN
  /\ At(r, "find")
  /\ work' = [work EXCEPT ![r].row = id, ![r].at = IF id = 0 THEN "like" ELSE "unlike"]
  /\ UNCHANGED <<ties, tables, served, taps, doubled>>

\* The delete of a row that is gone and the insert of a second one fail.
Toggles(r, id) ==
  LET x == <<work[r].on, work[r].who>> IN
  /\ like' = [like EXCEPT ![x] = id]
  /\ taps' = [taps EXCEPT ![x] = @ + 1]
  /\ Return(r)
  /\ UNCHANGED <<ties, post, comment, shares, open, settled, served, doubled>>

Unlike(r) == At(r, "unlike") /\ like[work[r].on, work[r].who] = work[r].row /\ Toggles(r, 0)
Like(r) ==
  LET x == <<work[r].on, work[r].who>> IN
  At(r, "like") /\ like[x] = 0 /\ Toggles(r, taps[x] + 1)

\* A comment may answer another one.
BeginComment(r, u, p, c) ==
  /\ Shown(p)
  /\ IF c = None THEN Begin(r, u, p, {}, "comment") ELSE Begin(r, u, p, {c}, "parent")

FindParent(r) ==
  /\ At(r, "parent")
  /\ \A c \in work[r].for : comment[c].of = work[r].on
  /\ Goto(r, "comment")
  /\ UNCHANGED <<ties, tables, served, taps, doubled>>

CreateComment(r) ==
  /\ At(r, "comment")
  /\ \E c \in Comment :
       /\ comment[c] = NoComment
       /\ comment' = [comment EXCEPT ![c] = [of |-> work[r].on,
            parent |-> IF work[r].for = {} THEN None ELSE CHOOSE d \in work[r].for : TRUE]]
  /\ Return(r)
  /\ UNCHANGED <<ties, post, like, shares, open, settled, served, taps, doubled>>

BeginShare(r, u, p) == Shown(p) /\ Begin(r, u, p, {}, "share")

Share(r) ==
  /\ At(r, "share")
  /\ shares' = [shares EXCEPT ![work[r].on] = @ + 1]
  /\ Return(r)
  /\ UNCHANGED <<ties, post, comment, like, open, settled, served, taps, doubled>>

-----------------------------------------------------------------------------
(* feed *)

\* authorNotBlockedWhere, and then the page and the count.
BeginPage(r, u) == Begin(r, u, None, {v \in User : Blocked(u, v)}, "page")

Page(r) == {p \in Post : Shown(p) /\ post[p].by \notin work[r].for}

ReadPage(r) ==
  /\ At(r, "page")
  /\ Return(r)
  /\ UNCHANGED <<ties, tables, served, taps, doubled>>

-----------------------------------------------------------------------------
(* Reports *)

\* A post or a user that is not the reporter's, a message of a room of theirs.
BeginReport(r, u, x) ==
  /\ x \in User => x # u
  /\ x \in Post => Shown(x) /\ post[x].by # u
  /\ x \in 1..MaxMessages => x \in DOMAIN log /\ log[x].by # u /\ u \in room[log[x].room].members
  /\ Begin(r, u, x, {}, "test")

\* Who has tested for a report x and is going to write one comes too late.
Beaten(q, x) ==
  [work[q] EXCEPT !.late = @ \/ (At(q, "report") /\ <<work[q].who, work[q].on>> = x)]

\* Mutant of TestReport: an earlier report does not matter.
TestReportUntested(r) ==
  /\ At(r, "test")
  /\ Goto(r, "report")
  /\ UNCHANGED <<ties, tables, served, taps, doubled>>

\* assertNoOpenDup ...
TestReport(r) ==
  /\ At(r, "test") /\ open[work[r].who, work[r].on] = 0
  /\ Goto(r, "report")
  /\ UNCHANGED <<ties, tables, served, taps, doubled>>

\* ... and the insert.
CreateReport(r) ==
  LET x == <<work[r].who, work[r].on>> IN
  /\ At(r, "report")
  /\ open' = [open EXCEPT ![x] = @ + 1]
  /\ doubled' = IF work[r].late THEN doubled \cup {x} ELSE doubled
  /\ work' = [q \in Request |-> IF q = r THEN Idle ELSE Beaten(q, x)]
  /\ UNCHANGED <<ties, post, comment, like, shares, settled, served, taps>>

\* resolveReport: an admin closes a report, or opens it again.
Settle(x) ==
  /\ open[x] > 0
  /\ open' = [open EXCEPT ![x] = @ - 1] /\ settled' = [settled EXCEPT ![x] = @ + 1]
  /\ UNCHANGED <<ties, post, comment, like, shares, served, work, taps, doubled>>

Reopen(x) ==
  /\ settled[x] > 0
  /\ open' = [open EXCEPT ![x] = @ + 1] /\ settled' = [settled EXCEPT ![x] = @ - 1]
  /\ doubled' = IF open[x] > 0 THEN doubled \cup {x} ELSE doubled
  /\ work' = [q \in Request |-> Beaten(q, x)]
  /\ UNCHANGED <<ties, post, comment, like, shares, served, taps>>

\* A test refuses, a query fails or the process dies.
Fail(r) == Return(r) /\ UNCHANGED <<ties, tables, served, taps, doubled>>

\* Requests that may arrive, while the bound allows, and those at work.
Arriving == {r \in Request : work[r] = Idle /\ served < MaxServed}
Working == {r \in Request : work[r] # Idle}

Next ==
  \/ \E r \in Arriving, u \in User :
       \/ \E tags \in SUBSET User : BeginPost(r, u, tags)
       \/ \E p \in Post : \/ BeginDelete(r, u, p) \/ BeginShare(r, u, p)
                          \/ \E c \in Comment \cup {None} : BeginComment(r, u, p, c)
       \/ \E x \in Liked : BeginLike(r, u, x)
       \/ BeginPage(r, u)
       \/ \E x \in Reported : BeginReport(r, u, x)
  \/ \E r \in Working :
       \/ \E v \in User : TestTag(r, v) \/ Mention(r, v)
       \/ CreatePost(r) \/ Delete(r) \/ FindLike(r) \/ Like(r) \/ Unlike(r)
       \/ FindParent(r) \/ CreateComment(r) \/ Share(r) \/ ReadPage(r)
       \/ TestReport(r) \/ CreateReport(r) \/ Fail(r)
  \/ \E x \in DOMAIN open : Settle(x) \/ Reopen(x)

-----------------------------------------------------------------------------

TypeOK ==
  /\ post \in [Post -> [by : User \cup {None}, tagged : SUBSET User, gone : BOOLEAN]]
  /\ comment \in [Comment -> [of : Post \cup {None}, parent : Comment \cup {None}]]
  /\ like \in [Liked \X User -> 0..MaxServed] /\ shares \in [Post -> 0..MaxServed]
  /\ open \in [User \X Reported -> 0..MaxServed]
  /\ settled \in [User \X Reported -> 0..MaxServed]
  /\ served \in 0..MaxServed
  /\ work \in [Request -> [at : Label, who : User \cup {None},
                           on : Reported \cup Comment \cup {None},
                           for : SUBSET (User \cup Comment), todo : SUBSET (User \cup Comment),
                           row : 0..MaxServed, since : SUBSET User, late : BOOLEAN]]
  /\ taps \in [Liked \X User -> 0..MaxServed]
  /\ doubled \subseteq User \X Reported

\* Toggles of one user that overlap add up: who taps an odd number of times,
\* counting those that were answered, likes it; an unlike never takes away a
\* like that was made after it had looked.
LikesAddUp ==
  /\ \A x \in DOMAIN like : like[x] # 0 <=> taps[x] % 2 = 1
  /\ \A x \in DOMAIN like : like[x] \in {0, taps[x]}

\* An answer is in the thread of what it answers.
ThreadsHold == \A c \in Comment : comment[c].parent # None =>
                 comment[c].of = comment[comment[c].parent].of

\* One user has one report of a thing to be reviewed, but for requests that both
\* tested before either wrote and reports an admin opened again.
ReportedOnce == \A x \in DOMAIN open : open[x] <= 1 \/ x \in doubled

\* No page shows an author across a block, either way, unless it was made while
\* the page was read.
PageSilent == \A r \in Request : At(r, "page") =>
  \A p \in Page(r) : Blocked(work[r].who, post[p].by) => post[p].by \in work[r].since

\* Who is tagged in a new post is a friend, or was when the request began.
TagsFriends == \A p \in Post : Written(p)' /\ ~Written(p) =>
  \E r \in Request : /\ At(r, "tags") /\ work'[r] # work[r]
                     /\ \A v \in post'[p].tagged : {post'[p].by, v} \in friends \/ v \in work[r].since

\* Nothing is added to a deleted post, but by who had read it before.
GoneIsQuiet == \A p \in Post :
  /\ post[p].gone
  /\ \/ shares'[p] # shares[p]
     \/ \E c \in Comment : comment'[c].of = p /\ comment[c].of # p
     \/ \E u \in User : like'[p, u] # like[p, u]
  => \E r \in Request : work[r].on = p /\ work[r].late /\ work'[r] = Idle
=============================================================================
