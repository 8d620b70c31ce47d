------------------------------ MODULE Erasure -------------------------------
(***************************************************************************)
(* Uploads, and what is left of a user who deletes their account           *)
(* (account-deletion.service.ts, uploads.controller.ts,                    *)
(* storage.service.ts).  The deletion makes a list of the user's objects,  *)
(* wipes and removes the user in one transaction, then clears Redis and    *)
(* the store; uploads, posts, messages, reservations, analytics and        *)
(* handshakes of the user go on meanwhile, each with a token that was      *)
(* tested before.  Stripe and the bar's subscription are Subscriptions'.   *)
(***************************************************************************)
EXTENDS Integers, FiniteSets

CONSTANTS
  User, Object, Request,
  MaxErased,   \* bound: requests served in all
  None

VARIABLES
  standing,  \* standing[u] : "live" or "gone"
  object,    \* object[o] : whose it is, whether it is stored, has an UploadAsset
             \* row, and what refers to it
  presence,  \* users with a set of sockets in Redis
  events,    \* users named by rows of PromotionAnalyticsEvent, without foreign key
  booked,    \* booked[u] : u's reservation of a day to come
  erased, chore,
  after,     \* <<u, kind>> : rows of u's written past the statement that wipes kind
  left       \* history: objects a deletion cannot have in its list, or failed on

rows == <<standing, presence, events, booked>>
vars == <<rows, object, erased, chore, left, after>>

Use == {"none", "avatar", "post", "direct", "group"}
New == [of |-> None, stored |-> FALSE, row |-> FALSE, as |-> "none"]
Idle == [at |-> "idle", who |-> None, on |-> None, as |-> "none", keys |-> {}]
Deleting == {"posts", "messages", "wipe", "remove", "presence", "storage"}

Of(u, uses) == {o \in Object : object[o].of = u /\ object[o].as \in uses}

Init ==
  /\ standing = [u \in User |-> "live"]
  /\ object \in [Object -> {New} \cup [of : User, stored : {TRUE}, row : {TRUE}, as : Use]]
  /\ \A u \in User : Cardinality(Of(u, {"avatar"})) <= 1
  /\ presence = {} /\ events = {}
  /\ booked = [u \in User |-> "none"]
  /\ erased \in 0..MaxErased
  /\ chore = [r \in Request |-> Idle]
  /\ left = {} /\ after = {}

Live(u) == standing[u] = "live"
At(r, l) == chore[r].at = l
Goto(r, l) == chore' = [chore EXCEPT ![r].at = l]
Return(r) == chore' = [chore EXCEPT ![r] = Idle]
\* A deletion of u has made the statement that would have wiped it.
Wiped(u) == ~Live(u) \/ \E q \in Request : At(q, "remove") /\ chore[q].who = u

\* The guard lets users in who are there (JwtStrategy.validate).
Begins(r, u, o, as, l) ==
  /\ erased' = erased + 1
  /\ Live(u)
  /\ chore' = [chore EXCEPT ![r] = [Idle EXCEPT !.at = l, !.who = u, !.on = o, !.as = as]]
  /\ UNCHANGED <<rows, object, left, after>>

-----------------------------------------------------------------------------
(* Uploads *)

BeginUpload(r, u, o) ==
  /\ object[o] = New /\ \A q \in Request : chore[q].on # o
  /\ Begins(r, u, o, "none", "put")

\* uploadObject ...
Put(r) ==
  LET o == chore[r].on IN
  /\ At(r, "put")
  /\ object' = [object EXCEPT ![o] = [New EXCEPT !.of = chore[r].who, !.stored = TRUE]]
  /\ left' = IF Live(chore[r].who) THEN left ELSE left \cup {o}
  /\ Goto(r, "row")
  /\ UNCHANGED <<rows, erased, after>>

\* ... and its row; without the user there is none, and the object stays.
AddRow(r) ==
  /\ At(r, "row")
  /\ object' = [object EXCEPT ![chore[r].on].row = Live(chore[r].who)]
  /\ Return(r)
  /\ UNCHANGED <<rows, erased, left, after>>

\* deleteOwned finds the row, deletes it, then the object, used or not.
BeginUnload(r, u, o) ==
  object[o].row /\ object[o].of = u /\ Begins(r, u, o, "none", "unrow")

DeleteRow(r) ==
  LET o == chore[r].on IN
  /\ At(r, "unrow")
  /\ IF object[o].row THEN object' = [object EXCEPT ![o].row = FALSE] /\ Goto(r, "unput")
     ELSE UNCHANGED object /\ Return(r)
  /\ UNCHANGED <<rows, erased, left, after>>

\* deleteObjectsBestEffort, of one object: it may fail.
Discard(o) ==
  \/ object' = [object EXCEPT ![o].stored = FALSE] /\ UNCHANGED left
  \/ left' = left \cup {o} /\ UNCHANGED object

DeleteObject(r) ==
  /\ At(r, "unput")
  /\ Discard(chore[r].on)
  /\ Return(r)
  /\ UNCHANGED <<rows, erased, after>>

\* An avatar, a post or a message that names an object.
BeginUse(r, u, o, as) ==
  /\ object[o].stored /\ object[o].of = u /\ object[o].as = "none" /\ as # "none"
  /\ Begins(r, u, o, as, "use")

\* It is written while the user is there; the avatar before is named no more.
Attach(r) ==
  LET o == chore[r].on
      u == chore[r].who
      new == [object EXCEPT ![o].as = chore[r].as]
  IN
  /\ At(r, "use")
  /\ IF Live(u)
       THEN /\ object' = IF chore[r].as # "avatar" THEN new
                         ELSE [p \in Object |-> IF p # o /\ p \in Of(u, {"avatar"})
                                                  THEN [object[p] EXCEPT !.as = "none"] ELSE new[p]]
            /\ left' = IF \E q \in Request : chore[q].at \in Deleting /\ chore[q].who = u
                         THEN left \cup {o} ELSE left
       ELSE UNCHANGED <<object, left>>
  /\ Return(r)
  /\ UNCHANGED <<rows, erased, after>>

-----------------------------------------------------------------------------
(* Other rows that name a user *)

BeginVisit(r, u, kind) == kind \in {"handshake", "event", "booking"} /\ Begins(r, u, None, "none", kind)

\* handleConnection adds to Redis what disconnect will remove.
Online(r) ==
  LET u == chore[r].who IN
  /\ At(r, "handshake")
  /\ presence' = presence \cup {u}
  /\ after' = IF Live(u) THEN after ELSE after \cup {<<u, "presence">>}
  /\ Return(r)
  /\ UNCHANGED <<standing, events, booked, object, erased, left>>

Offline(u) ==
  /\ u \in presence /\ presence' = presence \ {u}
  /\ UNCHANGED <<standing, events, booked, object, erased, chore, left, after>>

\* trackEvent: no foreign key asks for the user.
Track(r) ==
  LET u == chore[r].who IN
  /\ At(r, "event")
  /\ events' = events \cup {u}
  /\ after' = IF Wiped(u) THEN after \cup {<<u, "event">>} ELSE after
  /\ Return(r)
  /\ UNCHANGED <<standing, presence, booked, object, erased, left>>

\* A reservation of a user who is not there any more fails.
Book(r) ==
  LET u == chore[r].who IN
  /\ At(r, "booking")
  /\ IF Live(u) THEN /\ booked' = [booked EXCEPT ![u] = "pending"]
                     /\ after' = IF Wiped(u) THEN after \cup {<<u, "booking">>} ELSE after
     ELSE UNCHANGED <<booked, after>>
  /\ Return(r)
  /\ UNCHANGED <<standing, presence, events, object, erased, left>>

-----------------------------------------------------------------------------
(* The deletion of an account *)

\* executeDeletion has read the user, with their avatar.
BeginDelete(r, u) ==
  /\ erased' = erased + 1
  /\ Live(u)
  /\ chore' = [chore EXCEPT ![r] = [Idle EXCEPT !.at = "posts", !.who = u,
                                                !.keys = Of(u, {"avatar"})]]
  /\ UNCHANGED <<rows, object, left, after>>

\* collectOwnedObjectKeys: the posts, then the messages.
ReadPosts(r) ==
  /\ At(r, "posts")
  /\ chore' = [chore EXCEPT ![r].at = "messages", ![r].keys = @ \cup Of(chore[r].who, {"post"})]
  /\ UNCHANGED <<rows, object, erased, left, after>>

ReadMessages(r) ==
  /\ At(r, "messages")
  /\ chore' = [chore EXCEPT ![r].at = "wipe",
                            ![r].keys = @ \cup Of(chore[r].who, {"direct", "group"})]
  /\ UNCHANGED <<rows, object, erased, left, after>>

\* The transaction has wiped what it found; nobody sees it yet.
Wipe(r) ==
  /\ At(r, "wipe")
  /\ Live(chore[r].who) /\ ~Wiped(chore[r].who)  \* else it waits for the other's locks
  /\ Goto(r, "remove")
  /\ UNCHANGED <<rows, object, erased, left, after>>

\* A second deletion finds no user to delete.
DeleteAgain(r) ==
  /\ At(r, "wipe") /\ ~Live(chore[r].who)
  /\ Return(r)
  /\ UNCHANGED <<rows, object, erased, left, after>>

\* It deletes the user and commits: rows written since go by foreign key, but a
\* reservation only loses its user, and analytics keep theirs.  Direct rooms go
\* with the messages of both.
Remove(r) ==
  LET u == chore[r].who
      since(k) == <<u, k>> \in after
  IN
  /\ At(r, "remove")
  /\ standing' = [standing EXCEPT ![u] = "gone"]
  /\ events' = IF since("event") THEN events ELSE events \ {u}
  /\ booked' = [booked EXCEPT ![u] = CASE @ = "none" -> "none"
                                       [] @ # "none" /\ since("booking") -> "named"
                                       [] OTHER -> "cancelled"]
  /\ left' = left \cup Of(u, {"none"})
  /\ object' = [o \in Object |->
       IF object[o].of = u THEN [object[o] EXCEPT !.row = FALSE, !.as = "none"]
       ELSE IF object[o].as = "direct" THEN [object[o] EXCEPT !.as = "none"]
       ELSE object[o]]
  /\ Goto(r, "presence")
  /\ UNCHANGED <<presence, erased, after>>

\* clearRedisPresence logs a failure.
ClearPresence(r) ==
  LET p == <<chore[r].who, "presence">> IN
  /\ At(r, "presence")
  /\ \/ presence' = presence \ {chore[r].who} /\ after' = after \ {p}
     \/ after' = after \cup {p} /\ UNCHANGED presence
  /\ Goto(r, "storage")
  /\ UNCHANGED <<standing, events, booked, object, erased, left>>

\* One object of the list, and at last the answer.
ClearStorage(r) ==
  /\ At(r, "storage")
  /\ IF chore[r].keys = {} THEN Return(r) /\ UNCHANGED <<object, left>>
     ELSE \E o \in chore[r].keys :
       /\ Discard(o)
       /\ chore' = [chore EXCEPT ![r].keys = @ \ {o}]
  /\ UNCHANGED <<rows, erased, after>>

\* A query fails or the process dies: the transaction is rolled back; past it,
\* what is left of the list stays in the store, and the set in Redis.
Fail(r) ==
  LET u == chore[r].who IN
  /\ left' = CASE At(r, "unput") -> left \cup {chore[r].on}
               [] chore[r].at \in {"presence", "storage"} -> left \cup chore[r].keys
               [] OTHER -> left
  /\ after' = IF At(r, "presence") THEN after \cup {<<u, "presence">>}
              ELSE IF At(r, "remove") THEN after \ {<<u, "event">>, <<u, "booking">>} ELSE after
  /\ Return(r)
  /\ UNCHANGED <<rows, object, erased>>

Free == {r \in Request : chore[r] = Idle /\ erased < MaxErased}
Busy == {r \in Request : chore[r] # Idle}

Next ==
  \/ \E r \in Free, u \in User :
       \/ \E o \in Object : BeginUpload(r, u, o) \/ BeginUnload(r, u, o)
                            \/ \E as \in Use : BeginUse(r, u, o, as)
       \/ \E kind \in {"handshake", "event", "booking"} : BeginVisit(r, u, kind)
       \/ BeginDelete(r, u)
  \/ \E r \in Busy :
       \/ Put(r) \/ AddRow(r) \/ DeleteRow(r) \/ DeleteObject(r) \/ Attach(r)
       \/ Online(r) \/ Track(r) \/ Book(r)
       \/ ReadPosts(r) \/ ReadMessages(r) \/ Wipe(r) \/ DeleteAgain(r) \/ Remove(r)
       \/ ClearPresence(r) \/ ClearStorage(r) \/ Fail(r)
  \/ \E u \in User : Offline(u)

-----------------------------------------------------------------------------

TypeOK ==
  /\ standing \in [User -> {"live", "gone"}]
  /\ object \in [Object -> [of : User \cup {None}, stored : BOOLEAN, row : BOOLEAN, as : Use]]
  /\ presence \subseteq User /\ events \subseteq User
  /\ booked \in [User -> {"none", "pending", "cancelled", "named"}]
  /\ erased \in 0..MaxErased
  /\ \A r \in Request : chore[r].keys \subseteq Object /\ chore[r].who \in User \cup {None}
  /\ left \subseteq Object /\ after \subseteq User \X {"presence", "event", "booking"}

\* Once a deletion has gone through, all that is left of the user are objects
\* nothing referred to or that were put to use while it ran, objects the store
\* failed to delete, and what requests that had been let in before wrote past
\* the statement that wipes it.
Erased == \A u \in User :
  Live(u) \/ (\E r \in Request : chore[r].at \in Deleting /\ chore[r].who = u) \/
  /\ \A o \in Object : object[o].of = u /\ object[o].stored => o \in left
  /\ \A o \in Object : object[o].of = u => ~object[o].row
  /\ u \in presence => <<u, "presence">> \in after
  /\ u \in events => <<u, "event">> \in after
  /\ booked[u] \in {"none", "cancelled"} \/ <<u, "booking">> \in after
=============================================================================
