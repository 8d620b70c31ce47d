------------------------------- MODULE Inbox --------------------------------
(***************************************************************************)
(* Notifications, the badge that counts the unread ones, and pushes        *)
(* (notifications.service.ts, fcm.service.ts).  A notification is written, *)
(* then a summary is counted and sent to the user's sockets, then a push   *)
(* asks for the preferences, for the devices, and is sent: five awaits in  *)
(* no transaction.  Notifications are counted by user and kind: those the  *)
(* badge counts, the news for everybody, and those a preference gates      *)
(* (reservations, moderation, chat).                                       *)
(***************************************************************************)
EXTENDS Integers, FiniteSets

CONSTANTS
  User, Request,
  Device,       \* FCM tokens
  MaxServed,    \* bound: requests served in all
  None

VARIABLES
  unread, seen,   \* unread[u, k], seen[u, k] : u's notifications of kind k
  badge,          \* badge[u] : the last summary sent to u's sockets
  wants,          \* wants[u] : u's notification preferences
  owner,          \* owner[d] : whose device d is
  dead,           \* external: devices Firebase no longer knows
  served,
  errand,         \* errand[r] : what r does, for whom, and what it has read
  skewed,         \* history: users whose last summary was overtaken or never sent
  holder          \* history: who registered d last, and has not unregistered it

tables == <<unread, seen, wants, owner, dead>>
history == <<skewed, holder>>
vars == <<tables, badge, served, errand, history>>

Kind == {"INBOX", "NEWS", "GATED"}
Label == {"idle", "count", "emit", "prefs", "devices", "send", "clean", "assign", "insert"}
Preferences == [push : BOOLEAN, gated : BOOLEAN]
Idle == [at |-> "idle", to |-> {}, kind |-> None, count |-> 0, devices |-> {},
         stale |-> FALSE, moved |-> {}]

Wanted(u, k) == wants[u].push /\ (k = "GATED" => wants[u].gated)
Devices(us) == {d \in Device : owner[d] \in us}

-----------------------------------------------------------------------------

Init ==
  /\ unread = [x \in User \X Kind |-> 0] /\ seen = unread
  /\ badge = [u \in User |-> 0]
  /\ wants \in [User -> Preferences]
  /\ owner \in [Device -> User \cup {None}] /\ holder = owner
  /\ dead = {}
  /\ served \in 0..MaxServed
  /\ errand = [r \in Request |-> Idle]
  /\ skewed = {}

\* A request starts at l, for the users us.
Starts(us, k, l) == [Idle EXCEPT !.at = l, !.to = us, !.kind = k]

\* r has written for the users us.  If that counts in their inbox, summaries
\* that were counted before are stale.
Changes(r, us, k, l, counts) ==
  /\ served' = served + 1
  /\ errand' = [q \in Request |->
       IF q = r THEN Starts(us, k, l)
       ELSE [errand[q] EXCEPT !.stale = @ \/ (counts /\ errand[q].at = "emit" /\ errand[q].to = us)]]
  /\ UNCHANGED <<wants, owner, dead, badge, history>>

At(r, l) == errand[r].at = l
Goto(r, l) == errand' = [errand EXCEPT ![r].at = l]
Return(r) == errand' = [errand EXCEPT ![r] = Idle]

-----------------------------------------------------------------------------
(* Notifications *)

\* create, and persistNotification with deliverAfterPersist.
Create(r, u, k) ==
  /\ k # "NEWS"
  /\ unread' = [unread EXCEPT ![<<u, k>>] = @ + 1]
  /\ Changes(r, {u}, k, "count", k = "INBOX") /\ UNCHANGED seen

\* With the dedupeKey of an earlier one there is no new row, but a delivery.
CreateAgain(r, u, k) ==
  /\ k # "NEWS" /\ unread[u, k] + seen[u, k] > 0
  /\ Changes(r, {u}, k, "count", FALSE) /\ UNCHANGED <<unread, seen>>

\* notifyAllUsers: rows for all (in chunks of 400) and one push, which does not
\* ask for anyone's preferences.
NotifyAll(r) ==
  /\ unread' = [x \in User \X Kind |-> unread[x] + IF x[2] = "NEWS" THEN 1 ELSE 0]
  /\ Changes(r, User, "NEWS", "devices", FALSE) /\ UNCHANGED seen

\* pushOnly writes nothing.
PushOnly(r, u, k) == k # "NEWS" /\ Changes(r, {u}, k, "prefs", FALSE) /\ UNCHANGED <<unread, seen>>

Reads(r, u, k, n) ==
  /\ unread' = [unread EXCEPT ![<<u, k>>] = @ - n] /\ seen' = [seen EXCEPT ![<<u, k>>] = @ + n]
  /\ Changes(r, {u}, None, "count", k = "INBOX" /\ n > 0)

\* markRead answers for one that was read before too.
MarkRead(r, u, k) ==
  \/ unread[u, k] > 0 /\ Reads(r, u, k, 1)
  \/ seen[u, k] > 0 /\ Reads(r, u, k, 0)

MarkAllRead(r, u) == Reads(r, u, "INBOX", unread[u, "INBOX"])
MarkCategoryRead(r, u) == Reads(r, u, "NEWS", unread[u, "NEWS"])

\* messengerSummary counts ...
Summarise(r) ==
  /\ At(r, "count")
  /\ errand' = [errand EXCEPT ![r].at = "emit",
                  ![r].count = LET u == CHOOSE u \in errand[r].to : TRUE IN unread[u, "INBOX"]]
  /\ UNCHANGED <<tables, badge, served, history>>

\* ... and is sent, whatever has been counted since.
EmitSummary(r) ==
  LET us == errand[r].to IN
  /\ At(r, "emit")
  /\ badge' = [u \in User |-> IF u \in us THEN errand[r].count ELSE badge[u]]
  /\ skewed' = IF errand[r].stale THEN skewed \cup us ELSE skewed \ us
  /\ IF errand[r].kind = None THEN Return(r) ELSE Goto(r, "prefs")
  /\ UNCHANGED <<tables, served, holder>>

\* A count that fails is logged; the push follows.
SkipSummary(r) ==
  /\ At(r, "count") /\ errand[r].kind # None
  /\ Goto(r, "prefs")
  /\ skewed' = skewed \cup errand[r].to
  /\ UNCHANGED <<tables, badge, served, holder>>

-----------------------------------------------------------------------------
(* Pushes *)

\* shouldSendPush ...
ReadPreferences(r) ==
  /\ At(r, "prefs")
  /\ IF \A u \in errand[r].to : Wanted(u, errand[r].kind)
       THEN errand' = [errand EXCEPT ![r].at = "devices", ![r].stale = FALSE]
       ELSE Return(r)
  /\ UNCHANGED <<tables, badge, served, history>>

\* ... sendToUser, sendToUsers: the devices ...
ReadDevices(r) ==
  LET ds == Devices(errand[r].to) IN
  /\ At(r, "devices")
  /\ IF ds = {} THEN Return(r)
     ELSE errand' = [errand EXCEPT ![r].at = "send", ![r].devices = ds, ![r].moved = {}]
  /\ UNCHANGED <<tables, badge, served, history>>

\* ... and Firebase, which says which of them it does not know.
Send(r) ==
  LET unknown == errand[r].devices \cap dead IN
  /\ At(r, "send")
  /\ IF unknown = {} THEN Return(r)
     ELSE errand' = [errand EXCEPT ![r].at = "clean", ![r].devices = unknown]
  /\ UNCHANGED <<tables, badge, served, history>>

\* The devices ds become u's, or nobody's: a push about to go to them has read
\* their old owner.
Moves(r, ds, u) ==
  /\ owner' = [d \in Device |-> IF d \in ds THEN u ELSE owner[d]]
  /\ errand' = [q \in Request |->
       IF q = r THEN Idle
       ELSE IF errand[q].at = "send"
              THEN [errand[q] EXCEPT !.moved = @ \cup {d \in ds : owner[d] # u}]
       ELSE errand[q]]

\* UNREGISTERED tokens are deleted.
RemoveUnknown(r) ==
  /\ At(r, "clean")
  /\ Moves(r, errand[r].devices, None)
  /\ UNCHANGED <<unread, seen, wants, dead, badge, served, history>>

\* The app is uninstalled; its token never comes back.
Uninstall(d) ==
  /\ d \notin dead /\ dead' = dead \cup {d}
  /\ UNCHANGED <<unread, seen, wants, owner, badge, served, errand, history>>

-----------------------------------------------------------------------------
(* Devices and preferences *)

\* registerDeviceToken: find ...
BeginRegister(r, u, d) ==
  /\ d \notin dead
  /\ served' = served + 1
  /\ errand' = [errand EXCEPT ![r] = [Starts({u}, None, IF owner[d] = None THEN "insert"
                                                           ELSE "assign")
                                      EXCEPT !.devices = {d}]]
  /\ UNCHANGED <<tables, badge, history>>

\* ... then update, or create; a row that is gone, or is there now, is an error.
Register(r) ==
  \E d \in errand[r].devices, u \in errand[r].to :
    /\ \/ At(r, "assign") /\ owner[d] # None
       \/ At(r, "insert") /\ owner[d] = None
    /\ Moves(r, {d}, u)
    /\ holder' = [holder EXCEPT ![d] = u]
    /\ UNCHANGED <<unread, seen, wants, dead, badge, served, skewed>>

\* unregisterDeviceToken: the user's own.
Unregister(r, u, d) ==
  /\ served' = served + 1
  /\ Moves(r, {e \in {d} : owner[e] = u}, None)
  /\ holder' = [holder EXCEPT ![d] = IF @ = u THEN None ELSE @]
  /\ UNCHANGED <<unread, seen, wants, dead, badge, skewed>>

\* updatePreferences: whoever has asked for them before goes on.
SetPreferences(r, u, p) ==
  /\ served' = served + 1
  /\ wants' = [wants EXCEPT ![u] = p]
  /\ errand' = [q \in Request |-> [errand[q] EXCEPT !.stale = @ \/
                  (errand[q].at \in {"devices", "send"} /\ u \in errand[q].to)]]
  /\ UNCHANGED <<unread, seen, owner, dead, badge, history>>

\* A query fails or the process dies; a summary may never be sent.
Fail(r) ==
  /\ Return(r)
  /\ skewed' = IF errand[r].at \in {"count", "emit"} THEN skewed \cup errand[r].to ELSE skewed
  /\ UNCHANGED <<tables, badge, served, holder>>

\* Requests that may arrive, while the bound allows, and those at work.
Arriving == {r \in Request : errand[r] = Idle /\ served < MaxServed}
Working == {r \in Request : errand[r] # Idle}

Next ==
  \/ \E r \in Arriving, u \in User :
       \/ \E k \in Kind : Create(r, u, k) \/ CreateAgain(r, u, k) \/ PushOnly(r, u, k)
                          \/ MarkRead(r, u, k)
       \/ MarkAllRead(r, u) \/ MarkCategoryRead(r, u)
       \/ \E d \in Device : BeginRegister(r, u, d) \/ Unregister(r, u, d)
       \/ \E p \in Preferences : SetPreferences(r, u, p)
  \/ \E r \in Arriving : NotifyAll(r)
  \/ \E r \in Working :
       \/ Summarise(r) \/ EmitSummary(r) \/ SkipSummary(r)
       \/ ReadPreferences(r) \/ ReadDevices(r) \/ Send(r) \/ RemoveUnknown(r)
       \/ Register(r) \/ Fail(r)
  \/ served < MaxServed /\ \E d \in Device : Uninstall(d)

-----------------------------------------------------------------------------

TypeOK ==
  /\ unread \in [User \X Kind -> 0..MaxServed] /\ seen \in [User \X Kind -> 0..MaxServed]
  /\ badge \in [User -> 0..MaxServed] /\ wants \in [User -> Preferences]
  /\ owner \in [Device -> User \cup {None}] /\ dead \subseteq Device
  /\ served \in 0..MaxServed
  /\ errand \in [Request -> [at : Label, to : SUBSET User, kind : Kind \cup {None},
                             count : 0..MaxServed, devices : SUBSET Device,
                             stale : BOOLEAN, moved : SUBSET Device]]
  /\ skewed \subseteq User /\ holder \in [Device -> User \cup {None}]

\* The badge shows what is unread once nothing is being delivered, unless the
\* last summary sent had been counted before another request wrote, or a
\* handler died between writing and sending.
BadgeAgrees ==
  \A u \in User : badge[u] = unread[u, "INBOX"] \/ u \in skewed \/
    \E r \in Request : u \in errand[r].to /\ errand[r].at \in {"count", "emit"}

\* A device stays with the user who registered it last until they unregister
\* it or Firebase has forgotten it: the logout of the account it belonged to
\* before, however late, takes nothing away.
DeviceFollows == \A d \in Device : owner[d] = holder[d] \/ (owner[d] = None /\ d \in dead)

\* A push goes to devices of its user, but for those that changed hands after
\* they were read, and only if the user wants it, unless they changed their
\* mind after they were asked; the news go to everybody.
PushesFollow == \A r \in Request : At(r, "send") =>
  /\ \A d \in errand[r].devices : owner[d] \in errand[r].to \/ d \in errand[r].moved
  /\ \/ errand[r].kind = "NEWS" \/ errand[r].stale
     \/ \A u \in errand[r].to : Wanted(u, errand[r].kind)
=============================================================================
