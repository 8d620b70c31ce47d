------------------------------ MODULE Presence ------------------------------
(***************************************************************************)
(* The sockets of one user: handshake and disconnect of chat.gateway.ts,   *)
(* the presence service, and the revocation of sessions, which increments  *)
(* securityVersion and then disconnects the user's room                    *)
(* (realtime-hub.service.ts).  The set online:{userId} in Redis is the     *)
(* authority; isOnline in PostgreSQL a copy.                               *)
(*                                                                         *)
(* A handshake goes on after its client has gone away, and a client may go *)
(* away at any point of it.  Joining the room of a user after having been  *)
(* disconnected has no effect.                                             *)
(***************************************************************************)
EXTENDS Integers, FiniteSets

CONSTANTS
  Socket,       \* a new one for every connection
  MaxVersion,   \* bound: revocations
  MaxArrived    \* bound: connections and revocations in all

VARIABLES
  version,    \* users.security_version
  flag,       \* users.is_online
  online,     \* online:{userId}
  shake,      \* shake[s] : where s's handshake is
  leave,      \* leave[s] : where s's disconnect handler is
  connected,  \* sockets whose client is connected
  joined,     \* sockets in the room user:{userId}
  signed,     \* signed[s] : the version in the token s presents
  revoking,   \* revocations committed whose disconnectUser is to come
  healing,    \* areOnline found the set empty and is going to write so
  arrived,    \* bound
  overtaken   \* history: accepted by a handshake, not yet joined, when
              \* disconnectUser went through the room

state == <<version, flag, online, connected, joined>>
vars == <<state, shake, leave, signed, revoking, healing, arrived, overtaken>>

Shake == {"new", "test", "flag", "add", "join", "done", "refused"}
Leave == {"no", "remove", "count", "flag", "done"}

-----------------------------------------------------------------------------

Init ==
  /\ version = 0 /\ flag = FALSE
  /\ online = {} /\ connected = {} /\ joined = {}
  /\ shake = [s \in Socket |-> "new"] /\ leave = [s \in Socket |-> "no"]
  /\ signed = [s \in Socket |-> 0]
  /\ revoking = 0 /\ healing = FALSE
  /\ arrived \in 0..MaxArrived
  /\ overtaken = {}

\* A client connects with a token that was signed for some version; what it
\* can still hold are tokens of the present version and of earlier ones.
Connect(s, v) ==
  /\ shake[s] = "new"
  /\ arrived < MaxArrived /\ arrived' = arrived + 1
  /\ v \in 0..version
  /\ signed' = [signed EXCEPT ![s] = v]
  /\ connected' = connected \cup {s}
  /\ shake' = [shake EXCEPT ![s] = "test"]
  /\ UNCHANGED <<version, flag, online, joined, leave, revoking, healing, overtaken>>

\* The disconnect handler is started, unless the handshake has not yet said
\* whose socket it is.
Leaving(gone) ==
  /\ connected' = connected \ gone
  /\ joined' = joined \ gone
  /\ leave' = [s \in Socket |->
       IF s \in gone THEN IF shake[s] = "test" THEN "done" ELSE "remove" ELSE leave[s]]

\* handleConnection: the version in the token must be the one in the database.
Accept(s) ==
  /\ shake[s] = "test" /\ signed[s] = version
  /\ shake' = [shake EXCEPT ![s] = "flag"]
  /\ UNCHANGED <<state, leave, signed, revoking, healing, arrived, overtaken>>

Refuse(s) ==
  /\ shake[s] = "test" /\ signed[s] # version
  /\ shake' = [shake EXCEPT ![s] = "refused"]
  /\ Leaving({s} \cap connected)
  /\ UNCHANGED <<version, flag, online, signed, revoking, healing, arrived, overtaken>>

\* Mutant of SetOnline: the socket joins the room before it is in the set.
SetOnlineJoining(s) ==
  /\ shake[s] = "flag"
  /\ flag' = TRUE
  /\ shake' = [shake EXCEPT ![s] = "join"]
  /\ UNCHANGED <<version, online, connected, joined, leave, signed, revoking,
                 healing, arrived, overtaken>>

\* setOnline, sadd and join, one after the other.
SetOnline(s) ==
  /\ shake[s] = "flag"
  /\ flag' = TRUE
  /\ shake' = [shake EXCEPT ![s] = "add"]
  /\ UNCHANGED <<version, online, connected, joined, leave, signed, revoking,
                 healing, arrived, overtaken>>

AddToSet(s) ==
  /\ shake[s] = "add"
  /\ online' = online \cup {s}
  /\ shake' = [shake EXCEPT ![s] = "join"]
  /\ UNCHANGED <<version, flag, connected, joined, leave, signed, revoking,
                 healing, arrived, overtaken>>

\* Mutant of Join: a socket that is gone is put into the room.
JoinGone(s) ==
  /\ shake[s] = "join"
  /\ joined' = joined \cup {s}
  /\ shake' = [shake EXCEPT ![s] = "done"]
  /\ UNCHANGED <<version, flag, online, connected, leave, signed, revoking,
                 healing, arrived, overtaken>>

Join(s) ==
  /\ shake[s] = "join"
  /\ joined' = joined \cup ({s} \cap connected)
  /\ shake' = [shake EXCEPT ![s] = "done"]
  /\ UNCHANGED <<version, flag, online, connected, leave, signed, revoking,
                 healing, arrived, overtaken>>

\* A store fails: the handshake disconnects its client.
HandshakeFails(s) ==
  /\ shake[s] \in {"test", "flag", "add"}
  /\ shake' = [shake EXCEPT ![s] = "refused"]
  /\ Leaving({s} \cap connected)
  /\ UNCHANGED <<version, flag, online, signed, revoking, healing, arrived, overtaken>>

\* The client closes the connection or is lost.
GoAway(s) ==
  /\ s \in connected
  /\ Leaving({s})
  /\ UNCHANGED <<version, flag, online, shake, signed, revoking, healing, arrived, overtaken>>

\* handleDisconnect: srem ...
RemoveFromSet(s) ==
  /\ leave[s] = "remove"
  /\ online' = online \ {s}
  /\ leave' = [leave EXCEPT ![s] = "count"]
  /\ UNCHANGED <<version, flag, connected, joined, shake, signed, revoking,
                 healing, arrived, overtaken>>

\* ... scard ...
CountSet(s) ==
  /\ leave[s] = "count"
  /\ leave' = [leave EXCEPT ![s] = IF online = {} THEN "flag" ELSE "done"]
  /\ UNCHANGED <<state, shake, signed, revoking, healing, arrived, overtaken>>

\* ... and setOnline(false), though another socket may have been added since.
SetOffline(s) ==
  /\ leave[s] = "flag"
  /\ flag' = FALSE
  /\ leave' = [leave EXCEPT ![s] = "done"]
  /\ UNCHANGED <<version, online, connected, joined, shake, signed, revoking,
                 healing, arrived, overtaken>>

\* The disconnect handler fails or its process dies.
LeaveFails(s) ==
  /\ leave[s] \in {"remove", "count", "flag"}
  /\ leave' = [leave EXCEPT ![s] = "done"]
  /\ UNCHANGED <<state, shake, signed, revoking, healing, arrived, overtaken>>

\* areOnline finds the set empty and corrects the copy, later.
HealRead ==
  /\ ~healing /\ online = {} /\ flag
  /\ healing' = TRUE
  /\ UNCHANGED <<state, shake, leave, signed, revoking, arrived, overtaken>>

HealWrite ==
  /\ healing
  /\ flag' = FALSE
  /\ healing' = FALSE
  /\ UNCHANGED <<version, online, connected, joined, shake, leave, signed,
                 revoking, arrived, overtaken>>

\* logoutAll, changePassword and resetPassword commit the next version ...
Revoke ==
  /\ version < MaxVersion
  /\ arrived < MaxArrived /\ arrived' = arrived + 1
  /\ version' = version + 1
  /\ revoking' = revoking + 1
  /\ UNCHANGED <<flag, online, connected, joined, shake, leave, signed,
                 healing, overtaken>>

\* ... and then disconnect whoever is in the user's room.
DisconnectUser ==
  /\ revoking > 0
  /\ revoking' = revoking - 1
  /\ Leaving(joined)
  /\ overtaken' = overtaken \cup {s \in Socket : shake[s] \in {"flag", "add", "join"}}
  /\ UNCHANGED <<version, flag, online, shake, signed, healing, arrived>>

Next ==
  \/ \E s \in Socket :
       \/ \E v \in 0..MaxVersion : Connect(s, v)
       \/ Accept(s) \/ Refuse(s) \/ SetOnline(s) \/ AddToSet(s) \/ Join(s)
       \/ HandshakeFails(s) \/ GoAway(s)
       \/ RemoveFromSet(s) \/ CountSet(s) \/ SetOffline(s) \/ LeaveFails(s)
  \/ HealRead \/ HealWrite \/ Revoke \/ DisconnectUser

-----------------------------------------------------------------------------

TypeOK ==
  /\ version \in 0..MaxVersion /\ flag \in BOOLEAN
  /\ online \subseteq Socket /\ joined \subseteq connected /\ connected \subseteq Socket
  /\ shake \in [Socket -> Shake] /\ leave \in [Socket -> Leave]
  /\ signed \in [Socket -> 0..MaxVersion]
  /\ revoking \in 0..MaxVersion /\ healing \in BOOLEAN
  /\ arrived \in 0..MaxArrived
  /\ overtaken \subseteq Socket

\* A socket that receives the user's messages is in the set in Redis: nobody
\* who is connected is shown as offline by areOnline, whatever other devices
\* of the user connect and disconnect meanwhile.
LiveIsOnline == joined \subseteq online

\* After a revocation has gone through the user's room, the only sockets of a
\* revoked session still in it are those whose handshake had compared the
\* version before and joined after.
RevokedSocketsLeave ==
  \A s \in joined : signed[s] < version => revoking > 0 \/ s \in overtaken
=============================================================================
