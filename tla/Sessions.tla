------------------------------ MODULE Sessions ------------------------------
(***************************************************************************)
(* The sessions of one account: AuthService (login, refresh, logout,       *)
(* logoutAll, changePassword, forgotPassword, resetPassword) over the rows *)
(* of users, refresh_tokens and password_resets, and the securityVersion   *)
(* test of JwtStrategy.                                                    *)
(*                                                                         *)
(* A handler runs as a request r in Request, one step per await at which   *)
(* another request can get in between.  PostgreSQL runs at its default,    *)
(* READ COMMITTED: an updateMany fixes the rows it will touch when the     *)
(* statement starts (RevokeScan), waits for rows an open transaction has   *)
(* written, and looks at each again before it writes (RevokeApply); rows   *)
(* inserted meanwhile are not seen.                                        *)
(***************************************************************************)
EXTENDS Naturals

CONSTANTS
  Token,      \* refresh_tokens rows that can be created
  Family,     \* family identifiers
  Request,    \* HTTP requests the server may be working on at once
  ResetTok,   \* password_resets rows that can be created
  MaxSv,      \* bound on users.security_version
  None        \* SQL null

ASSUME NoneAssumption == None \notin Token \cup Family \cup Request \cup ResetTok
ASSUME MaxSvAssumption == MaxSv \in Nat

VARIABLES
  sv,         \* users.security_version
  row,        \* row[t] : state of the refresh token's row, see RowState
  family,     \* refresh_tokens.family_id
  replacedBy, \* refresh_tokens.replaced_by_id
  age,        \* time since revoked_at, in the buckets the grace test tells apart
  lock,       \* lock[t] : request whose open transaction has written row t
  userLock,   \* request whose open transaction has written the users row
  access,     \* securityVersions for which an access token has been signed
  reset,      \* reset[k] : state of a password_resets row
  pc,         \* pc[r] : where request r is
  op,         \* op[r] : why request r is revoking
  tok,        \* tok[r] : refresh token (or reset token) it was presented
  seen,       \* seen[r] : securityVersion it read
  scope       \* scope[r] : rows its updateMany found when it started

tokens == <<row, family, replacedBy, age, lock>>
requests == <<pc, op, tok, seen, scope>>
vars == <<sv, tokens, userLock, access, reset, requests>>

-----------------------------------------------------------------------------
(* The state, and what the code computes from it. *)

\* "live": unrevoked; "expired": unrevoked but past expires_at.
RowState == {"unborn", "live", "expired", "revoked"}
Unrevoked(t) == row[t] \in {"live", "expired"}

FamilyOps == {"logout", "reuse"}
GlobalOps == {"logoutAll", "changePassword", "resetPassword"}

\* age "fresh": at most 2 s, "grace": at most 10 s, "old": more.
PlausibleRace(t) ==
  \/ age[t] = "fresh"
  \/ age[t] = "grace" /\ replacedBy[t] # None

\* The where clause of the revoking updateMany, without "revokedAt: null".
InScope(r, t) == op[r] \in FamilyOps => family[t] = family[tok[r]]

AccessValid == sv \in access      \* someone holds a token JwtStrategy accepts

Init ==
  /\ sv = 0
  /\ row = [t \in Token |-> "unborn"]
  /\ family = [t \in Token |-> None]
  /\ replacedBy = [t \in Token |-> None]
  /\ age = [t \in Token |-> "fresh"]
  /\ lock = [t \in Token |-> None]
  /\ userLock = None
  /\ access = {}
  /\ reset = [k \in ResetTok |-> "unborn"]
  /\ pc = [r \in Request |-> "idle"]
  /\ op = [r \in Request |-> None]
  /\ tok = [r \in Request |-> None]
  /\ seen = [r \in Request |-> 0]
  /\ scope = [r \in Request |-> {}]

-----------------------------------------------------------------------------
(* Bookkeeping of a request. *)

Goto(r, l) == pc' = [pc EXCEPT ![r] = l]

\* The request answers and forgets its local variables.
Return(r) ==
  /\ Goto(r, "idle")
  /\ op' = [op EXCEPT ![r] = None]
  /\ tok' = [tok EXCEPT ![r] = None]
  /\ seen' = [seen EXCEPT ![r] = 0]
  /\ scope' = [scope EXCEPT ![r] = {}]

\* The request goes on to revoke for reason o, having been presented t.
StartRevoking(r, o, t) ==
  /\ Goto(r, "revoke")
  /\ op' = [op EXCEPT ![r] = o]
  /\ tok' = [tok EXCEPT ![r] = t]
  /\ seen' = [seen EXCEPT ![r] = 0]
  /\ UNCHANGED scope

\* issueTokens: the access token is signed with sv s, the row is created.
CreateRow(t, f, s) ==
  /\ row[t] = "unborn"
  /\ family' = [family EXCEPT ![t] = f]
  /\ access' = access \cup {s}

-----------------------------------------------------------------------------
(* Login and registration, once the credentials are accepted.              *)

LoginStart(r) ==
  /\ pc[r] = "idle"
  /\ Goto(r, "issue")
  /\ UNCHANGED <<sv, tokens, userLock, access, reset, op, tok, seen, scope>>

\* Mutant: the version the log line computes (securityVersion + 1) is signed.
IssueReadPlusOne(r) ==
  /\ pc[r] = "issue"
  /\ Goto(r, "insert")
  /\ seen' = [seen EXCEPT ![r] = sv + 1]
  /\ UNCHANGED <<sv, tokens, userLock, access, reset, op, tok, scope>>

\* issueTokensForUser reads securityVersion again.
IssueRead(r) ==
  /\ pc[r] = "issue"
  /\ Goto(r, "insert")
  /\ seen' = [seen EXCEPT ![r] = sv]
  /\ UNCHANGED <<sv, tokens, userLock, access, reset, op, tok, scope>>

\* ... and issues a first token in a family of its own.
IssueInsert(r, t, f) ==
  /\ pc[r] = "insert"
  /\ \A u \in Token : family[u] # f
  /\ CreateRow(t, f, seen[r])
  /\ row' = [row EXCEPT ![t] = "live"]
  /\ Return(r)
  /\ UNCHANGED <<sv, replacedBy, age, lock, userLock, reset>>

-----------------------------------------------------------------------------
(* refresh *)

\* Before the transaction: the row and the user's sv are read and tested.
RefreshRead(r, t) ==
  /\ pc[r] = "idle"
  /\ \/ /\ row[t] = "live"
        /\ Goto(r, "verified")
        /\ tok' = [tok EXCEPT ![r] = t]
        /\ seen' = [seen EXCEPT ![r] = sv]
        /\ UNCHANGED <<op, scope>>
     \/ /\ row[t] = "revoked" /\ ~PlausibleRace(t)
        /\ StartRevoking(r, "reuse", t)
  /\ UNCHANGED <<sv, tokens, userLock, access, reset>>

\* Mutant: the claim is an update by id alone, without "revokedAt: null".
RefreshClaimById(r) ==
  /\ pc[r] = "verified"
  /\ lock[tok[r]] = None
  /\ lock' = [lock EXCEPT ![tok[r]] = r]
  /\ Goto(r, "claimed")
  /\ UNCHANGED <<sv, row, family, replacedBy, age, userLock, access, reset, op, tok, seen, scope>>

\* Mutant: the claim only looks at the row, the transaction writes it later.
RefreshClaimUnlocked(r) ==
  /\ pc[r] = "verified"
  /\ Unrevoked(tok[r])
  /\ Goto(r, "claimed")
  /\ UNCHANGED <<sv, tokens, userLock, access, reset, op, tok, seen, scope>>

\* updateMany where id and revokedAt null; a count of 0 looks at the row again.
RefreshClaim(r) ==
  /\ pc[r] = "verified"
  /\ lock[tok[r]] = None
  /\ \/ /\ Unrevoked(tok[r])
        /\ lock' = [lock EXCEPT ![tok[r]] = r]
        /\ Goto(r, "claimed")
        /\ UNCHANGED <<op, tok, seen, scope>>
     \/ /\ row[tok[r]] = "revoked"
        /\ IF PlausibleRace(tok[r]) THEN Return(r)
                                    ELSE StartRevoking(r, "reuse", tok[r])
        /\ UNCHANGED lock
  /\ UNCHANGED <<sv, row, family, replacedBy, age, userLock, access, reset>>

\* Mutant: replacedById is not written.
RefreshCommitUnlinked(r, t) ==
  /\ pc[r] = "claimed"
  /\ CreateRow(t, family[tok[r]], seen[r])
  /\ row' = [row EXCEPT ![tok[r]] = "revoked", ![t] = "live"]
  /\ lock' = [lock EXCEPT ![tok[r]] = None]
  /\ Return(r)
  /\ UNCHANGED <<sv, replacedBy, age, userLock, reset>>

\* Mutant: the transaction also writes the users row (say, a last-seen time).
RefreshCommitTouchingUser(r, t) ==
  /\ userLock = None
  /\ pc[r] = "claimed"
  /\ CreateRow(t, family[tok[r]], seen[r])
  /\ row' = [row EXCEPT ![tok[r]] = "revoked", ![t] = "live"]
  /\ replacedBy' = [replacedBy EXCEPT ![tok[r]] = t]
  /\ lock' = [lock EXCEPT ![tok[r]] = None]
  /\ Return(r)
  /\ UNCHANGED <<sv, age, userLock, reset>>

\* The transaction commits: successor, revokedAt and replacedById together.
RefreshCommit(r, t) ==
  /\ pc[r] = "claimed"
  /\ CreateRow(t, family[tok[r]], seen[r])
  /\ row' = [row EXCEPT ![tok[r]] = "revoked", ![t] = "live"]
  /\ replacedBy' = [replacedBy EXCEPT ![tok[r]] = t]
  /\ lock' = [lock EXCEPT ![tok[r]] = None]
  /\ Return(r)
  /\ UNCHANGED <<sv, age, userLock, reset>>

-----------------------------------------------------------------------------
(* Revocation: logout, logoutAll, changePassword, resetPassword, reuse *)

Logout(r, t) ==
  /\ pc[r] = "idle"
  /\ Unrevoked(t)
  /\ StartRevoking(r, "logout", t)
  /\ UNCHANGED <<sv, tokens, userLock, access, reset>>

\* Both stand behind JwtAuthGuard.
LogoutAll(r) ==
  /\ pc[r] = "idle" /\ AccessValid
  /\ StartRevoking(r, "logoutAll", None)
  /\ UNCHANGED <<sv, tokens, userLock, access, reset>>

ChangePassword(r) ==
  /\ pc[r] = "idle" /\ AccessValid
  /\ StartRevoking(r, "changePassword", None)
  /\ UNCHANGED <<sv, tokens, userLock, access, reset>>

ForgotPassword(k) ==
  /\ reset[k] = "unborn"
  /\ reset' = [reset EXCEPT ![k] = "open"]
  /\ UNCHANGED <<sv, tokens, userLock, access, requests>>

ResetPassword(r, k) ==
  /\ pc[r] = "idle" /\ reset[k] = "open"
  /\ StartRevoking(r, "resetPassword", k)
  /\ UNCHANGED <<sv, tokens, userLock, access, reset>>

\* A global revocation writes the users row first, which serialises them.
RevokeScan(r) ==
  /\ pc[r] = "revoke"
  /\ IF op[r] \in GlobalOps
       THEN userLock = None /\ sv < MaxSv /\ userLock' = r
       ELSE UNCHANGED userLock
  /\ scope' = [scope EXCEPT ![r] = {t \in Token : Unrevoked(t) /\ InScope(r, t)}]
  /\ Goto(r, "apply")
  /\ UNCHANGED <<sv, tokens, access, reset, op, tok, seen>>

\* Mutant: a password change revokes the rows but keeps securityVersion.
RevokeApplySameVersion(r) ==
  /\ pc[r] = "apply"
  /\ \A t \in scope[r] : lock[t] = None
  /\ row' = [t \in Token |->
               IF t \in scope[r] /\ Unrevoked(t) THEN "revoked" ELSE row[t]]
  /\ sv' = IF op[r] \in {"logoutAll", "resetPassword"} THEN sv + 1 ELSE sv
  /\ userLock' = IF op[r] \in GlobalOps THEN None ELSE userLock
  /\ Return(r)
  /\ UNCHANGED <<family, replacedBy, age, lock, access, reset>>

\* Commit.  resetPassword marks its row used and every other open one.
RevokeApply(r) ==
  /\ pc[r] = "apply"
  /\ \A t \in scope[r] : lock[t] = None
  /\ row' = [t \in Token |->
               IF t \in scope[r] /\ Unrevoked(t) THEN "revoked" ELSE row[t]]
  /\ IF op[r] \in GlobalOps
       THEN sv' = sv + 1 /\ userLock' = None
       ELSE UNCHANGED <<sv, userLock>>
  /\ IF op[r] = "resetPassword"
       THEN reset' = [k \in ResetTok |->
                        IF k = tok[r] \/ reset[k] = "open" THEN "used" ELSE reset[k]]
       ELSE UNCHANGED reset
  /\ IF op[r] = "changePassword"
       THEN /\ Goto(r, "issue")
            /\ scope' = [scope EXCEPT ![r] = {}]
            /\ UNCHANGED <<op, tok, seen>>
       ELSE Return(r)
  /\ UNCHANGED <<family, replacedBy, age, lock, access>>

-----------------------------------------------------------------------------
(* Failure and time *)

\* A query fails, a transaction times out or the process stops: PostgreSQL
\* rolls the open transaction back and the request is gone.
Fail(r) ==
  /\ pc[r] # "idle"
  /\ lock' = [t \in Token |-> IF lock[t] = r THEN None ELSE lock[t]]
  /\ userLock' = IF userLock = r THEN None ELSE userLock
  /\ Return(r)
  /\ UNCHANGED <<sv, row, family, replacedBy, age, access, reset>>

Expire(t) ==
  /\ row[t] = "live" /\ lock[t] = None
  /\ row' = [row EXCEPT ![t] = "expired"]
  /\ UNCHANGED <<sv, family, replacedBy, age, lock, userLock, access, reset, requests>>

GetOlder(t) ==
  /\ row[t] = "revoked" /\ age[t] # "old"
  /\ age' = [age EXCEPT ![t] = IF @ = "fresh" THEN "grace" ELSE "old"]
  /\ UNCHANGED <<sv, row, family, replacedBy, lock, userLock, access, reset, requests>>

-----------------------------------------------------------------------------

\* A bound, not the code: with no row, family or version left to give out, the
\* request that needs one fails.
OutOfRoom(r) ==
  /\ \/ pc[r] \in {"insert", "claimed"} /\ \A t \in Token : row[t] # "unborn"
     \/ pc[r] = "insert" /\ \A f \in Family : \E t \in Token : family[t] = f
     \/ pc[r] = "revoke" /\ op[r] \in GlobalOps /\ sv = MaxSv
  /\ Fail(r)

\* What the server does next for a request it has begun.
Progress(r) ==
  \/ IssueRead(r) \/ RefreshClaim(r) \/ RevokeScan(r) \/ RevokeApply(r) \/ OutOfRoom(r)
  \/ \E t \in Token : RefreshCommit(r, t) \/ \E f \in Family : IssueInsert(r, t, f)

\* Requests that clients may send.
Arrive(r) ==
  \/ LoginStart(r) \/ LogoutAll(r) \/ ChangePassword(r)
  \/ \E t \in Token : RefreshRead(r, t) \/ Logout(r, t)
  \/ \E k \in ResetTok : ResetPassword(r, k)

Next ==
  \/ \E r \in Request : Arrive(r) \/ Progress(r) \/ Fail(r)
  \/ \E t \in Token : Expire(t) \/ GetOlder(t)
  \/ \E k \in ResetTok : ForgotPassword(k)

Spec == Init /\ [][Next]_vars

\* The server keeps working on what it has begun, and PostgreSQL queues the
\* waiters of a row lock, so one that is released again and again is not lost
\* to the same waiter for ever.  Clients owe nothing, and nothing must fail.
FairSpec == Spec /\ \A r \in Request : SF_vars(Progress(r))

-----------------------------------------------------------------------------
(* Properties *)

Label == {"idle", "issue", "insert", "verified", "claimed", "revoke", "apply"}

\* Every variable has its type, and no access token carries a securityVersion
\* the account has not had.
TypeOK ==
  /\ sv \in Nat
  /\ row \in [Token -> RowState]
  /\ family \in [Token -> Family \cup {None}]
  /\ replacedBy \in [Token -> Token \cup {None}]
  /\ age \in [Token -> {"fresh", "grace", "old"}]
  /\ lock \in [Token -> Request \cup {None}]
  /\ userLock \in Request \cup {None}
  /\ access \subseteq 0..sv
  /\ reset \in [ResetTok -> {"unborn", "open", "used"}]
  /\ pc \in [Request -> Label]
  /\ op \in [Request -> FamilyOps \cup GlobalOps \cup {None}]
  /\ tok \in [Request -> Token \cup ResetTok \cup {None}]
  /\ seen \in [Request -> 0..sv]
  /\ scope \in [Request -> SUBSET Token]
  /\ \A r \in Request : pc[r] \in {"verified", "claimed"} => tok[r] \in Token

\* However refreshes of one token, retries, logouts and failed transactions
\* interleave, a family never has two tokens that refresh would accept.
OneActiveToken ==
  \A t, u \in Token :
    Unrevoked(t) /\ Unrevoked(u) /\ family[t] = family[u] => t = u

\* replacedById links the tokens of a family into one chain that starts at the
\* login's token and whose only unrevoked member, if any, is its end: the link
\* is what tells a benign race from the reuse of an old token.
Issued(t) == row[t] # "unborn"
Root(t) == Issued(t) /\ \A u \in Token : replacedBy[u] # t
RotationChain ==
  /\ \A t \in Token : replacedBy[t] # None =>
       /\ row[t] = "revoked"
       /\ Issued(replacedBy[t])
       /\ family[replacedBy[t]] = family[t]
  /\ \A t, u \in Token : replacedBy[t] = replacedBy[u] /\ replacedBy[t] # None => t = u
  /\ \A t, u \in Token : Root(t) /\ Root(u) /\ family[t] = family[u] => t = u

\* A committed logout-all, password change or reset moves the account to a
\* securityVersion that no access token in circulation carries, whatever
\* versions the requests in flight have read.
AccessFence == [][\A r \in Request :
    op[r] \in GlobalOps /\ RevokeApply(r) => sv' \notin access']_vars

\* Every request is answered: no two of them wait for each other's row locks.
RequestsFinish == \A r \in Request : pc[r] # "idle" ~> pc[r] = "idle"

\* When a revocation commits, no token in its scope can still be refreshed:
\* "revoca la familia/sesión actual", "revoca todos los refresh".
RevocationIsComplete == [][\A r \in Request : RevokeApply(r) =>
    \A t \in Token : InScope(r, t) => ~Unrevoked(t)']_vars

\* The families as SessionFamily sees them.
FamilyTokens(f) == {t \in Token : family[t] = f}
Phase == [f \in Family |->
            IF FamilyTokens(f) = {} THEN "unborn"
            ELSE IF \E t \in FamilyTokens(f) : Unrevoked(t) THEN "open" ELSE "closed"]
Head == [f \in Family |->
           IF \E t \in FamilyTokens(f) : Unrevoked(t)
             THEN CHOOSE t \in FamilyTokens(f) : Unrevoked(t) ELSE None]
Families == INSTANCE SessionFamily
              WITH phase <- Phase, head <- Head, spent <- {t \in Token : Issued(t)}

\* A family is opened by a login, lives through rotations, and once closed is
\* never open again: no late commit of a refresh resurrects it.
FamilySpec == Families!Spec
=============================================================================
