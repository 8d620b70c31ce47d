--------------------------- MODULE SessionsProofs ---------------------------
(***************************************************************************)
(* Proofs about Sessions, for every set of tokens, families, requests and  *)
(* reset tokens and every bound on securityVersion.                        *)
(***************************************************************************)
EXTENDS Sessions, TLAPS

-----------------------------------------------------------------------------
(* Type correctness *)

\* The variables are well typed initially.
LEMMA InitType == Init => TypeOK
BY MaxSvAssumption DEF Init, TypeOK, RowState, Label

\* One lemma per group of actions: arrivals, which only start a request,
LEMMA ArriveType ==
  ASSUME NEW r \in Request, TypeOK, Arrive(r)
  PROVE  TypeOK'
<1>1. CASE LoginStart(r)
  BY <1>1 DEF LoginStart, Goto, TypeOK, tokens, Label
<1>2. CASE LogoutAll(r)
  BY <1>2 DEF LogoutAll, StartRevoking, Goto, TypeOK, tokens, Label, GlobalOps
<1>3. CASE ChangePassword(r)
  BY <1>3 DEF ChangePassword, StartRevoking, Goto, TypeOK, tokens, Label, GlobalOps
<1>4. ASSUME NEW t \in Token, RefreshRead(r, t) PROVE TypeOK'
  BY <1>4 DEF RefreshRead, StartRevoking, Goto, TypeOK, tokens, Label, FamilyOps
<1>5. ASSUME NEW t \in Token, Logout(r, t) PROVE TypeOK'
  BY <1>5 DEF Logout, StartRevoking, Goto, TypeOK, tokens, Label, FamilyOps
<1>6. ASSUME NEW k \in ResetTok, ResetPassword(r, k) PROVE TypeOK'
  BY <1>6 DEF ResetPassword, StartRevoking, Goto, TypeOK, tokens, Label, GlobalOps
<1>7. QED BY <1>1, <1>2, <1>3, <1>4, <1>5, <1>6 DEF Arrive

\* failures,
LEMMA FailType ==
  ASSUME NEW r \in Request, TypeOK, Fail(r)
  PROVE  TypeOK'
BY DEF Fail, Return, Goto, TypeOK, Label

\* the steps of a request under way,
LEMMA ProgressType ==
  ASSUME NEW r \in Request, TypeOK, Progress(r)
  PROVE  TypeOK'
<1>1. CASE IssueRead(r)
  BY <1>1 DEF IssueRead, Goto, TypeOK, tokens, Label
<1>2. CASE RefreshClaim(r)
  BY <1>2 DEF RefreshClaim, StartRevoking, Return, Goto, TypeOK, Label, FamilyOps
<1>3. CASE RevokeScan(r)
  BY <1>3 DEF RevokeScan, Goto, TypeOK, tokens, Label
<1>4. CASE RevokeApply(r)
  <2>1. row' \in [Token -> RowState]
    BY <1>4 DEF RevokeApply, TypeOK, RowState
  <2>2. sv' \in Nat /\ sv' >= sv /\ userLock' \in Request \cup {None}
    BY <1>4 DEF RevokeApply, TypeOK
  <2>3. reset' \in [ResetTok -> {"unborn", "open", "used"}]
    BY <1>4 DEF RevokeApply, TypeOK
  <2>4. /\ pc' \in [Request -> Label]
        /\ op' \in [Request -> FamilyOps \cup GlobalOps \cup {None}]
        /\ tok' \in [Request -> Token \cup ResetTok \cup {None}]
        /\ scope' \in [Request -> SUBSET Token]
        /\ seen' \in [Request -> 0..sv]
    BY <1>4 DEF RevokeApply, Return, Goto, TypeOK, Label
  <2>5. 0..sv \subseteq 0..sv'
    BY <2>2 DEF TypeOK
  <2>6. access' \subseteq 0..sv' /\ seen' \in [Request -> 0..sv']
    BY <1>4, <2>4, <2>5 DEF RevokeApply, TypeOK
  <2>7. UNCHANGED <<family, replacedBy, age, lock>>
    BY <1>4 DEF RevokeApply
  <2>8. \A q \in Request : pc'[q] \in {"verified", "claimed"} => tok'[q] \in Token
    BY <1>4 DEF RevokeApply, Return, Goto, TypeOK, Label
  <2>9. QED BY <2>1, <2>2, <2>3, <2>4, <2>6, <2>7, <2>8 DEF TypeOK
<1>5. CASE OutOfRoom(r)
  BY <1>5, FailType DEF OutOfRoom
<1>6. ASSUME NEW t \in Token, RefreshCommit(r, t) PROVE TypeOK'
  <2>1. tok[r] \in Token
    BY <1>6 DEF RefreshCommit, TypeOK
  <2>2. /\ sv' \in Nat /\ access' \subseteq 0..sv'
        /\ userLock' \in Request \cup {None}
        /\ age' \in [Token -> {"fresh", "grace", "old"}]
        /\ reset' \in [ResetTok -> {"unborn", "open", "used"}]
    BY <1>6 DEF RefreshCommit, CreateRow, TypeOK
  <2>3. row' \in [Token -> RowState]
    BY <1>6, <2>1 DEF RefreshCommit, TypeOK, RowState
  <2>4. /\ family' \in [Token -> Family \cup {None}]
        /\ replacedBy' \in [Token -> Token \cup {None}]
        /\ lock' \in [Token -> Request \cup {None}]
    BY <1>6, <2>1 DEF RefreshCommit, CreateRow, TypeOK
  <2>5. /\ pc' \in [Request -> Label]
        /\ op' \in [Request -> FamilyOps \cup GlobalOps \cup {None}]
        /\ tok' \in [Request -> Token \cup ResetTok \cup {None}]
        /\ seen' \in [Request -> 0..sv']
        /\ scope' \in [Request -> SUBSET Token]
        /\ \A q \in Request : pc'[q] \in {"verified", "claimed"} => tok'[q] \in Token
    BY <1>6 DEF RefreshCommit, Return, Goto, TypeOK, Label
  <2>6. QED BY <2>2, <2>3, <2>4, <2>5 DEF TypeOK
<1>7. ASSUME NEW t \in Token, NEW f \in Family, IssueInsert(r, t, f) PROVE TypeOK'
  <2>1. /\ sv' \in Nat /\ access' \subseteq 0..sv'
        /\ row' \in [Token -> RowState]
        /\ family' \in [Token -> Family \cup {None}]
        /\ UNCHANGED <<replacedBy, age, lock, userLock, reset>>
    BY <1>7 DEF IssueInsert, CreateRow, TypeOK, RowState
  <2>2. /\ pc' \in [Request -> Label]
        /\ op' \in [Request -> FamilyOps \cup GlobalOps \cup {None}]
        /\ tok' \in [Request -> Token \cup ResetTok \cup {None}]
        /\ seen' \in [Request -> 0..sv']
        /\ scope' \in [Request -> SUBSET Token]
        /\ \A q \in Request : pc'[q] \in {"verified", "claimed"} => tok'[q] \in Token
    BY <1>7 DEF IssueInsert, Return, Goto, TypeOK, Label
  <2>3. QED BY <2>1, <2>2 DEF TypeOK
<1>8. QED BY <1>1, <1>2, <1>3, <1>4, <1>5, <1>6, <1>7 DEF Progress

\* and every step.
LEMMA NextType == TypeOK /\ [Next]_vars => TypeOK'
<1> SUFFICES ASSUME TypeOK, [Next]_vars PROVE TypeOK'
  OBVIOUS
<1>1. ASSUME NEW r \in Request, Arrive(r) \/ Progress(r) \/ Fail(r) PROVE TypeOK'
  BY <1>1, ArriveType, ProgressType, FailType
<1>2. ASSUME NEW t \in Token, Expire(t) \/ GetOlder(t) PROVE TypeOK'
  BY <1>2 DEF Expire, GetOlder, requests, TypeOK, RowState
<1>3. ASSUME NEW k \in ResetTok, ForgotPassword(k) PROVE TypeOK'
  BY <1>3 DEF ForgotPassword, requests, tokens, TypeOK
<1>4. CASE UNCHANGED vars
  BY <1>4 DEF vars, tokens, requests, TypeOK
<1>5. QED BY <1>1, <1>2, <1>3, <1>4 DEF Next

\* Every reachable state is well typed; in particular no access token is ever
\* signed with a securityVersion the account has not reached.
THEOREM TypeCorrect == Spec => []TypeOK
<1>1. QED BY InitType, NextType, PTL DEF Spec

-----------------------------------------------------------------------------
(* The inductive invariant behind OneActiveToken and RotationChain *)

\* An open refresh transaction holds the row lock of the token it claimed, and
\* until it ends nobody else revokes that token.
Claims == \A r \in Request :
  pc[r] = "claimed" => lock[tok[r]] = r /\ Unrevoked(tok[r])

\* A row that was never inserted has no family and no successor.
Births == \A t \in Token :
  /\ row[t] = "unborn" <=> family[t] = None
  /\ row[t] = "unborn" => replacedBy[t] = None

IInv == TypeOK /\ Claims /\ Births /\ OneActiveToken /\ RotationChain

LEMMA InitIInv == Init => IInv
<1> SUFFICES ASSUME Init PROVE IInv
  OBVIOUS
<1>1. TypeOK BY InitType
<1>2. Claims BY DEF Init, Claims
<1>3. Births BY DEF Init, Births
<1>4. OneActiveToken BY DEF Init, OneActiveToken, Unrevoked
<1>5. RotationChain
  BY NoneAssumption DEF Init, RotationChain, Root, Issued
<1>6. QED BY <1>1, <1>2, <1>3, <1>4, <1>5 DEF IInv

\* A step that writes no family or successor and turns no token unrevoked
\* keeps the rows in order.
LEMMA RowsKept ==
  ASSUME IInv, UNCHANGED <<family, replacedBy>>, row' \in [Token -> RowState],
         \A t \in Token : /\ Unrevoked(t)' => Unrevoked(t)
                          /\ row'[t] = "unborn" <=> row[t] = "unborn"
                          /\ row[t] = "revoked" => row'[t] = "revoked"
  PROVE  Births' /\ OneActiveToken' /\ RotationChain'
<1>1. Births' BY DEF IInv, Births
<1>2. OneActiveToken' BY DEF IInv, OneActiveToken
<1>3. RotationChain'
  BY NoneAssumption DEF IInv, TypeOK, RotationChain, Root, Issued
<1>4. QED BY <1>1, <1>2, <1>3

\* The steps that change no row.
QuietStep(r) ==
  \/ Arrive(r) \/ IssueRead(r) \/ RefreshClaim(r) \/ RevokeScan(r) \/ Fail(r)

LEMMA QuietClaims ==
  ASSUME NEW r \in Request, TypeOK, Claims, QuietStep(r)
  PROVE  Claims' /\ UNCHANGED <<row, family, replacedBy>>
<1>1. CASE Arrive(r)
  BY <1>1 DEF Arrive, LoginStart, LogoutAll, ChangePassword, RefreshRead, Logout,
     ResetPassword, StartRevoking, Goto, tokens, Claims, TypeOK, Unrevoked
<1>2. CASE IssueRead(r) \/ RevokeScan(r)
  BY <1>2 DEF IssueRead, RevokeScan, Goto, tokens, Claims, TypeOK, Unrevoked
<1>3. CASE RefreshClaim(r)
  <2>1. tok[r] \in Token /\ lock[tok[r]] = None
    BY <1>3 DEF RefreshClaim, TypeOK
  <2>2. ASSUME NEW q \in Request, q # r, pc[q] = "claimed" PROVE tok[q] # tok[r]
    BY <2>1, <2>2, NoneAssumption DEF Claims, TypeOK
  <2>3. QED
    BY <1>3, <2>1, <2>2 DEF RefreshClaim, StartRevoking, Return, Goto, Claims, TypeOK,
       Unrevoked
<1>4. CASE Fail(r)
  BY <1>4, NoneAssumption DEF Fail, Return, Goto, Claims, TypeOK, Unrevoked
<1>5. QED BY <1>1, <1>2, <1>3, <1>4 DEF QuietStep

LEMMA QuietIInv ==
  ASSUME NEW r \in Request, IInv, QuietStep(r)
  PROVE  IInv'
<1>1. TypeOK'
  BY ArriveType, ProgressType, FailType DEF QuietStep, Progress, IInv
<1>2. Claims' /\ UNCHANGED <<row, family, replacedBy>>
  BY QuietClaims DEF IInv
<1>3. Births' /\ OneActiveToken' /\ RotationChain'
  BY <1>2, RowsKept DEF IInv, TypeOK, Unrevoked
<1>4. QED BY <1>1, <1>2, <1>3 DEF IInv

\* Revoking takes no token that an open refresh has claimed.
LEMMA ApplyIInv ==
  ASSUME NEW r \in Request, IInv, RevokeApply(r)
  PROVE  IInv'
<1>1. TypeOK' BY ProgressType DEF Progress, IInv
<1>2. Claims'
  <2> SUFFICES ASSUME NEW q \in Request, pc'[q] = "claimed"
               PROVE  lock'[tok'[q]] = q /\ row'[tok'[q]] \in {"live", "expired"}
    BY DEF Claims, Unrevoked
  <2>1. q # r /\ pc[q] = "claimed" /\ tok'[q] = tok[q]
    BY DEF RevokeApply, Return, Goto, IInv, TypeOK
  <2>2. tok[q] \in Token /\ lock[tok[q]] = q /\ Unrevoked(tok[q])
    BY <2>1 DEF IInv, Claims, TypeOK
  <2>3. tok[q] \notin scope[r]
    BY <2>2, NoneAssumption DEF RevokeApply
  <2>4. row'[tok[q]] = row[tok[q]] /\ lock' = lock
    BY <2>2, <2>3 DEF RevokeApply
  <2>5. QED BY <2>1, <2>2, <2>4 DEF Unrevoked
<1>3. Births' /\ OneActiveToken' /\ RotationChain'
  <2>1. UNCHANGED <<family, replacedBy>> /\ row' \in [Token -> RowState]
    BY <1>1 DEF RevokeApply, TypeOK
  <2>2. \A t \in Token : /\ Unrevoked(t)' => Unrevoked(t)
                         /\ row'[t] = "unborn" <=> row[t] = "unborn"
                         /\ row[t] = "revoked" => row'[t] = "revoked"
    BY DEF RevokeApply, Unrevoked
  <2>3. QED BY <2>1, <2>2, RowsKept
<1>4. QED BY <1>1, <1>2, <1>3 DEF IInv

\* A login's token is alone in a family that no token had.
LEMMA InsertIInv ==
  ASSUME NEW r \in Request, NEW t \in Token, NEW f \in Family, IInv, IssueInsert(r, t, f)
  PROVE  IInv'
<1>1. TypeOK' BY ProgressType DEF Progress, IInv
<1>2. /\ row[t] = "unborn" /\ row' = [row EXCEPT ![t] = "live"]
      /\ family' = [family EXCEPT ![t] = f] /\ UNCHANGED <<replacedBy, lock>>
      /\ \A u \in Token : family[u] # f
  BY DEF IssueInsert, CreateRow
<1>3. Claims'
  BY <1>2 DEF IssueInsert, Return, Goto, IInv, Claims, TypeOK, Unrevoked
<1>4. Births'
  BY <1>2, NoneAssumption DEF IInv, Births, TypeOK
<1>5. OneActiveToken'
  BY <1>2 DEF IInv, OneActiveToken, Unrevoked, TypeOK
<1>6. RotationChain'
  <2>1. \A u \in Token : replacedBy[u] # t
    BY <1>2, NoneAssumption DEF IInv, RotationChain, Issued
  <2>2. QED
    BY <1>2, <2>1, NoneAssumption DEF IInv, RotationChain, Root, Issued, TypeOK
<1>7. QED BY <1>1, <1>3, <1>4, <1>5, <1>6 DEF IInv

\* A rotation replaces the family's one unrevoked token by its successor.
LEMMA CommitIInv ==
  ASSUME NEW r \in Request, NEW t \in Token, IInv, RefreshCommit(r, t)
  PROVE  IInv'
<1> DEFINE p == tok[r]
<1>1. TypeOK' BY ProgressType DEF Progress, IInv
<1>2. /\ p \in Token /\ lock[p] = r /\ Unrevoked(p) /\ row[t] = "unborn"
      /\ family[p] # None /\ p # t /\ family[p] \in Family
  BY DEF RefreshCommit, CreateRow, IInv, TypeOK, Claims, Births, Unrevoked
<1>3. /\ row' = [row EXCEPT ![p] = "revoked", ![t] = "live"]
      /\ family' = [family EXCEPT ![t] = family[p]]
      /\ replacedBy' = [replacedBy EXCEPT ![p] = t]
      /\ lock' = [lock EXCEPT ![p] = None]
  BY DEF RefreshCommit, CreateRow
<1>4. Claims'
  <2> SUFFICES ASSUME NEW q \in Request, pc'[q] = "claimed"
               PROVE  lock'[tok'[q]] = q /\ row'[tok'[q]] \in {"live", "expired"}
    BY DEF Claims, Unrevoked
  <2>1. q # r /\ pc[q] = "claimed" /\ tok'[q] = tok[q]
    BY DEF RefreshCommit, Return, Goto, IInv, TypeOK
  <2>2. tok[q] \in Token /\ lock[tok[q]] = q /\ Unrevoked(tok[q])
    BY <2>1 DEF IInv, Claims, TypeOK
  <2>3. tok[q] # p /\ tok[q] # t
    BY <1>2, <2>1, <2>2 DEF Unrevoked
  <2>4. QED BY <1>2, <1>3, <2>1, <2>2, <2>3 DEF IInv, TypeOK, Unrevoked
<1>5. Births'
  BY <1>2, <1>3, NoneAssumption DEF IInv, Births, TypeOK
<1>6. OneActiveToken'
  BY <1>2, <1>3 DEF IInv, OneActiveToken, Unrevoked, TypeOK
<1>7. RotationChain'
  <2>1. \A u \in Token : replacedBy[u] # t
    BY <1>2, NoneAssumption DEF IInv, RotationChain, Issued
  <2>2. replacedBy[p] = None /\ replacedBy[t] = None
    BY <1>2 DEF IInv, RotationChain, Births, Unrevoked
  <2>3. \A u \in Token : replacedBy'[u] # None =>
          row'[u] = "revoked" /\ row'[replacedBy'[u]] # "unborn"
            /\ family'[replacedBy'[u]] = family'[u]
    BY <1>2, <1>3, <2>2, NoneAssumption DEF IInv, RotationChain, Births, Issued, Unrevoked, TypeOK
  <2>4. \A u, v \in Token : replacedBy'[u] = replacedBy'[v] /\ replacedBy'[u] # None => u = v
    BY <1>2, <1>3, <2>1 DEF IInv, RotationChain, TypeOK
  <2>5. \A u \in Token : Root(u)' => Root(u) /\ u # t
    <3> SUFFICES ASSUME NEW u \in Token, Root(u)' PROVE Root(u) /\ u # t
      OBVIOUS
    <3>1. row'[u] # "unborn" /\ \A w \in Token : replacedBy'[w] # u
      BY DEF Root, Issued
    <3>2. u # t
      BY <1>2, <1>3, <3>1 DEF IInv, TypeOK
    <3>3. row[u] # "unborn"
      BY <1>2, <1>3, <3>1, <3>2 DEF IInv, TypeOK, Unrevoked
    <3>4. \A w \in Token : replacedBy[w] # u
      BY <1>2, <1>3, <2>2, <3>1, NoneAssumption DEF IInv, TypeOK
    <3>5. QED BY <3>2, <3>3, <3>4 DEF Root, Issued
  <2>6. \A u, v \in Token : Root(u)' /\ Root(v)' /\ family'[u] = family'[v] => u = v
    BY <1>3, <2>5 DEF IInv, RotationChain, TypeOK
  <2>7. QED BY <2>3, <2>4, <2>6 DEF RotationChain, Issued
<1>8. QED BY <1>1, <1>4, <1>5, <1>6, <1>7 DEF IInv

LEMMA NextIInv == IInv /\ [Next]_vars => IInv'
<1> SUFFICES ASSUME IInv, [Next]_vars PROVE IInv'
  OBVIOUS
<1>1. ASSUME NEW r \in Request, Arrive(r) \/ Progress(r) \/ Fail(r) PROVE IInv'
  BY <1>1, QuietIInv, ApplyIInv, InsertIInv, CommitIInv DEF Progress, QuietStep, OutOfRoom
<1>2. ASSUME NEW t \in Token, Expire(t) \/ GetOlder(t) PROVE IInv'
  <2>1. TypeOK' BY NextType, <1>2 DEF IInv, Next
  <2>2. Claims'
    BY <1>2, NoneAssumption DEF Expire, GetOlder, requests, IInv, Claims, TypeOK, Unrevoked
  <2>3. Births' /\ OneActiveToken' /\ RotationChain'
    BY <1>2, <2>1, RowsKept DEF Expire, GetOlder, Unrevoked, IInv, TypeOK
  <2>4. QED BY <2>1, <2>2, <2>3 DEF IInv
<1>3. ASSUME NEW k \in ResetTok, ForgotPassword(k) PROVE IInv'
  <2>1. TypeOK' BY NextType, <1>3 DEF IInv, Next
  <2>2. Claims' /\ Births' /\ OneActiveToken' /\ RotationChain'
    BY <1>3 DEF ForgotPassword, requests, tokens, IInv, Claims, Births, OneActiveToken,
       RotationChain, Root, Issued, Unrevoked
  <2>3. QED BY <2>1, <2>2 DEF IInv
<1>4. CASE UNCHANGED vars
  <2>1. TypeOK' BY NextType, <1>4 DEF IInv
  <2>2. Claims' /\ Births' /\ OneActiveToken' /\ RotationChain'
    BY <1>4 DEF vars, requests, tokens, IInv, Claims, Births, OneActiveToken,
       RotationChain, Root, Issued, Unrevoked
  <2>3. QED BY <2>1, <2>2 DEF IInv
<1>5. QED BY <1>1, <1>2, <1>3, <1>4 DEF Next

LEMMA Inductive == Spec => []IInv
<1>1. QED BY InitIInv, NextIInv, PTL DEF Spec

\* In no interleaving of refreshes, logouts, revocations and failures does a
\* family have two tokens that refresh would accept.
THEOREM OneActiveTokenHolds == Spec => []OneActiveToken
<1>1. IInv => OneActiveToken BY DEF IInv
<1>2. QED BY <1>1, Inductive, PTL

\* The successors of a family's tokens always form one chain from the login.
THEOREM RotationChainHolds == Spec => []RotationChain
<1>1. IInv => RotationChain BY DEF IInv
<1>2. QED BY <1>1, Inductive, PTL

\* Whatever versions requests in flight have read, a committed global
\* revocation leaves no signed access token acceptable.
THEOREM AccessFenceHolds == Spec => AccessFence
<1>1. TypeOK /\ [Next]_vars => [\A r \in Request :
        op[r] \in GlobalOps /\ RevokeApply(r) => sv' \notin access']_vars
  BY DEF TypeOK, RevokeApply
<1>2. QED BY <1>1, TypeCorrect, PTL DEF Spec, AccessFence

-----------------------------------------------------------------------------
(* Sessions implements SessionFamily *)

\* Given the invariant, the mapped head of an open family is its one
\* unrevoked token.
LEMMA HeadIs ==
  ASSUME OneActiveToken, NEW t \in Token, Unrevoked(t), family[t] \in Family
  PROVE  Phase[family[t]] = "open" /\ Head[family[t]] = t
<1>1. t \in FamilyTokens(family[t])
  BY DEF FamilyTokens
<1>2. \A u \in FamilyTokens(family[t]) : Unrevoked(u) => u = t
  BY DEF FamilyTokens, OneActiveToken
<1>3. (CHOOSE u \in FamilyTokens(family[t]) : Unrevoked(u)) = t
  BY <1>1, <1>2
<1>4. QED BY <1>1, <1>3 DEF Phase, Head

LEMMA InitFamilies == Init => Families!Init
BY NoneAssumption DEF Init, Families!Init, Phase, Head, FamilyTokens, Issued, Unrevoked

\* Steps that turn no row unrevoked or revoked are stuttering for the families.
LEMMA SameFamilies ==
  ASSUME UNCHANGED family, \A t \in Token : /\ Unrevoked(t)' <=> Unrevoked(t)
                                            /\ Issued(t)' <=> Issued(t)
  PROVE  UNCHANGED Families!vars
<1>1. \A f \in Family : FamilyTokens(f)' = FamilyTokens(f) BY DEF FamilyTokens
<1>2. Phase' = Phase
  BY <1>1 DEF Phase, FamilyTokens
<1>3. Head' = Head
  <2>1. ASSUME NEW f \in Family
        PROVE  (CHOOSE t \in FamilyTokens(f)' : Unrevoked(t)')
                 = (CHOOSE t \in FamilyTokens(f) : Unrevoked(t))
    <3>1. \A t \in FamilyTokens(f) : Unrevoked(t)' <=> Unrevoked(t) BY DEF FamilyTokens
    <3>2. QED BY <1>1, <3>1
  <2>2. QED BY <1>1, <2>1 DEF Head, FamilyTokens
<1>4. {t \in Token : Issued(t)}' = {t \in Token : Issued(t)} OBVIOUS
<1>5. QED BY <1>2, <1>3, <1>4 DEF Families!vars

\* A login opens a family.
LEMMA InsertOpens ==
  ASSUME NEW r \in Request, NEW t \in Token, NEW f \in Family,
         IInv, IInv', IssueInsert(r, t, f)
  PROVE  Families!Open(f, t)
<1>1. /\ row[t] = "unborn" /\ row' = [row EXCEPT ![t] = "live"]
      /\ family' = [family EXCEPT ![t] = f]
      /\ row \in [Token -> RowState] /\ family \in [Token -> Family \cup {None}]
  BY DEF IssueInsert, CreateRow, IInv, TypeOK
<1>2. FamilyTokens(f) = {}
  BY DEF FamilyTokens, IssueInsert
<1>3. ASSUME NEW g \in Family, g # f
      PROVE  Phase'[g] = Phase[g] /\ Head'[g] = Head[g]
  <2>1. FamilyTokens(g)' = FamilyTokens(g)
    BY <1>1, <1>3, NoneAssumption DEF FamilyTokens, IInv, Births
  <2>2. t \notin FamilyTokens(g)
    BY <1>1, NoneAssumption DEF FamilyTokens, IInv, Births
  <2>3. \A u \in FamilyTokens(g) : Unrevoked(u)' <=> Unrevoked(u)
    BY <1>1, <2>2 DEF Unrevoked, FamilyTokens
  <2>4. (CHOOSE u \in FamilyTokens(g)' : Unrevoked(u)') = (CHOOSE u \in FamilyTokens(g) : Unrevoked(u))
    BY <2>1, <2>3
  <2>5. QED BY <2>1, <2>3, <2>4 DEF Phase, Head
<1>4. Phase'[f] = "open" /\ Head'[f] = t
  <2>1. OneActiveToken' /\ Unrevoked(t)' /\ family'[t] = f
    BY <1>1 DEF IInv, Unrevoked
  <2>2. t \in FamilyTokens(f)' /\ \A u \in FamilyTokens(f)' : Unrevoked(u)' => u = t
    BY <2>1 DEF FamilyTokens, OneActiveToken
  <2>3. (CHOOSE u \in FamilyTokens(f)' : Unrevoked(u)') = t
    BY <2>1, <2>2
  <2>4. QED BY <2>1, <2>2, <2>3 DEF Phase, Head
<1>5. {u \in Token : Issued(u)}' = {u \in Token : Issued(u)} \cup {t}
  BY <1>1 DEF Issued
<1>6. Phase[f] = "unborn" /\ t \notin {u \in Token : Issued(u)}
  BY <1>1, <1>2 DEF Phase, Issued
<1>7. Phase' = [Phase EXCEPT ![f] = "open"] /\ Head' = [Head EXCEPT ![f] = t]
  BY <1>3, <1>4 DEF Phase, Head
<1>8. QED BY <1>5, <1>6, <1>7 DEF Families!Open

\* A committed refresh rotates its family.
LEMMA CommitRotates ==
  ASSUME NEW r \in Request, NEW t \in Token, IInv, IInv', RefreshCommit(r, t)
  PROVE  \E f \in Family : Families!Rotate(f, t)
<1>f. PICK p \in Token, f \in Family : p = tok[r] /\ f = family[p]
  BY DEF RefreshCommit, IInv, TypeOK, Claims, Births, Unrevoked
<1>1. /\ Unrevoked(p) /\ row[t] = "unborn" /\ p # t /\ family[p] = f
      /\ row' = [row EXCEPT ![p] = "revoked", ![t] = "live"]
      /\ family' = [family EXCEPT ![t] = f]
      /\ row \in [Token -> RowState] /\ family \in [Token -> Family \cup {None}]
      /\ family[t] = None
  BY <1>f DEF RefreshCommit, CreateRow, IInv, TypeOK, Claims, Births, Unrevoked
<1>2. ASSUME NEW g \in Family, g # f
      PROVE  Phase'[g] = Phase[g] /\ Head'[g] = Head[g]
  <2>1. FamilyTokens(g)' = FamilyTokens(g) /\ t \notin FamilyTokens(g) /\ p \notin FamilyTokens(g)
    BY <1>1, <1>2, NoneAssumption DEF FamilyTokens
  <2>2. \A u \in FamilyTokens(g) : Unrevoked(u)' <=> Unrevoked(u)
    BY <1>1, <2>1 DEF Unrevoked, FamilyTokens
  <2>3. (CHOOSE u \in FamilyTokens(g)' : Unrevoked(u)') = (CHOOSE u \in FamilyTokens(g) : Unrevoked(u))
    BY <2>1, <2>2
  <2>4. QED BY <2>1, <2>2, <2>3 DEF Phase, Head
<1>3. Phase'[f] = "open" /\ Head'[f] = t
  <2>1. OneActiveToken' /\ Unrevoked(t)' /\ family'[t] = f
    BY <1>1 DEF IInv, Unrevoked
  <2>2. t \in FamilyTokens(f)' /\ \A u \in FamilyTokens(f)' : Unrevoked(u)' => u = t
    BY <2>1 DEF FamilyTokens, OneActiveToken
  <2>3. (CHOOSE u \in FamilyTokens(f)' : Unrevoked(u)') = t
    BY <2>1, <2>2
  <2>4. QED BY <1>1, <2>1, <2>2, <2>3 DEF Phase, Head
<1>4. Phase[f] = "open"
  BY <1>1, HeadIs DEF IInv
<1>5. {u \in Token : Issued(u)}' = {u \in Token : Issued(u)} \cup {t}
  BY <1>1 DEF Issued, Unrevoked
<1>6. t \notin {u \in Token : Issued(u)}
  BY <1>1 DEF Issued
<1>7. Phase' = Phase /\ Head' = [Head EXCEPT ![f] = t]
  BY <1>1, <1>2, <1>3, <1>4 DEF Phase, Head
<1>8. Families!Rotate(f, t)
  BY <1>4, <1>5, <1>6, <1>7 DEF Families!Rotate
<1>9. QED BY <1>1, <1>8

\* A committed revocation closes the families whose token it revoked.
LEMMA ApplyCloses ==
  ASSUME NEW r \in Request, IInv, IInv', RevokeApply(r)
  PROVE  \E F \in SUBSET Family : Families!Close(F)
<1> DEFINE F == {f \in Family : \E t \in scope[r] : Unrevoked(t) /\ family[t] = f}
<1>1. /\ \A t \in Token : Unrevoked(t)' <=> Unrevoked(t) /\ t \notin scope[r]
      /\ \A t \in Token : Issued(t)' <=> Issued(t)
      /\ family' = family /\ scope[r] \subseteq Token
  BY DEF RevokeApply, Unrevoked, Issued, IInv, TypeOK
<1>2. \A f \in Family : FamilyTokens(f)' = FamilyTokens(f)
  BY <1>1 DEF FamilyTokens
<1>3. ASSUME NEW f \in F PROVE Phase[f] = "open" /\ Phase'[f] = "closed" /\ Head'[f] = None
  <2>1. PICK t \in scope[r] : Unrevoked(t) /\ family[t] = f
    OBVIOUS
  <2>2. t \in FamilyTokens(f)
    BY <1>1, <2>1 DEF FamilyTokens
  <2>3. \A u \in FamilyTokens(f) : ~Unrevoked(u)'
    BY <1>1, <2>1 DEF IInv, OneActiveToken, FamilyTokens
  <2>4. QED BY <1>1, <1>2, <2>1, <2>2, <2>3, HeadIs DEF Phase, Head, IInv
<1>4. ASSUME NEW f \in Family, f \notin F PROVE Phase'[f] = Phase[f] /\ Head'[f] = Head[f]
  <2>1. \A u \in FamilyTokens(f) : Unrevoked(u)' <=> Unrevoked(u)
    BY <1>1, <1>4 DEF FamilyTokens
  <2>2. (CHOOSE u \in FamilyTokens(f)' : Unrevoked(u)') = (CHOOSE u \in FamilyTokens(f) : Unrevoked(u))
    BY <1>2, <2>1
  <2>3. QED BY <1>2, <2>1, <2>2 DEF Phase, Head
<1>5. Phase' = [f \in Family |-> IF f \in F THEN "closed" ELSE Phase[f]]
  BY <1>3, <1>4 DEF Phase
<1>6. Head' = [f \in Family |-> IF f \in F THEN None ELSE Head[f]]
  BY <1>3, <1>4 DEF Head
<1>7. {t \in Token : Issued(t)}' = {t \in Token : Issued(t)}
  BY <1>1
<1>8. Families!Close(F)
  BY <1>3, <1>5, <1>6, <1>7 DEF Families!Close
<1>9. QED BY <1>8

LEMMA StepFamilies ==
  ASSUME IInv, IInv', [Next]_vars
  PROVE  [Families!Next]_(Families!vars)
<1>1. ASSUME NEW r \in Request, QuietStep(r) PROVE UNCHANGED Families!vars
  BY <1>1, QuietClaims, SameFamilies DEF IInv, Unrevoked, Issued
<1>2. ASSUME NEW r \in Request, RevokeApply(r) PROVE Families!Next
  BY <1>2, ApplyCloses DEF Families!Next
<1>3. ASSUME NEW r \in Request, NEW t \in Token, RefreshCommit(r, t) PROVE Families!Next
  BY <1>3, CommitRotates DEF Families!Next
<1>4. ASSUME NEW r \in Request, NEW t \in Token, NEW f \in Family, IssueInsert(r, t, f)
      PROVE  Families!Next
  BY <1>4, InsertOpens DEF Families!Next
<1>5. ASSUME NEW r \in Request, Arrive(r) \/ Progress(r) \/ Fail(r)
      PROVE  [Families!Next]_(Families!vars)
  BY <1>1, <1>2, <1>3, <1>4, <1>5 DEF Progress, QuietStep, OutOfRoom
<1>6. ASSUME NEW t \in Token, Expire(t) \/ GetOlder(t) PROVE UNCHANGED Families!vars
  <2>1. family' = family /\ \A u \in Token : /\ Unrevoked(u)' <=> Unrevoked(u)
                                             /\ Issued(u)' <=> Issued(u)
    BY <1>6 DEF Expire, GetOlder, Unrevoked, Issued, IInv, TypeOK
  <2>2. QED BY <2>1, SameFamilies
<1>7. ASSUME NEW k \in ResetTok, ForgotPassword(k) PROVE UNCHANGED Families!vars
  <2>1. UNCHANGED <<row, family>> BY <1>7 DEF ForgotPassword, tokens
  <2>2. QED BY <2>1, SameFamilies DEF Unrevoked, Issued
<1>8. CASE UNCHANGED vars
  <2>1. UNCHANGED <<row, family>> BY <1>8 DEF vars, tokens
  <2>2. UNCHANGED Families!vars BY <2>1, SameFamilies DEF Unrevoked, Issued
  <2>3. QED BY <2>2
<1>9. QED BY <1>5, <1>6, <1>7, <1>8 DEF Next

\* The families of Sessions behave as SessionFamily says: opened once, rotated
\* from one active token to the next, and never reopened.
THEOREM ImplementsFamilies == Spec => FamilySpec
<1>1. IInv /\ IInv' /\ [Next]_vars => [Families!Next]_(Families!vars)
  BY StepFamilies
<1>2. QED BY InitFamilies, Inductive, <1>1, PTL DEF Spec, FamilySpec, Families!Spec
=============================================================================
