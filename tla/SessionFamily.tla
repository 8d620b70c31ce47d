--------------------------- MODULE SessionFamily ---------------------------
(***************************************************************************)
(* What a refresh-token family promises its owner, without requests, row   *)
(* locks or clocks.  A family is one signed-in device: it is opened once,  *)
(* it is at any time represented by exactly one active token, that token   *)
(* is exchanged for one that was never used before, and once the family    *)
(* is closed it never opens again.                                         *)
(*                                                                         *)
(* Sessions.tla is the detailed specification that implements it.          *)
(***************************************************************************)
CONSTANTS
  Token,    \* refresh tokens that can ever be issued
  Family,   \* family identifiers (randomUUID() of a login)
  None      \* "no token"

VARIABLES
  phase,    \* phase[f] : "unborn", "open" or "closed"
  head,     \* head[f]  : the one active token of an open family
  spent     \* tokens that were once the head of a family

vars == <<phase, head, spent>>

Init ==
  /\ phase = [f \in Family |-> "unborn"]
  /\ head  = [f \in Family |-> None]
  /\ spent = {}

\* A login opens a family that did not exist, with a token never seen before.
Open(f, t) ==
  /\ phase[f] = "unborn"
  /\ t \notin spent
  /\ phase' = [phase EXCEPT ![f] = "open"]
  /\ head'  = [head EXCEPT ![f] = t]
  /\ spent' = spent \cup {t}

\* A refresh exchanges the active token of an open family for a new one.
Rotate(f, t) ==
  /\ phase[f] = "open"
  /\ t \notin spent
  /\ head'  = [head EXCEPT ![f] = t]
  /\ spent' = spent \cup {t}
  /\ UNCHANGED phase

\* A logout closes one family, a security event any number of them.
Close(F) ==
  /\ \A f \in F : phase[f] = "open"
  /\ phase' = [f \in Family |-> IF f \in F THEN "closed" ELSE phase[f]]
  /\ head'  = [f \in Family |-> IF f \in F THEN None ELSE head[f]]
  /\ UNCHANGED spent

Next ==
  \/ \E f \in Family, t \in Token : Open(f, t) \/ Rotate(f, t)
  \/ \E F \in SUBSET Family : Close(F)

Spec == Init /\ [][Next]_vars
=============================================================================
