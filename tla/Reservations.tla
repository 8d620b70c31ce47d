---------------------------- MODULE Reservations ----------------------------
(***************************************************************************)
(* Tables guests reserve in a bar (reservations.service.ts).  The guest    *)
(* and the bar decide concurrently, and whoever lists reservations cancels *)
(* the ones whose date has passed.  Every handler reads the row, tests its *)
(* status and then writes by id.                                           *)
(***************************************************************************)
EXTENDS Integers, FiniteSets

CONSTANTS
  Request, Reservation,
  MaxServed     \* bound: requests served in all

VARIABLES
  status,      \* status[v] : bar_reservations.status, with "NONE" and "DELETED"
  passed,      \* reservations whose date has passed
  told,        \* told[v] : what the guest was last notified of
  served,      \* bound
  pc,
  at,          \* at[r] : the reservations r works on
  guestEnded,  \* history: reservations the guest cancelled
  overtaken,   \* history: a row of at[r] was written since r read it
  crossed      \* history: reservations such an r has written or notified of

locals == <<pc, at>>
vars == <<status, passed, told, served, locals, guestEnded, overtaken, crossed>>

Open == {"PENDING", "CONFIRMED"}
Final == {"DECLINED", "COMPLETED", "CANCELLED"}
Status == Open \cup Final \cup {"NONE", "DELETED"}
Write == {"confirm", "decline", "complete", "guestCancel", "barCancel", "delete"}
Tell == {"tellCONFIRMED", "tellDECLINED", "tellCANCELLED"}
Label == {"idle", "sweepFind", "sweepWrite"} \cup Write \cup Tell

TellOf(s) == CASE s = "CONFIRMED" -> "tellCONFIRMED" [] s = "DECLINED" -> "tellDECLINED"
               [] OTHER -> "tellCANCELLED"
News(l) == CHOOSE s \in {"CONFIRMED", "DECLINED", "CANCELLED"} : TellOf(s) = l

Exists(v) == status[v] \notin {"NONE", "DELETED"}
Stale == {v \in passed : status[v] \in Open}

-----------------------------------------------------------------------------

\* Reservations from earlier days, some of them confirmed.
Init ==
  /\ status \in [Reservation -> {"NONE", "PENDING", "CONFIRMED"}]
  /\ told = [v \in Reservation |-> IF status[v] = "CONFIRMED" THEN "CONFIRMED" ELSE "NONE"]
  /\ passed = {}
  /\ served \in 0..MaxServed
  /\ pc = [r \in Request |-> "idle"]
  /\ at = [r \in Request |-> {}]
  /\ guestEnded = {} /\ overtaken = {} /\ crossed = {}

Pass(v) ==
  /\ Exists(v) /\ v \notin passed
  /\ passed' = passed \cup {v}
  /\ UNCHANGED <<status, told, served, locals, guestEnded, overtaken, crossed>>

\* create: for a date to come.
Create(r, v) ==
  /\ pc[r] = "idle" /\ status[v] = "NONE"
  /\ served < MaxServed /\ served' = served + 1
  /\ status' = [status EXCEPT ![v] = "PENDING"]
  /\ UNCHANGED <<passed, told, locals, guestEnded, overtaken, crossed>>

\* A request has read the rows of S and goes on to l.
Begin(r, S, l) ==
  /\ pc[r] = "idle"
  /\ served < MaxServed /\ served' = served + 1
  /\ pc' = [pc EXCEPT ![r] = l]
  /\ at' = [at EXCEPT ![r] = S]
  /\ overtaken' = overtaken \ {r}
  /\ UNCHANGED <<status, passed, told, guestEnded, crossed>>

\* ensureNotExpired: one whose date has passed is swept up, not decided.
BeginDecide(r, v, l) ==
  /\ l \in {"confirm", "decline"} /\ Exists(v)
  /\ IF v \in passed
       THEN status[v] \in Open /\ Begin(r, {}, "sweepFind")
       ELSE status[v] = "PENDING" /\ Begin(r, {v}, l)

BeginComplete(r, v) == status[v] = "CONFIRMED" /\ Begin(r, {v}, "complete")

BeginCancel(r, v, l) ==
  /\ l \in {"guestCancel", "barCancel"}
  /\ status[v] \in Open
  /\ Begin(r, {v}, l)

BeginDelete(r, v) == Exists(v) /\ v \in passed /\ Begin(r, {v}, "delete")

\* listForUser, listForBarOwner.
List(r) == Begin(r, {}, "sweepFind")

Goto(r, S, l) ==
  /\ pc' = [pc EXCEPT ![r] = IF S = {} THEN "idle" ELSE l]
  /\ at' = [at EXCEPT ![r] = S]

\* r has written the rows of S.
Wrote(r, S) ==
  /\ overtaken' = overtaken \cup {q \in Request \ {r} : at[q] \cap S # {}}
  /\ crossed' = IF r \in overtaken THEN crossed \cup S ELSE crossed

\* r writes the new status by id; a row that has been deleted is not found
\* and the request fails.  Then the guest is to be told, if tells.
Writes(r, l, new, tells) ==
  \E v \in at[r] :
    /\ pc[r] = l /\ Exists(v)
    /\ status' = [status EXCEPT ![v] = new]
    /\ Wrote(r, {v})
    /\ Goto(r, IF tells THEN {v} ELSE {}, TellOf(new))
    /\ UNCHANGED <<passed, told, served>>

Confirm(r) == Writes(r, "confirm", "CONFIRMED", TRUE) /\ UNCHANGED guestEnded
Decline(r) == Writes(r, "decline", "DECLINED", TRUE) /\ UNCHANGED guestEnded
CancelByBar(r) == Writes(r, "barCancel", "CANCELLED", TRUE) /\ UNCHANGED guestEnded

\* The guest is not notified of what he did himself, nor of a completion.
Complete(r) == Writes(r, "complete", "COMPLETED", FALSE) /\ UNCHANGED guestEnded
CancelByUser(r) ==
  Writes(r, "guestCancel", "CANCELLED", FALSE) /\ guestEnded' = guestEnded \cup at[r]
DeletePast(r) == Writes(r, "delete", "DELETED", FALSE) /\ UNCHANGED guestEnded

\* expirePastReservations: what is open and past is found ...
SweepFind(r) ==
  /\ pc[r] = "sweepFind"
  /\ Goto(r, Stale, "sweepWrite")
  /\ UNCHANGED <<status, passed, told, served, guestEnded, overtaken, crossed>>

\* ... and cancelled by id, whatever its status is now.
SweepWrite(r) ==
  LET S == {v \in at[r] : Exists(v)} IN
  /\ pc[r] = "sweepWrite"
  /\ status' = [v \in Reservation |-> IF v \in S THEN "CANCELLED" ELSE status[v]]
  /\ Wrote(r, S)
  /\ Goto(r, at[r], "tellCANCELLED")
  /\ UNCHANGED <<passed, told, served, guestEnded>>

\* The guest is notified, after the row was written.
Notify(r, v) ==
  /\ pc[r] \in Tell /\ v \in at[r]
  /\ told' = [told EXCEPT ![v] = News(pc[r])]
  /\ crossed' = IF r \in overtaken THEN crossed \cup {v} ELSE crossed
  /\ Goto(r, at[r] \ {v}, pc[r])
  /\ UNCHANGED <<status, passed, served, guestEnded, overtaken>>

\* A query fails or the process dies; a guest may be left untold.
Fail(r) ==
  /\ pc[r] # "idle"
  /\ crossed' = IF pc[r] \in Tell THEN crossed \cup at[r] ELSE crossed
  /\ Goto(r, {}, "idle")
  /\ UNCHANGED <<status, passed, told, served, guestEnded, overtaken>>

\* Requests that may arrive, while the bound allows, and those at work.
Arriving == {r \in Request : pc[r] = "idle" /\ served < MaxServed}
Working == {r \in Request : pc[r] # "idle"}

Next ==
  \/ \E v \in Reservation : Pass(v)
  \/ \E r \in Arriving, v \in Reservation :
       \/ Create(r, v) \/ BeginComplete(r, v) \/ BeginDelete(r, v)
       \/ \E l \in Write : BeginDecide(r, v, l) \/ BeginCancel(r, v, l)
  \/ \E r \in Arriving : List(r)
  \/ \E r \in Working : Confirm(r) \/ Decline(r) \/ Complete(r)
                        \/ CancelByUser(r) \/ CancelByBar(r) \/ DeletePast(r)
                        \/ SweepFind(r) \/ SweepWrite(r) \/ Fail(r)
                        \/ \E v \in Reservation : Notify(r, v)

-----------------------------------------------------------------------------

TypeOK ==
  /\ status \in [Reservation -> Status]
  /\ passed \subseteq Reservation
  /\ told \in [Reservation -> {"NONE", "CONFIRMED", "DECLINED", "CANCELLED"}]
  /\ served \in 0..MaxServed
  /\ pc \in [Request -> Label]
  /\ at \in [Request -> SUBSET Reservation]
  /\ guestEnded \subseteq Reservation /\ overtaken \subseteq Request
  /\ crossed \subseteq Reservation

\* A reservation that is over stays as it ended, or is deleted after its date;
\* only a handler that had read it before it was over can change that.
OutcomeStands ==
  \A v \in Reservation : status[v] \in Final /\ status'[v] # status[v] =>
    \/ status'[v] = "DELETED" /\ v \in passed
    \/ \E r \in overtaken : v \in at[r] /\ pc[r] \in Write \cup {"sweepWrite"}

\* When nobody is at work on a reservation, its guest was last told what it
\* is, unless he ended it himself, an overtaken handler wrote or told him
\* something else, or a notification failed.
Told(v) ==
  status[v] \in {"CONFIRMED", "DECLINED", "CANCELLED"} => told[v] = status[v]
GuestTold ==
  \A v \in Reservation \ (crossed \cup guestEnded) :
    (\A r \in Request : v \notin at[r]) => Told(v)
=============================================================================
