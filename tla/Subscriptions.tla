---------------------------- MODULE Subscriptions ----------------------------
(***************************************************************************)
(* The subscription of one bar.  Its row in bar_subscriptions is written   *)
(* by administrators, by Stripe's webhooks, by the owner's panel and by    *)
(* the deletion of the owner's account.  All but the first trial go        *)
(* through mutate: the request reads the row, decides which columns to     *)
(* set, updates them by id, and then inserts an event into the history; it *)
(* is no transaction, and the requests overlap.                            *)
(*                                                                         *)
(* Stripe is outside: subscriptions paid through a checkout session, their *)
(* changes, and the events it sends, delivered late, twice or out of order.*)
(* Plans are left out: no plan lacks codes or promotions.                  *)
(***************************************************************************)
EXTENDS Integers, FiniteSets

CONSTANTS
  Request,     \* requests the server may be working on at once
  StripeSub,   \* subscriptions that may be bought at Stripe
  TrialDays, PeriodDays, ExtendDays,
  MaxDay,      \* bound: days, and the last day on which Stripe renews
  MaxRequests,  \* bound: requests and webhooks served in all
  None

ASSUME ConstantsOK ==
  /\ TrialDays \in Nat /\ PeriodDays \in Nat /\ ExtendDays \in Nat
  /\ MaxDay \in Nat /\ MaxRequests \in Nat
  /\ None \notin StripeSub

VARIABLES
  row,        \* the bar_subscriptions row, or None
  recorded,   \* newStatus of the history's last event that has one
  deleted,    \* the owner's account and the bar are gone
  stripe,     \* stripe[k] : status of k at Stripe
  until,      \* until[k] : its current_period_end
  opened,     \* checkout sessions the bar has opened
  sent,       \* what Stripe has ever said of its subscriptions
  today,
  started,    \* bound: requests and webhooks so far
  pc,
  read,       \* read[r] : the row as r has read it
  patch,      \* patch[r] : the columns r is going to set
  told,       \* told[r] : whether r's event is going to name the status
  free,       \* history: the last day of the trial and all its extensions
  courtesy,   \* history: the last day an administrator has activated
  muddled     \* history: an event was lost, or two were on their way

database == <<row, recorded, deleted>>
external == <<stripe, until, opened, sent>>
locals == <<read, patch, told>>
granted == <<free, courtesy>>
vars == <<database, external, today, started, pc, locals, granted, muddled>>

Status == {"TRIAL", "ACTIVE", "PAST_DUE", "SUSPENDED", "CANCELED"}
StripeStatus == {"none", "active", "past_due", "unpaid", "canceled"}
Live == {"active", "past_due", "unpaid"}

Row == [status : Status, qr : BOOLEAN, promo : BOOLEAN, canceled : BOOLEAN,
        trialEnd : Nat, periodEnd : Nat, sub : StripeSub \cup {None}]

ASSUME NoneIsNoRow == None \notin Row

Trial(d) == [status |-> "TRIAL", qr |-> TRUE, promo |-> TRUE, canceled |-> FALSE,
             trialEnd |-> d, periodEnd |-> d, sub |-> None]

\* evaluateSubscriptionActive
SubscriptionActive ==
  /\ row # None /\ ~deleted
  /\ \/ row.status = "TRIAL" /\ today <= row.trialEnd
     \/ row.status = "ACTIVE" /\ today <= row.periodEnd

\* evaluateQrAccess, evaluatePromotionsAccess
QrAccess == SubscriptionActive /\ row.qr
PromotionsAccess == SubscriptionActive /\ row.promo

-----------------------------------------------------------------------------

\* A bar is registered with its trial; bars older than subscriptions have none.
Init ==
  /\ \/ row = None /\ free = -1
     \/ row = Trial(TrialDays) /\ free = TrialDays
  /\ recorded = "TRIAL" /\ deleted = FALSE
  /\ stripe = [k \in StripeSub |-> "none"]
  /\ until = [k \in StripeSub |-> 0]
  /\ opened = {} /\ sent = {}
  /\ today = 0 /\ started = 0
  /\ pc = [r \in Request |-> "idle"]
  /\ read = [r \in Request |-> None]
  /\ patch = [r \in Request |-> None]
  /\ told = [r \in Request |-> FALSE]
  /\ courtesy = -1 /\ muddled = FALSE

\* A request or webhook arrives.
Arrives(r) ==
  /\ pc[r] = "idle"
  /\ started < MaxRequests
  /\ started' = started + 1

Return(r) ==
  /\ pc' = [pc EXCEPT ![r] = "idle"]
  /\ read' = [read EXCEPT ![r] = None]
  /\ patch' = [patch EXCEPT ![r] = None]
  /\ told' = [told EXCEPT ![r] = FALSE]

\* getStateForOwner finds no subscription and calls createTrialSubscription.
CreateTrialCheck(r) ==
  /\ Arrives(r) /\ ~deleted /\ row = None
  /\ pc' = [pc EXCEPT ![r] = "create"]
  /\ UNCHANGED <<database, external, today, locals, granted, muddled>>

\* bar_id is unique: the loser's panel shows the row of the winner.
CreateTrial(r) ==
  /\ pc[r] = "create"
  /\ IF row = None
       THEN row' = Trial(today + TrialDays) /\ free' = today + TrialDays
       ELSE UNCHANGED <<row, free>>
  /\ Return(r)
  /\ UNCHANGED <<recorded, deleted, external, today, started, courtesy, muddled>>

-----------------------------------------------------------------------------
(* mutate *)

\* r has read the row and will set the columns of p.  Its event names the new
\* status if the caller says so or if p's differs from the one read.
Decide(r, l, p, says) ==
  /\ pc' = [pc EXCEPT ![r] = l]
  /\ read' = [read EXCEPT ![r] = row]
  /\ patch' = [patch EXCEPT ![r] = p]
  /\ told' = [told EXCEPT ![r] = "status" \in DOMAIN p /\ (says \/ p.status # row.status)]

Recording == {"record", "recordCancel"}
EventPending(q) == pc[q] \in Recording /\ told[q]

\* The columns of o, those of p set.
Patched(o, p) == [c \in DOMAIN o |-> IF c \in DOMAIN p THEN p[c] ELSE o[c]]

\* The update by id.
Write(r) ==
  /\ pc[r] \in {"write", "writeCancel"}
  /\ row' = Patched(row, patch[r])
  /\ pc' = [pc EXCEPT ![r] = IF @ = "write" THEN "record" ELSE "recordCancel"]
  /\ muddled' = (muddled \/ IF told[r] THEN \E q \in Request : EventPending(q)
                            ELSE row'.status # row.status)
  /\ UNCHANGED <<recorded, deleted, external, today, started, locals, granted>>

\* Mutant: the event names the status the request has read.
RecordRead(r) ==
  /\ pc[r] \in Recording
  /\ recorded' = IF told[r] THEN read[r].status ELSE recorded
  /\ IF pc[r] = "record" THEN Return(r)
     ELSE pc' = [pc EXCEPT ![r] = "delete"] /\ UNCHANGED locals
  /\ UNCHANGED <<row, deleted, external, today, started, granted, muddled>>

\* The event, inserted after the update.
Record(r) ==
  /\ pc[r] \in Recording
  /\ recorded' = IF told[r] THEN patch[r].status ELSE recorded
  /\ IF pc[r] = "record" THEN Return(r)
     ELSE pc' = [pc EXCEPT ![r] = "delete"] /\ UNCHANGED locals
  /\ UNCHANGED <<row, deleted, external, today, started, granted, muddled>>

\* The process dies, or the database or Stripe answers with an error.
Fail(r) ==
  /\ pc[r] # "idle"
  /\ muddled' = (muddled \/ EventPending(r))
  /\ Return(r)
  /\ UNCHANGED <<database, external, today, started, granted>>

-----------------------------------------------------------------------------
(* The administrators; loadBarSubscription refuses a deleted bar. *)

AdminLoads(r) ==
  /\ Arrives(r) /\ row # None /\ ~deleted
  /\ UNCHANGED <<database, external, today, muddled>>

Later(d, e) == IF d < e THEN e ELSE d

\* activateSubscription, and reactivateSubscription to which it delegates.
Activate(r) ==
  /\ AdminLoads(r)
  /\ row.status # "ACTIVE"
  /\ Decide(r, "write", [status |-> "ACTIVE", periodEnd |-> today + PeriodDays,
                         canceled |-> FALSE, qr |-> TRUE, promo |-> TRUE], TRUE)
  /\ courtesy' = Later(courtesy, today + PeriodDays)
  /\ UNCHANGED free

Suspend(r) ==
  /\ AdminLoads(r)
  /\ row.status \notin {"SUSPENDED", "CANCELED"}
  /\ Decide(r, "write", [status |-> "SUSPENDED", qr |-> FALSE, promo |-> FALSE], TRUE)
  /\ UNCHANGED granted

\* Mutant: the extension is counted from the end of the paid period.
ExtendFromPeriod(r) ==
  /\ AdminLoads(r)
  /\ row.status \notin {"ACTIVE", "CANCELED"} /\ ~row.canceled
  /\ Decide(r, "write", [status |-> "TRIAL", canceled |-> FALSE,
                         trialEnd |-> row.periodEnd + ExtendDays,
                         periodEnd |-> row.periodEnd + ExtendDays], FALSE)
  /\ free' = free + ExtendDays
  /\ UNCHANGED courtesy

ExtendTrial(r) ==
  /\ AdminLoads(r)
  /\ row.status \notin {"ACTIVE", "CANCELED"} /\ ~row.canceled
  /\ Decide(r, "write", [status |-> "TRIAL", canceled |-> FALSE,
                         trialEnd |-> row.trialEnd + ExtendDays,
                         periodEnd |-> Later(row.trialEnd, row.periodEnd) + ExtendDays], FALSE)
  /\ free' = free + ExtendDays
  /\ UNCHANGED courtesy

\* enableQr, disableQr
SwitchQr(r) ==
  /\ AdminLoads(r)
  /\ Decide(r, "write", [qr |-> ~row.qr], FALSE)
  /\ UNCHANGED granted

\* enablePromotions, disablePromotions
SwitchPromotions(r) ==
  /\ AdminLoads(r)
  /\ Decide(r, "write", [promo |-> ~row.promo], FALSE)
  /\ UNCHANGED granted

-----------------------------------------------------------------------------
(* Stripe's webhooks, and the panel's own retrieval after a checkout.  Each *)
(* is sent once and may arrive at any time, any number of times.            *)

\* Mutant: what is not paid or cancelled is written as Stripe calls it.
RawStatus(s) == IF s = "active" THEN "ACTIVE" ELSE IF s = "canceled" THEN "CANCELED" ELSE s

\* mapStripeStatus
MapStripeStatus(s) ==
  CASE s = "active"   -> "ACTIVE"
    [] s = "canceled" -> "CANCELED"
    [] s = "unpaid"   -> "SUSPENDED"
    [] OTHER          -> "PAST_DUE"

\* applyStripeSubscription
ApplyStripe(r, e) ==
  /\ Arrives(r) /\ row # None
  /\ Decide(r, "write", [status |-> MapStripeStatus(e.status), periodEnd |-> e.until,
                         canceled |-> e.status = "canceled", sub |-> e.sub,
                         qr |-> e.status = "active", promo |-> e.status = "active",
                         trialEnd |-> row.trialEnd], FALSE)
  /\ UNCHANGED <<database, external, today, granted, muddled>>

\* markPastDue, on a failed payment
MarkPastDue(r, e) ==
  /\ Arrives(r) /\ row # None /\ e.status = "past_due"
  /\ Decide(r, "write", [status |-> "PAST_DUE", sub |-> e.sub, qr |-> FALSE, promo |-> FALSE], TRUE)
  /\ UNCHANGED <<database, external, today, granted, muddled>>

-----------------------------------------------------------------------------
(* Stripe *)

StripeSays(k, s, d) ==
  /\ stripe' = [stripe EXCEPT ![k] = s]
  /\ until' = [until EXCEPT ![k] = d]
  /\ sent' = sent \cup {[sub |-> k, status |-> s, until |-> d]}

Outside == <<database, opened, today, started, pc, locals, granted, muddled>>

\* createCheckoutSession, in the panel of a bar that has a subscription row.
OpenCheckout(k) ==
  /\ row # None /\ ~deleted
  /\ stripe[k] = "none" /\ k \notin opened
  /\ opened' = opened \cup {k}
  /\ UNCHANGED <<database, stripe, until, sent, today, started, pc, locals, granted, muddled>>

Pay(k) ==
  /\ k \in opened /\ stripe[k] = "none"
  /\ StripeSays(k, "active", today + PeriodDays)
  /\ UNCHANGED Outside

\* The period rolls on whether or not the invoice is paid.
Renew(k, s) ==
  /\ stripe[k] = "active" /\ until[k] = today /\ today < MaxDay
  /\ StripeSays(k, s, until[k] + PeriodDays)
  /\ UNCHANGED Outside

\* A late payment, the end of the retries, a cancellation.
StripeMoves(k, s) ==
  /\ stripe[k] = "past_due" \/ (stripe[k] \in Live /\ s = "canceled")
  /\ StripeSays(k, s, until[k])
  /\ UNCHANGED Outside

-----------------------------------------------------------------------------
(* The deletion of the owner's account *)

\* cancelBarBillingOrThrow reads the row.
DeleteRead(r) ==
  /\ Arrives(r) /\ ~deleted
  /\ IF row = None
       THEN pc' = [pc EXCEPT ![r] = "delete"] /\ UNCHANGED locals
       ELSE Decide(r, "cancel", [status |-> "CANCELED", canceled |-> TRUE,
                                 qr |-> FALSE, promo |-> FALSE], TRUE)
  /\ UNCHANGED <<database, external, today, granted, muddled>>

\* Mutant: an error of Stripe's does not stop the deletion.
CancelRegardless(r) ==
  /\ pc[r] = "cancel"
  /\ \/ UNCHANGED external
     \/ /\ read[r].sub # None /\ stripe[read[r].sub] \in Live
        /\ StripeSays(read[r].sub, "canceled", until[read[r].sub]) /\ UNCHANGED opened
  /\ pc' = [pc EXCEPT ![r] = "writeCancel"]
  /\ UNCHANGED <<database, today, started, locals, granted, muddled>>

\* The call to Stripe, if the row names a subscription.  Stripe refuses one
\* that is already cancelled: then, as on any other error, the request Fails.
CancelBilling(r) ==
  /\ pc[r] = "cancel"
  /\ LET k == read[r].sub IN
       IF k = None THEN UNCHANGED external
       ELSE /\ stripe[k] \in Live
            /\ StripeSays(k, "canceled", until[k]) /\ UNCHANGED opened
  /\ pc' = [pc EXCEPT ![r] = "writeCancel"]
  /\ UNCHANGED <<database, today, started, locals, granted, muddled>>

\* The transaction; the user's row is deleted once, so a second one aborts.
DeleteTx(r) ==
  /\ pc[r] = "delete"
  /\ deleted' = TRUE
  /\ Return(r)
  /\ UNCHANGED <<row, recorded, external, today, started, granted, muddled>>

-----------------------------------------------------------------------------

NextDay ==
  /\ today < MaxDay
  /\ today' = today + 1
  /\ UNCHANGED <<database, external, started, pc, locals, granted, muddled>>

PanelStep(r) == CreateTrialCheck(r) \/ CreateTrial(r)

AdminStep(r) ==
  Activate(r) \/ Suspend(r) \/ ExtendTrial(r) \/ SwitchQr(r) \/ SwitchPromotions(r)

WebhookStep(r) == \E e \in sent : ApplyStripe(r, e) \/ MarkPastDue(r, e)

DeletionStep(r) == DeleteRead(r) \/ CancelBilling(r) \/ DeleteTx(r)

MutateStep(r) == Write(r) \/ Record(r) \/ Fail(r)

StripeStep ==
  \E k \in StripeSub :
    \/ OpenCheckout(k) \/ Pay(k)
    \/ \E s \in {"active", "past_due"} : Renew(k, s)
    \/ \E s \in {"active", "unpaid", "canceled"} : StripeMoves(k, s)

Next ==
  \/ \E r \in Request : PanelStep(r) \/ AdminStep(r) \/ WebhookStep(r) \/ DeletionStep(r) \/ MutateStep(r)
  \/ StripeStep
  \/ NextDay

Spec == Init /\ [][Next]_vars

-----------------------------------------------------------------------------

Snapshot == [sub : StripeSub, status : StripeStatus, until : Nat]

PatchOK(p) ==
  /\ "status" \in DOMAIN p => p.status \in Status
  /\ "qr" \in DOMAIN p => p.qr \in BOOLEAN
  /\ "promo" \in DOMAIN p => p.promo \in BOOLEAN
  /\ "canceled" \in DOMAIN p => p.canceled \in BOOLEAN
  /\ "trialEnd" \in DOMAIN p => p.trialEnd \in Nat
  /\ "periodEnd" \in DOMAIN p => p.periodEnd \in Nat
  /\ "sub" \in DOMAIN p => p.sub \in StripeSub

LocalsOK(r) ==
  /\ pc[r] \in {"idle", "create"} => read[r] = None /\ ~told[r]
  /\ pc[r] \in {"write", "cancel", "writeCancel"} \cup Recording =>
       /\ row # None /\ read[r] # None
       /\ PatchOK(patch[r])
       /\ told[r] => "status" \in DOMAIN patch[r]

\* Every variable keeps its type; who is about to write has read a row.
TypeOK ==
  /\ row \in Row \cup {None} /\ recorded \in Status /\ deleted \in BOOLEAN
  /\ stripe \in [StripeSub -> StripeStatus] /\ until \in [StripeSub -> Nat]
  /\ opened \subseteq StripeSub /\ sent \subseteq Snapshot
  /\ today \in Nat /\ started \in Nat
  /\ pc \in [Request -> {"idle", "create", "write", "record", "cancel", "writeCancel",
                         "recordCancel", "delete"}]
  /\ read \in [Request -> Row \cup {None}]
  /\ DOMAIN patch = Request /\ told \in [Request -> BOOLEAN]
  /\ \A r \in Request : LocalsOK(r)
  /\ free \in Int /\ courtesy \in Int /\ muddled \in BOOLEAN

\* A bar generates codes or shows promotions only on a day that its trial with
\* its extensions, an administrator's activation or a period which Stripe has
\* said was paid reaches, whatever the order in which requests and webhooks
\* read and write (bar-access.rules.ts).
AccessPaid ==
  QrAccess \/ PromotionsAccess =>
    \/ today <= free \/ today <= courtesy
    \/ \E e \in sent : e.status = "active" /\ today <= e.until

\* The last status in the history is that of the row, while no event is on its
\* way and unless an event was lost to a failure, two were on their way at once,
\* or a status was overwritten by a request which had read the same one and so
\* named none: nothing else makes the history disagree (mutate).
HistoryAgrees ==
  row # None /\ ~muddled /\ (\A r \in Request : ~EventPending(r)) => recorded = row.status

\* An account is deleted only once the subscription its deletion found in the
\* bar's row is cancelled at Stripe (cancelBarBillingOrThrow).
CancelledBeforeDeleted ==
  [][deleted' # deleted =>
       \E r \in Request :
         /\ pc[r] = "delete"
         /\ read[r] # None /\ read[r].sub # None => stripe[read[r].sub] = "canceled"]_vars

\* "Punto único de escritura: auditoría en fila + evento histórico": whoever
\* changes the status of the row is going to insert an event that names it.
StatusChangesRecorded ==
  [][row # None /\ row'.status # row.status =>
       \E r \in Request : pc'[r] \in Recording /\ told[r]]_vars
=============================================================================
