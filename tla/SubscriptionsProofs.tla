------------------------- MODULE SubscriptionsProofs -------------------------
(***************************************************************************)
(* Proofs about Subscriptions, for any number of requests, of Stripe's     *)
(* subscriptions, of days and of repeated or late webhooks.                *)
(***************************************************************************)
EXTENDS Subscriptions, TLAPS

\* What mutate writes, column by column.
LEMMA Patching ==
  ASSUME NEW o \in Row, NEW p, PatchOK(p)
  PROVE  /\ Patched(o, p) \in Row
         /\ Patched(o, p).status = IF "status" \in DOMAIN p THEN p.status ELSE o.status
         /\ Patched(o, p).trialEnd = IF "trialEnd" \in DOMAIN p THEN p.trialEnd ELSE o.trialEnd
         /\ Patched(o, p).periodEnd = IF "periodEnd" \in DOMAIN p THEN p.periodEnd ELSE o.periodEnd
BY DEF Row, PatchOK, Patched

LEMMA TrialTyped == ASSUME NEW d \in Nat PROVE Trial(d) \in Row /\ Trial(d) # None
<1>1. Trial(d) \in Row BY DEF Trial, Row, Status
<1>2. Trial(d) # None BY <1>1, NoneIsNoRow
<1>3. QED BY <1>1, <1>2

-----------------------------------------------------------------------------
(* Types *)

RequestTypes ==
  /\ pc \in [Request -> {"idle", "create", "write", "record", "cancel", "writeCancel",
                         "recordCancel", "delete"}]
  /\ read \in [Request -> Row \cup {None}]
  /\ DOMAIN patch = Request /\ told \in [Request -> BOOLEAN]
  /\ \A r \in Request : LocalsOK(r)

StripeTypes ==
  /\ stripe \in [StripeSub -> StripeStatus] /\ until \in [StripeSub -> Nat]
  /\ opened \subseteq StripeSub /\ sent \subseteq Snapshot

LEMMA ReturnTyped ==
  ASSUME TypeOK, NEW r \in Request, Return(r), row # None => row' # None
  PROVE  RequestTypes'
<1>1. pc' \in [Request -> {"idle", "create", "write", "record", "cancel", "writeCancel",
                          "recordCancel", "delete"}]
  BY DEF TypeOK, Return
<1>2. told' \in [Request -> BOOLEAN]
  BY Zenon DEF TypeOK, Return
<1>3. /\ pc'[r] = "idle" /\ read'[r] = None /\ ~told'[r]
      /\ read' \in [Request -> Row \cup {None}] /\ DOMAIN patch' = Request
  BY DEF TypeOK, Return
<1>4. ASSUME NEW q \in Request, q # r
      PROVE  pc'[q] = pc[q] /\ read'[q] = read[q] /\ patch'[q] = patch[q] /\ told'[q] = told[q]
  BY <1>4 DEF TypeOK, Return
<1>5. ASSUME NEW q \in Request PROVE LocalsOK(q)'
  <2>1. CASE q = r BY <2>1, <1>3 DEF LocalsOK, Recording
  <2>2. CASE q # r BY <2>2, <1>4 DEF TypeOK, LocalsOK, PatchOK
  <2>3. QED BY <2>1, <2>2
<1>6. QED BY <1>1, <1>2, <1>3, <1>5 DEF RequestTypes

LEMMA DecideTyped ==
  ASSUME TypeOK, NEW r \in Request, NEW l \in {"write", "cancel"}, NEW p, PatchOK(p),
         NEW says \in BOOLEAN, Decide(r, l, p, says), row # None, row' = row
  PROVE  RequestTypes'
<1>1. pc' \in [Request -> {"idle", "create", "write", "record", "cancel", "writeCancel",
                          "recordCancel", "delete"}]
  BY DEF TypeOK, Decide
<1>2. told' \in [Request -> BOOLEAN]
  BY Zenon DEF TypeOK, Decide
<1>3. read' \in [Request -> Row \cup {None}] /\ DOMAIN patch' = Request
  BY DEF TypeOK, Decide
<1>4. ASSUME NEW q \in Request PROVE LocalsOK(q)'
  <2>1. CASE q = r
    <3>1. pc'[r] = l /\ read'[r] = row /\ patch'[r] = p
      BY DEF TypeOK, Decide
    <3>2. told'[r] => "status" \in DOMAIN p
      BY Zenon DEF TypeOK, Decide
    <3>3. QED BY <2>1, <3>1, <3>2 DEF TypeOK, LocalsOK, PatchOK, Recording
  <2>2. CASE q # r
    BY <2>2 DEF TypeOK, Decide, LocalsOK, PatchOK, Recording
  <2>3. QED BY <2>1, <2>2
<1>5. QED BY <1>1, <1>2, <1>3, <1>4 DEF RequestTypes

LEMMA StripeSaysTyped ==
  ASSUME TypeOK, NEW k \in StripeSub, NEW s \in StripeStatus, NEW d \in Nat, StripeSays(k, s, d),
         opened' = opened
  PROVE  StripeTypes'
BY DEF TypeOK, StripeTypes, StripeSays, Snapshot

\* Steps that move no request keep the requests' types.
LEMMA RequestsStay ==
  ASSUME TypeOK, UNCHANGED <<pc, locals>>, row # None => row' # None
  PROVE  RequestTypes'
BY DEF TypeOK, RequestTypes, LocalsOK, locals, PatchOK, Recording

\* A webhook's patch.
WebhookPatch(e) ==
  [status |-> MapStripeStatus(e.status), periodEnd |-> e.until,
   canceled |-> e.status = "canceled", sub |-> e.sub,
   qr |-> e.status = "active", promo |-> e.status = "active", trialEnd |-> row.trialEnd]

LEMMA WebhookPatchOK ==
  ASSUME NEW e \in Snapshot, row \in Row PROVE PatchOK(WebhookPatch(e))
<1>1. MapStripeStatus(e.status) \in Status BY DEF MapStripeStatus, Status
<1>2. QED BY <1>1 DEF PatchOK, WebhookPatch, Snapshot, Row

LEMMA TypeInit == Init => TypeOK
<1> SUFFICES ASSUME Init PROVE TypeOK
  OBVIOUS
<1>1. row \in Row \cup {None} /\ free \in Int
  BY ConstantsOK, TrialTyped DEF Init
<1>2. told \in [Request -> BOOLEAN] BY Zenon DEF Init
<1>3. ASSUME NEW r \in Request PROVE LocalsOK(r)
  BY DEF Init, LocalsOK, Recording
<1>4. /\ pc \in [Request -> {"idle", "create", "write", "record", "cancel", "writeCancel",
                             "recordCancel", "delete"}]
      /\ read \in [Request -> Row \cup {None}] /\ DOMAIN patch = Request
  BY DEF Init
<1>5. StripeTypes
  BY DEF Init, StripeTypes, StripeStatus
<1>6. recorded \in Status /\ today \in Nat /\ started \in Nat /\ courtesy \in Int
  BY DEF Init, Status
<1>7. deleted \in BOOLEAN /\ muddled \in BOOLEAN
  BY Zenon DEF Init
<1>8. QED
  BY <1>1, <1>2, <1>3, <1>4, <1>5, <1>6, <1>7 DEF TypeOK, StripeTypes

LEMMA TypeStep == TypeOK /\ [Next]_vars => TypeOK'
<1> SUFFICES ASSUME TypeOK, [Next]_vars PROVE TypeOK'
  OBVIOUS
<1> USE ConstantsOK DEF database, external, granted
<1>0. row # None => row \in Row
  BY DEF TypeOK
<1>S. /\ stripe \in [StripeSub -> StripeStatus] /\ until \in [StripeSub -> Nat]
      /\ opened \subseteq StripeSub /\ sent \subseteq Snapshot
  BY DEF TypeOK
<1>1. ASSUME NEW r \in Request, PanelStep(r) PROVE TypeOK'
  <2>1. CASE CreateTrialCheck(r)
    <3>1. RequestTypes' BY <2>1 DEF TypeOK, RequestTypes, CreateTrialCheck, Arrives, LocalsOK, locals, PatchOK, Recording
    <3>2. QED BY <2>1, <3>1 DEF CreateTrialCheck, Arrives, TypeOK, RequestTypes
  <2>2. CASE CreateTrial(r)
    <3>1. row' \in Row \cup {None} /\ free' \in Int /\ (row # None => row' # None)
      BY <2>2, TrialTyped DEF CreateTrial, TypeOK
    <3>2. RequestTypes' BY <2>2, <3>1, ReturnTyped DEF CreateTrial
    <3>3. QED BY <2>2, <3>1, <3>2 DEF CreateTrial, TypeOK, RequestTypes
  <2>3. QED BY <1>1, <2>1, <2>2 DEF PanelStep
<1>2. ASSUME NEW r \in Request, AdminStep(r) PROVE TypeOK'
  <2>0. AdminLoads(r) /\ row \in Row
    BY <1>2, <1>0 DEF AdminStep, Activate, Suspend, ExtendTrial, SwitchQr, SwitchPromotions, AdminLoads
  <2>1. RequestTypes'
    <3>1. CASE Activate(r)
      <4>1. PatchOK([status |-> "ACTIVE", periodEnd |-> today + PeriodDays,
                     canceled |-> FALSE, qr |-> TRUE, promo |-> TRUE])
        BY DEF PatchOK, TypeOK, Status
      <4>2. QED BY <2>0, <3>1, <4>1, DecideTyped DEF Activate, AdminLoads
    <3>2. CASE Suspend(r)
      <4>1. PatchOK([status |-> "SUSPENDED", qr |-> FALSE, promo |-> FALSE])
        BY DEF PatchOK, Status
      <4>2. QED BY <2>0, <3>2, <4>1, DecideTyped DEF Suspend, AdminLoads
    <3>3. CASE ExtendTrial(r)
      <4>1. PatchOK([status |-> "TRIAL", canceled |-> FALSE, trialEnd |-> row.trialEnd + ExtendDays,
                     periodEnd |-> Later(row.trialEnd, row.periodEnd) + ExtendDays])
        BY <2>0 DEF PatchOK, Status, Row, Later
      <4>2. QED BY <2>0, <3>3, <4>1, DecideTyped DEF ExtendTrial, AdminLoads
    <3>4. CASE SwitchQr(r)
      <4>1. PatchOK([qr |-> ~row.qr]) BY <2>0 DEF PatchOK, Row
      <4>2. QED BY <2>0, <3>4, <4>1, DecideTyped DEF SwitchQr, AdminLoads
    <3>5. CASE SwitchPromotions(r)
      <4>1. PatchOK([promo |-> ~row.promo]) BY <2>0 DEF PatchOK, Row
      <4>2. QED BY <2>0, <3>5, <4>1, DecideTyped DEF SwitchPromotions, AdminLoads
    <3>6. QED BY <1>2, <3>1, <3>2, <3>3, <3>4, <3>5 DEF AdminStep
  <2>2. free' \in Int /\ courtesy' \in Int
    <3>1. courtesy \in Int /\ free \in Int /\ today \in Nat BY DEF TypeOK
    <3>2. CASE Activate(r) BY <3>1, <3>2 DEF Activate, Later
    <3>3. CASE ExtendTrial(r) BY <3>1, <3>3 DEF ExtendTrial
    <3>4. CASE UNCHANGED granted BY <3>1, <3>4
    <3>5. QED BY <1>2, <3>2, <3>3, <3>4 DEF AdminStep, Suspend, SwitchQr, SwitchPromotions
  <2>3. QED BY <2>0, <2>1, <2>2 DEF AdminLoads, Arrives, TypeOK, RequestTypes
<1>3. ASSUME NEW r \in Request, NEW e \in sent, ApplyStripe(r, e) \/ MarkPastDue(r, e) PROVE TypeOK'
  <2>0. row \in Row /\ e \in Snapshot
    BY <1>3, <1>0, <1>S DEF ApplyStripe, MarkPastDue
  <2>1. RequestTypes'
    <3>1. CASE ApplyStripe(r, e)
      BY <2>0, <3>1, WebhookPatchOK, DecideTyped DEF ApplyStripe, WebhookPatch
    <3>2. CASE MarkPastDue(r, e)
      <4>1. PatchOK([status |-> "PAST_DUE", sub |-> e.sub, qr |-> FALSE, promo |-> FALSE])
        BY <2>0 DEF PatchOK, Status, Snapshot
      <4>2. QED BY <2>0, <3>2, <4>1, DecideTyped DEF MarkPastDue
    <3>3. QED BY <1>3, <3>1, <3>2
  <2>2. UNCHANGED <<database, external, today, granted, muddled>> /\ started' = started + 1
    BY <1>3 DEF ApplyStripe, MarkPastDue, Arrives
  <2>3. QED BY <2>1, <2>2 DEF TypeOK, RequestTypes
<1>4. ASSUME NEW r \in Request, DeletionStep(r) PROVE TypeOK'
  <2>1. CASE DeleteRead(r)
    <3>1. RequestTypes'
      <4>1. CASE row = None
        BY <2>1, <4>1 DEF DeleteRead, TypeOK, RequestTypes, LocalsOK, locals, PatchOK, Recording
      <4>2. CASE row # None
        <5>1. PatchOK([status |-> "CANCELED", canceled |-> TRUE, qr |-> FALSE, promo |-> FALSE])
          BY DEF PatchOK, Status
        <5>2. QED BY <2>1, <4>2, <5>1, DecideTyped DEF DeleteRead
      <4>3. QED BY <4>1, <4>2
    <3>2. QED BY <2>1, <3>1 DEF DeleteRead, Arrives, TypeOK, RequestTypes
  <2>2. CASE CancelBilling(r)
    <3>1. read[r] \in Row BY <2>2 DEF CancelBilling, TypeOK, LocalsOK
    <3>2. StripeTypes'
      <4>1. CASE read[r].sub = None BY <2>2, <4>1, <1>S DEF CancelBilling, StripeTypes
      <4>2. CASE read[r].sub # None
        BY <2>2, <3>1, <4>2, <1>S, StripeSaysTyped DEF CancelBilling, StripeStatus, Row
      <4>3. QED BY <4>1, <4>2
    <3>3. RequestTypes'
      BY <2>2 DEF CancelBilling, TypeOK, RequestTypes, LocalsOK, locals, PatchOK, Recording
    <3>4. QED BY <2>2, <3>2, <3>3 DEF CancelBilling, StripeTypes, TypeOK, RequestTypes
  <2>3. CASE DeleteTx(r)
    <3>1. RequestTypes' BY <2>3, ReturnTyped DEF DeleteTx
    <3>2. QED BY <2>3, <3>1 DEF DeleteTx, TypeOK, RequestTypes
  <2>4. QED BY <1>4, <2>1, <2>2, <2>3 DEF DeletionStep
<1>5. ASSUME NEW r \in Request, MutateStep(r) PROVE TypeOK'
  <2>1. CASE Write(r)
    <3>1. row \in Row /\ PatchOK(patch[r])
      BY <2>1, <1>0 DEF Write, TypeOK, LocalsOK
    <3>2. row' \in Row BY <2>1, <3>1, Patching DEF Write
    <3>3. row' # None BY <3>2, NoneIsNoRow
    <3>4. RequestTypes'
      BY <2>1, <3>3 DEF Write, TypeOK, RequestTypes, LocalsOK, locals, PatchOK, Recording
    <3>5. muddled' \in BOOLEAN
      BY <2>1 DEF Write, TypeOK
    <3>6. QED BY <2>1, <3>2, <3>4, <3>5 DEF Write, TypeOK, RequestTypes
  <2>2. CASE Record(r)
    <3>1. recorded' \in Status
      BY <2>2 DEF Record, TypeOK, LocalsOK, PatchOK
    <3>2. RequestTypes'
      <4>1. CASE pc[r] = "record" BY <2>2, <4>1, ReturnTyped DEF Record
      <4>2. CASE pc[r] # "record"
        BY <2>2, <4>2 DEF Record, TypeOK, RequestTypes, LocalsOK, locals, PatchOK, Recording
      <4>3. QED BY <4>1, <4>2
    <3>3. QED BY <2>2, <3>1, <3>2 DEF Record, TypeOK, RequestTypes
  <2>3. CASE Fail(r)
    <3>1. RequestTypes' BY <2>3, ReturnTyped DEF Fail
    <3>2. muddled' \in BOOLEAN BY <2>3 DEF Fail, TypeOK
    <3>3. QED BY <2>3, <3>1, <3>2 DEF Fail, TypeOK, RequestTypes
  <2>4. QED BY <1>5, <2>1, <2>2, <2>3 DEF MutateStep
<1>6. CASE StripeStep
  <2>1. RequestTypes'
    BY <1>6, RequestsStay DEF StripeStep, OpenCheckout, Pay, Renew, StripeMoves, Outside
  <2>2. StripeTypes'
    <3>1. ASSUME NEW k \in StripeSub, OpenCheckout(k) PROVE StripeTypes'
      BY <3>1, <1>S DEF OpenCheckout, StripeTypes
    <3>2. ASSUME NEW k \in StripeSub, Pay(k) PROVE StripeTypes'
      BY <3>2, <1>S, StripeSaysTyped DEF Pay, Outside, StripeStatus, TypeOK
    <3>3. ASSUME NEW k \in StripeSub, NEW s \in {"active", "past_due"}, Renew(k, s) PROVE StripeTypes'
      BY <3>3, <1>S, StripeSaysTyped DEF Renew, Outside, StripeStatus
    <3>4. ASSUME NEW k \in StripeSub, NEW s \in {"active", "unpaid", "canceled"}, StripeMoves(k, s)
          PROVE  StripeTypes'
      BY <3>4, <1>S, StripeSaysTyped DEF StripeMoves, Outside, StripeStatus
    <3>5. QED BY <1>6, <3>1, <3>2, <3>3, <3>4 DEF StripeStep
  <2>3. QED
    BY <1>6, <2>1, <2>2 DEF StripeStep, OpenCheckout, Pay, Renew, StripeMoves, Outside, TypeOK, RequestTypes, StripeTypes
<1>7. CASE NextDay
  <2>1. RequestTypes' BY <1>7, RequestsStay DEF NextDay
  <2>2. QED BY <1>7, <2>1 DEF NextDay, TypeOK, RequestTypes
<1>8. CASE UNCHANGED vars
  <2>1. RequestTypes' BY <1>8, RequestsStay DEF vars
  <2>2. QED BY <1>8, <2>1 DEF vars, TypeOK, RequestTypes
<1>9. QED
  BY <1>1, <1>2, <1>3, <1>4, <1>5, <1>6, <1>7, <1>8 DEF Next, WebhookStep

\* The rows, requests, Stripe's statuses and the histories keep their types,
\* and whoever is about to write or to record has read a row.
THEOREM TypeCorrect == Spec => []TypeOK
<1>1. QED BY TypeInit, TypeStep, PTL DEF Spec

-----------------------------------------------------------------------------
(* Access *)

Writing == {"write", "cancel", "writeCancel"}

\* A period ending on day d was activated by an administrator or paid.
Paid(d) == d <= courtesy \/ \E e \in sent : e.status = "active" /\ d = e.until

RowPaid ==
  row # None => row.trialEnd <= free /\ (row.status = "ACTIVE" => Paid(row.periodEnd))

\* What a request is going to write is paid for already; the end of a period is
\* never written without the status that makes it count, nor ACTIVE without it.
PatchPaidBy(p, last, given, said) ==
  /\ "trialEnd" \in DOMAIN p => p.trialEnd <= last
  /\ "periodEnd" \in DOMAIN p => "status" \in DOMAIN p
  /\ "status" \in DOMAIN p /\ p.status = "ACTIVE" =>
       /\ "periodEnd" \in DOMAIN p
       /\ p.periodEnd <= given \/ \E e \in said : e.status = "active" /\ p.periodEnd = e.until
PatchPaid(p) == PatchPaidBy(p, free, courtesy, sent)

Backed == RowPaid /\ \A r \in Request : pc[r] \in Writing => PatchPaid(patch[r])

\* Steps that write no row and decide nothing only add to what is paid.
LEMMA BackedStays ==
  ASSUME TypeOK, Backed, UNCHANGED <<row, free, courtesy>>, sent \subseteq sent',
         \A q \in Request : pc'[q] \in Writing => pc[q] \in Writing /\ patch'[q] = patch[q]
  PROVE  Backed'
<1>1. RowPaid' BY DEF Backed, RowPaid, Paid
<1>2. ASSUME NEW q \in Request, pc'[q] \in Writing PROVE PatchPaid(patch[q])'
  BY <1>2 DEF Backed, PatchPaid, PatchPaidBy, Paid
<1>3. QED BY <1>1, <1>2 DEF Backed

LEMMA BackedDecide ==
  ASSUME TypeOK, TypeOK', Backed, NEW r \in Request, NEW l \in {"write", "cancel"}, NEW p,
         NEW says \in BOOLEAN, Decide(r, l, p, says), UNCHANGED <<row, sent>>, row \in Row,
         free <= free', courtesy <= courtesy', PatchPaidBy(p, free', courtesy', sent')
  PROVE  Backed'
<1>1. free \in Int /\ courtesy \in Int /\ free' \in Int /\ courtesy' \in Int
  BY DEF TypeOK
<1>2. ASSUME NEW d \in Nat, Paid(d) PROVE Paid(d)'
  BY <1>1, <1>2 DEF Paid
<1>3. RowPaid'
  BY <1>1, <1>2 DEF Backed, RowPaid, Row
<1>4. ASSUME NEW q \in Request, pc'[q] \in Writing PROVE PatchPaid(patch[q])'
  <2>1. CASE q = r BY <2>1 DEF Decide, TypeOK, PatchPaid, PatchPaidBy, Paid
  <2>2. CASE q # r
    <3>1. pc[q] \in Writing /\ patch'[q] = patch[q] BY <2>2, <1>4 DEF Decide, TypeOK
    <3>2. PatchOK(patch[q]) BY <3>1 DEF TypeOK, LocalsOK, Writing
    <3>3. QED BY <3>1, <3>2, <1>1, <1>2 DEF Backed, PatchPaid, PatchPaidBy, PatchOK
  <2>3. QED BY <2>1, <2>2
<1>5. QED BY <1>3, <1>4 DEF Backed

LEMMA BackedStep == TypeOK /\ TypeOK' /\ Backed /\ [Next]_vars => Backed'
<1> SUFFICES ASSUME TypeOK, TypeOK', Backed, [Next]_vars PROVE Backed'
  OBVIOUS
<1> USE DEF database, external, granted, locals
<1>0. row # None => row \in Row
  BY DEF TypeOK
<1>T. free \in Int /\ courtesy \in Int /\ today \in Nat BY DEF TypeOK
<1>1. ASSUME NEW r \in Request, PanelStep(r) PROVE Backed'
  <2>1. CASE CreateTrialCheck(r)
    BY <2>1, BackedStays DEF CreateTrialCheck, TypeOK, Writing
  <2>2. CASE CreateTrial(r) /\ row # None
    BY <2>2, BackedStays DEF CreateTrial, Return, TypeOK, Writing
  <2>3. CASE CreateTrial(r) /\ row = None
    <3>1. RowPaid' BY <2>3, <1>T, ConstantsOK DEF CreateTrial, RowPaid, Trial
    <3>2. \A q \in Request : pc'[q] \notin Writing
      BY <2>3 DEF CreateTrial, Return, TypeOK, LocalsOK, Writing
    <3>3. QED BY <3>1, <3>2 DEF Backed
  <2>4. QED BY <1>1, <2>1, <2>2, <2>3 DEF PanelStep
<1>2. ASSUME NEW r \in Request, AdminStep(r) PROVE Backed'
  <2>0. AdminLoads(r) /\ row \in Row
    BY <1>2, <1>0 DEF AdminStep, Activate, Suspend, ExtendTrial, SwitchQr, SwitchPromotions, AdminLoads
  <2>1. row.trialEnd <= free /\ UNCHANGED <<row, sent>> /\ free <= free' /\ courtesy <= courtesy'
    <3>1. row.trialEnd <= free BY <2>0, NoneIsNoRow DEF Backed, RowPaid
    <3>2. UNCHANGED <<row, sent>> BY <2>0 DEF AdminLoads
    <3>3. CASE Activate(r) BY <1>T, <3>1, <3>2, <3>3, ConstantsOK DEF Activate, Later
    <3>4. CASE ExtendTrial(r) BY <1>T, <3>1, <3>2, <3>4, ConstantsOK DEF ExtendTrial
    <3>5. CASE UNCHANGED granted BY <1>T, <3>1, <3>2, <3>5
    <3>6. QED BY <1>2, <3>3, <3>4, <3>5 DEF AdminStep, Suspend, SwitchQr, SwitchPromotions
  <2>2. CASE Activate(r)
    <3> DEFINE p == [status |-> "ACTIVE", periodEnd |-> today + PeriodDays,
                     canceled |-> FALSE, qr |-> TRUE, promo |-> TRUE]
    <3>1. courtesy <= courtesy' /\ today + PeriodDays <= courtesy' /\ free' = free
      BY <2>2, <1>T, ConstantsOK DEF Activate, Later
    <3>2. today' = today BY <2>0 DEF AdminLoads
    <3>3. PatchPaidBy(p, free', courtesy', sent') BY <3>1, <3>2 DEF PatchPaid, PatchPaidBy, Paid
    <3>4. Decide(r, "write", p, TRUE) BY <2>2 DEF Activate
    <3> HIDE DEF p
    <3>5. QED BY <2>0, <2>1, <3>3, <3>4, BackedDecide
  <2>3. CASE Suspend(r)
    <3>1. PICK p : /\ p = [status |-> "SUSPENDED", qr |-> FALSE, promo |-> FALSE]
                   /\ Decide(r, "write", p, TRUE)
      BY <2>3 DEF Suspend
    <3>2. PatchPaidBy(p, free', courtesy', sent') BY <3>1 DEF PatchPaidBy
    <3>3. QED BY <2>0, <2>1, <3>1, <3>2, BackedDecide
  <2>4. CASE ExtendTrial(r)
    <3>1. PICK p : /\ p = [status |-> "TRIAL", canceled |-> FALSE,
                            trialEnd |-> row.trialEnd + ExtendDays,
                            periodEnd |-> Later(row.trialEnd, row.periodEnd) + ExtendDays]
                   /\ Decide(r, "write", p, FALSE)
      BY <2>4 DEF ExtendTrial
    <3>2. free' = free + ExtendDays /\ courtesy' = courtesy BY <2>4 DEF ExtendTrial
    <3>3. row.trialEnd \in Nat BY <2>0 DEF Row
    <3>4. PatchPaidBy(p, free', courtesy', sent') BY <2>1, <3>1, <3>2, <3>3, <1>T, ConstantsOK DEF PatchPaid, PatchPaidBy
    <3>5. QED BY <2>0, <2>1, <3>1, <3>4, BackedDecide
  <2>5. CASE SwitchQr(r)
    <3>1. PICK p : p = [qr |-> ~row.qr] /\ Decide(r, "write", p, FALSE) BY <2>5 DEF SwitchQr
    <3>2. PatchPaidBy(p, free', courtesy', sent') BY <3>1 DEF PatchPaid, PatchPaidBy
    <3>3. QED BY <2>0, <2>1, <3>1, <3>2, BackedDecide
  <2>6. CASE SwitchPromotions(r)
    <3>1. PICK p : p = [promo |-> ~row.promo] /\ Decide(r, "write", p, FALSE)
      BY <2>6 DEF SwitchPromotions
    <3>2. PatchPaidBy(p, free', courtesy', sent') BY <3>1 DEF PatchPaid, PatchPaidBy
    <3>3. QED BY <2>0, <2>1, <3>1, <3>2, BackedDecide
  <2>7. QED BY <1>2, <2>2, <2>3, <2>4, <2>5, <2>6 DEF AdminStep
<1>3. ASSUME NEW r \in Request, NEW e \in sent, ApplyStripe(r, e) \/ MarkPastDue(r, e) PROVE Backed'
  <2>0. /\ row \in Row /\ row.trialEnd <= free
        /\ free' = free /\ courtesy' = courtesy /\ UNCHANGED <<row, sent>>
        /\ free <= free' /\ courtesy <= courtesy'
    <3>1. row \in Row /\ row # None BY <1>3, <1>0 DEF ApplyStripe, MarkPastDue
    <3>2. row.trialEnd <= free BY <3>1 DEF Backed, RowPaid
    <3>3. free' = free /\ courtesy' = courtesy /\ UNCHANGED <<row, sent>>
      BY <1>3 DEF ApplyStripe, MarkPastDue
    <3>4. QED BY <3>1, <3>2, <3>3, <1>T
  <2>1. CASE ApplyStripe(r, e)
    <3>1. PICK p : /\ p = WebhookPatch(e)
                   /\ Decide(r, "write", p, FALSE)
      BY <2>1 DEF ApplyStripe, WebhookPatch
    <3>2. p.status = "ACTIVE" => e.status = "active"
      BY <3>1 DEF WebhookPatch, MapStripeStatus
    <3>3. PatchPaidBy(p, free', courtesy', sent') BY <2>0, <3>1, <3>2 DEF PatchPaid, PatchPaidBy, Paid, WebhookPatch
    <3>4. QED BY <2>0, <3>1, <3>3, BackedDecide
  <2>2. CASE MarkPastDue(r, e)
    <3>1. PICK p : /\ p = [status |-> "PAST_DUE", sub |-> e.sub, qr |-> FALSE, promo |-> FALSE]
                   /\ Decide(r, "write", p, TRUE)
      BY <2>2 DEF MarkPastDue
    <3>2. PatchPaidBy(p, free', courtesy', sent') BY <3>1 DEF PatchPaid, PatchPaidBy
    <3>3. QED BY <2>0, <3>1, <3>2, BackedDecide
  <2>3. QED BY <1>3, <2>1, <2>2
<1>4. ASSUME NEW r \in Request, DeletionStep(r) PROVE Backed'
  <2>1. CASE DeleteRead(r) /\ row = None
    BY <2>1, BackedStays DEF DeleteRead, TypeOK, Writing
  <2>2. CASE DeleteRead(r) /\ row # None
    <3>1. PICK p : /\ p = [status |-> "CANCELED", canceled |-> TRUE, qr |-> FALSE, promo |-> FALSE]
                   /\ Decide(r, "cancel", p, TRUE)
      BY <2>2 DEF DeleteRead
    <3>2. PatchPaidBy(p, free', courtesy', sent') BY <3>1 DEF PatchPaid, PatchPaidBy
    <3>3. /\ row \in Row /\ UNCHANGED <<row, sent>>
          /\ free <= free' /\ courtesy <= courtesy'
      BY <2>2, <1>0, <1>T DEF DeleteRead
    <3>4. QED BY <3>1, <3>2, <3>3, BackedDecide
  <2>3. CASE CancelBilling(r)
    BY <2>3, BackedStays DEF CancelBilling, StripeSays, TypeOK, Writing
  <2>4. CASE DeleteTx(r)
    BY <2>4, BackedStays DEF DeleteTx, Return, TypeOK, Writing
  <2>5. QED BY <1>4, <2>1, <2>2, <2>3, <2>4 DEF DeletionStep
<1>5. ASSUME NEW r \in Request, MutateStep(r) PROVE Backed'
  <2>1. CASE Write(r)
    <3>1. row \in Row /\ PatchOK(patch[r]) /\ PatchPaid(patch[r])
      BY <2>1, <1>0 DEF Write, TypeOK, LocalsOK, Writing, Backed
    <3>2. row' = Patched(row, patch[r]) /\ UNCHANGED <<free, courtesy, sent>> BY <2>1 DEF Write
    <3>3. row.trialEnd <= free /\ (row.status = "ACTIVE" => Paid(row.periodEnd))
      BY <3>1, NoneIsNoRow DEF Backed, RowPaid
    <3>4. row'.trialEnd <= free
      BY <3>1, <3>2, <3>3, Patching DEF PatchPaid, PatchPaidBy
    <3>5. row'.status = "ACTIVE" => Paid(row'.periodEnd)
      BY <3>1, <3>2, <3>3, Patching DEF PatchPaid, PatchPaidBy, Paid
    <3>6. RowPaid' BY <3>2, <3>4, <3>5 DEF RowPaid, Paid
    <3>7. ASSUME NEW q \in Request, pc'[q] \in Writing PROVE PatchPaid(patch[q])'
      BY <2>1, <3>7 DEF Write, TypeOK, Backed, PatchPaid, PatchPaidBy, Paid, Writing
    <3>8. QED BY <3>6, <3>7 DEF Backed
  <2>2. CASE Record(r)
    BY <2>2, BackedStays DEF Record, Return, TypeOK, Writing
  <2>3. CASE Fail(r)
    BY <2>3, BackedStays DEF Fail, Return, TypeOK, Writing
  <2>4. QED BY <1>5, <2>1, <2>2, <2>3 DEF MutateStep
<1>6. CASE StripeStep
  <2>1. UNCHANGED <<row, pc, patch, free, courtesy>> /\ sent \subseteq sent'
    BY <1>6 DEF StripeStep, OpenCheckout, Pay, Renew, StripeMoves, Outside, StripeSays
  <2>2. QED BY <2>1, BackedStays
<1>7. CASE NextDay \/ UNCHANGED vars
  BY <1>7, BackedStays DEF NextDay, vars
<1>8. QED
  BY <1>1, <1>2, <1>3, <1>4, <1>5, <1>6, <1>7 DEF Next, WebhookStep

LEMMA BackedInit == Init => Backed
<1> SUFFICES ASSUME Init PROVE Backed
  OBVIOUS
<1>1. RowPaid BY ConstantsOK DEF Init, RowPaid, Trial
<1>2. QED BY <1>1 DEF Init, Backed, Writing

\* For any days of trial, any extensions and any order of webhooks, a bar has
\* access only on days that were given to it or paid for.
THEOREM AccessPaidHolds == Spec => []AccessPaid
<1>1. TypeOK /\ Backed => AccessPaid
  <2> SUFFICES ASSUME TypeOK, Backed, SubscriptionActive
               PROVE  \/ today <= free \/ today <= courtesy
                      \/ \E e \in sent : e.status = "active" /\ today <= e.until
    BY DEF AccessPaid, QrAccess, PromotionsAccess
  <2>1. row \in Row /\ today \in Nat /\ free \in Int /\ courtesy \in Int
    BY DEF SubscriptionActive, TypeOK
  <2>2. row.trialEnd \in Nat /\ row.periodEnd \in Nat BY <2>1 DEF Row
  <2>3. CASE row.status = "TRIAL" BY <2>1, <2>2, <2>3 DEF SubscriptionActive, Backed, RowPaid
  <2>4. CASE row.status = "ACTIVE" BY <2>1, <2>2, <2>4 DEF SubscriptionActive, Backed, RowPaid, Paid
  <2>5. QED BY <2>3, <2>4 DEF SubscriptionActive
<1>2. QED BY <1>1, TypeInit, TypeStep, BackedInit, BackedStep, PTL DEF Spec

-----------------------------------------------------------------------------
(* The history *)

\* Before the first subscription there is no event.  After that, and unless
\* muddled, at most one event is on its way; it names the row's status, and
\* when there is none the last one recorded does.
InStep ==
  /\ row = None => recorded = "TRIAL"
  /\ row # None /\ ~muddled =>
       /\ \A r \in Request : EventPending(r) => patch[r].status = row.status
       /\ \A r, q \in Request : EventPending(r) /\ EventPending(q) => r = q
       /\ (\A r \in Request : ~EventPending(r)) => recorded = row.status

LEMMA InStepStays ==
  ASSUME InStep, UNCHANGED <<row, recorded, muddled>>,
         \A q \in Request : EventPending(q)' <=> EventPending(q),
         \A q \in Request : EventPending(q) => patch'[q] = patch[q]
  PROVE  InStep'
<1>1. CASE row = None BY <1>1 DEF InStep
<1>2. CASE row # None /\ ~muddled
  <2>1. ASSUME NEW q \in Request, EventPending(q)' PROVE patch'[q].status = row'.status
    BY <1>2, <2>1 DEF InStep
  <2>2. ASSUME NEW q \in Request, NEW r \in Request, EventPending(q)', EventPending(r)' PROVE r = q
    BY <1>2, <2>2 DEF InStep
  <2>3. (\A r \in Request : ~EventPending(r)') => recorded' = row'.status
    BY <1>2 DEF InStep
  <2>4. QED BY <1>2, <2>1, <2>2, <2>3 DEF InStep
<1>3. CASE muddled BY <1>3 DEF InStep
<1>4. QED BY <1>1, <1>2, <1>3

LEMMA InStepStep == TypeOK /\ TypeOK' /\ InStep /\ [Next]_vars => InStep'
<1> SUFFICES ASSUME TypeOK, TypeOK', InStep, [Next]_vars PROVE InStep'
  OBVIOUS
<1> USE DEF database, locals
<1>0. \A q \in Request : EventPending(q) => row # None
  BY DEF TypeOK, LocalsOK, EventPending
\* A request that is not recording starts, decides, cancels or returns.
<1>1. ASSUME NEW r \in Request, UNCHANGED <<row, recorded, muddled>>,
             pc[r] \notin Recording, pc'[r] \notin Recording,
             \A q \in Request : q # r =>
               pc'[q] = pc[q] /\ patch'[q] = patch[q] /\ told'[q] = told[q]
      PROVE  InStep'
  <2>1. \A q \in Request : EventPending(q)' <=> EventPending(q)
    BY <1>1 DEF EventPending
  <2>2. \A q \in Request : EventPending(q) => patch'[q] = patch[q]
    BY <1>1 DEF EventPending
  <2>3. QED BY <1>1, <2>1, <2>2, InStepStays
<1>2. ASSUME NEW r \in Request, PanelStep(r) PROVE InStep'
  <2>1. CASE CreateTrialCheck(r)
    BY <2>1, <1>1 DEF CreateTrialCheck, Arrives, TypeOK, Recording
  <2>2. CASE CreateTrial(r) /\ row # None
    BY <2>2, <1>1 DEF CreateTrial, Return, TypeOK, Recording
  <2>3. CASE CreateTrial(r) /\ row = None
    <3>1. row' = Trial(today + TrialDays) /\ recorded' = "TRIAL"
      BY <2>3 DEF CreateTrial, InStep
    <3>2. row'.status = "TRIAL" BY <3>1 DEF Trial
    <3>3. \A q \in Request : ~EventPending(q)'
      BY <2>3, <1>0 DEF CreateTrial, Return, TypeOK, EventPending, Recording
    <3>4. row' # None BY <2>3, <3>1, TrialTyped, ConstantsOK DEF TypeOK
    <3>5. QED BY <3>1, <3>2, <3>3, <3>4 DEF InStep
  <2>4. QED BY <1>2, <2>1, <2>2, <2>3 DEF PanelStep
\* Reading the row and deciding on a patch records nothing.
<1>3. ASSUME NEW r \in Request, NEW l \in {"write", "cancel"}, NEW p, NEW says \in BOOLEAN,
             pc[r] = "idle", Decide(r, l, p, says), UNCHANGED <<row, recorded, muddled>>
      PROVE  InStep'
  BY <1>1, <1>3 DEF Decide, TypeOK, Recording
<1>4. ASSUME NEW r \in Request, AdminStep(r) PROVE InStep'
  <2>1. pc[r] = "idle" /\ UNCHANGED <<row, recorded, muddled>>
    BY <1>4 DEF AdminStep, Activate, Suspend, ExtendTrial, SwitchQr, SwitchPromotions, AdminLoads, Arrives
  <2>2. \E p : Decide(r, "write", p, TRUE) \/ Decide(r, "write", p, FALSE)
    BY <1>4 DEF AdminStep, Activate, Suspend, ExtendTrial, SwitchQr, SwitchPromotions
  <2>3. QED BY <2>1, <2>2, <1>3
<1>5. ASSUME NEW r \in Request, NEW e \in sent, ApplyStripe(r, e) \/ MarkPastDue(r, e) PROVE InStep'
  <2>1. pc[r] = "idle" /\ UNCHANGED <<row, recorded, muddled>>
    BY <1>5 DEF ApplyStripe, MarkPastDue, Arrives
  <2>2. \E p : Decide(r, "write", p, TRUE) \/ Decide(r, "write", p, FALSE)
    BY <1>5 DEF ApplyStripe, MarkPastDue
  <2>3. QED BY <2>1, <2>2, <1>3
<1>6. ASSUME NEW r \in Request, DeletionStep(r) PROVE InStep'
  <2>1. CASE DeleteRead(r) /\ row = None
    BY <2>1, <1>1 DEF DeleteRead, Arrives, TypeOK, Recording
  <2>2. CASE DeleteRead(r) /\ row # None
    <3>1. pc[r] = "idle" /\ UNCHANGED <<row, recorded, muddled>> BY <2>2 DEF DeleteRead, Arrives
    <3>2. \E p : Decide(r, "cancel", p, TRUE) BY <2>2 DEF DeleteRead
    <3>3. QED BY <3>1, <3>2, <1>3
  <2>3. CASE CancelBilling(r)
    BY <2>3, <1>1 DEF CancelBilling, TypeOK, Recording
  <2>4. CASE DeleteTx(r)
    BY <2>4, <1>1 DEF DeleteTx, Return, TypeOK, Recording
  <2>5. QED BY <1>6, <2>1, <2>2, <2>3, <2>4 DEF DeletionStep
<1>7. ASSUME NEW r \in Request, Write(r) PROVE InStep'
  <2>1. /\ row \in Row /\ row # None /\ row' # None /\ PatchOK(patch[r])
        /\ told[r] => "status" \in DOMAIN patch[r]
    <3>1. row \in Row /\ PatchOK(patch[r]) /\ row # None /\ (told[r] => "status" \in DOMAIN patch[r])
      BY <1>7 DEF Write, TypeOK, LocalsOK
    <3>2. row' \in Row BY <1>7, <3>1, Patching DEF Write
    <3>3. QED BY <3>1, <3>2, NoneIsNoRow
  <2>2. row'.status = IF "status" \in DOMAIN patch[r] THEN patch[r].status ELSE row.status
    BY <1>7, <2>1, Patching DEF Write
  <2>3. \A q \in Request : q # r => (EventPending(q)' <=> EventPending(q))
    BY <1>7 DEF Write, TypeOK, EventPending
  <2>4. ~EventPending(r) /\ (EventPending(r)' <=> told[r])
    BY <1>7 DEF Write, TypeOK, EventPending, Recording
  <2>5. patch' = patch /\ recorded' = recorded BY <1>7 DEF Write
  <2>6. CASE muddled' BY <2>1, <2>6 DEF InStep
  <2>7. CASE ~muddled' /\ told[r]
    <3>1. \A q \in Request : ~EventPending(q) BY <1>7, <2>7 DEF Write
    <3>2. \A q \in Request : EventPending(q)' => q = r BY <2>3, <3>1
    <3>3. EventPending(r)' BY <2>4, <2>7
    <3>4. row'.status = patch'[r].status BY <2>1, <2>2, <2>5, <2>7
    <3>5. QED BY <2>1, <3>2, <3>3, <3>4 DEF InStep
  <2>8. CASE ~muddled' /\ ~told[r]
    <3>1. ~muddled /\ row'.status = row.status BY <1>7, <2>8 DEF Write
    <3>2. \A q \in Request : EventPending(q)' <=> EventPending(q) BY <2>3, <2>4, <2>8
    <3>3. QED BY <2>1, <2>5, <3>1, <3>2 DEF InStep
  <2>9. QED BY <2>6, <2>7, <2>8
<1>8. ASSUME NEW r \in Request, Record(r) PROVE InStep'
  <2>1. \A q \in Request : q # r =>
          (EventPending(q)' <=> EventPending(q)) /\ patch'[q] = patch[q]
    BY <1>8 DEF Record, Return, TypeOK, EventPending
  <2>2. ~EventPending(r)'
    BY <1>8 DEF Record, Return, TypeOK, EventPending, Recording
  <2>3. row' = row /\ muddled' = muddled /\ row # None
    BY <1>8 DEF Record, TypeOK, LocalsOK
  <2>4. CASE told[r]
    <3>1. EventPending(r) /\ recorded' = patch[r].status BY <1>8, <2>4 DEF Record, EventPending
    <3>2. ~muddled => patch[r].status = row.status /\ \A q \in Request : EventPending(q) => q = r
      BY <2>3, <3>1 DEF InStep
    <3>3. ~muddled => \A q \in Request : ~EventPending(q)' BY <2>1, <2>2, <3>2
    <3>4. QED BY <2>3, <3>1, <3>2, <3>3 DEF InStep
  <2>5. CASE ~told[r]
    <3>1. recorded' = recorded /\ ~EventPending(r) BY <1>8, <2>5 DEF Record, EventPending
    <3>2. \A q \in Request : EventPending(q)' <=> EventPending(q) BY <2>1, <2>2, <3>1
    <3>3. \A q \in Request : EventPending(q) => patch'[q] = patch[q] BY <2>1, <3>1
    <3>4. QED BY <2>3, <3>1, <3>2, <3>3, InStepStays
  <2>6. QED BY <2>4, <2>5
<1>9. ASSUME NEW r \in Request, Fail(r) PROVE InStep'
  <2>1. \A q \in Request : q # r =>
          (EventPending(q)' <=> EventPending(q)) /\ patch'[q] = patch[q]
    BY <1>9 DEF Fail, Return, TypeOK, EventPending
  <2>2. ~EventPending(r)'
    BY <1>9 DEF Fail, Return, TypeOK, EventPending, Recording
  <2>3. row' = row /\ recorded' = recorded BY <1>9 DEF Fail
  <2>4. CASE EventPending(r)
    <3>1. muddled' /\ row # None BY <1>9, <2>4, <1>0 DEF Fail
    <3>2. QED BY <2>3, <3>1 DEF InStep
  <2>5. CASE ~EventPending(r)
    <3>1. muddled' = muddled BY <1>9, <2>5 DEF Fail, TypeOK
    <3>2. \A q \in Request : EventPending(q)' <=> EventPending(q) BY <2>1, <2>2, <2>5
    <3>3. \A q \in Request : EventPending(q) => patch'[q] = patch[q] BY <2>1, <2>5
    <3>4. QED BY <2>3, <3>1, <3>2, <3>3, InStepStays
  <2>6. QED BY <2>4, <2>5
<1>10. CASE StripeStep \/ NextDay \/ UNCHANGED vars
  <2>1. UNCHANGED <<row, recorded, muddled, pc, patch, told>>
    BY <1>10 DEF StripeStep, OpenCheckout, Pay, Renew, StripeMoves, Outside, NextDay, vars
  <2>2. QED BY <2>1, InStepStays DEF EventPending
<1>11. QED
  BY <1>2, <1>4, <1>5, <1>6, <1>7, <1>8, <1>9, <1>10 DEF Next, MutateStep, WebhookStep

LEMMA InStepInit == Init => InStep
<1> SUFFICES ASSUME Init PROVE InStep
  OBVIOUS
<1>1. \A q \in Request : ~EventPending(q) BY DEF Init, EventPending, Recording
<1>2. row # None => row.status = "TRIAL" BY DEF Init, Trial
<1>3. QED BY <1>1, <1>2 DEF Init, InStep

\* The history and the row agree except after a lost event, two at once, or a
\* status overwritten by one who had read the same.
THEOREM HistoryAgreesHolds == Spec => []HistoryAgrees
<1>1. InStep => HistoryAgrees BY DEF InStep, HistoryAgrees
<1>2. QED BY <1>1, TypeInit, TypeStep, InStepInit, InStepStep, PTL DEF Spec

-----------------------------------------------------------------------------
(* Deletion *)

\* A deletion past Stripe has cancelled what it read; and it stays cancelled.
Cancelled(r) ==
  pc[r] \in {"writeCancel", "recordCancel", "delete"} /\ read[r] # None /\ read[r].sub # None =>
    stripe[read[r].sub] = "canceled"

AllCancelled == \A r \in Request : Cancelled(r)

LEMMA StaysCancelled ==
  ASSUME TypeOK, [Next]_vars, NEW k \in StripeSub, stripe[k] = "canceled" PROVE stripe'[k] = "canceled"
<1> USE DEF external
<1>1. CASE StripeStep
  BY <1>1 DEF StripeStep, OpenCheckout, Pay, Renew, StripeMoves, StripeSays, Live, TypeOK
<1>2. ASSUME NEW r \in Request, CancelBilling(r) PROVE stripe'[k] = "canceled"
  BY <1>2 DEF CancelBilling, StripeSays, TypeOK
<1>3. CASE UNCHANGED stripe BY <1>3
<1>4. QED
  BY <1>1, <1>2, <1>3 DEF Next, vars, PanelStep, CreateTrialCheck, CreateTrial, AdminStep, Activate,
     Suspend, ExtendTrial, SwitchQr, SwitchPromotions, AdminLoads, WebhookStep, ApplyStripe, MarkPastDue,
     DeletionStep, DeleteRead, DeleteTx, MutateStep, Write, Record, Fail, NextDay

LEMMA CancelledStep == TypeOK /\ AllCancelled /\ [Next]_vars => AllCancelled'
<1> SUFFICES ASSUME TypeOK, AllCancelled, [Next]_vars, NEW q \in Request PROVE Cancelled(q)'
  BY DEF AllCancelled
<1> USE DEF external, locals
<1> DEFINE Past == {"writeCancel", "recordCancel", "delete"}
<1>0. \A k \in StripeSub : stripe[k] = "canceled" => stripe'[k] = "canceled"
  BY StaysCancelled
<1>1. CASE pc'[q] \notin Past BY <1>1 DEF Cancelled
<1>2. CASE pc[q] \in Past /\ read'[q] = read[q]
  <2>1. Cancelled(q) BY DEF AllCancelled
  <2>2. read[q] # None => read[q].sub \in StripeSub \cup {None} BY DEF TypeOK, Row
  <2>3. QED BY <1>0, <1>2, <2>1, <2>2 DEF Cancelled
<1>3. CASE CancelBilling(q)
  <2>1. read[q] \in Row /\ read' = read BY <1>3 DEF CancelBilling, TypeOK, LocalsOK
  <2>2. read[q].sub # None => read[q].sub \in StripeSub BY <2>1 DEF Row
  <2>3. read[q].sub # None => stripe'[read[q].sub] = "canceled"
    BY <1>3, <2>2 DEF CancelBilling, StripeSays, TypeOK
  <2>4. QED BY <2>1, <2>3 DEF Cancelled
<1>4. CASE DeleteRead(q)
  BY <1>4 DEF DeleteRead, Arrives, Decide, TypeOK, LocalsOK, Cancelled
<1> DEFINE Kept == pc'[q] \notin Past \/ (pc[q] \in Past /\ read'[q] = read[q])
<1>5. Kept \/ CancelBilling(q) \/ DeleteRead(q)
  <2>1. CASE StripeStep \/ NextDay \/ UNCHANGED vars
    BY <2>1 DEF StripeStep, OpenCheckout, Pay, Renew, StripeMoves, Outside, NextDay, vars
  <2>2. ASSUME NEW r \in Request, PanelStep(r) PROVE Kept
    BY <2>2 DEF PanelStep, CreateTrialCheck, CreateTrial, Arrives, Return, TypeOK
  <2>3. ASSUME NEW r \in Request, NEW l \in {"write", "cancel"}, NEW p, NEW says \in BOOLEAN,
               Decide(r, l, p, says)
        PROVE  Kept
    BY <2>3 DEF Decide, TypeOK
  <2>4. ASSUME NEW r \in Request, AdminStep(r) PROVE Kept
    <3>1. \E p : Decide(r, "write", p, TRUE) \/ Decide(r, "write", p, FALSE)
      BY <2>4 DEF AdminStep, Activate, Suspend, ExtendTrial, SwitchQr, SwitchPromotions
    <3>2. QED BY <3>1, <2>3
  <2>5. ASSUME NEW r \in Request, WebhookStep(r) PROVE Kept
    <3>1. \E p : Decide(r, "write", p, TRUE) \/ Decide(r, "write", p, FALSE)
      BY <2>5 DEF WebhookStep, ApplyStripe, MarkPastDue
    <3>2. QED BY <3>1, <2>3
  <2>6. ASSUME NEW r \in Request, r # q, CancelBilling(r) \/ DeleteRead(r) PROVE Kept
    BY <2>6 DEF CancelBilling, DeleteRead, Decide, TypeOK
  <2>7. ASSUME NEW r \in Request, DeleteTx(r) PROVE Kept
    BY <2>7 DEF DeleteTx, Return, TypeOK
  <2>8. ASSUME NEW r \in Request, MutateStep(r) PROVE Kept
    BY <2>8 DEF MutateStep, Write, Record, Fail, Return, Recording, TypeOK
  <2>9. QED BY <2>1, <2>2, <2>4, <2>5, <2>6, <2>7, <2>8 DEF Next, DeletionStep
<1>6. QED BY <1>1, <1>2, <1>3, <1>4, <1>5

LEMMA DeletedStep ==
  ASSUME TypeOK, AllCancelled, [Next]_vars, deleted' # deleted
  PROVE  \E r \in Request :
           /\ pc[r] = "delete"
           /\ read[r] # None /\ read[r].sub # None => stripe[read[r].sub] = "canceled"
<1>1. PICK r \in Request : DeleteTx(r)
  BY DEF Next, vars, database, PanelStep, CreateTrialCheck, CreateTrial, AdminStep, Activate, Suspend,
     ExtendTrial, SwitchQr, SwitchPromotions, AdminLoads, WebhookStep, ApplyStripe, MarkPastDue,
     DeletionStep, DeleteRead, CancelBilling, MutateStep, Write, Record, Fail, NextDay, StripeStep,
     OpenCheckout, Pay, Renew, StripeMoves, Outside
<1>2. QED BY <1>1 DEF DeleteTx, AllCancelled, Cancelled

\* Whatever webhooks, checkouts and other requests do meanwhile, no account is
\* deleted before the subscription its bar's row named is cancelled at Stripe.
THEOREM CancelledBeforeDeletedHolds == Spec => CancelledBeforeDeleted
<1>1. Init => AllCancelled
  BY DEF Init, AllCancelled, Cancelled
<1>2. TypeOK /\ AllCancelled /\ [Next]_vars =>
        [deleted' # deleted =>
           \E r \in Request :
             /\ pc[r] = "delete"
             /\ read[r] # None /\ read[r].sub # None => stripe[read[r].sub] = "canceled"]_vars
  BY DeletedStep
<1>3. QED BY <1>1, <1>2, TypeInit, TypeStep, CancelledStep, PTL DEF Spec, CancelledBeforeDeleted
=============================================================================
