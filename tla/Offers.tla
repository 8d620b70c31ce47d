------------------------------- MODULE Offers -------------------------------
(***************************************************************************)
(* What bars publish: promotions, special drinks, rooftop packages and     *)
(* events (promotions, special-drinks, rooftop, venue-events and bars      *)
(* services).  The owner writes, an admin judges; every handler reads the  *)
(* plan and the row, decides and then writes by id, whatever the row has   *)
(* become.  An admin, Stripe or a checkout may change the plan meanwhile.  *)
(*                                                                         *)
(* Dates and lapsed subscriptions only refuse a request: Fail stands for   *)
(* them.                                                                   *)
(***************************************************************************)
EXTENDS Integers, FiniteSets

CONSTANTS
  Request, Promo, Special, Package, Event, Rarity,
  BarOf,         \* BarOf[i] : the bar of item i
  Quota,         \* Quota[p][q] : special drinks of rarity q that plan p allows
  ActiveLimit,   \* promotions active at once on the plan that limits them
  MaxServed,     \* bound: requests served in all
  None

Item == Promo \cup Special \cup Package \cup Event
Owner == {BarOf[i] : i \in Item}
Plan == {"EXPLORER", "INTERMEDIATE", "LEGEND"}

VARIABLES
  plan,       \* plan[b] : bar_subscriptions.plan
  row,        \* row[i] : the item's row
  gone,       \* deletedAt is set; for promotions: the row is deleted
  menu,       \* drinks whose bar_menu_items row is active: QR codes work
  accepted,   \* events whose policiesAcceptedAt is set
  terrace,    \* terrace[b] : bars.rooftop_status
  outdoor,    \* bars whose hasOutdoorSpace is set
  served,     \* bound
  pc,
  at,         \* at[r] : the item or bar r works on
  under,      \* under[r] : the plan r has read
  had,        \* had[r] : the item's row r has read
  saw,        \* saw[r] : the rooftop status r has read
  want,       \* want[r] : the rarity r asks for
  reviewed,   \* history: the text that was approved
  overtaken,  \* history: the row was written since r read it
  crossed,    \* history: rows such an r has written, not judged since
  jumped,     \* history: a slot was taken since r counted them
  excused     \* history: items whose slot no undisturbed count granted

tables == <<plan, row, gone, menu, accepted, terrace, outdoor>>
locals == <<pc, at, under, had, saw, want>>
slots == <<jumped, excused>>
vars == <<tables, served, locals, reviewed, overtaken, crossed, slots>>

Statuses == {"UNBORN", "DRAFT", "ACTIVE", "PAUSED", "ARCHIVED"}
Approvals == {"PENDING", "APPROVED", "REJECTED", "FLAGGED", "VISIBLE", "REMOVED"}
Sanctioned == {"REJECTED", "FLAGGED"}
Terrace == {"NONE", "PENDING", "APPROVED", "REJECTED"}
Label == {"idle", "countRarity", "countAll", "insert", "menuOff", "edit", "countActive",
          "activate", "pause", "resubmit", "delete", "approve", "reject", "flag", "remove",
          "declare", "withdraw", "verify", "refuse"}

SomeRarity == CHOOSE q \in Rarity : TRUE
Fresh(i, q) == [status |-> "DRAFT", approval |-> IF i \in Event THEN "VISIBLE" ELSE "PENDING",
                text |-> 0, rarity |-> q]
Unborn(i) == [Fresh(i, SomeRarity) EXCEPT !.status = "UNBORN"]
Published(i) == [Fresh(i, SomeRarity) EXCEPT !.status = "ACTIVE",
                   !.approval = IF i \in Event THEN "VISIBLE" ELSE "APPROVED"]
NoRow == [status |-> "UNBORN", approval |-> "PENDING", text |-> 0, rarity |-> SomeRarity]

\* What each plan lets its bar publish.
SpecialsOn(p) == p \in {"INTERMEDIATE", "LEGEND"}
RooftopOn(p) == p = "LEGEND"
EventsOn(p) == p = "LEGEND"
Manages(p, i) == /\ i \in Special => SpecialsOn(p)
                 /\ i \in Package => RooftopOn(p)
                 /\ i \in Event => EventsOn(p)
PromosLimited(p) == p = "EXPLORER"
DrinkLimit(p) == Cardinality({w \in Rarity \X (1..Cardinality(Special)) : w[2] <= Quota[p][w[1]]})

\* What users are shown: the filters of the four feeds.
Live(i) == i \notin gone /\ row[i].status = "ACTIVE"
PromoShown(i) == Live(i) /\ row[i].approval = "APPROVED"
DrinkShown(i) == Live(i) /\ row[i].approval = "APPROVED" /\ SpecialsOn(plan[BarOf[i]])
PackageShown(i) == /\ Live(i) /\ row[i].approval = "APPROVED" /\ RooftopOn(plan[BarOf[i]])
                   /\ terrace[BarOf[i]] = "APPROVED" /\ BarOf[i] \in outdoor
EventShown(i) == Live(i) /\ row[i].approval = "VISIBLE"

OfRarity(b, q) == {i \in Special \ gone :
                     row[i].status # "UNBORN" /\ row[i].rarity = q /\ BarOf[i] = b}
ActivePromos(b) == {i \in Promo \ gone : row[i].status = "ACTIVE" /\ BarOf[i] = b}

-----------------------------------------------------------------------------

\* Bars with some items drafted, some published and some deleted; promotions
\* may have been published within the limit or by an admin.
Init ==
  /\ plan \in [Owner -> Plan]
  /\ \E drafted \in SUBSET Item : \E published \in SUBSET (Item \ drafted) :
       /\ row = [i \in Item |-> IF i \in drafted THEN Fresh(i, SomeRarity)
                               ELSE IF i \in published THEN Published(i) ELSE Unborn(i)]
       /\ gone \in SUBSET drafted
       /\ menu = published \cap Special /\ accepted = published \cap Event
       /\ excused \in {{}, published \cap Promo}
       /\ \E approved \in SUBSET Owner :
            /\ {BarOf[i] : i \in (drafted \cup published) \cap Package} \subseteq approved
            /\ terrace = [b \in Owner |-> IF b \in approved THEN "APPROVED" ELSE "NONE"]
            /\ outdoor = approved
  /\ \A b \in Owner : /\ \A q \in Rarity : Cardinality(OfRarity(b, q)) <= Quota[plan[b]][q]
                      /\ PromosLimited(plan[b]) =>
                           Cardinality(ActivePromos(b) \ excused) <= ActiveLimit
  /\ served \in 0..MaxServed
  /\ pc = [r \in Request |-> "idle"]
  /\ at = [r \in Request |-> None]
  /\ under = [r \in Request |-> "EXPLORER"]
  /\ had = [r \in Request |-> NoRow]
  /\ saw = [r \in Request |-> "NONE"]
  /\ want = [r \in Request |-> SomeRarity]
  /\ reviewed = [i \in Item |-> 0]
  /\ overtaken = {} /\ crossed = {} /\ jumped = {}

\* A request arrives, has read the plan of bar b and the row of x (an item of
\* b, or b itself) and goes on to l.
Begin(r, b, x, l, q) ==
  /\ pc[r] = "idle"
  /\ served < MaxServed /\ served' = served + 1
  /\ pc' = [pc EXCEPT ![r] = l]
  /\ at' = [at EXCEPT ![r] = x]
  /\ under' = [under EXCEPT ![r] = plan[b]]
  /\ had' = [had EXCEPT ![r] = IF x \in Item THEN row[x] ELSE NoRow]
  /\ saw' = [saw EXCEPT ![r] = terrace[b]]
  /\ want' = [want EXCEPT ![r] = q]
  /\ overtaken' = overtaken \ {r} /\ jumped' = jumped \ {r}
  /\ UNCHANGED <<tables, reviewed, crossed, excused>>

\* An admin's request about an item with a row, and the owner's, whose plan
\* must have that kind of item.
Asks(r, i, l) == row[i].status # "UNBORN" /\ i \notin gone /\ Begin(r, BarOf[i], i, l, row[i].rarity)
OwnerAsks(r, i, l) == Manages(plan[BarOf[i]], i) /\ Asks(r, i, l)

Goto(r, l) == pc' = [pc EXCEPT ![r] = l] /\ UNCHANGED <<at, under, had, saw, want>>

Return(r) ==
  /\ pc' = [pc EXCEPT ![r] = "idle"]
  /\ at' = [at EXCEPT ![r] = None]
  /\ under' = [under EXCEPT ![r] = "EXPLORER"]
  /\ had' = [had EXCEPT ![r] = NoRow]
  /\ saw' = [saw EXCEPT ![r] = "NONE"]
  /\ want' = [want EXCEPT ![r] = SomeRarity]

Busy(x) == {q \in Request : pc[q] # "idle" /\ at[q] = x}
Rivals(i) == {q \in Request : pc[q] # "idle" /\
               \/ {i, at[q]} \subseteq Special /\ BarOf[i] = BarOf[at[q]]
               \/ {i, at[q]} \subseteq Promo /\ BarOf[i] = BarOf[at[q]]}

\* r writes new over the item's row and returns.  An update by id of a promotion
\* whose row is deleted finds none and fails; the others only have a mark.
Put(r, new) ==
  /\ at[r] \in Promo => at[r] \notin gone
  /\ row' = [row EXCEPT ![at[r]] = new]
  /\ overtaken' = (overtaken \cup Busy(at[r])) \ {r}
  /\ Return(r)
  /\ UNCHANGED <<plan, terrace, outdoor, served>>

Edits(r) == crossed' = IF r \in overtaken THEN crossed \cup {at[r]} ELSE crossed
Judges(r) == crossed' = IF r \in overtaken THEN crossed \cup {at[r]} ELSE crossed \ {at[r]}

TakesSlot(r, granted) ==
  /\ jumped' = (jumped \cup Rivals(at[r])) \ {r}
  /\ excused' = IF granted /\ r \notin jumped \cup overtaken /\ under[r] = plan[BarOf[at[r]]]
                  THEN excused \ {at[r]} ELSE excused \cup {at[r]}

-----------------------------------------------------------------------------
(* The plan changes *)

\* Of a bar with something to publish.  What it has so far is no longer
\* measured by the new plan's limits.
ChangePlan(b, p) ==
  /\ p # plan[b]
  /\ \E i \in Item \ gone : BarOf[i] = b
  /\ served < MaxServed /\ served' = served + 1
  /\ plan' = [plan EXCEPT ![b] = p]
  /\ excused' = excused \cup {i \in Promo \cup Special :
                                BarOf[i] = b /\ i \notin gone /\ row[i].status # "UNBORN"}
  /\ UNCHANGED <<row, gone, menu, accepted, terrace, outdoor, locals, reviewed,
                 overtaken, crossed, jumped>>

-----------------------------------------------------------------------------
(* The owner creates *)

\* What all four create: a draft that awaits its review, or a visible event.
Inserts(r) ==
  /\ pc[r] = "insert"
  /\ row[at[r]].status = "UNBORN"   \* two requests insert two rows
  /\ Put(r, Fresh(at[r], want[r]))
  /\ UNCHANGED <<gone, menu, accepted, reviewed, crossed>>

BeginCreate(r, i) ==
  /\ i \notin Special /\ row[i].status = "UNBORN" /\ Manages(plan[BarOf[i]], i)
  /\ i \in Package => terrace[BarOf[i]] = "APPROVED"
  /\ Begin(r, BarOf[i], i, "insert", SomeRarity)

CreatePromotion(r) == at[r] \in Promo /\ Inserts(r) /\ UNCHANGED slots
CreatePackage(r) == at[r] \in Package /\ Inserts(r) /\ UNCHANGED slots
CreateEvent(r) == at[r] \in Event /\ Inserts(r) /\ UNCHANGED slots

\* A special drink is inserted after two counts.
BeginCreateDrink(r, i, q) ==
  /\ i \in Special /\ row[i].status = "UNBORN"
  /\ SpecialsOn(plan[BarOf[i]]) /\ Quota[plan[BarOf[i]]][q] > 0
  /\ Begin(r, BarOf[i], i, "countRarity", q)

NeedsReview(r) == had[r].approval \in {"APPROVED"} \cup Sanctioned

\* Mutant of CountRarity: drinks of the rarity are counted with the approved only.
CountRarityApproved(r) ==
  LET others == OfRarity(BarOf[at[r]], want[r]) \ {at[r]} IN
  /\ pc[r] = "countRarity"
  /\ Cardinality({i \in others : row[i].approval = "APPROVED"}) < Quota[under[r]][want[r]]
  /\ Goto(r, IF had[r].status = "UNBORN" THEN "countAll"
             ELSE IF NeedsReview(r) THEN "menuOff" ELSE "edit")
  /\ jumped' = jumped \ {r}
  /\ UNCHANGED <<tables, served, reviewed, overtaken, crossed, excused>>

\* assertCanOccupyRaritySlot, the drink itself not counted.
CountRarity(r) ==
  /\ pc[r] = "countRarity"
  /\ Cardinality(OfRarity(BarOf[at[r]], want[r]) \ {at[r]}) < Quota[under[r]][want[r]]
  /\ Goto(r, IF had[r].status = "UNBORN" THEN "countAll"
             ELSE IF NeedsReview(r) THEN "menuOff" ELSE "edit")
  /\ jumped' = jumped \ {r}
  /\ UNCHANGED <<tables, served, reviewed, overtaken, crossed, excused>>

CountAll(r) ==
  /\ pc[r] = "countAll"
  /\ Cardinality(UNION {OfRarity(BarOf[at[r]], q) : q \in Rarity}) < DrinkLimit(under[r])
  /\ Goto(r, "insert")
  /\ UNCHANGED <<tables, served, reviewed, overtaken, crossed, slots>>

CreateDrink(r) == at[r] \in Special /\ Inserts(r) /\ TakesSlot(r, TRUE)

-----------------------------------------------------------------------------
(* The owner edits *)

BeginEdit(r, i) ==
  /\ i \notin Special /\ row[i].status # "ARCHIVED"
  /\ OwnerAsks(r, i, "edit")

\* A drink keeps its rarity or takes another, which the plan must allow.
BeginEditDrink(r, i, q) ==
  LET p == plan[BarOf[i]] IN
  /\ i \in Special \ gone /\ row[i].status \notin {"UNBORN", "ARCHIVED"}
  /\ SpecialsOn(p) /\ Quota[p][q] > 0
  /\ Begin(r, BarOf[i], i, IF q # row[i].rarity THEN "countRarity"
                           ELSE IF row[i].approval \in {"APPROVED"} \cup Sanctioned
                             THEN "menuOff" ELSE "edit", q)

MenuOff(r) ==
  /\ pc[r] = "menuOff"
  /\ menu' = menu \ {at[r]}
  /\ Goto(r, "edit")
  /\ UNCHANGED <<plan, row, gone, accepted, terrace, outdoor, served, reviewed,
                 overtaken, crossed, slots>>

\* An approved promotion stays approved; a sanctioned one is reviewed anew.
EditPromotion(r) ==
  LET now == row[at[r]] IN
  /\ pc[r] = "edit" /\ at[r] \in Promo
  /\ Put(r, [now EXCEPT !.text = @ + 1,
               !.approval = IF had[r].approval \in Sanctioned THEN "PENDING" ELSE @])
  /\ Edits(r)
  /\ UNCHANGED <<gone, menu, accepted, reviewed, slots>>

\* Drinks and packages: what an admin has judged is reviewed anew.
EditsListing(r, again) ==
  LET now == [row[at[r]] EXCEPT !.text = @ + 1, !.rarity = want[r]] IN
  /\ pc[r] = "edit"
  /\ Put(r, IF again THEN [now EXCEPT !.approval = "PENDING", !.status = "DRAFT"] ELSE now)
  /\ Edits(r)
  /\ UNCHANGED <<gone, menu, accepted, reviewed>>

\* Mutant of EditDrink: only sanctioned drinks are reviewed anew.
EditDrinkUnreviewed(r) ==
  /\ at[r] \in Special /\ EditsListing(r, had[r].approval \in Sanctioned)
  /\ IF want[r] # row[at[r]].rarity THEN TakesSlot(r, TRUE) ELSE UNCHANGED slots

EditDrink(r) ==
  /\ at[r] \in Special /\ EditsListing(r, NeedsReview(r))
  /\ IF want[r] # row[at[r]].rarity THEN TakesSlot(r, TRUE) ELSE UNCHANGED slots

EditPackage(r) == at[r] \in Package /\ EditsListing(r, NeedsReview(r)) /\ UNCHANGED slots

\* Events are not reviewed; one that was removed is a draft again.
EditEvent(r) ==
  LET removed == had[r].approval = "REMOVED" IN
  /\ pc[r] = "edit" /\ at[r] \in Event
  /\ Put(r, [row[at[r]] EXCEPT !.text = @ + 1, !.status = IF removed THEN "DRAFT" ELSE @])
  /\ accepted' = IF removed THEN accepted \ {at[r]} ELSE accepted
  /\ Edits(r)
  /\ UNCHANGED <<gone, menu, reviewed, slots>>

-----------------------------------------------------------------------------
(* The owner publishes, withdraws, resubmits and deletes *)

BeginActivatePromotion(r, i) ==
  /\ i \in Promo /\ row[i].status # "ACTIVE" /\ row[i].approval = "APPROVED"
  /\ OwnerAsks(r, i, IF PromosLimited(plan[BarOf[i]]) THEN "countActive" ELSE "activate")

CountActive(r) ==
  /\ pc[r] = "countActive"
  /\ Cardinality(ActivePromos(BarOf[at[r]])) < ActiveLimit
  /\ Goto(r, "activate")
  /\ jumped' = jumped \ {r}
  /\ UNCHANGED <<tables, served, reviewed, overtaken, crossed, excused>>

ActivatePromotion(r) ==
  /\ pc[r] = "activate" /\ at[r] \in Promo
  /\ Put(r, [row[at[r]] EXCEPT !.status = "ACTIVE"])
  /\ Edits(r) /\ TakesSlot(r, TRUE)
  /\ UNCHANGED <<gone, menu, accepted, reviewed>>

BeginActivateEvent(r, i) ==
  i \in Event /\ row[i].status # "ARCHIVED" /\ OwnerAsks(r, i, "activate")

\* The owner accepts the policies; a removed event is visible again.
ActivateEvent(r) ==
  /\ pc[r] = "activate" /\ at[r] \in Event
  /\ Put(r, [row[at[r]] EXCEPT !.status = "ACTIVE", !.approval = "VISIBLE"])
  /\ accepted' = accepted \cup {at[r]}
  /\ Edits(r)
  /\ UNCHANGED <<gone, menu, reviewed, slots>>

BeginPause(r, i) ==
  i \in Promo \cup Event /\ row[i].status = "ACTIVE" /\ OwnerAsks(r, i, "pause")

Pauses(r, status) ==
  /\ pc[r] = "pause"
  /\ Put(r, [row[at[r]] EXCEPT !.status = status])
  /\ Edits(r)
  /\ UNCHANGED <<gone, menu, accepted, reviewed, slots>>

PausePromotion(r) == at[r] \in Promo /\ Pauses(r, "PAUSED")
PauseEvent(r) == at[r] \in Event /\ Pauses(r, "DRAFT")

BeginResubmit(r, i) ==
  i \notin Event /\ row[i].approval \in Sanctioned /\ OwnerAsks(r, i, "resubmit")

Resubmits(r, status) ==
  /\ pc[r] = "resubmit"
  /\ Put(r, [row[at[r]] EXCEPT !.approval = "PENDING", !.status = status])
  /\ Edits(r)
  /\ UNCHANGED <<gone, menu, accepted, reviewed>>

\* A promotion gets the status it had when it was read.
ResubmitPromotion(r) ==
  /\ at[r] \in Promo /\ Resubmits(r, had[r].status)
  /\ IF had[r].status = "ACTIVE" /\ row[at[r]].status # "ACTIVE"
       THEN TakesSlot(r, FALSE) ELSE UNCHANGED slots

ResubmitDrink(r) == at[r] \in Special /\ Resubmits(r, "DRAFT") /\ UNCHANGED slots
ResubmitPackage(r) == at[r] \in Package /\ Resubmits(r, "DRAFT") /\ UNCHANGED slots

\* Of these four only deletePromotion does not ask for the plan.
BeginDelete(r, i) == IF i \in Promo THEN Asks(r, i, "delete") ELSE OwnerAsks(r, i, "delete")

Deletes(r, status) ==
  /\ pc[r] = "delete"
  /\ Put(r, [row[at[r]] EXCEPT !.status = status])
  /\ gone' = gone \cup {at[r]}
  /\ Judges(r)
  /\ UNCHANGED <<accepted, reviewed, slots>>

DeletePromotion(r) == at[r] \in Promo /\ Deletes(r, row[at[r]].status) /\ UNCHANGED menu
DeleteDrink(r) == at[r] \in Special /\ Deletes(r, "ARCHIVED") /\ menu' = menu \ {at[r]}
DeletePackage(r) == at[r] \in Package /\ Deletes(r, "ARCHIVED") /\ UNCHANGED menu
DeleteEvent(r) == at[r] \in Event /\ Deletes(r, "ARCHIVED") /\ UNCHANGED menu

-----------------------------------------------------------------------------
(* The admin judges *)

BeginApprove(r, i) ==
  /\ i \notin Event /\ (i \in Promo => row[i].approval # "APPROVED")
  /\ Asks(r, i, "approve")

Approves(r) ==
  /\ pc[r] = "approve"
  /\ Put(r, [row[at[r]] EXCEPT !.approval = "APPROVED", !.status = "ACTIVE"])
  /\ reviewed' = [reviewed EXCEPT ![at[r]] = had[r].text]
  /\ Judges(r)
  /\ UNCHANGED <<gone, accepted>>

\* Published at once, whatever the bar's limit.
ApprovePromotion(r) == at[r] \in Promo /\ Approves(r) /\ TakesSlot(r, FALSE) /\ UNCHANGED menu

\* The drink gets a catalogue entry and an active menu item in the transaction.
ApproveDrink(r) ==
  at[r] \in Special /\ Approves(r) /\ menu' = menu \cup {at[r]} /\ UNCHANGED slots

ApprovePackage(r) == at[r] \in Package /\ Approves(r) /\ UNCHANGED <<menu, slots>>

BeginSanction(r, i) == i \notin Event /\ (Asks(r, i, "reject") \/ Asks(r, i, "flag"))

Sanctions(r, l, approval, status) ==
  /\ pc[r] = l
  /\ Put(r, [row[at[r]] EXCEPT !.approval = approval, !.status = status])
  /\ Judges(r)
  /\ UNCHANGED <<gone, accepted, reviewed, slots>>

\* The status that was read, unless it was ACTIVE.
Withdrawn(r, status) == IF had[r].status = "ACTIVE" THEN status ELSE had[r].status

RejectPromotion(r) ==
  at[r] \in Promo /\ Sanctions(r, "reject", "REJECTED", Withdrawn(r, "PAUSED")) /\ UNCHANGED menu
FlagPromotion(r) ==
  at[r] \in Promo /\ Sanctions(r, "flag", "FLAGGED", Withdrawn(r, "PAUSED")) /\ UNCHANGED menu

\* A drink's menu item goes in the same transaction.
RejectDrink(r) ==
  /\ at[r] \in Special /\ Sanctions(r, "reject", "REJECTED", "DRAFT")
  /\ menu' = menu \ {at[r]}
FlagDrink(r) ==
  /\ at[r] \in Special /\ Sanctions(r, "flag", "FLAGGED", Withdrawn(r, "DRAFT"))
  /\ menu' = menu \ {at[r]}

RejectPackage(r) ==
  at[r] \in Package /\ Sanctions(r, "reject", "REJECTED", "DRAFT") /\ UNCHANGED menu
FlagPackage(r) ==
  at[r] \in Package /\ Sanctions(r, "flag", "FLAGGED", Withdrawn(r, "DRAFT")) /\ UNCHANGED menu

BeginRemove(r, i) == i \in Event /\ Asks(r, i, "remove")

RemoveEvent(r) ==
  at[r] \in Event /\ Sanctions(r, "remove", "REMOVED", "DRAFT") /\ UNCHANGED menu

\* syncApprovedForClientFeed: every approved promotion goes live.
SyncApproved ==
  LET off == {i \in Promo \ gone : row[i].approval = "APPROVED" /\ row[i].status # "ACTIVE"
                                   /\ row[i].status # "UNBORN"} IN
  /\ off # {}
  /\ row' = [i \in Item |-> IF i \in off THEN [row[i] EXCEPT !.status = "ACTIVE"] ELSE row[i]]
  /\ overtaken' = overtaken \cup UNION {Busy(i) : i \in off}
  /\ excused' = excused \cup off
  /\ jumped' = jumped \cup UNION {Rivals(i) : i \in off}
  /\ UNCHANGED <<plan, gone, menu, accepted, terrace, outdoor, served, locals, reviewed, crossed>>

\* An event that has ended is archived when its owner lists events ...
ArchiveOwned(b) ==
  \E ended \in SUBSET {i \in Event \ gone : row[i].status = "ACTIVE" /\ BarOf[i] = b} :
    /\ EventsOn(plan[b]) /\ ended # {}
    /\ row' = [i \in Item |-> IF i \in ended THEN [row[i] EXCEPT !.status = "ARCHIVED"] ELSE row[i]]
    /\ overtaken' = overtaken \cup UNION {Busy(i) : i \in ended}
    /\ UNCHANGED <<plan, gone, menu, accepted, terrace, outdoor, served, locals, reviewed,
                   crossed, slots>>

\* ... or anyone reads the feed.
ArchiveInFeed ==
  \E ended \in SUBSET {i \in Event \ gone : row[i].status = "ACTIVE"} :
    /\ ended # {}
    /\ row' = [i \in Item |-> IF i \in ended THEN [row[i] EXCEPT !.status = "ARCHIVED"] ELSE row[i]]
    /\ overtaken' = overtaken \cup UNION {Busy(i) : i \in ended}
    /\ UNCHANGED <<plan, gone, menu, accepted, terrace, outdoor, served, locals, reviewed,
                   crossed, slots>>

-----------------------------------------------------------------------------
(* The terrace of a bar *)

\* The owner says there is one or there is none; the latter is refused once
\* it has been verified.
BeginDeclare(r, b) == RooftopOn(plan[b]) /\ Begin(r, b, b, "declare", SomeRarity)
BeginWithdraw(r, b) ==
  RooftopOn(plan[b]) /\ terrace[b] # "APPROVED" /\ Begin(r, b, b, "withdraw", SomeRarity)

WritesTerrace(r, l, status) ==
  /\ pc[r] = l
  /\ terrace' = [terrace EXCEPT ![at[r]] = status]
  /\ overtaken' = (overtaken \cup Busy(at[r])) \ {r}
  /\ Edits(r)
  /\ Return(r)
  /\ UNCHANGED <<plan, row, gone, menu, accepted, served, reviewed, slots>>

Declare(r) ==
  /\ WritesTerrace(r, "declare", IF saw[r] \in {"NONE", "REJECTED"} THEN "PENDING"
                                 ELSE terrace[at[r]])
  /\ outdoor' = outdoor \cup {at[r]}

Withdraw(r) == WritesTerrace(r, "withdraw", "NONE") /\ outdoor' = outdoor \ {at[r]}

BeginVerify(r, b) ==
  /\ terrace[b] = "PENDING"
  /\ Begin(r, b, b, "verify", SomeRarity) \/ Begin(r, b, b, "refuse", SomeRarity)

Verify(r) == WritesTerrace(r, "verify", "APPROVED") /\ outdoor' = outdoor \cup {at[r]}
Refuse(r) == WritesTerrace(r, "refuse", "REJECTED") /\ UNCHANGED outdoor

-----------------------------------------------------------------------------

\* The request is refused, a query fails or the process dies.
Fail(r) ==
  /\ pc[r] # "idle"
  /\ Return(r)
  /\ UNCHANGED <<tables, served, reviewed, overtaken, crossed, slots>>

Owns(r) ==
  \/ CreatePromotion(r) \/ CreatePackage(r) \/ CreateEvent(r) \/ CreateDrink(r)
  \/ CountRarity(r) \/ CountAll(r) \/ MenuOff(r) \/ CountActive(r)
  \/ EditPromotion(r) \/ EditDrink(r) \/ EditPackage(r) \/ EditEvent(r)
  \/ ActivatePromotion(r) \/ ActivateEvent(r) \/ PausePromotion(r) \/ PauseEvent(r)
  \/ ResubmitPromotion(r) \/ ResubmitDrink(r) \/ ResubmitPackage(r)
  \/ DeletePromotion(r) \/ DeleteDrink(r) \/ DeletePackage(r) \/ DeleteEvent(r)
  \/ Declare(r) \/ Withdraw(r)

Moderates(r) ==
  \/ ApprovePromotion(r) \/ ApproveDrink(r) \/ ApprovePackage(r)
  \/ RejectPromotion(r) \/ RejectDrink(r) \/ RejectPackage(r)
  \/ FlagPromotion(r) \/ FlagDrink(r) \/ FlagPackage(r)
  \/ RemoveEvent(r) \/ Verify(r) \/ Refuse(r)

\* Requests that may arrive, while the bound allows, and those at work.
Arriving == {r \in Request : pc[r] = "idle" /\ served < MaxServed}
Working == {r \in Request : pc[r] # "idle"}

Next ==
  \/ SyncApproved \/ ArchiveInFeed
  \/ \E b \in Owner : ArchiveOwned(b) \/ \E p \in Plan : ChangePlan(b, p)
  \/ \E r \in Arriving, i \in Item :
       \/ BeginCreate(r, i) \/ BeginEdit(r, i)
       \/ \E q \in Rarity : BeginCreateDrink(r, i, q) \/ BeginEditDrink(r, i, q)
       \/ BeginActivatePromotion(r, i) \/ BeginActivateEvent(r, i)
       \/ BeginPause(r, i) \/ BeginResubmit(r, i) \/ BeginDelete(r, i)
       \/ BeginApprove(r, i) \/ BeginSanction(r, i) \/ BeginRemove(r, i)
  \/ \E r \in Arriving, b \in Owner :
       BeginDeclare(r, b) \/ BeginWithdraw(r, b) \/ BeginVerify(r, b)
  \/ \E r \in Working : Owns(r) \/ Moderates(r) \/ Fail(r)

-----------------------------------------------------------------------------

Rows == [status : Statuses, approval : Approvals, text : Nat, rarity : Rarity]

TypeOK ==
  /\ plan \in [Owner -> Plan] /\ row \in [Item -> Rows]
  /\ gone \subseteq Item /\ menu \subseteq Special /\ accepted \subseteq Event
  /\ terrace \in [Owner -> Terrace] /\ outdoor \subseteq Owner
  /\ served \in 0..MaxServed
  /\ pc \in [Request -> Label] /\ at \in [Request -> Item \cup Owner \cup {None}]
  /\ under \in [Request -> Plan] /\ had \in [Request -> Rows]
  /\ saw \in [Request -> Terrace] /\ want \in [Request -> Rarity]
  /\ reviewed \in [Item -> Nat]
  /\ overtaken \subseteq Request /\ crossed \subseteq Item \cup Owner
  /\ jumped \subseteq Request /\ excused \subseteq Item

\* Unless a handler wrote over a row that had changed since it read it, and no
\* admin has judged the item since: drinks and packages users may be shown have
\* the text that was approved, a drink that can be scanned is approved, and a
\* promotion that takes a slot is approved; a terrace the owner has declared is
\* or has been before an admin, and one withdrawn is not.  An event shown is
\* always one whose policies the owner has accepted.
NothingUnreviewed ==
  /\ \A i \in (Special \cup Package) \ crossed :
       (DrinkShown(i) /\ i \in Special) \/ (PackageShown(i) /\ i \in Package) => row[i].text = reviewed[i]
  /\ \A i \in menu \ crossed : Live(i) /\ row[i].approval = "APPROVED"
  /\ \A b \in Owner : \A i \in ActivePromos(b) \ crossed : row[i].approval = "APPROVED"
  /\ \A i \in Event : EventShown(i) => i \in accepted
  /\ \A b \in Owner \ crossed : b \in outdoor <=> terrace[b] # "NONE"

\* Special drinks keep to the plan's quota of their rarity and promotions to
\* its limit, not counting those that slipped in between a count and a write,
\* that an admin made active or that another plan had allowed.
QuotasHold ==
  \A b \in Owner :
    /\ \A q \in Rarity : Cardinality(OfRarity(b, q) \ excused) <= Quota[plan[b]][q]
    /\ PromosLimited(plan[b]) => Cardinality(ActivePromos(b) \ excused) <= ActiveLimit

\* A verified terrace stays verified but for a handler that read it before.
TerraceStands ==
  \A b \in Owner : terrace[b] = "APPROVED" /\ terrace'[b] # "APPROVED" =>
    \E r \in overtaken : at[r] = b
=============================================================================
