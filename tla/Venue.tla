------------------------------- MODULE Venue --------------------------------
(***************************************************************************)
(* What bars offer and what it earns: Offers decides which promotions      *)
(* Rewards lets a user claim, and a promotion deleted takes the records of *)
(* its claims with it.  Reservations, campaigns over several bars, the     *)
(* design of a medal, the magazine and places run beside them, each on     *)
(* tables of its own.                                                      *)
(***************************************************************************)
EXTENDS Integers, FiniteSets

CONSTANTS
  Request, Promo, BarOf,
  Place, Drink, Entry, Incoming, MaxSlots, Tier, Goal, MaxDay,  \* Rewards
  Special, Package, Event, Rarity, Quota, ActiveLimit,          \* Offers
  Reservation, Piece, PieceLimit,                               \* Reservations, Magazine
  Bar, Target,                                                  \* GlobalEvents
  Position, Image,                                              \* Proposals
  User, Google, Spot, GoogleOf, BarAt, SpotOf, Answer, Fix, Stars, MaxResolve,  \* Places
  MaxDate, MaxTrips,
  MaxEarned, MaxPublished, MaxBooked, MaxVisited, MaxDesigned,  \* bounds: requests
  MaxPrinted,
  None

ASSUME ConstantsOK ==
  /\ IsFiniteSet(Request) /\ IsFiniteSet(Promo) /\ IsFiniteSet(Special)
  /\ IsFiniteSet(Reservation) /\ IsFiniteSet(Bar) /\ IsFiniteSet(Piece)
  /\ Tier \subseteq Nat /\ 0 \in Tier /\ Target \subseteq Nat \ {0}
  /\ MaxSlots \in Nat \ {0} /\ Goal \in Nat /\ ActiveLimit \in Nat /\ PieceLimit \in Nat
  /\ Quota \in [{"EXPLORER", "INTERMEDIATE", "LEGEND"} -> [Rarity -> Nat]]
  /\ Rarity # {}
  /\ \A inc \in Incoming : inc \in [period : Nat, done : BOOLEAN]
  /\ MaxEarned \in Nat /\ MaxPublished \in Nat /\ MaxBooked \in Nat
  /\ MaxVisited \in Nat /\ MaxDesigned \in Nat /\ MaxPrinted \in Nat
  /\ None \notin Promo \cup Special \cup Package \cup Event \cup Piece \cup Position \cup Image

\* bars.google_place_id is unique, and ratings are 1 to 5 (schema.prisma).
ASSUME PlacesOK ==
  /\ Google \cap Bar = {} /\ None \notin Google \cup Bar \cup User
  /\ GoogleOf \in [Bar -> Google \cup {None}]
  /\ \A b, c \in Bar : GoogleOf[b] = GoogleOf[c] => b = c \/ GoogleOf[b] = None
  /\ Answer \in [Google -> Google \cup {None}]
  /\ MaxResolve \in Nat /\ MaxDate \in Nat /\ MaxTrips \in Nat /\ 0 \notin Stars

\* Rows of different tables are different rows.
ASSUME RowsOK ==
  /\ Promo \cap (Special \cup Package \cup Event) = {}
  /\ Special \cap (Package \cup Event) = {} /\ Package \cap Event = {}
  /\ \A i \in Promo \cup Special \cup Package \cup Event :
       BarOf[i] \notin Promo \cup Special \cup Package \cup Event \cup {None}

VARIABLES
  \* Rewards
  today, xp, coins, streak, lastLogin, tierClaimed, chestDay, entries,
  ledger, repeats, dropped, live, progress, mission,
  rserved, rpc, day, seen, merged, todo, logins, completions, stale, hurried, squeezed, lost,
  \* Offers
  plan, row, gone, menu, accepted, terrace, outdoor,
  oserved, opc, item, under, had, saw, want,
  reviewed, overtaken, crossed, jumped, excused,
  \* Reservations
  status, passed, told, vserved, vpc, tables, guestEnded, outrun, muddled,
  \* GlobalEvents
  event, removed, window, pool, target, visits, counts, done, medal,
  gserved, gpc, bar, goal, counted, least, disturbed, late, behind,
  \* Proposals
  flow, batch, proposal, selected, artwork, pserved, ppc, place, image,
  belated, after, mixed,
  \* Magazine
  piece, mserved, mpc, page, kept, change, outpaced, edited,
  \* Places
  cache, doors, visited, review, shown, date, trips, errand, odd

rewards == <<today, xp, coins, streak, lastLogin, tierClaimed, chestDay, entries,
             ledger, repeats, dropped, live, progress, mission, rserved, rpc, day,
             seen, merged, todo, logins, completions, stale, hurried, squeezed, lost>>
offers == <<plan, row, gone, menu, accepted, terrace, outdoor,
            oserved, opc, item, under, had, saw, want,
            reviewed, overtaken, crossed, jumped, excused>>
bookings == <<status, passed, told, vserved, vpc, tables, guestEnded, outrun, muddled>>
campaigns == <<event, removed, window, pool, target, visits, counts, done, medal,
               gserved, gpc, bar, goal, counted, least, disturbed, late, behind>>
designs == <<flow, batch, proposal, selected, artwork, pserved, ppc, place, image,
             belated, after, mixed>>
pages == <<piece, mserved, mpc, page, kept, change, outpaced, edited>>
places == <<cache, doors, visited, review, shown, date, trips, errand, odd>>
vars == <<rewards, offers, bookings, campaigns, designs, pages, places>>

O == INSTANCE Offers WITH
       pc <- opc, served <- oserved, at <- item, MaxServed <- MaxPublished

R == INSTANCE Rewards WITH
       pc <- rpc, served <- rserved, jumped <- hurried, Target <- Goal, MaxServed <- MaxEarned,
       posted <- {p \in Promo \ gone : row[p].status # "UNBORN"},
       offered <- {p \in Promo : O!PromoShown(p)}

V == INSTANCE Reservations WITH
       pc <- vpc, served <- vserved, at <- tables, overtaken <- outrun, crossed <- muddled,
       MaxServed <- MaxBooked

G == INSTANCE GlobalEvents WITH
       pc <- gpc, served <- gserved, progress <- counts, MaxServed <- MaxVisited

D == INSTANCE Proposals WITH
       pc <- ppc, served <- pserved, overtaken <- belated, late <- after,
       MaxServed <- MaxDesigned

M == INSTANCE Magazine WITH
       pc <- mpc, served <- mserved, at <- page, had <- kept, new <- change, jumped <- outpaced,
       excused <- edited, MaxServed <- MaxPrinted,
       legend <- \E b \in O!Owner : plan[b] = "LEGEND"

P == INSTANCE Places

-----------------------------------------------------------------------------

Init == O!Init /\ R!Init /\ V!Init /\ G!Init /\ D!Init /\ M!Init /\ P!Init

RewardsStep == R!Next /\ UNCHANGED <<offers, bookings, campaigns, designs, pages, places>>

\* The rows of user_promotion_activations go with their promotion.
OffersStep ==
  /\ O!Next
  /\ R!PromosChange((gone' \ gone) \cap Promo)
  /\ UNCHANGED <<today, xp, coins, streak, lastLogin, tierClaimed, chestDay, entries,
                 repeats, progress, mission, rserved, rpc, day, seen, merged, todo,
                 logins, completions, stale, hurried, lost>>
  /\ UNCHANGED <<bookings, campaigns, designs, pages, places>>

BookingsStep == V!Next /\ UNCHANGED <<rewards, offers, campaigns, designs, pages, places>>
CampaignsStep == G!Next /\ UNCHANGED <<rewards, offers, bookings, designs, pages, places>>
DesignsStep == D!Next /\ UNCHANGED <<rewards, offers, bookings, campaigns, pages, places>>
PagesStep == M!Next /\ UNCHANGED <<rewards, offers, bookings, campaigns, designs, places>>
PlacesStep == P!Next /\ UNCHANGED <<rewards, offers, bookings, campaigns, designs, pages>>

Next == RewardsStep \/ OffersStep \/ BookingsStep \/ CampaignsStep \/ DesignsStep
        \/ PagesStep \/ PlacesStep

Spec == Init /\ [][Next]_vars

-----------------------------------------------------------------------------

TypeOK == O!TypeOK /\ R!TypeOK /\ V!TypeOK /\ G!TypeOK /\ D!TypeOK /\ M!TypeOK
          /\ P!TypeOK

\* XP equals the awards recorded, but for overwritten totals; coins are exact;
\* and a streak stands for that many days with a login (Rewards).
RewardsAddUp == R!XpAddsUp /\ R!StreakEarned

\* Limits counted before a write hold but for requests that another overtook
\* in between: a user's promotions, a bar's promotions, special drinks and
\* pieces in the magazine (Rewards, Offers, Magazine).
LimitsHold == R!SlotsHold /\ O!QuotasHold /\ M!SectionsHold

\* What is shown is what was approved, and a medal carries the design its bar
\* selected, but for handlers that wrote over a changed row (Offers, Proposals).
NothingUnreviewed == O!NothingUnreviewed /\ D!ArtworkChosen

\* Guests have been told how their reservation stands, and hooks that
\* interleave lose no medal of a campaign (Reservations, GlobalEvents).
OutcomesDelivered == V!GuestTold /\ G!EventMedalEarned /\ G!EventMedalDelivered

\* A place is visited for the first time once and shown once, with the rating of
\* its page, but for check-ins that overlapped and reviews that named another
\* bar; the bars a user has been to are places once (Places).
PlacesStand == P!FirstOnce /\ P!CollectedOnce /\ P!ShownOnce /\ P!RatingsAgree

\* The end of a reservation, a verified terrace, the design selected for a medal
\* and the data of a place that were just fetched stand, but for handlers that
\* had read the row before (Reservations, Offers, Proposals, Places).
DecisionsStand ==
  [][V!OutcomeStands /\ O!TerraceStands /\ D!SelectionStands /\ P!ClearedLate]_vars
=============================================================================
