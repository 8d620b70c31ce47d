------------------------------ MODULE MCVenue -------------------------------
(***************************************************************************)
(* Small instances of Venue.  A behaviour has room for the requests of one *)
(* component, the others having spent theirs; only Rewards and Offers      *)
(* share tables, and those two may also act together.                      *)
(***************************************************************************)
EXTENDS Venue, TLC

CONSTANTS p1, p2, p3, p4, s1, s2, k1, f1, b1, b2, b3, q1, q2, m1, m2, m3, c1, c2, g1, g2, h1, h2

MCBarOf == p1 :> b1 @@ p2 :> b2 @@ [i \in {p3, p4, s1, s2, k1, f1} |-> b3]
MCQuota == "EXPLORER" :> [q \in Rarity |-> 0] @@ "INTERMEDIATE" :> (q1 :> 1 @@ q2 :> 0)
           @@ "LEGEND" :> [q \in Rarity |-> 1]
MCIncoming == {[period |-> 0, done |-> TRUE], [period |-> 2, done |-> FALSE]}

\* Google answers with g1 when it is asked for g2; c1 is where no user is, though
\* Google says otherwise.
MCGoogleOf == c1 :> g1 @@ c2 :> None
MCBarAt == c1 :> h2 @@ c2 :> h1
MCSpotOf == g1 :> h1 @@ g2 :> h1
MCAnswer == g1 :> g1 @@ g2 :> g1
MCFix == {[latitude |-> 19, longitude |-> -99, accuracy |-> 20, age |-> None],
          [latitude |-> 19, longitude |-> -99, accuracy |-> 20, age |-> 301]}

Spent(earned, published, booked, walked, designed, printed, travelled) ==
  /\ rserved = earned /\ oserved = published /\ vserved = booked
  /\ gserved = walked /\ pserved = designed /\ mserved = printed /\ trips = travelled

\* What the tables of a component with no requests left hold.
NoEarnings == R!Init /\ today = MaxDay /\ live = {} /\ lastLogin = 0
Bars(p, verified) ==
  /\ plan = [b \in O!Owner |-> IF b = b3 THEN p ELSE "LEGEND"]
  /\ outdoor = verified
  /\ terrace = [b \in O!Owner |-> IF b \in verified THEN "APPROVED" ELSE "NONE"]
NoOffers == Bars("LEGEND", {b3}) /\ gone = O!Item /\ O!Init
NoBookings == V!Init /\ \A v \in Reservation : status[v] = "NONE"
NoCampaign == /\ G!Init /\ event = "DRAFT" /\ window = "before"
              /\ pool = Bar /\ \A t \in Target : target <= t
NoDesign == D!Init /\ batch = "NONE"
NoPlaces == cache = [g \in Google |-> "none"] /\ date = MaxDate /\ P!Init
NoPages == M!Init /\ edited = {} /\ \A i \in Piece : M!Unused(i)
Printed == /\ M!Init /\ edited = {}
           /\ M!Shown("STRONG") = {m1} /\ M!Shown("PARA_DATE") = {} /\ M!Unused(m3)

\* One kind of item is published at a time.
Only(K) == gone = O!Item \ K /\ O!Init /\ excused = {}
AllShown(K) == Bars("LEGEND", {b3}) /\ gone = O!Item \ K /\ O!Init /\ \A p \in K : O!PromoShown(p)
Starting(K) ==
  /\ \/ K = {p3, p4} /\ Bars("EXPLORER", {b3})
     \/ K \in {Special, Event} /\ Bars("LEGEND", {b3})
     \/ K = Package /\ \E verified \in SUBSET {b3} : Bars("LEGEND", verified)
  /\ Only(K)

\* The conjuncts of Init, for one component at a time.
MCInit ==
  \/ /\ Spent(0, MaxPublished, MaxBooked, MaxVisited, MaxDesigned, MaxPrinted, MaxTrips)
     /\ AllShown({p1, p2, p3}) /\ R!Init /\ today = 2 /\ live = {p1} /\ lastLogin = 1
     /\ NoBookings /\ NoCampaign /\ NoDesign /\ NoPages /\ NoPlaces
  \/ /\ Spent(MaxEarned, 0, MaxBooked, MaxVisited, MaxDesigned, MaxPrinted, MaxTrips)
     /\ \E K \in {{p3, p4}, Special, Package, Event} : Starting(K)
     /\ NoEarnings /\ NoBookings /\ NoCampaign /\ NoDesign /\ NoPages /\ NoPlaces
  \/ /\ Spent(MaxEarned - 1, MaxPublished - 1, MaxBooked, MaxVisited, MaxDesigned, MaxPrinted, MaxTrips)
     /\ AllShown({p3, p4}) /\ R!Init /\ today = MaxDay
     /\ NoBookings /\ NoCampaign /\ NoDesign /\ NoPages /\ NoPlaces
  \/ /\ Spent(MaxEarned, MaxPublished, 0, MaxVisited, MaxDesigned, MaxPrinted, MaxTrips)
     /\ NoOffers /\ NoEarnings /\ V!Init /\ NoCampaign /\ NoDesign /\ NoPages /\ NoPlaces
  \/ /\ Spent(MaxEarned, MaxPublished, MaxBooked, 0, MaxDesigned, MaxPrinted, MaxTrips)
     /\ NoOffers /\ NoEarnings /\ NoBookings /\ G!Init /\ NoDesign /\ NoPages /\ NoPlaces
  \/ /\ Spent(MaxEarned, MaxPublished, MaxBooked, MaxVisited, 0, MaxPrinted, MaxTrips)
     /\ NoOffers /\ NoEarnings /\ NoBookings /\ NoCampaign /\ D!Init /\ NoPages /\ NoPlaces
  \/ /\ Spent(MaxEarned, MaxPublished, MaxBooked, MaxVisited, MaxDesigned, 0, MaxTrips)
     /\ NoOffers /\ NoEarnings /\ NoBookings /\ NoCampaign /\ NoDesign /\ Printed /\ NoPlaces
  \/ /\ Spent(MaxEarned, MaxPublished, MaxBooked, MaxVisited, MaxDesigned, MaxPrinted, 0)
     /\ NoOffers /\ NoEarnings /\ NoBookings /\ NoCampaign /\ NoDesign /\ NoPages
     /\ P!Init /\ cache[g1] = "fresh" /\ cache[g2] = "none" /\ date = 0

MCSpec == MCInit /\ [][Next]_vars

Symmetry == Permutations(Request) \cup Permutations(Reservation) \cup Permutations(User)
=============================================================================
