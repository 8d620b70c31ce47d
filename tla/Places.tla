------------------------------- MODULE Places -------------------------------
(***************************************************************************)
(* Places of Google's and bars (place-visits, place-discovery,             *)
(* place-reviews and external-place services): the copy of Google's data   *)
(* that is kept for thirty days, check-ins, reviews, and what is shown     *)
(* near a user.  A place has a key, Google's id if it has one and else the *)
(* bar's.  Everything shown lies within the search radius; what a visit    *)
(* earns is Rewards', and whether a bar is a partner Subscriptions'.       *)
(***************************************************************************)
EXTENDS Integers, FiniteSets

CONSTANTS
  User, Google, Bar, Request, Spot,
  GoogleOf, BarAt,  \* of a bar: its google_place_id and its coordinates, or None
  SpotOf,           \* SpotOf[g] : where Google says that g is
  Answer,           \* Answer[g] : the id Google answers with for g, which may be newer
  Fix, Stars,       \* positions phones report, ratings
  MaxResolve,       \* MAX_SEED_RESOLVE_CALLS
  MaxDate, MaxTrips,  \* bounds: days, requests served in all
  None

VARIABLES
  cache,    \* cache[g] : the external_places row of g: "none", "stub" (no content),
            \* "fresh" or "old"
  doors,    \* doors[b] : "open", "hidden" (not active) or "deleted"
  visited,  \* place_visits
  review,   \* review[u, key] : the place_reviews row
  shown,    \* the last answer of nearby
  date, trips, errand,
  odd       \* history: places reviewed under another bar's name, or while theirs
            \* was deleted

rows == <<cache, doors, visited, review, shown>>
vars == <<rows, date, trips, errand, odd>>

Key == Google \cup Bar
NoReview == [bar |-> None, stars |-> 0]
Idle == [at |-> "idle", kind |-> None, user |-> None, spot |-> None, g |-> None, bar |-> None,
         row |-> None, key |-> None, day |-> 0, stars |-> 0, bars |-> {}, found |-> {},
         seeds |-> {}, calls |-> 0, loaded |-> FALSE, first |-> FALSE, late |-> FALSE]

KeyOf(b) == IF GoogleOf[b] # None THEN GoogleOf[b] ELSE b
\* The bar in S whose id at Google is g.
OwnerIn(S, g) == IF \E b \in S : GoogleOf[b] = g THEN CHOOSE b \in S : GoogleOf[b] = g ELSE None
Opened == {b \in Bar : doors[b] = "open"}
Kept == {b \in Bar : doors[b] # "deleted"}

\* validateCheckInLocationFix: metres, and seconds since the phone took it.
FixOk(f) ==
  /\ f.latitude \in -90..90 /\ f.longitude \in -180..180
  /\ f.accuracy \in 0..50
  /\ f.age = None \/ f.age \in -120..300

-----------------------------------------------------------------------------

Init ==
  /\ cache \in [Google -> {"none", "stub", "fresh", "old"}]
  /\ doors = [b \in Bar |-> "open"]
  /\ visited = {} /\ shown = {}
  /\ review = [uk \in User \X Key |-> NoReview]
  /\ date \in 0..MaxDate /\ trips \in 0..MaxTrips
  /\ errand = [r \in Request |-> Idle] /\ odd = {}

At(r, l) == errand[r].at = l
Goto(r, l) == errand' = [errand EXCEPT ![r].at = l]
Return(r) == errand' = [errand EXCEPT ![r] = Idle]
Begins(r, e) ==
  /\ trips' = trips + 1
  /\ errand' = [errand EXCEPT ![r] = e]
  /\ UNCHANGED <<rows, date>>

\* Thirty days go by since g was stored; a day; a bar opens, closes, is deleted.
Expire(g) ==
  /\ cache[g] = "fresh"
  /\ cache' = [cache EXCEPT ![g] = "old"]
  /\ UNCHANGED <<doors, visited, review, shown, date, trips, errand, odd>>

Tomorrow ==
  /\ date < MaxDate
  /\ date' = date + 1
  /\ UNCHANGED <<rows, trips, errand, odd>>

SetDoors(b, d) ==
  /\ doors[b] # d
  /\ trips < MaxTrips /\ trips' = trips + 1
  /\ doors' = [doors EXCEPT ![b] = d]
  /\ UNCHANGED <<cache, visited, review, shown, date, errand, odd>>

-----------------------------------------------------------------------------
(* resolveForCheckIn *)

Resolved(e, row) ==
  CASE e.kind = "visit" -> [e EXCEPT !.at = "settle", !.row = row]
    [] e.kind = "nearby" -> [e EXCEPT !.at = "seeds", !.found = @ \cup {row}, !.g = None]
    [] OTHER -> Idle

Unresolved(e) == IF e.kind = "nearby" THEN [e EXCEPT !.at = "seeds", !.g = None] ELSE Idle

\* Content that is not older than thirty days will do; else it is to be cleared ...
Find(r) ==
  LET g == errand[r].g IN
  /\ At(r, "find")
  /\ IF cache[g] = "fresh" THEN errand' = [errand EXCEPT ![r] = Resolved(@, g)]
     ELSE errand' = [errand EXCEPT ![r].at = IF cache[g] = "none" THEN "fetch" ELSE "clear",
                                   ![r].late = FALSE]
  /\ UNCHANGED <<rows, date, trips, odd>>

\* ... by the row's id, though it may have been stored since; ...
Clear(r) ==
  /\ At(r, "clear")
  /\ cache' = [cache EXCEPT ![errand[r].g] = "stub"]
  /\ Goto(r, "fetch")
  /\ UNCHANGED <<doors, visited, review, shown, date, trips, odd>>

\* ... Google answers, or does not know the place, or fails, ...
Fetch(r) ==
  LET e == errand[r] IN
  /\ At(r, "fetch")
  /\ \/ Answer[e.g] # None
        /\ errand' = [errand EXCEPT ![r].at = "store", ![r].row = Answer[e.g]]
     \/ errand' = [errand EXCEPT ![r] = Unresolved(e)]
  /\ UNCHANGED <<rows, date, trips, odd>>

\* ... and what it answered is stored under the id it answered with.
Store(r) ==
  LET g == errand[r].row IN
  /\ At(r, "store")
  /\ cache' = [cache EXCEPT ![g] = "fresh"]
  /\ errand' = [q \in Request |->
       IF q = r THEN Resolved(errand[r], g)
       ELSE [errand[q] EXCEPT !.late = @ \/ (At(q, "clear") /\ errand[q].g = g)]]
  /\ UNCHANGED <<doors, visited, review, shown, date, trips, odd>>

-----------------------------------------------------------------------------
(* checkIn *)

\* Without an id of Google's the bar is read first, and its own id resolved.
BeginVisit(r, u, f, s, g, b) ==
  LET e == [Idle EXCEPT !.kind = "visit", !.user = u, !.spot = s, !.bar = b, !.day = date] IN
  /\ FixOk(f)
  /\ \/ /\ g # None
        /\ Begins(r, [e EXCEPT !.at = "find", !.g = g, !.key = g])
     \/ /\ g = None /\ b # None
        /\ b \in Opened /\ BarAt[b] # None
        /\ Begins(r, [e EXCEPT !.at = IF GoogleOf[b] # None THEN "find" ELSE "settle",
                               !.g = GoogleOf[b], !.key = KeyOf(b), !.loaded = TRUE])
  /\ UNCHANGED odd

\* resolveTarget: the bar named, or the one with this id; its own coordinates
\* are preferred.  The user must be there.
Settle(r) ==
  LET e == errand[r]
      bar == IF e.bar # None THEN e.bar ELSE OwnerIn(Opened, e.g)
      found == e.bar # None /\ ~e.loaded =>
                 e.bar \in Opened /\ GoogleOf[e.bar] \in {None, e.g}
      there == IF bar # None /\ BarAt[bar] # None THEN BarAt[bar] ELSE SpotOf[e.row]
  IN
  /\ At(r, "settle")
  /\ IF found /\ there = e.spot
       THEN errand' = [errand EXCEPT ![r] = [Idle EXCEPT
              !.at = "prior", !.kind = "visit", !.user = e.user, !.key = e.key, !.bar = bar,
              !.day = e.day]]
       ELSE Return(r)
  /\ UNCHANGED <<rows, date, trips, odd>>

Visits(u, key) == {v \in visited : v.user = u /\ v.key = key}

\* findPriorVisits: once a day, and four hours after the last one.
Prior(r) ==
  LET e == errand[r]
      mine == Visits(e.user, e.key)
  IN
  /\ At(r, "prior")
  /\ \/ mine # {} /\ Return(r)
     \/ /\ \A v \in mine : v.day < e.day
        /\ errand' = [errand EXCEPT ![r].at = "insert", ![r].first = mine = {}, ![r].late = FALSE]
  /\ UNCHANGED <<rows, date, trips, odd>>

\* An index allows one visit of a place a day.
Insert(r) ==
  LET e == errand[r]
      taken == \E v \in Visits(e.user, e.key) : v.day = e.day
  IN
  /\ At(r, "insert")
  /\ visited' = IF taken THEN visited
                ELSE visited \cup {[user |-> e.user, key |-> e.key, bar |-> e.bar, day |-> e.day,
                                    first |-> e.first, late |-> e.late]}
  /\ errand' = [q \in Request |->
       IF q = r THEN Idle
       ELSE [errand[q] EXCEPT !.late = @ \/ (At(q, "insert") /\ errand[q].user = e.user
                                             /\ errand[q].key = e.key)]]
  /\ UNCHANGED <<cache, doors, review, shown, date, trips, odd>>

-----------------------------------------------------------------------------
(* Reviews *)

\* resolveIdentity: of a bar, its id at Google if it has one.
BeginReview(r, u, g, b, stars) ==
  LET key == IF g # None THEN g ELSE KeyOf(b)
      bar == IF b # None THEN b ELSE OwnerIn(Kept, g)
  IN
  /\ g # None \/ b # None
  /\ b # None => b \in Kept
  /\ Begins(r, [Idle EXCEPT !.at = IF key \in Google THEN "stub" ELSE "write", !.kind = "review",
                            !.user = u, !.bar = bar, !.key = key, !.stars = stars])
  /\ odd' = IF (IF b # None THEN KeyOf(b) # key ELSE OwnerIn(Bar, g) # bar)
              THEN odd \cup {key} ELSE odd

\* ensureStub: found, or created; the second of two to create it fails.
Stub(r) ==
  /\ At(r, "stub")
  /\ Goto(r, IF cache[errand[r].key] # "none" THEN "write" ELSE "addStub")
  /\ UNCHANGED <<rows, date, trips, odd>>

AddStub(r) ==
  LET g == errand[r].key IN
  /\ At(r, "addStub")
  /\ IF cache[g] = "none" THEN cache' = [cache EXCEPT ![g] = "stub"] /\ Goto(r, "write")
     ELSE Return(r) /\ UNCHANGED cache
  /\ UNCHANGED <<doors, visited, review, shown, date, trips, odd>>

Written(r) == review[errand[r].user, errand[r].key] # NoReview

\* The row of this user and key is written, whoever made it.
WriteReview(r) ==
  LET e == errand[r] IN
  /\ review' = [review EXCEPT ![<<e.user, e.key>>] = [bar |-> e.bar, stars |-> e.stars]]
  /\ Return(r)
  /\ UNCHANGED <<cache, doors, visited, shown, date, trips, odd>>

\* upsert, in one statement; if it fails the row is looked for ...
Write(r) == At(r, "write") /\ WriteReview(r)
WriteFails(r) == At(r, "write") /\ Goto(r, "look") /\ UNCHANGED <<rows, date, trips, odd>>

Look(r) ==
  /\ At(r, "look")
  /\ Goto(r, IF Written(r) THEN "update" ELSE "create")
  /\ UNCHANGED <<rows, date, trips, odd>>

\* ... and created, or updated if another has created it since.
CreateReview(r) ==
  /\ At(r, "create")
  /\ IF Written(r) THEN Goto(r, "update") /\ UNCHANGED <<rows, date, trips, odd>>
     ELSE WriteReview(r)

UpdateReview(r) == At(r, "update") /\ WriteReview(r)

-----------------------------------------------------------------------------
(* Discovery *)

\* nearby has read the bars and the rows with content; the client may have
\* named places as seeds.
BeginNearby(r, seeds) ==
  /\ Begins(r, [Idle EXCEPT !.at = "seeds", !.kind = "nearby", !.seeds = seeds,
                            !.bars = {b \in Opened : BarAt[b] # None},
                            !.found = {g \in Google : cache[g] = "fresh"}])
  /\ UNCHANGED odd

\* resolveSeedExternals, as many at Google as a request may.
NextSeed(r) ==
  LET e == errand[r] IN
  /\ At(r, "seeds")
  /\ IF e.seeds = {} THEN Goto(r, "rank")
     ELSE \E g \in e.seeds :
       LET left == [e EXCEPT !.seeds = @ \ {g}] IN
       errand' = [errand EXCEPT ![r] =
         IF cache[g] = "fresh" THEN [left EXCEPT !.found = @ \cup {g}]
         ELSE IF e.calls = MaxResolve THEN left
         ELSE [left EXCEPT !.at = "find", !.g = g, !.calls = @ + 1]]
  /\ UNCHANGED <<rows, date, trips, odd>>

\* rankBar and rankExternal: under which key a bar and a place are shown.
RankedBar(b) == [key |-> KeyOf(b), bar |-> b]
RankedPlace(g) == [key |-> g, bar |-> None]

\* Mutant of Rank: a bar's place at Google is shown too.
RankAll(r) ==
  /\ At(r, "rank")
  /\ shown' = {RankedBar(b) : b \in errand[r].bars} \cup
              {RankedPlace(g) : g \in errand[r].found}
  /\ Return(r)
  /\ UNCHANGED <<cache, doors, visited, review, date, trips, odd>>

\* Bars first; a place that is one of them is not shown again.
Rank(r) ==
  LET e == errand[r]
      others == e.found \ {GoogleOf[b] : b \in e.bars}
  IN
  /\ At(r, "rank")
  /\ shown' = {RankedBar(b) : b \in e.bars} \cup
              {RankedPlace(g) : g \in others}
  /\ Return(r)
  /\ UNCHANGED <<cache, doors, visited, review, date, trips, odd>>

\* resolvePlace: of a place that is no bar's, Google's data are asked for.
BeginPage(r, g) ==
  /\ \A b \in Opened : GoogleOf[b] = g => BarAt[b] = None
  /\ Begins(r, [Idle EXCEPT !.at = "find", !.kind = "page", !.g = g])
  /\ UNCHANGED odd

\* A query fails or the process dies.
Fail(r) == Return(r) /\ UNCHANGED <<rows, date, trips, odd>>

Free == {r \in Request : errand[r] = Idle /\ trips < MaxTrips}
Busy == {r \in Request : errand[r] # Idle}

Next ==
  \/ \E r \in Free, g \in Google \cup {None}, b \in Bar \cup {None}, u \in User :
       \/ \E f \in Fix, s \in Spot : BeginVisit(r, u, f, s, g, b)
       \/ \E stars \in Stars : BeginReview(r, u, g, b, stars)
  \/ \E r \in Free : \/ \E seeds \in SUBSET Google : BeginNearby(r, seeds)
                     \/ \E g \in Google : BeginPage(r, g)
  \/ \E r \in Busy :
       \/ Find(r) \/ Clear(r) \/ Fetch(r) \/ Store(r)
       \/ Settle(r) \/ Prior(r) \/ Insert(r)
       \/ Stub(r) \/ AddStub(r) \/ Write(r) \/ WriteFails(r) \/ Look(r)
       \/ CreateReview(r) \/ UpdateReview(r)
       \/ NextSeed(r) \/ Rank(r) \/ Fail(r)
  \/ \E g \in Google : Expire(g)
  \/ \E b \in Bar : \E d \in {"open", "hidden", "deleted"} : SetDoors(b, d)
  \/ Tomorrow

-----------------------------------------------------------------------------

TypeOK ==
  /\ cache \in [Google -> {"none", "stub", "fresh", "old"}]
  /\ doors \in [Bar -> {"open", "hidden", "deleted"}]
  /\ \A v \in visited : v \in [user : User, key : Key, bar : Bar \cup {None}, day : 0..MaxDate,
                               first : BOOLEAN, late : BOOLEAN]
  /\ review \in [User \X Key -> [bar : Bar \cup {None}, stars : Stars \cup {0}]]
  /\ date \in 0..MaxDate /\ trips \in 0..MaxTrips
  /\ \A r \in Request : errand[r].calls \in 0..MaxResolve

\* A user's first visit to a place is paid once, unless two check-ins looked
\* before either had written, and wrote for two days.
FirstOnce == \A v, w \in visited :
  v.first /\ w.first /\ v.user = w.user /\ v.key = w.key => v = w \/ v.late \/ w.late

\* The places a user has been to, by key.  The bar is the one with this id
\* today, open or not; else the one of the last visit that had one.
MyPlace(u, key) ==
  LET mine == Visits(u, key)
      named == {v \in mine : v.bar # None}
      newest == {v \in named : \A w \in named : w.day <= v.day}
      owner == IF key \in Google THEN OwnerIn(Kept, key) ELSE None
  IN [key |-> key, visitCount |-> Cardinality(mine),
      bar |-> IF owner # None \/ named = {} THEN owner ELSE (CHOOSE v \in newest : TRUE).bar]
MyPlaces(u) == {MyPlace(u, key) : key \in {v.key : v \in {w \in visited : w.user = u}}}

\* A bar is two of a user's places only if it has no id at Google: a check-in
\* that names it beside another place's id is refused, whichever of the two the
\* server reads first, and the list names no other bar.
CollectedOnce == \A u \in User : \A p, q \in MyPlaces(u) :
  p.bar # None /\ p.bar = q.bar => p = q \/ GoogleOf[p.bar] = None

\* nearby shows a place once, as a bar if it is one.
ShownOnce == \A c, d \in shown : c.key = d.key => c = d

\* The reviews the page of a place sums up (listForPlace), and the groups out of
\* which nearby and resolvePlace take the largest (loadReviewStats).
Reviewers(key) == {u \in User : review[u, key] # NoReview}
Groups(key) == {{u \in Reviewers(key) : review[u, key].bar = b} : b \in Bar \cup {None}} \ {{}}
Largest(key) == {s \in Groups(key) : \A t \in Groups(key) : Cardinality(s) >= Cardinality(t)}

\* The rating discovery shows is that of the page, unless the place was reviewed
\* under another bar's name or while its bar was deleted.
RatingsAgree == \A key \in Key \ odd : Largest(key) \subseteq {Reviewers(key)}

\* Content that is fresh is only cleared by a request that had found it old
\* before another stored it.
ClearedLate == cache' # cache => \A g \in Google : cache[g] = "fresh" /\ cache'[g] = "stub" =>
  \E r \in Request : At(r, "clear") /\ errand[r].g = g /\ errand[r].late
=============================================================================
