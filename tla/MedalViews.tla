----------------------------- MODULE MedalViews ------------------------------
(***************************************************************************)
(* What the user and the bar are told of the seasons, missions and medals  *)
(* of BarMissions, while hooks and changes go on.  An answer is put        *)
(* together from several queries without a transaction: which season is    *)
(* shown, whether the medal is earned, which version is ACTIVE, what the   *)
(* user did, whether the subscription stands.                              *)
(***************************************************************************)
EXTENDS BarMissions

VARIABLE view  \* the request that is being answered

NoView == [at |-> "idle", asks |-> None, had |-> {}, season |-> None, span |-> {},
           version |-> None, met |-> FALSE, saw |-> <<>>, told |-> {}]

Facts == <<visits, unlocks, completed>>
At(l) == view.at = l
Goes(l) == view' = [view EXCEPT !.at = l]
Unavailable == view' = [view EXCEPT !.at = "answered", !.season = None, !.version = None]

\* What the answer says of the user.
Tells(words) == view' = [view EXCEPT !.at = "answered", !.told = words]

-----------------------------------------------------------------------------
(* getProgressByBarId, getSeasonMedalProgressForUser, getPublicBarMedal *)

\* Mutant: the season that runs is shown, whatever was earned.
AskBarVisible ==
  /\ At("idle")
  /\ view' = [NoView EXCEPT !.asks = "bar", !.had = earned, !.at = "visible"]

\* The user's last medal of the bar decides which season is shown ...
AskBar ==
  /\ At("idle")
  /\ LET asked == [NoView EXCEPT !.asks = "bar", !.had = earned] IN
       IF earned = {}
         THEN view' = [asked EXCEPT !.at = "visible"]
         ELSE \E m \in earned : view' = [asked EXCEPT !.season = m[1], !.at = "progress"]

\* ... or else resolveVisibleSeason ...
VisibleSeason ==
  /\ At("visible")
  /\ IF Running = {} THEN Goes("display")
     ELSE \E s \in Running : view' = [view EXCEPT !.season = s, !.at = "progress"]

\* ... or else resolveActiveMedalForBarDisplay: the visible season's medal, or
\* any that the bar has.
DisplaySeason ==
  /\ At("display")
  /\ IF Running = {} THEN Goes("displayAny")
     ELSE \E s \in Running :
            IF ActiveFor(s)
              THEN view' = [view EXCEPT !.season = s, !.version = official, !.at = "displayed"]
              ELSE Goes("displayAny")

DisplayAny ==
  /\ At("displayAny")
  /\ IF official = None THEN Unavailable
     ELSE view' = [view EXCEPT !.season = medal[official].season, !.version = official,
                               !.at = "displayed"]

\* The public page shows the version itself.
Displayed ==
  /\ At("displayed")
  /\ IF view.asks = "public" THEN Tells({"available"})
     ELSE view' = [view EXCEPT !.asks = "again", !.version = None, !.at = "progress"]

AskPublic ==
  /\ At("idle")
  /\ view' = [NoView EXCEPT !.asks = "public", !.at = "display"]

\* A season is shown while it runs, and to whoever has earned its medal.
AskSeason(s) ==
  /\ At("idle")
  /\ status[s] # "unborn"
  /\ HasMedal(s) \/ s \in Running
  /\ view' = [NoView EXCEPT !.asks = "season", !.season = s, !.at = "progress",
                            !.had = {m \in earned : m[1] = s}]

\* getSeasonMedalProgress: the medal of the season is earned (mapUnlocked) ...
Progress ==
  /\ At("progress")
  /\ IF HasMedal(view.season)
       THEN \E m \in earned :
              /\ m[1] = view.season
              /\ view' = [view EXCEPT !.at = "answered", !.version = m[2],
                                      !.told = {"available", "unlocked", "complete"}]
       ELSE view' = [view EXCEPT !.at = "active", !.span = window[view.season]]

\* ... or there is a version to be earned; the page of a bar looks once more.
ActiveVersion ==
  /\ At("active")
  /\ IF ActiveFor(view.season)
       THEN view' = [view EXCEPT !.at = "evaluate", !.version = official]
       ELSE IF view.asks = "bar" THEN Goes("display") ELSE Unavailable

\* evaluateConditions for that version, then the subscription and the window.
EvaluateVersion ==
  /\ At("evaluate")
  /\ view' = [view EXCEPT !.at = "subscription",
       !.met = Meets(medal[view.version].ask, Within(visits, view.span), Within(unlocks, view.span),
                     CompletedFor(view.version))]

Subscription ==
  /\ At("subscription")
  /\ Tells({"available"}
       \cup {w \in {"complete"} : view.met}
       \cup {w \in {"eligible"} : view.met /\ operational /\ today \in view.span})

-----------------------------------------------------------------------------
(* listActiveForUser, listMyBarMedals *)

\* The seasons that run, with their missions and whether their medal is earned ...
AskFeed ==
  /\ At("idle")
  /\ view' = [NoView EXCEPT !.asks = "feed", !.at = "feed", !.had = earned,
       !.saw = [rows |-> UNION {Row(s, missions[s]) : s \in Running},
                medals |-> {m \in earned : m[1] \in Running}]]

\* ... and then the progress in those missions.
FeedProgress ==
  /\ At("feed")
  /\ view' = [view EXCEPT !.at = "answered", !.saw.rows = @ \cap completed]

\* A count and then the rows.
AskMedals ==
  /\ At("idle")
  /\ view' = [NoView EXCEPT !.asks = "medals", !.at = "medals", !.had = earned]

MedalRows ==
  /\ At("medals")
  /\ view' = [view EXCEPT !.at = "answered", !.saw = [rows |-> {}, medals |-> earned]]

\* listMedalsForUser, and getMyBarMedalDetail for one of them.
AskCollection ==
  /\ At("idle")
  /\ view' = [NoView EXCEPT !.asks = "medals", !.at = "answered", !.had = earned,
                            !.saw = [rows |-> {}, medals |-> earned]]

AskDetail(m) ==
  /\ At("idle")
  /\ view' = [NoView EXCEPT !.asks = "detail", !.at = "answered", !.had = {m},
       !.season = m[1], !.version = m[2], !.told = {"available", "unlocked", "complete"}]

-----------------------------------------------------------------------------
(* getSeasonStats: what the bar is told of this user *)

\* Its ACTIVE version, then who has unlocked the medal (counted, then listed).
AskStats(s) ==
  /\ At("idle")
  /\ status[s] # "unborn" /\ operational
  /\ view' = [NoView EXCEPT !.asks = "stats", !.season = s, !.span = window[s],
       !.version = IF ActiveFor(s) THEN official ELSE None,
       !.had = {m \in earned : m[1] = s}, !.at = "unlockedUsers"]

UnlockedUsers ==
  /\ At("unlockedUsers")
  /\ view' = [view EXCEPT
       !.at = IF view.version = None THEN "answered" ELSE "startedUsers",
       !.told = {w \in {"unlocked"} : HasMedal(view.season)}]

\* collectStartedUserIds; rows with a progress short of the target are not kept
\* here, so who has not completed a mission may have started it.
Started(a) ==
  LET counted ==
        \/ a.visits > 0 /\ Within(visits, view.span) # {}
        \/ a.drinks > 0 /\ Within(unlocks, view.span) # {}
        \/ a.missions \cap CompletedFor(view.version) # {}
  IN IF counted THEN {TRUE} ELSE IF a.missions = {} THEN {FALSE} ELSE BOOLEAN

StartedUsers ==
  /\ At("startedUsers")
  /\ \E begun \in Started(medal[view.version].ask) :
       view' = [view EXCEPT !.at = "breakdown", !.saw = Facts,
         !.told = @ \cup {w \in {"started"} : begun}
                    \cup {w \in {"inProgress"} : begun /\ "unlocked" \notin view.told}]

\* conditionBreakdown: is the user counted in one of the conditions?
Counted(a) ==
  \/ a.visits > 0 /\ Cardinality(Within(visits, view.span)) >= a.visits
  \/ a.drinks > 0 /\ Cardinality(Drinks(Within(unlocks, view.span))) >= a.drinks
  \/ a.missions \cap CompletedFor(view.version) # {}

Breakdown ==
  /\ At("breakdown")
  /\ view' = [view EXCEPT !.at = "answered", !.saw = <<>>,
       !.told = @ \cup {w \in {"counted"} : Counted(medal[view.version].ask)}
                  \cup {w \in {"acted"} : view.saw # Facts}]

-----------------------------------------------------------------------------

\* The user or the bar has read the answer.
Close == At("answered") /\ view' = NoView

View ==
  /\ \/ AskBar \/ AskPublic \/ AskFeed \/ AskMedals \/ AskCollection
     \/ \E m \in earned : AskDetail(m)
     \/ \E s \in Season : AskSeason(s) \/ AskStats(s)
     \/ VisibleSeason \/ DisplaySeason \/ DisplayAny \/ Displayed
     \/ Progress \/ ActiveVersion \/ EvaluateVersion \/ Subscription
     \/ FeedProgress \/ MedalRows \/ UnlockedUsers \/ StartedUsers \/ Breakdown
     \/ Close
  /\ UNCHANGED vars

ViewsInit == Init /\ view = NoView
ViewsNext == (~At("answered") /\ Next /\ UNCHANGED view) \/ View
ViewsSpec == ViewsInit /\ [][ViewsNext]_<<vars, view>>

-----------------------------------------------------------------------------
(* Properties *)

Answered(kinds) == At("answered") /\ view.asks \in kinds
Says(w) == w \in view.told
Asks == medal[view.version].ask

\* Whoever held a medal of the bar, or of the season, is told so, and of which.
MedalsShown ==
  /\ Answered({"bar", "again", "season", "detail"}) =>
       /\ view.had # {} => Says("unlocked")
       /\ Says("unlocked") => <<view.season, view.version>> \in earned
  /\ Answered({"medals"}) => view.had \subseteq view.saw.medals

\* A condition shown as met, a mission shown as done, and the claim that the
\* medal is due rest on what the user did.
ProgressShown ==
  /\ Answered({"bar", "again", "season", "detail"}) =>
       /\ Says("complete") => Meets(Asks, visits, unlocks, Deeds)
       /\ Says("eligible") => Says("complete") /\ ~Says("unlocked")
       /\ Says("available") => medal[view.version].season = view.season
  /\ Answered({"feed"}) => \A row \in view.saw.rows : Backed(row.template)

\* In the bar's figures nobody who held the medal is still in progress, and
\* whoever is counted for a condition has started, unless he acts meanwhile.
FiguresAgree ==
  Answered({"stats"}) =>
    /\ view.had # {} => Says("unlocked") /\ ~Says("inProgress")
    /\ Says("counted") => Says("started") \/ Says("acted")

\* Whoever holds a medal is told so, and of which, whatever runs and changes
\* while the answer is put together; nothing is shown as done, met or due that the
\* user did not do; and the bar's figures agree with each other.
AnswersAgree == MedalsShown /\ ProgressShown /\ FiguresAgree
=============================================================================
