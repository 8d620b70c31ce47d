------------------------------ MODULE Rewards ------------------------------
(***************************************************************************)
(* What one user is paid: daily logins, synchronised progress, check-ins,  *)
(* drinks registered by hand, promotions claimed by scanning, medals       *)
(* (users, place-visits, drinks, promotion-activation, missions services). *)
(*                                                                         *)
(* Every table that records XP has a unique key; ledger is the keys of all *)
(* of them.  Each award counts as one XP (and as one coin, if it pays      *)
(* coins): only lost and invented awards are told apart here.  A           *)
(* transaction is two steps, the read of totalXp and the commit.           *)
(***************************************************************************)
EXTENDS Integers, FiniteSets

CONSTANTS
  Request, Place, Promo, Drink,
  Entry,        \* quests and achievements in the catalogue
  Incoming,     \* what a client may say of one: a period and whether it is done
  BarOf,        \* BarOf[p] : the bar of promotion p
  MaxSlots,     \* promotions a user may have active at once
  Tier,         \* lengths of a streak that pay, 0 among them
  Target,       \* missions.target_count
  MaxDay,       \* bound: days
  MaxServed     \* bound: requests served in all

VARIABLES
  posted, offered,    \* promotions with a row, promotions in the feed: Offers'
  today,
  xp, coins,          \* users.total_xp, coins
  streak, lastLogin,  \* login_streak_days, last_login_epoch_day
  tierClaimed, chestDay,
  entries,            \* entries[e] : its period and whether it is done
  ledger,             \* keys of the rows that record an award
  repeats,            \* drink_history rows that paid and are in no ledger
  dropped,            \* history: awards whose row went with their promotion
  live,               \* promotions active for the user
  progress, mission,  \* the user_missions row of the one mission
  served,             \* bound
  pc,
  day,                \* day[r] : the day r took its request to be on
  seen,               \* seen[r] : what r has read of the user
  merged,             \* merged[r] : progress r is going to write
  todo,               \* todo[r] : keys r is going to claim
  logins,             \* history: days with a login
  completions,        \* history: times a mission was completed
  stale,              \* history: XP was written since r read it
  jumped,             \* history: a promotion was claimed since r counted
  squeezed,           \* history: promotions claimed by such an r, or shown again while active
  lost                \* history: an award was overwritten or never written

account == <<xp, coins, streak, lastLogin, tierClaimed, chestDay, entries>>
records == <<ledger, repeats, dropped, live, progress, mission>>
locals == <<day, seen, merged, todo>>
history == <<logins, completions, stale, jumped, squeezed, lost>>
vars == <<today, account, records, served, pc, locals, history>>

NoUser == [xp |-> 0, streak |-> 0, last |-> 0]
Row == [xp |-> xp, streak |-> streak, last |-> lastLogin]
Blank == [e \in Entry |-> [period |-> 0, done |-> FALSE]]

Label == {"idle", "login", "sync", "grant", "slots", "recount", "renew", "award", "commit",
          "mission", "upsert", "complete", "readXp", "writeXp"}

Kind(k) == k[1]
PaysXp(k) == Kind(k) # "CHEST"
PaysCoins(k) == Kind(k) \in {"CHEST", "STREAK"}

-----------------------------------------------------------------------------

\* A user who may have logged in and claimed a promotion days before.
Init ==
  /\ today \in 2..MaxDay
  /\ \E n \in 0..1 : streak = n /\ lastLogin = n /\ logins = 1..n
  /\ \E ps \in {{}} \cup {{p} : p \in Promo} :
       live = ps /\ ps \subseteq posted /\ ledger = {<<"PROMO", p>> : p \in ps} /\ xp = Cardinality(ps)
  /\ coins = 0 /\ tierClaimed = 0 /\ chestDay = 0 /\ entries = Blank
  /\ repeats = 0 /\ dropped = 0
  /\ progress = 0 /\ mission = "NONE"
  /\ served \in 0..MaxServed
  /\ pc = [r \in Request |-> "idle"]
  /\ day = [r \in Request |-> 0] /\ seen = [r \in Request |-> NoUser]
  /\ merged = [r \in Request |-> Blank] /\ todo = [r \in Request |-> {}]
  /\ completions = 0 /\ lost = FALSE
  /\ stale = {} /\ jumped = {} /\ squeezed = {}

Tomorrow ==
  /\ today < MaxDay
  /\ today' = today + 1
  /\ UNCHANGED <<account, records, served, pc, locals, history>>

\* A request arrives, has read the user, and goes on to l for the keys ks.
Arrives(r, l, ks, into) ==
  /\ pc[r] = "idle"
  /\ served < MaxServed /\ served' = served + 1
  /\ pc' = [pc EXCEPT ![r] = l]
  /\ day' = [day EXCEPT ![r] = today]
  /\ seen' = [seen EXCEPT ![r] = Row]
  /\ merged' = [merged EXCEPT ![r] = into]
  /\ todo' = [todo EXCEPT ![r] = ks]
  /\ stale' = stale \ {r} /\ jumped' = jumped \ {r}
  /\ UNCHANGED <<today, account, records, logins, completions, squeezed, lost>>

Goto(r, l) == pc' = [pc EXCEPT ![r] = l]

\* r goes on to l with the keys ks, and forgets what it read if it is done.
Continue(r, l, ks, row) ==
  /\ pc' = [pc EXCEPT ![r] = IF ks = {} THEN "idle" ELSE l]
  /\ day' = [day EXCEPT ![r] = IF ks = {} THEN 0 ELSE @]
  /\ seen' = [seen EXCEPT ![r] = IF ks = {} THEN NoUser ELSE row]
  /\ merged' = [merged EXCEPT ![r] = Blank]
  /\ todo' = [todo EXCEPT ![r] = ks]

Return(r) == Continue(r, "idle", {}, NoUser)

Reread(r) == stale' = stale \ {r}

\* r writes what it read plus one; whoever had read the old total is stale.
AddXp(r) ==
  /\ xp' = seen[r].xp + 1
  /\ stale' = Request \ {r}
  /\ lost' = (lost \/ r \in stale)

-----------------------------------------------------------------------------
(* recordDailyLogin *)

\* The highest tier a streak of n days reaches.
TierReached(n) == CHOOSE t \in Tier : t <= n /\ \A s \in Tier : s <= n => s <= t

StreakKeys(n, claimed) ==
  IF TierReached(n) > claimed THEN {<<"STREAK", TierReached(n)>>} ELSE {}

LoginRead(r) ==
  IF lastLogin = today
    THEN /\ StreakKeys(streak, tierClaimed) # {}
         /\ Arrives(r, "grant", StreakKeys(streak, tierClaimed), Blank)
    ELSE Arrives(r, "login", {}, Blank)

\* Mutant of LoginWrite: a missed day does not end the streak.
LoginWriteAnyDay(r) ==
  LET n == seen[r].streak + 1 IN
  /\ pc[r] = "login"
  /\ lastLogin' = day[r] /\ streak' = n
  /\ logins' = logins \cup {day[r]}
  /\ Reread(r)
  /\ Continue(r, "grant", StreakKeys(n, tierClaimed), [Row EXCEPT !.streak = n, !.last = day[r]])
  /\ UNCHANGED <<today, xp, coins, tierClaimed, chestDay, entries, records, served,
                 completions, jumped, squeezed, lost>>

\* The streak goes on if the row read was of the day before; the row this
\* returns decides about the bonus.
LoginWrite(r) ==
  LET n == IF seen[r].last = day[r] - 1 THEN seen[r].streak + 1 ELSE 1 IN
  /\ pc[r] = "login"
  /\ lastLogin' = day[r] /\ streak' = n
  /\ logins' = logins \cup {day[r]}
  /\ Reread(r)
  /\ Continue(r, "grant", StreakKeys(n, tierClaimed), [Row EXCEPT !.streak = n, !.last = day[r]])
  /\ UNCHANGED <<today, xp, coins, tierClaimed, chestDay, entries, records, served,
                 completions, jumped, squeezed, lost>>

-----------------------------------------------------------------------------
(* syncGamification.  The client sends one entry and may ask for a chest.  *)
(* Period 0 stands for none, which is all an achievement ever has.         *)

\* Mutant of Merge: a newer period is counted on from.
MergeNextPeriod(stored, e, inc) ==
  IF inc.period > stored[e].period
    THEN [stored EXCEPT ![e] = [inc EXCEPT !.period = @ + 1]] ELSE stored

\* mergeQuestProgress and mergeAchievementProgress.
Merge(stored, e, inc) ==
  LET prev == stored[e] IN
  [stored EXCEPT ![e] =
     IF inc.period > prev.period THEN inc
     ELSE IF 0 < inc.period /\ inc.period < prev.period THEN prev
     ELSE [prev EXCEPT !.done = @ \/ inc.done]]

SyncRead(r, e, inc, chest) ==
  Arrives(r, "sync", IF chest THEN {<<"CHEST", today>>} ELSE {}, Merge(entries, e, inc))

\* What is done according to the map the request has merged is claimed.
Claims(m) == {<<"ENTRY", e, m[e].period>> : e \in {e \in Entry : m[e].done}}

SyncWrite(r) ==
  LET chests == {k \in todo[r] : k[2] = today /\ k[2] > chestDay} IN
  /\ pc[r] = "sync"
  /\ entries' = merged[r]
  /\ Reread(r)
  /\ Continue(r, "grant", chests \cup Claims(merged[r]), Row)
  /\ UNCHANGED <<today, xp, coins, streak, lastLogin, tierClaimed, chestDay, records,
                 served, logins, completions, jumped, squeezed, lost>>

\* grantRewardOnce: the ledger's row and the user's in one transaction; with
\* the key taken nothing is paid.  Either way the user is as just read.
\* The total is what was read before the transaction; coins are incremented.
Grant(r, k) ==
  /\ pc[r] = "grant"
  /\ k \in todo[r] /\ (Kind(k) # "CHEST" => \A j \in todo[r] : Kind(j) # "CHEST")
  /\ IF k \in ledger
       THEN /\ Reread(r)
            /\ UNCHANGED <<xp, coins, ledger, tierClaimed, chestDay, lost>>
       ELSE /\ ledger' = ledger \cup {k}
            /\ coins' = coins + IF PaysCoins(k) THEN 1 ELSE 0
            /\ tierClaimed' = IF Kind(k) = "STREAK" THEN k[2] ELSE tierClaimed
            /\ chestDay' = IF Kind(k) = "CHEST" THEN k[2] ELSE chestDay
            /\ IF PaysXp(k) THEN AddXp(r) ELSE Reread(r) /\ UNCHANGED <<xp, lost>>
  /\ Continue(r, "grant", todo[r] \ {k}, [Row EXCEPT !.xp = xp'])
  /\ UNCHANGED <<today, streak, lastLogin, entries, repeats, dropped, live, progress,
                 mission, served, logins, completions, jumped, squeezed>>

-----------------------------------------------------------------------------
(* Awards in a transaction that reads totalXp itself *)

\* checkIn: not today yet.  The four hours between visits only refuse more.
CheckIn(r, p) ==
  /\ <<"VISIT", p, today>> \notin ledger
  /\ Arrives(r, "award", {<<"VISIT", p, today>>}, Blank)

\* logHistory: the drink's first registration unlocks it.
LogDrink(r, d) ==
  Arrives(r, "award", {IF <<"DRINK", d>> \in ledger THEN <<"REPEAT", d>> ELSE <<"DRINK", d>>}, Blank)

\* The medal's conditions are met (BarMissions) and the user has none yet.
EarnMedal(r) ==
  /\ <<"MEDAL">> \notin ledger
  /\ Arrives(r, "award", {<<"MEDAL">>}, Blank)

\* activateByQr: in the feed; already active answers at once ...
ScanPromo(r, p) ==
  /\ p \in offered \ live
  /\ Arrives(r, IF <<"PROMO", p>> \in ledger THEN "recount" ELSE "slots",
             {<<"PROMO", p>>}, Blank)

PromoOf(r) == CHOOSE p \in Promo : <<"PROMO", p>> \in todo[r]

\* ... the active ones in the feed are counted, none of the same bar ...
ClaimSlot(r) ==
  /\ pc[r] \in {"slots", "recount"}
  /\ \A p \in live \cap offered : BarOf[p] # BarOf[PromoOf(r)]
  /\ Cardinality(live \cap offered) < MaxSlots
  /\ Goto(r, IF pc[r] = "recount" THEN "renew" ELSE "award")
  /\ jumped' = jumped \ {r}
  /\ UNCHANGED <<today, account, records, served, locals, logins, completions,
                 stale, squeezed, lost>>

GoesLive(r) ==
  /\ live' = live \cup {PromoOf(r)}
  /\ jumped' = Request \ {r}
  /\ squeezed' = IF r \in jumped THEN squeezed \cup {PromoOf(r)} ELSE squeezed \ {PromoOf(r)}

\* ... and one that has expired is renewed without XP, a new one is paid.
Renew(r) ==
  /\ pc[r] = "renew" /\ todo[r] \subseteq ledger
  /\ GoesLive(r)
  /\ Return(r)
  /\ UNCHANGED <<today, account, ledger, repeats, dropped, progress, mission, served,
                 logins, completions, stale, lost>>

AwardRead(r) ==
  /\ pc[r] = "award"
  /\ Goto(r, "commit")
  /\ seen' = [seen EXCEPT ![r] = Row]
  /\ Reread(r)
  /\ UNCHANGED <<today, account, records, served, day, merged, todo, logins,
                 completions, jumped, squeezed, lost>>

\* A key that somebody else has taken meanwhile rolls everything back.
AwardTaken(r) ==
  /\ pc[r] = "commit" /\ todo[r] \subseteq ledger
  /\ Return(r)
  /\ UNCHANGED <<today, account, records, served, history>>

Award(r) ==
  LET k == CHOOSE k \in todo[r] : TRUE IN
  /\ pc[r] = "commit" /\ k \notin ledger
  /\ Kind(k) = "PROMO" => k[2] \in posted
  /\ AddXp(r)
  /\ IF Kind(k) = "REPEAT"
       THEN repeats' = repeats + 1 /\ UNCHANGED ledger
       ELSE ledger' = ledger \cup {k} /\ UNCHANGED repeats
  /\ IF Kind(k) = "PROMO" THEN GoesLive(r) ELSE UNCHANGED <<live, jumped, squeezed>>
  /\ IF Kind(k) = "DRINK" THEN Goto(r, "mission") /\ UNCHANGED locals ELSE Return(r)
  /\ UNCHANGED <<today, coins, streak, lastLogin, tierClaimed, chestDay, entries,
                 dropped, progress, mission, served, logins, completions>>

\* Promotions are deleted or shown anew by others.  Deleting one deletes its
\* activation, the XP stays; one shown again is active again, if not expired.
PromosChange(ps) ==
  /\ ledger' = ledger \ {<<"PROMO", p>> : p \in ps}
  /\ live' = live \ ps
  /\ dropped' = dropped + Cardinality(ledger \ ledger')
  /\ squeezed' = squeezed \cup (live \cap (offered' \ offered))

Expire(p) ==
  /\ p \in live
  /\ live' = live \ {p}
  /\ UNCHANGED <<today, account, ledger, repeats, dropped, progress, mission, served, pc,
                 locals, history>>

-----------------------------------------------------------------------------
(* MissionsService.increment, after a drink was unlocked by hand *)

MissionFind(r) ==
  /\ pc[r] = "mission"
  /\ IF mission = "COMPLETED" THEN Return(r) ELSE Goto(r, "upsert") /\ UNCHANGED locals
  /\ UNCHANGED <<today, account, records, served, history>>

MissionUpsert(r) ==
  /\ pc[r] = "upsert"
  /\ progress' = progress + 1
  /\ mission' = IF mission = "NONE" THEN "IN_PROGRESS" ELSE mission
  /\ IF progress' >= Target /\ mission # "COMPLETED"
       THEN Goto(r, "complete") /\ UNCHANGED locals
       ELSE Return(r)
  /\ UNCHANGED <<today, account, ledger, repeats, dropped, live, served, history>>

MissionComplete(r) ==
  /\ pc[r] = "complete"
  /\ mission' = "COMPLETED"
  /\ completions' = completions + 1
  /\ Goto(r, "readXp")
  /\ UNCHANGED <<today, account, ledger, repeats, dropped, live, progress, served, locals,
                 logins, stale, jumped, squeezed, lost>>

MissionReadXp(r) ==
  /\ pc[r] = "readXp"
  /\ seen' = [seen EXCEPT ![r] = Row]
  /\ Reread(r)
  /\ Goto(r, "writeXp")
  /\ UNCHANGED <<today, account, records, served, day, merged, todo, logins,
                 completions, jumped, squeezed, lost>>

MissionWriteXp(r) ==
  /\ pc[r] = "writeXp"
  /\ AddXp(r)
  /\ Return(r)
  /\ UNCHANGED <<today, coins, streak, lastLogin, tierClaimed, chestDay, entries,
                 records, served, logins, completions, jumped, squeezed>>

\* A query fails or the process dies; a mission may be left unpaid.
Fail(r) ==
  /\ pc[r] # "idle"
  /\ lost' = (lost \/ pc[r] \in {"readXp", "writeXp"})
  /\ Return(r)
  /\ UNCHANGED <<today, account, records, served, logins, completions, stale,
                 jumped, squeezed>>

\* Requests that may arrive, while the bound allows, and those at work.
Arriving == {r \in Request : pc[r] = "idle" /\ served < MaxServed}
Working == {r \in Request : pc[r] # "idle"}

Next ==
  \/ Tomorrow
  \/ \E p \in Promo : Expire(p)
  \/ \E r \in Arriving :
       \/ LoginRead(r) \/ EarnMedal(r)
       \/ \E e \in Entry, inc \in Incoming, chest \in BOOLEAN : SyncRead(r, e, inc, chest)
       \/ \E p \in Place : CheckIn(r, p)
       \/ \E d \in Drink : LogDrink(r, d)
       \/ \E p \in Promo : ScanPromo(r, p)
  \/ \E r \in Working :
       \/ LoginWrite(r) \/ SyncWrite(r)
       \/ \E k \in todo[r] : Grant(r, k)
       \/ ClaimSlot(r) \/ Renew(r) \/ AwardRead(r) \/ AwardTaken(r) \/ Award(r)
       \/ MissionFind(r) \/ MissionUpsert(r) \/ MissionComplete(r)
       \/ MissionReadXp(r) \/ MissionWriteXp(r)
       \/ Fail(r)

-----------------------------------------------------------------------------

Period == {inc.period : inc \in Incoming} \cup {0}

Key ==
  ({"STREAK", "CHEST"} \X Nat) \cup ({"ENTRY"} \X Entry \X Period) \cup
  ({"VISIT"} \X Place \X Nat) \cup ({"DRINK", "REPEAT"} \X Drink) \cup
  ({"PROMO"} \X Promo) \cup {<<"MEDAL">>}

UserRow == [xp : Nat, streak : Nat, last : Nat]
Progress == [Entry -> [period : Period, done : BOOLEAN]]

TypeOK ==
  /\ today \in Nat /\ xp \in Nat /\ coins \in Nat
  /\ streak \in Nat /\ lastLogin \in Nat /\ tierClaimed \in Nat /\ chestDay \in Nat
  /\ entries \in Progress
  /\ ledger \subseteq Key /\ IsFiniteSet(ledger)
  /\ repeats \in Nat /\ dropped \in Nat /\ live \subseteq Promo
  /\ progress \in Nat /\ mission \in {"NONE", "IN_PROGRESS", "COMPLETED"}
  /\ served \in 0..MaxServed
  /\ pc \in [Request -> Label]
  /\ day \in [Request -> Nat] /\ seen \in [Request -> UserRow]
  /\ merged \in [Request -> Progress] /\ todo \in [Request -> SUBSET Key]
  /\ logins \subseteq Nat /\ completions \in Nat /\ lost \in BOOLEAN
  /\ stale \subseteq Request /\ jumped \subseteq Request /\ squeezed \subseteq Promo

Awarded == Cardinality({k \in ledger : PaysXp(k)}) + repeats + dropped + completions
Unwritten == {r \in Request : pc[r] \in {"readXp", "writeXp"}}

\* totalXp is written in five services from a value read before.  It never
\* exceeds the awards ever recorded; it equals them, but for missions about to be
\* paid, unless an award was written between another's read and write or a
\* request died half way through a mission.  Coins are always exact.
XpAddsUp ==
  /\ coins = Cardinality({k \in ledger : PaysCoins(k)})
  /\ xp + Cardinality(Unwritten) <= Awarded
  /\ ~lost => xp + Cardinality(Unwritten) = Awarded

\* A streak, and the bonus paid for it, stands for that many days in a row
\* with a login, although requests that span midnight write old rows back.
InARow(n, last) == \A i \in 0..(n - 1) : last - i \in logins
StreakEarned ==
  /\ InARow(streak, lastLogin)
  /\ \A k \in ledger : Kind(k) = "STREAK" => \E last \in logins : InARow(k[2], last)

\* At most MaxSlots promotions at once and one of each bar, not counting those
\* claimed by a request that another claim overtook between count and write,
\* and those that were out of the feed when others were claimed.
SlotsHold ==
  LET counted == (live \cap offered) \ squeezed IN
  /\ Cardinality(counted) <= MaxSlots
  /\ \A p, q \in counted : p # q => BarOf[p] # BarOf[q]
=============================================================================
