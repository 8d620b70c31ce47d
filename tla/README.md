# DrinkQuest API: specification, model checking and proofs

The repository is the server of DrinkQuest: people visit bars, order drinks, scan the QR
code the bar shows them, and collect unlocks, XP, missions and medals; bars pay a monthly
subscription, publish promotions and confirm reservations. The server is a NestJS
application (`src/src`) over PostgreSQL (`src/prisma/schema.prisma`), with Redis behind a
socket gateway and Stripe behind a webhook.

Every HTTP request is a JavaScript promise chain. Several are in flight in one process, and
several processes may run: whatever a handler read before an `await` may be stale after it.
PostgreSQL runs at its default isolation, READ COMMITTED, so a transaction protects a
handler only from partial failure and, through the row locks of its writes and through
unique indexes, from some interleavings. That is where this project looks: at handlers that
test a row, await, and then write; at those that write in several transactions; and at the
steps after a commit that may never run.

## 1. Inventory

| Component | State | Operations | Talks to | What makes it correct |
|---|---|---|---|---|
| Token sessions (`auth`) | `users.security_version`, `refresh_tokens`, `password_resets`, signed access tokens | login, refresh, logout, logoutAll, changePassword, forgotPassword, resetPassword, the JWT guard | presence and `disconnectUser` after a revocation | one usable refresh token per family; rotation leaves a chain; a global revocation invalidates every access token |
| Registration, e-mail verification (`auth`, `admin`) | `users`, `email_verifications`, `bars` | register, verifyEmail, resendVerification, softDeleteUser | mail | one usable code; a reactivated account starts from nothing; users are of age |
| Account deletion (`users`), uploads | most tables of a user, the object store, Redis | executeDeletion, upload, delete | Stripe, storage | nothing of a deleted user remains; Stripe is cancelled first |
| QR unlocks (`qr`, `bars`, `admin`) | `qr_sessions`, `user_drink_unlocks`, `drink_history`, `bar_menu_items`, `users.total_xp` | createSession, redeem, setMenuItem, setBarMenu | missions, bar missions, global events, notifications (after the commit) | a drink is paid once per user; a used code stays used |
| Missions (`missions`) | `user_missions`, `users.total_xp` | increment, claim | called by redeem and logHistory | completed once, XP never invented |
| Bar missions (`bar-missions`) | `bar_mission_seasons`, `bar_missions`, `user_bar_mission_progress` | createSeason, updateSeason, activateSeason, endSeason, hooks after unlocks, visits and reservations | medals | progress is backed by deeds; completion only grows |
| Medals (`bar-missions`) | `bar_mission_medals`, `bar_mission_medal_versions`, design batches, `user_bar_medals`, `user_gamification_rewards` | draft, submit, review, propose designs, select, activate, disable, unlock, public pages and figures | admin console, rewards, notifications | one official medal per bar; its record and its pages say what is so; unlock and reward together and once |
| Bar subscriptions (`subscriptions`, `payments`) | `bar_subscriptions`, its events | trial, activate, suspend, extendTrial, feature switches, checkout, webhook sync | Stripe, medals, access guards | paid features only while the status allows them; history tells what happened |
| Reservations | `bar_reservations` | create, the guest's and the bar's decisions, sweep of past ones | notifications, bar missions | a final state stays final and its guest hears of it |
| Promotions, special drinks, rooftop, venue events | their rows with a moderation status | create, edit, moderate, activate, pause, delete | feeds, QR menu, rewards | nothing unreviewed is shown; plan limits |
| Users, drinks, rewards | `users`, JSON gamification columns, unique keys of every award, `user_promotion_activations` | recordDailyLogin, syncGamification, grantRewardOnce, checkIn, logHistory, activateByQr | everyone who awards XP | a reward is granted once; XP adds up; three promotions at a time |
| Global events | `global_events`, `user_global_event_progress`, medals | hook after a scan, create, update, activate, end | QR unlocks | a medal for enough visits, once, and for everyone who made them |
| Places (`place-visits`) | `place_visits`, `place_reviews`, `external_places` | checkIn, review, nearby, resolve, list | Google, bar missions, rewards | a first visit once; a place shown once, with its rating |
| Magazine | `magazine_editorials` | create, update, remove, by the bar and by the editor | feeds | the bar's limit per section |
| Friends and blocks, leaderboard | `friend_requests`, `friendships`, `user_blocks` | sendRequest, respond, cancelRequest, removeFriend, block, unblock | chat rooms, notifications | friendship by consent; nobody is shown across a block |
| Chat | rooms, participants, messages, reads, reactions | open, group, send, react, read, hide | friends, sockets | no message across a block; both counts of unread messages agree |
| Presence, sockets | Redis `online:{userId}`, `users.is_online` | handshake, disconnect, heal, revoke | JWT guard, realtime hub | who receives messages is online; a revoked session leaves |
| Notifications, push | `notifications`, `device_tokens`, preferences | create, read, register, push, news for everybody | sockets, Firebase | the badge agrees; a push reaches who wants it, on their devices |
| Feed, reports | posts, likes, comments, shares, reports | create, delete, toggle, page, report, resolve | friends, blocks, chat | toggles add up; one open report each; no page across a block |
| Admin console | | queries and single-row edits | | listed with the component it edits |

Outside the program: `src/backend` (an older copy of the server), the Android client
`src/app`, scripts, documents and build files.

**Hard behaviours.** Every one of them is listed, with its line and the property that
would catch it going wrong, under `hazards` in `PROJECT.json`:
check-then-act across an `await` (redeem's status test, refresh's token test, seasons,
promotion slots, reservation transitions, blocks); totals and JSON columns read, added to
and written back by overlapping requests; two records of one thing written in two
statements; hooks that run after a commit and may never run, or run for a request that
failed; a timeout or retry racing with its first attempt (the refresh grace window,
webhooks redelivered or out of order); answers put together from several queries; row locks
taken by several transactions at once.


## 2. Plan

What moves money-like things (sessions, unlocks, XP, medals, subscriptions) came first,
because there an interleaving costs somebody something; the rest of the server followed as
two compositions, one of what people do with each other and one of what bars offer.

| # | Module | Composes / refines | Runs | Proofs |
|---|---|---|---|---|
| 1 | `Sessions` | implements `SessionFamily` | `sessions`, `sessions_live`, `sessions_revocation` | `SessionsProofs` |
| 2 | `QrRedeem` | codes, unlocks, menu, one mission, XP; implements `PayOnce` | `qr_redeem`, `qr_single_use` | `QrRedeemProofs` |
| 3 | `MedalVersions`, extended by `MedalDossier` | | `medal_versions`, `medal_immutable` | `MedalVersionsProofs` |
| 4 | `BarMissions`, extended by `MedalViews` | takes from 3 that a bar has one ACTIVE version; implements `PayOnce` | `bar_missions` | `BarMissionsProofs` |
| 5 | `Subscriptions` | the row, Stripe, account deletion | `subscriptions`, `subscription_history` | `SubscriptionsProofs` |
| 6 | `Social` | `Friends`, `Chat`, `Presence`, `Posts`, `Inbox`, `Accounts` (with `Age`), `Erasure` | `social` | `SocialProofs` |
| 7 | `Venue` | `Rewards`, `Offers`, `Reservations`, `GlobalEvents`, `Proposals`, `Magazine`, `Places` | `venue` | `VenueProofs`, `CatalogueProofs` |

`Rewards` does not implement `PayOnce`: deleting a promotion deletes the ledger rows of its
claims, so what was paid there is not kept. `RewardsAddUp` says what
holds of it instead.

## 3. How the code becomes a model

A handler runs as a *request* `r`. `pc[r]` says where it is, one label per `await` at which
another request can get in between; what the handler keeps in local variables across an
`await` is a function of `r` (`tok`, `seen`, `readXp`, `patch`, `rows`, ...) and keeps the
value that was read, however stale. An early return or a thrown exception before the first
write is a guard; a handler may `Fail` at any later step, which is a failed query, a timed
out transaction or a killed process.

PostgreSQL at READ COMMITTED is modelled by what the properties need of it:

- *A transaction that only writes after it read* is two steps, the one at which it has
  written and holds its row locks and unique keys, and the commit. Uncommitted writes are
  not visible; only the commit changes the shared variables.
- *`updateMany`* fixes its rows when it starts, waits for those locked by others, and
  re-checks each; rows inserted meanwhile are not seen (`RevokeScan`, `RevokeApply`).
- *A unique index* makes the second insert wait and then fail.
- *`SELECT ... FOR UPDATE`* is a lock variable (`barLock`).

Most handlers read rows, test them and then write **by id**, whatever the rows have become.
What the code promises can then only hold *but for* requests that another overtook, and the
properties say so precisely: a history variable (`overtaken`, `late`, `stale`, `crossed`,
`excused`, ...) marks a request when somebody else commits between its read and its write,
or an item when such a request writes it, and is cleared by the next regular decision. A
property then says that nothing else breaks the rule. Each of these properties has a mutant
that breaks it without any such overlap, and TLC reaches the states that use the exception.

In a module, definitions marked *Mutant* are not part of the specification: each is the
action before or after it with a bug somebody could have written. `PROJECT.json` pairs every
property of a passing run with the one that breaks it.

## 4. The modules

### Sessions, SessionFamily

`auth.service.ts`, `jwt.strategy.ts`. One account. `row`, `family`, `replacedBy`, `age` are
`refresh_tokens`; `sv` is `users.security_version`; `access` the versions in signed access
tokens; `lock` and `userLock` the row locks of open transactions. `login` is
`LoginStart`, `IssueRead`, `IssueInsert`; `refresh` is `RefreshRead` (the tests, the grace
window of 10 s and the plausible race of 2 s, or the detection of reuse), `RefreshClaim`
(`updateMany ... revokedAt: null`) and `RefreshCommit` (successor, link); everything that
revokes ends in `RevokeScan` and `RevokeApply`. Times are the three buckets the code's tests
tell apart. Signing keys, hashing and the mail of a reset are left out.

`SessionFamily` is what a device's owner is promised: a family opens once, is represented by
one token that is exchanged for unused ones, and once closed never opens again. `FamilySpec`
maps the rows to it.

### QrRedeem, PayOnce

`qr.service.ts` and `missions.service.ts`. Two requests of `redeem` can pass the status test
of one code; `RedeemBegin` takes the unique key (user, drink) and the session row, reads
`totalXp`, and `RedeemCommit` writes session, unlock, history and XP. After the commit the
same request runs `MissionsService.increment` in five steps (find, upsert, complete, read
XP, write XP). `Claim` is the user's own request. A code expires by the clock
(`TimePasses`), by the next scan (`MarkExpired`) or by the owner's asking for another
(`CreateExpire`, `CreateInsert`). There is one mission, triggered by unlocks. The menu of the bar is changed
by its owner (`SetMenuItem`) and by an administrator, who saves all of it at once
(`SetBarMenu`): a drink left out is deleted softly. `Analytics` is what the bar is told of
its scans, from `drink_history` and `qr_sessions`; `ScansUnlock` compares it with the
unlocks. `drinks.service.logHistory` also writes unlocks, without a code (`Rewards` has it),
so what is said here is said of codes.

`PayOnce` is what unlocks and medals have in common: a *debt* is `owed` from when something
the user did justifies it, of the debts with one key one is `paid`, when it is owed, and its
`receipts` come with it and stay. In `QrRedeem` a debt is a user and a drink: it is owed once
a code of the drink has been used (the row of a code names only the last of two users who
scanned it at once, so the model cannot ask which), paid by the row of the unlock, and its
receipt is one row of history. In `BarMissions` it is a season and a version, with the season
as its key: it is owed once the version exists and the user's deeds meet it, paid by the
medal, and its receipts are the notification and the row of the ledger if the version pays
XP. `LedgerSpec` is the mapping in both.

### MedalVersions

`bar-mission-medal.service.ts`, `admin-bar-mission-medal.service.ts` and their utilities.
`status`, `season`, `number`, `copy` are `bar_mission_medal_versions`; `current` is
`bar_mission_seasons.current_medal_version_id`. Every handler is `Read` (load the version,
test its status) followed by its own write; approval and activation re-read under
`SELECT ... FOR UPDATE` on the bar. Plans, dates, texts and artwork checks only refuse, so
they are `Fail`. `copy` stands for all that a version says.

`MedalDossier` extends it with the JSON column that holds the moderation record, which most
handlers read and write back whole, the healing of rows that have no design yet
(`HealRead`, `HealWrite`), and the answers of `getCurrent`, `listOffice`, `getDetail` and
`getOfficialLegendMedalDossier`. Every step of `MedalVersions` is a step of `DossierSpec`
with its effect on the column, and the two medal runs check that specification.

### BarMissions

`bar-missions.service.ts` and the activity, progress and unlock services of medals. One user
and one bar. A user's event (`Redeem`, `CheckIn`, `ConfirmReservation`) commits and then its
hook runs: find the season, read the unlocks, write each mission's progress, evaluate the
medal, and grant. `rows`, `seen`, `span`, `version` hold what the hook has read. The bar
creates, edits, activates and ends seasons; administrators change medal and subscription.

`unlocks` stands for both `user_drink_unlocks` and the USED `qr_sessions`, which are written
in one transaction. `generation` counts how often `updateSeason` has deleted and recreated a
season's missions. `Grant` is the transaction of `bar-mission-medal-unlock.service.ts`; its
`P2002` handler runs in a transaction PostgreSQL has already aborted, so the loser of a race
writes nothing. The amount of XP is not counted here (`QrRedeem` does).

`assertSingleOfficialMedalWorkflow` and the lock of the activation give `BarMissions` one
ACTIVE version at a time: that is what `OneOfficialMedal` and `NoSilentMove` of
`MedalVersions` prove, and here it is the single variable `official`. The partial unique
index on ACTIVE seasons (`migration 20261006140000_fase4`) is a second line of defence;
the model leaves it out, so its properties hold without it.

`MedalViews` adds one reader, `view`: the bar's page, the public page, a season's progress,
the feed of seasons, the medals of a user, the bar's statistics. Each answer is put together
query by query while hooks, seasons and medals go on; `told` is what it says and `had` what
the user held when the question was asked. The conditions an administrator's activation
checks (`ValidConditions`) are part of `ActivateMedal`.

### Subscriptions

`bar-subscription.service.ts`, `admin-subscriptions.service.ts`, the `payments` module,
`bar-access.rules.ts` and the part of `account-deletion.service.ts` that concerns billing.
One bar. `mutate` is `Decide` (the row read, the columns to set, whether the event will name
a status), `Write` (`UPDATE ... WHERE id`, only the columns set) and `Record` (the event).
Every caller (`Activate`, `Suspend`, `ExtendTrial`, `SwitchQr`, `SwitchPromotions`,
`ApplyStripe`, `MarkPastDue`, `DeleteRead`) is a `Decide` with its own guard and columns.
`activateSubscription` delegates to `reactivateSubscription` for suspended and cancelled
rows; both write the same columns, so one action stands for them.

Stripe is external. `stripe` and `until` are its truth, `sent` everything it ever said: a
webhook takes any element of `sent` at any time, which covers late, repeated and reordered
deliveries as well as what `subscriptions.retrieve` answers. Stripe's period rolls on
whether or not the invoice is paid (`Renew`). `CancelBilling` cancels what the row read
names; Stripe refuses to cancel twice.

`free`, `courtesy` and `muddled` are history: the days given, and whether one of the three
things happened that `HistoryAgrees` excuses.

### Social

Seven modules, each on tables of its own except for what `Social` lets them share:
friendships and blocks (written by `Friends`, read by `Chat` and `Posts`), rooms and their
hidden marks (`Chat`, and `Friends` when it hides a direct room). When `Friends` commits a
block, the composition marks the requests of `Chat` and `Posts` that are already past their
test (`PartedBy`, `W!Parted`).

- `Friends` (`friends.service.ts`, the leaderboard of friends). `sendRequest` is five steps,
  each a query, and may end as the acceptance of a crossed request; `respond` reads, then
  writes in a transaction; `removeFriend` is three statements in no transaction; `block` is
  one. `FriendsOf`, `PendingFor`, `SentBy` and `Board` are what a user is shown.
- `Chat` (`chat.service.ts`, `messengerSummary`). `getOrCreateRoom`, `createGroup`,
  `sendMessage`, `toggleReaction`, `markRead`, `markRoomRead`, `hideRoom`. Two columns tell
  what was read: `message_reads` (the badge) and `last_read_at` (the chat list).
- `Presence` (`chat.gateway.ts`, `presence.service.ts`, `realtime-hub.service.ts`). One user
  with several sockets. A handshake goes on after its client has left; the set in Redis is
  the authority and `users.is_online` a copy which `areOnline` heals.
- `Posts` (`feed.service.ts`, `reports.service.ts`, `resolveReport`). Likes are toggles that
  look before they write; tags are tested one friend at a time; reports look for an open one.
- `Inbox` (`notifications.service.ts`, `fcm.service.ts`). Write, count, emit, ask for the
  preferences, ask for the devices, send: nothing holds these together.
- `Accounts` and `Age` (`auth.service.ts`, `admin.service.ts`, `age.util.ts`). Registration
  finds an address free, taken or softly deleted and writes later; `life` numbers the lives
  of an account, so that what came from a former one can be told. `Age` is `isAdult` on
  calendar dates; an `ASSUME` of `MCSocial` compares it with a count of birthdays.
- `Erasure` (`account-deletion.service.ts`, `storage.service.ts`, `uploads.controller.ts`).
  The list of objects, the transaction, Redis and the store, with the user's other requests
  running beside; `left` and `after` are what the order of these steps lets survive.

### Venue

Seven modules again; `Rewards` and `Offers` share promotions (which ones a user may claim,
and whose records go when one is deleted), and the plan of `Offers` decides in `Magazine`.

- `Rewards` (`users.service.ts`, `place-visits`, `drinks`, `promotion-activation`,
  `missions`, the medal's unlock). One user. `ledger` is the unique keys of every table that
  records an award; each award counts as one XP, so that lost and invented ones can be told.
  A streak is decided from the row read; claiming a promotion counts the active ones first.
- `Offers` (`promotions`, `special-drinks`, `rooftop`, `venue-events`, `bars` and their
  administrators' services). A *moderated item*: its owner writes, an administrator judges,
  everybody writes by id; the text is a number, `reviewed` the text the approving handler
  read, `crossed` the items somebody wrote over. The plan may change at any time.
- `Reservations` (`reservations.service.ts`). `SweepFind` and `SweepWrite` are the sweep that
  every listing starts; `told` is the last notification the guest got.
- `GlobalEvents` (`global-events.service.ts`). One campaign, one user; the hook reads the
  pool, counts, writes the progress, looks for the medal and creates it, in no transaction.
- `Proposals` (the two design-proposal services and `setArtwork`). One batch of one version.
- `Magazine` (`magazine.service.ts`). The pieces of one bar, counted before one is written.
- `Places` (`place-visits`, `place-reviews`, `place-discovery`, `external-place`). The copy
  of Google's data with its thirty days, check-ins, reviews, and what discovery shows. A
  place's key is Google's id or else the bar's.

## 5. The runs

| Run | Expect | Shows |
|---|---|---|
| `sessions` | pass | two requests, three tokens, two families, a reset: never two usable tokens in a family; replacement links are one chain; a global revocation leaves every signed access token behind; the rows implement `SessionFamily` |
| `sessions_live` | pass | every request is answered: the row locks of refreshes and revocations never close a circle |
| `sessions_revocation` | violation | a refresh that commits under a waiting `updateMany` leaves a live token after logout-all |
| `qr_redeem` | pass | two users, two codes, two drinks, failures anywhere: paid once; used codes have their unlock and stay used; mission, XP and the bar's figures never exceed what unlocks justify; the unlocks implement `PayOnce` |
| `qr_single_use` | violation | two users redeem one code |
| `medal_versions` | pass | three versions, two seasons: one official medal, numbering without gaps, no silent move between seasons; the moderation record ends with the decision the status shows, and the bar and the office are shown the same version in the same stage |
| `medal_immutable` | violation | an edit tested on a draft is written over the ACTIVE version |
| `bar_missions` | pass | hooks, season changes and medal changes overlap: progress is backed by deeds, a medal is given once, earned and never missed, completion stays; no answer denies a medal that is held or shows as done, met or due what is not; the medals implement `PayOnce` |
| `subscriptions` | pass | administrators, webhooks, panel and deletion overlap on one row |
| `subscription_history` | violation | a change of status without an event that names it |
| `social` | pass | friends, rooms, sockets, posts, notifications, registrations and deletions: nobody is befriended without consent or shown across a block, no message crosses one, both counts of unread messages agree, who receives messages is online, toggles and reports add up, a deleted account leaves nothing -- but for requests that were overtaken |
| `venue` | pass | XP and coins are what was awarded, limits hold, nothing unreviewed is shown, guests hear how reservations stand, campaigns give the medal that was earned, a place is visited first once, and decisions stand -- but for requests that were overtaken |

**Bounds and why they are enough.** Two requests suffice for every hazard listed: each is a
test by one and a write by another (a third request only repeats one of them; the proofs
cover any number). Three tokens allow a rotation of a rotated token and a reuse; two
families, a second device. Two codes, drinks and users make all pairs equal or different.
Three medal versions in two seasons allow a successor and a rival. `BarMissions` uses one
triple of templates without `SCAN_TWO_DAYS`, one window and at most three changes by the bar
or the administrators; other triples and moving windows are covered by the proofs only.
In `bar_missions` the requests for answers (`asking`) start when a season and its medal are
ACTIVE already, with one change left, the server working on one other request at a time, and
an answer is read before anything else moves: a reader takes up to seven steps, and each of
its hazards is one write between two of them.
`Subscriptions` serves three requests or webhooks in all (four give 14.8 million states with
`MaxDay = 2`, and the same result), with days of trial, period and extension equal to one.

`MCSocial` and `MCVenue` give one component at a time its requests (`Spent`): components that
share no table cannot influence each other, so nothing is lost. Those that do share act
together: friends and chat always, the feed with friends and with a group room, rewards with
offers, each with a smaller budget. A component serves two to four requests, at most two at
work at once, which is what every hazard of the list takes (set-up, one that reads, one that
overtakes it); what earlier requests would have built up is given by many initial states
(who are friends, which rooms, posts, plans, items, reservations there are). One device,
address or campaign is enough where the code never relates two; of users, rooms, sockets,
objects, drinks, reservations and bars there are two, of promotions and pieces one more than
the limit. `Email` has one element, but lives of its account are counted.

`CHECK_DEADLOCK FALSE` is said where a bound is what stops the system (`MaxDay`,
`MaxChanges`, `MaxRequests`, and the budgets of `Social` and `Venue`). The bounds on versions
and tokens never block a handler: `OutOfRoom` lets it fail.

**Fairness.** Only `sessions_live` and `sessions_revocation` have it: strong fairness of
`Progress(r)`, what the server does next for a request it has begun. Node runs every settled
promise, and PostgreSQL queues the waiters of a row lock, so a lock that is released again
and again is not lost to the same waiter for ever; that is what strong, not weak, fairness
says. Arrivals, failures and the clock are not fair. (`sessions_revocation` violates a
safety property; the fairness there only keeps the counterexample from stopping.)

## 6. Proofs

`*Proofs.tla` hold for every value of the constants under the named assumptions of each
module (`None` is not one of the other values; bounds and rewards are naturals; a medal asks
for something; dates are a year, a month and a day). They are about the `Spec` of the
component; the `MCSpec` of `bar_missions` takes only its steps and stutters as far as its own
variables go. `DossierSpec` does too, but it also starts from bars with versions older than
the record it keeps: `OlderBarsToo` proves the properties of `MedalVersions` from there.

- **Sessions.** The invariant adds to `OneActiveToken` and `RotationChain` the locks: a
  request that has claimed a token holds its row, the row is unrevoked until it commits, and
  a successor is always a fresh row. Without the lock part a second claim of the same token
  could not be excluded. `ImplementsFamilies` maps each step to a step or a stutter:
  `RefreshCommit` is a rotation, `RevokeApply` closes the families it empties, and all else
  stutters.
- **QrRedeem.** `PaidOnce` needs that of two requests in the transaction for one (user,
  drink) only one has got past the unique key; `UsedIsFinal` that the one update of
  `createSession` and the one of `markExpired` only touch ACTIVE rows. `RewardsBacked` is a
  sum: `XpFits` says that a user's total, and any total a request has read in order to write
  it back, leaves room for the missions counted and not paid yet, within what unlocks and
  progress are worth; `ScanOnce` that one user's scans of a drink are one, so that the bar's
  figures do not exceed its unlocks. `UnlocksPaidOnce` maps the commit of `redeem` to a
  payment, which needs `Exclusive` (nobody else has paid it meanwhile) and `PaidOnce` (the
  receipts are the unlocks), and every other step to a stutter of what is paid.
- **MedalVersions.** `IInv` = types, `BarHeld` (only the holder of the bar's lock is in the
  last step of an activation, and what it read under the lock is still so),
  `OneOfficialMedal`, `NextFollows` (a number computed is one more than a number taken) and
  `Numbering`. The tests before the lock contribute nothing; the proof shows that the
  re-read under the lock is enough. `DossierStands` adds to it `OpenIsNewest` (of a season
  only the newest version is still open, unless a change of status was lost), `Early` (a row
  without a design was never submitted), `FirstTaken` (a season with versions has number 1)
  and `Beyond` (a number that a request has computed is either taken by now or greater than
  every other), which do without an induction over the numbers.
- **BarMissions.** `IInv` = types, `Born` (only created seasons have missions), `Booked`,
  `ProgressBacked`, `MedalOnce`, `MedalEarned`, and `Justified(r)`: a hook about to grant has
  seen conditions that the user's deeds meet. All rest on `Grows`: unlocks, visits and
  confirmed reservations are never taken back, so what was once met stays met, and an old
  read can only show less. `NoMissedMedal` is the converse and needs `Remembered`:
  while a medal is owed (the conditions are met, nothing was changed under a hook and none
  has failed) there is a request whose hook will look at the season again, or has looked and
  read nothing that changed since (`Coming`). `MedalsPaidOnce` maps a `Grant` that finds no
  medal to a payment: `Justified` says that it is owed, `Grows` that what is owed stays so.
  `AnswersAgree` is about `ViewsSpec`, where users and bar take any number of steps between
  two queries of an answer. `Knowing` says what a reader knows between them: a page that goes on
  past its search for a medal had none to find when it was asked, the version it evaluates is
  of the season it shows, and what it found met stays met; the bar's figures are put together
  from facts kept as they were read, and whoever these count is shown as having started.
- **Subscriptions.** `Backed` says of the row, and of every patch a request is about to
  write, that its trial ends within the days given and that ACTIVE comes with the end of a
  period that was activated or paid; a patch that sets one of the two columns alone would
  break it. `InStep` says that, unless `muddled`, at most one event is on its way and it
  names the row's status. `AllCancelled` says that a deletion past Stripe has cancelled what
  it read, and cancelled is final at Stripe.
- **Social.** `FriendshipsStand` is about the lists of `Friends` as they stand among all the
  other components. The invariant is `Clean` (across a block nothing is pending and nobody is
  a friend, but for the pairs in `stray`), `Aware` (a request that is about to write across a
  block was overtaken by it, or began from a row that had strayed) and `Asked` (who has a
  request pending has sent it, and an acceptance answers somebody who has). `Aware` is what
  `stray` cannot do without: the two tests of `sendRequest` and of `respond` come before the
  write, and only a block committed between them can leave a row. `Chat` reads friendships
  and blocks and writes neither, and no other component touches them.
  The rest has an invariant for each component, which no step of another disturbs except
  where Friends marks who is at work on the feed. *Accounts:* `Rows` (the rows of an address
  are numbered by its lives, so that none comes back), `Paid` (the registrations under way
  have each been counted, so that there is a life and a slug for each), `SeenAll` (a
  transaction about to commit a code has seen all that can be used, but for those of a
  transaction beside it), `OneBar` and `OfAge`. *Erasure:* `OwnKey` (an upload has its key for
  itself until it is stored), `OneRemoval` (one deletion of a user at a time has wiped and not
  committed), `Listed` (what a deletion has looked for is in its list, or was put to use
  since) and `Cleared`. *Posts:* `Fits` (what a request has read of a comment, a report
  or a like still stands, or it is marked) and `Threads`. *Presence:* `InPlace` (who is
  connected has not begun to leave, and is in the set when in the room) and `Revoked`.
  *Inbox:* `Told` (what a request has counted, asked or read still stands, or it is marked)
  and `Badges`. *Chat:* `Marked` (whoever has been stamped has everything older read, or a
  request at it, or one that died); the counter is the stamp's, so this is what it needs.
  `TestsHold` is about steps. It follows from what a request knows when it writes: `Knows` (a
  page leaves out whoever was blocked when it began, the friends tested so far were friends,
  and who is about to add to a post has read it before it went, or is marked) and `Tested`
  (who is about to write in a direct room has tested all the others in it, and is marked by a
  later block); a registration that takes an account over has seen it deleted (`StepTakes`).
  `TypeOK` states bounds, too, and these need invariants of their own: what was added to a
  row and what requests are about to add is at most what was served (`Fed`, and `Tally` for
  notifications that were sent), a security version that is signed or being
  revoked is no later than the user's (`ArrivedTypes`), and a request of the chat that is
  past its search for a room has one (`RoomTypes`, `Located`).

- **Venue** (`VenueProofs`, `CatalogueProofs`). `Venue` composes seven components, and so does
  the proof: each has an invariant of its own that its steps preserve and that no step of
  another disturbs; only Offers and Rewards meet, where a deleted promotion takes the records
  of its claims along and where a promotion leaves the feed.
  *Reservations:* `AsRead` (a handler that nobody overtook still finds the status it tested)
  and `OnTheWay` (who is not yet told has a handler at work that will tell). *Global events:*
  `Steady` (without a change by the administrator a hook's goal and pool are the campaign's),
  `CountComes` and `MedalComes` (a count, or a medal, that is missing has a hook on its way
  that will have seen enough). *Rewards:* `Figures` (XP and what requests are about to add are
  the ledger, unless a total was lost) and `Streaks` (a streak, or a key for its bonus, stands
  for that many days with a login, in the row and in every request's copy of it); for the
  slots `Held` (the claims that count for the limit) and `SlotLeft` (a request about to claim
  has a slot and a bar without a claim, unless another claim came between).
  *Offers:* `Sound` (a row on show was approved as it stands, or an overtaken handler wrote
  it), `Current` (a
  handler that was not overtaken knows the row as it is), `OffMenu` (and has taken off the
  menu a drink whose edit is to be reviewed), `FreeSlot` (and has room for what it counted)
  and `Terraces`.
  *Proposals:* `Sent`. *Magazine:* `Room` in a section for the piece that was counted.
  *Places:* `Placed`, `Cleared`, `Early` and `Named` say what a request knows of the copy of
  Google's data, of the user's earlier visits and of the bar it reviews. `DecisionsStand`
  then needs no more than these: whoever is about to write over a decision read the row
  before it was taken, and is marked.
  The assumptions are those of `Venue`: finite sets of rows, limits that are naturals (at
  least one slot, as in the code), rows of different tables distinct (`RowsOK`) and
  `google_place_id` unique (`PlacesOK`).

Only model-checked: liveness (`RequestsFinish`) and the violations. TLAPS proves neither
liveness under fairness nor anything about `ENABLED`; no module uses recursion. Every other
property of a run is a theorem.

## 7. Where code and documentation disagree

1. `auth.service.ts:733` says that all refresh tokens are revoked; a refresh in flight can
   leave one (`sessions_revocation`).
2. `qr.service.ts:191` refuses a used code; two scans at once both redeem it
   (`qr_single_use`).
3. `schema.prisma:899` calls an ACTIVE version immutable; a late edit changes it
   (`medal_immutable`).
4. `bar-subscription.service.ts:110` and `schema.prisma:1169` promise a history of changes;
   an overwritten status can go unrecorded (`subscription_history`).

Without a run of their own, because no state of a run would say more than the line does:

5. `bar-mission-medal-progress.service.ts:435` says 100 is never shown for an incomplete
   medal; rounding shows it once the targets of n conditions together exceed 20 000.
6. `admin-bar-mission-medal.service.ts:101`: the filter by bar of `listOffice` is replaced by
   `season: { deletedAt: null }`, so it lists every bar. `getDetail` (line 294) reads only the
   plan and the status of the subscription and may say suspended where the office says ACTIVE.
7. `promotion-activation.service.ts:206` says three active at once; one paused while active is
   not counted and comes back over the limit.
8. `place-visit.config.ts:7` says coordinates are deleted after thirty days; only rows that
   somebody resolves are cleared.

Not stated by any document, but reachable in the models:

- *Sessions, accounts.* A checkout that is paid before its webhook is applied, or after the
  account is deleted, stays alive at Stripe. Two registrations may both bring an account
  back, and the later one's password stands. A code of the former life stays usable until the
  next is written. A `USER` who registers again keeps a bar owned before. `softDeleteUser`
  leaves refresh tokens and version as they are (the guard refuses a deleted user).
- *Deletion.* Objects uploaded and never used, or put to use after the list was made, stay in
  the store; a reservation made between wipe and delete keeps the guest's name; analytics
  rows have no foreign key and may be written afterwards; the other member's objects in a
  direct room lose their reference with it.
- *QR, rewards.* Two codes of one drink can be ACTIVE at once. Overlapping awards lose XP (they
  never invent it). The interval of four hours between check-ins only refuses; there are two
  notions of a day (the client's and the server's). An administrator's menu save also deletes
  the rows of special drinks; an owner's `setMenuItem` on a deleted row answers active, and
  codes stay refused.
- *Medals.* Two requests may open two official workflows, of which one activation survives.
  A hook that read early may write a lower progress or an earlier `completedAt`. An ended
  season's medal, once earned, hides the progress of the running season on the bar's page. A
  version disabled between the dossier's two reads is shown as in preparation. A season's
  title and description show text that was not reviewed.
- *Offers.* A promotion never gets the status EXPIRED and stays approved when it is edited;
  an approval that races with a removal leaves the drink on the QR menu; a special drink stays
  scannable after a downgrade, although the feed hides it; the feeds of events and of the
  magazine do not ask for the plan; a draft counts against the magazine's limit; an ended
  campaign can be activated again; the sweep also cancels confirmed reservations that passed.
- *Places.* Nothing in `src` writes `bars.google_place_id`. The same bar can be visited and
  reviewed under its own key and under Google's; a review that gives both ids is not checked
  for being of that bar, a check-in is; discovery rates a place by the largest group of its
  reviews, which may not be what its page shows. A visit keeps the id that was asked for while
  `external_place_id` names the one Google answered with.
- *Friends, chat, feed.* Two direct rooms of the same two; two requests crossing that both stay
  pending; a friendship across a block, left by a handler that was running; likes, comments,
  shares and reports do not ask for blocks; comments of a deleted post can be liked; two open
  reports after one was opened again; the trending page ignores blocks; `messages` pages by
  `id < cursor`, although ids are random and the order is by date (`chat.service.ts:421`).
- *Presence, notifications.* A socket that is gone can stay in the set in Redis; a badge may
  have been counted before another request wrote; creating with a dedupe key that exists
  delivers the old notification again; the news for everybody ignore preferences.

## 8. Not modelled

- The content of things: texts, artwork and its validation, formatting, mail, images, signing
  and hashing, maps and prices. Where such a check can only refuse, it is `Fail`.
- Reads that relate nothing (lists, search, histories, the administrators' statistics), profile
  edits, favourites and `setUserRole`: one row, one write.
- Socket events that only forward (`join_room`, typing, broadcasts), rate limits and caches of
  HTTP answers.
- `activateSubscription` and `suspendSubscription` of `bar-subscription.service.ts`, which are
  deprecated and have no caller, and Stripe's customers.
- `src/backend`, the Android client, tools, documents and deployment files: not the program.

What Stripe does by itself, a client whose connection ends and a token that Firebase forgets
are modelled from how `src` uses them and marked `external` in the map; Google and the object
store answer or fail within the actions that call them. `components` in `PROJECT.json` says
for each part how far it goes.
