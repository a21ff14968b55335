# CineVault: TLA+ models, model checking and proofs

These modules model the parts of CineVault in which several actors change or
read shared state: the offline synchronisation between the mobile app and the
API, the social features, the upkeep of the catalogue, the sessions of both
clients, the personal library with what is shown of it, lists that are read page
by page, recommendations, and archives.  TLC checks them on small instances and
TLAPS proves the central theorems for every instance.

Paths below are relative to the repository.  `S/` stands for `services/api/`
and `M/` for `apps/mobile/lib/`.

## 1. Inventory of the system

CineVault is a FastAPI backend (`S/`, run by four uvicorn worker processes, see
`S/Dockerfile:62`), a Flutter client (`M/`), a Next.js web application that
proxies to the API (`apps/web/src`), PostgreSQL (`db/migrations`) and Valkey.
Each HTTP request has one SQLAlchemy session, without autoflush, and so one READ
COMMITTED transaction; `get_db` commits it after the endpoint has returned, and
with the pinned FastAPI version after the response was sent
(`S/database.py:110-135`).

| Component | State | Operations | Hard behaviour | What makes it correct | Module |
|---|---|---|---|---|---|
| Mobile outbox (`M/data/repositories/sync_repository_impl.dart`, `M/presentation/providers/sync_provider.dart`) | SQLite rows PENDING or SYNCED | queue, push, mark synced | pushes overlap, replies get lost | nothing is forgotten before it is applied; everything is settled in the end | `OfflineSync` |
| Sync push (`S/repositories/sync.py`, `S/routers/sync.py`) | Valkey keys, per-process cache, `personal.sync_outbox_mutation`, domain rows | claim, look up, dispatch, record, reply, commit | retries on other workers, rollback of half a batch, crash after the reply, cache outage | an effect at most once; the outbox table agrees with the data | `OfflineSync` |
| Friendships (`S/repositories/social.py:207-400`) | `social.friendship` | create, PATCH, DELETE | checks on rows that change before the write | one row per pair, only the addressee accepts | `SocialGraph` |
| Invitations and registration (`S/repositories/social.py:1320-1534`, `S/routers/auth.py:262-394`) | `social.invite_token`, `social.referral`, `auth.user` | create, accept, register | two users of one code | every account is backed by an invitation | `SocialGraph` |
| Recommendations between friends, clubs, challenges, badges (`S/repositories/social.py`) | statuses, member counts, progress, awards | send, PATCH, join, report, evaluate | check-then-write, lost increments | no status is skipped; nothing is counted or awarded that was not done | `GroupPlay` |
| Pick rooms (`S/repositories/social.py`) | rooms, votes, winner | open, vote, close | votes against closing | the winner has led; what is settled stays | `PickRooms` |
| Job registry (`S/jobs.py`) | jobs, pending lists, dead letters of one process | submit, cancel, mark, recover | late results, slots that leak | ended jobs stay ended; dead letters are earned | `JobRegistry` |
| Catalogue scheduler and bulk import (`S/scheduler.py`, `S/routers/admin.py`, `S/scripts/`) | advisory lock, dataset files, catalogue tables | refresh, import, backfill | four schedulers, shared files, imports without the lock | an import reads files of its day and is complete | `CatalogUpkeep` |
| Poster sync (`S/ingestion/tmdb_worker.py`) | status and artwork of a title | select a batch, fetch, store | overlapping syncs, rows that stay selected | every title is seen, artwork is kept, syncs end | `PosterSync` |
| Mobile session (`M/core/network/api_client.dart`, `M/data/repositories/auth_repository_impl.dart`) | tokens under three keys, cached user | request, refresh, login, logout, restart | parallel 401s, logout with calls open | one refresh at a time; after a logout no refresh begins | `MobileSession` |
| Web session (`apps/web/src/middleware.ts`, `.../api/proxy`, `.../api/auth`) | one encrypted cookie | page, proxied call, refresh, login, logout | three lifetimes, answers in any order | an active user stays signed in | `WebSession` |
| Personal library (`S/repositories/personal.py`) | watch events, title states, ratings, notes, streaks | log, rate, PATCH, import | first creation by two requests, derived rows | a series is completed and a streak counted on what was logged | `PersonalLibrary` |
| Ingestion (`S/ingestion/pipeline.py`, `batch_runner.py`, `S/quality/`) | canonical titles, external ids | preload, match, create, flush | copies that grow stale, one session for all batches, names that compare with nothing | no twin, remakes stay apart, ids stay | `Ingestion` |
| Analytics and social views (`S/repositories/personal.py`, `social.py`) | watch events, taste profile | page, leaderboard, recap, comparison | several reads of one page, totals made twice | figures of one page and of two views agree | `Insights` |
| Lists, search, sync pull (`S/repositories/canonical.py`, `search.py`, `personal.py`, `sync.py`) | rows in an order | first page, next page | rows that come, move or go between pages | what stays is seen once | `Browsing` |
| Recommendation engine (`S/repositories/recommendations.py`, `S/routers/automation.py`, `ai.py`) | events, states, ratings, weights | recommend, smart list, group night | rows change between the reads | what was finished is left out; a better taste never ranks lower | `Discovery` |
| Export and import (`S/personal/`, `S/repositories/personal.py`, `apps/web/src/lib/api/import.ts`) | archive, wizard, library | export, upload, preview, resolve, apply | tables read at different moments, formats that lose columns | what comes back is what was taken | `Portability` |
| Rate limiter, control room, AI assistant, telemetry, storage, UI, migrations | see section 6 | | | | none |

Interactions: the clients call the API over HTTP and learn of results only from
replies.  API workers share nothing but Valkey and PostgreSQL; the
processed-mutation cache, the job registry and the schedulers are private to each
process, the dataset files to each host.  The database resolves races through
unique keys and row locks, which is why the models keep "read" and "write" of a
request apart.  Logging a watch event moves the recommendations of `GroupPlay`,
feeds `Insights` and takes titles out of `Discovery`; the sync push calls the
same repository functions as the REST routes.

## 2. Modules

`PROJECT.json` maps each definition to the lines it models.  Proofs are in modules
of their own, `<Module>Proofs`; `SessionProofs` is about `MobileSession` and
`WebSession`, `OperationsProofs` about `JobRegistry`, `CatalogUpkeep` and
`PosterSync`, `SocialGraphProofs` about `SocialGraph` and `PickRooms`, and
`ViewsProofs` about `Insights`, `Browsing`, `Discovery` and `Portability`.  Modules
named `MC...` are instances for TLC; where two or more components share no state,
one instance holds them side by side and a variable `focus` or `scope` says which of
them a behaviour is about.

### 2.1 OfflineSync and MutationLedger

The device: `outbox` is the status of each row of `OutboxMutations`; `flow`
says which push coroutines await a reply.  `Queue` is `queueMutation`, `Push`
reads the pending rows and posts them, `Receive` marks acknowledged rows
SYNCED, `LoseReply` is a connection error, a time-out or the end of the app.
`triggerSyncPush` has no guard, so several pushes of the same rows may be open;
`Requests` bounds how many.

The server: one action per await of `process_push_mutations`, so that other
requests run in between.

| Action | Code |
|---|---|
| `Claim` | `check_and_set_idempotency` and the process cache (`sync.py:49-59`) |
| `Lookup`, `LookupFails` | the SELECT on the outbox table (61-84) |
| `Refuse` | a handler's ValueError: the item fails, nothing is rolled back |
| `FallThrough` | no branch matches the type (87-130) |
| `ReadCell`, `WriteCell` | the handler's SELECT and its flush (upsert of a singleton row) |
| `Record` | the outbox INSERT and the acknowledgement (129-153) |
| `StatementFails` | an error in the flush or the INSERT: rollback of the whole transaction, the item fails, the loop goes on (147-160) |
| `Answer`, `Commit`, `CommitFails` | the reply, then `get_db` |
| `Crash`, `ForgetKey`, `Deadlocked` | a worker dies, Valkey loses a key, PostgreSQL breaks a deadlock (external) |

A mutation is a number; its payload is abstracted to the singleton row it
upserts (`CellOf`), if any.  The uncommitted work of a transaction is the set
`staged`, from which `Commit` computes the rows, the executions (`effects`) and
the last writer of each cell.  Locks are not variables: who must wait for whom
(`Blockers`) follows from `staged`, since rows of a transaction are locked until
it ends.  `create_watch_event` also looks for an event with the mutation's id;
since that id is the primary key of the outbox row too, the outbox row arbitrates
both.  A request refused before the loop (401, 429, 503) changes nothing and is a
stuttering step.  Seed fallback is off as in every environment but local
development (`S/config.py:58-64`).

The refinement: `Ledger == INSTANCE MutationLedger` with `outbox` and `effects`
of the same name.  `MutationLedger` promises that a mutation is queued, applied
at most once, and settled on the device.  `Queue` maps to `Queue`, `Receive` to
`Settle`, `Commit` to `Apply`, everything else stutters.

### 2.2 SocialGraph

One request is a read step, which makes all checks on what the SELECTs returned
and puts what it is going to write into `job[r]`, and a commit step.
`accept_invite_token` reads three tables, in three steps.  Flush and commit are
one step: flushed rows are locked until the commit, so a competing writer waits
and then sees the committed result.  A unique key that was taken in the meantime
(`uq_friendship_pairwise` of V3.6, the e-mail address of V3.9) leaves `Abort` as
the only continuation.  Friendship rows are a sequence, so a deleted id is never
given out again: a PATCH of a row that is gone fails, a DELETE of it does
nothing.  Requests that fail their checks change nothing and are left out.
Trust scores, milestones and the taste preview are left out.  Users are e-mail
addresses; `Founders` are the bootstrapped accounts.

### 2.3 GroupPlay and PickRooms

Requests are modelled as in `SocialGraph`, SELECT by SELECT.  SQLAlchemy writes
absolute values and only assigned columns, so a `Commit...` action overwrites with
what was computed from the earlier read.  `GroupPlay` has four parts over disjoint
variables: recommendations (with the media server's webhook, which marks accepted
ones watched), clubs (members and `member_count`), challenges (participants,
progress, completion) and badges (metrics, `evaluate_badges`). `PickRooms` keeps the
rooms, their votes, and as history the titles that led a ballot while it was being
closed.  `ReadVote`/`CommitVote` are the two halves of `cast_vote`, `TallyVotes` and
`CommitClose` those of `close_pick_room`.

### 2.4 JobRegistry, CatalogUpkeep, PosterSync

`JobRegistry`: each method of `jobs.py` holds the lock from beginning to end and
is one action.  The runners are external: they look a job up, may be presumed
stuck, and report late.  `CatalogUpkeep`: files of the dataset directory are
opened (`wb` truncates) and finished separately, every SQL statement of an import
is an action, the advisory lock belongs to a connection that may be lost
(`LoseSession`).  A truncated gzip file makes its reader fail.  `PosterSync`: one
action per statement and per answer of TMDB; what TMDB has for a title is a
constant, whether it can be reached is not.  The UPDATE of a title without an IMDb
id is outside the `try`: when the database fails it, the sync ends (`Write`).

### 2.5 MobileSession and WebSession

`MobileSession`: one action per await of `ApiClient`; `refreshing` is
`_refreshFuture`, `storage` the three keys, written and deleted one at a time.
`SignedOutStays` says what the code keeps: without tokens no refresh begins, and of
those under way each may still store its session.  That a logout should be the end of
them is `LogoutClears`, which is refuted, as is `OwnAccount`, that mutations reach the
account of who made them.
`WebSession`: a call carries the cookie of the moment it was sent, the server
decides on it in one or two steps (the exchange of the refresh token is the
second), and the browser takes the answer's `Set-Cookie` in any order, or never.
Days stand for lifetimes (access 1 day, cookie 7, refresh token 30 in the code;
their order is what matters and is assumed); requests take seconds, so no day ends
while one is under way.

### 2.6 PersonalLibrary, Insights, Browsing, Discovery, Portability

`PersonalLibrary`: a request reads committed rows only (autoflush is off), stages
its writes and commits them; an UPDATE carries the columns that differ.  A watch event
reads the episodes, the title state and the streak with one step each (`ReadEpisodes`,
`ReadState`, `ReadStreak`).  Any episode may be logged under any title, as the endpoint
accepts it, and the completion of a series counts what was logged under its title.
`Insights`, `Browsing` and `Discovery` are readers: they translate the
computations as functions over the events, and interleave the reads of a request
with the writes of users.  The analytics page takes four reads (title states, events,
taste matches, breakdown; favourites are a column of the states), a page of most
lists a count and a SELECT, a recommendation up to five SELECTs.  `FailRead` is the
failure of one of these: the handler swallows it for the user's own rows, but their
transaction is then aborted and the catalogue's SELECT fails, and outside local
development (no seed fallback) so does the request.  The smart watchlist cuts its lists
at `ListLimit` (50 in the code).  Scores are integers, in the ratio of the code's floats.  `Portability` reads one table after
the other for an export, turns a state into the rows that each format keeps, and
back through parser, resolution and import.  The import is one step there; the
interleaving of imports is in `PersonalLibrary`.  A day of `Portability` stands for a
class of moments that the formats keep apart, not for a date.

### 2.7 Ingestion

A request loads the map of external ids and the candidate titles, decides item by
item on these copies (`ApplyMatch`, `Create`, `StageOnly`), and sends the rows in
one flush per batch.  `FailBatch` is the rollback of the session that all batches
share.  The licensing gate is evaluated where `execute_run` does.

The resolver compares keys of names: equal keys (`SameKey`) of the name or the original
name, original names that may be transliterations of each other (`SoundsLike`), nearly
the same words (`Similar`).  A key may be empty (`Blank`) or without a word that counts
(`Common`); such names match nothing at the level concerned, and `NoTwin` leaves them
out, while `NoDuplicates`, which does not, is refuted.  The content type plays no part:
the resolver does not ask for it, so a film and a series of one name and year are one
title.  Display ids are of one prefix, and a number is free if no unmapped candidate
has it (`NextNumber`); that of a mapped title is found taken by the unique key only.

## 3. Runs

| Run | Instance | Distinct states | Shows |
|---|---|---|---|
| `sync_faults` | 2 ratings of one title, the first of an unhandled type, 2 requests, 2 workers; lost replies, Valkey outages, failing statements and commits, crashes | 1 029 141 | `AtMostOnce`, `LedgerMatchesData`, `CellsFromLedger`, `RefinesLedger`: a retried mutation takes effect at most once, and the outbox table, the rows and the executions agree |
| `sync_delivery` | 3 mutations on rows of their own, the second always refused, lost replies, fairness | 241 678 | `Delivered` (all accepted mutations are applied and settled), `RefusalIsolated` (a refused item costs the others nothing), `SingleExecutor` |
| `sync_silent_loss` | no fault, 2 ratings of one title | violation | `NoSilentLoss` is refuted: ADR-004 promises it |
| `social_graph` | either a founder, a guest, 2 codes, 2 requests, 2 rows; or a pick room of 3 titles, 2 voters, 2 requests | 859 602 | `Gated`, `OnlyAddresseeAccepts`, `RelationPreserved`; `WinnerHasLed`, `SettledForGood` |
| `social_single_use` | the same with two newcomers | violation | `SingleUse` is refuted: two registrations with one code |
| `group_play` | 3 users, 2 recommendations of one title, a club, a challenge with goal 2, 2 badges with thresholds 1 and 2, 2 requests | 317 370 | `NoShortcut`, `NothingUnearned`, `ReachedKept` |
| `operations` | either 2 jobs, limit 1, 2 attempts, 4 starts, 2 runners; or 2 refreshing workers; or 2 bulk imports; 2 titles, one of them published tomorrow; or 4 titles (poster, backdrop only, nothing, no id), 2 syncs of artwork, one without a limit and one of 2 batches, batches of 2, 1 database failure, fairness | 502 366 | `DeadLetterEarned`, `ClosedForGood`; `FreshImport`, `ImportComplete`; `ArtworkKept`, `EndsComplete`, `SyncEnds` |
| `mobile` | either 2 users, 1 client, 2 tasks, fairness; or 2 browser calls over 5 days with lifetimes 1, 2 and 3 | 158 536 | `OneRefresh`, `SignedOutStays`, `RequestsEnd`; `StaysSignedIn` |
| `mobile_logout` | as `mobile` | violation | `LogoutClears` is refuted: a refresh under way at the logout stores its tokens after it |
| `library` | a series of 2 episodes, a film, an episode of another series, days 1, 2 and 4, 3 keys, 3 events, 2 requests, import files | 274 007 | `CompletedEarned`, `StreakEarned`, `KeepExisting` |
| `ingestion` | 3 titles, 3 external ids of 2 providers and a blocked one, 5 names, 6 files, 2 requests | 981 246 | `NoTwin`, `RemakeApart`, `MappingKept` |
| `views` | either the analytics page, boards and comparisons (3 users, 2 titles, 3 days, 3 changes); or lists (3 rows, 3 keys, pages of 2, 2 writes); or recommendations (4 films, 3 of them loaded, 2 changes); or archives (2 works of one name and year, 2 edits, 1 import) | 568 625 | `PageConsistent`, `BoardsAgree`, `Mirrored`; `ListsComplete`; `FinishedLeftOut`, `TasteMonotone`; `HistoryMoves`, `PlannedNotWatched` |

Each property has a mutant in `PROJECT.json`: a definition of the code with a
plausible mistake, under which the run refutes the property.

**Bounds.**  Two requests (tasks, calls, runners, refreshes) are enough for
every race between a pair of them; retries are not bounded, since a slot is used
again after its request ends.  `NumMutations`, `MaxRows`, `MaxReport`,
`MaxMetric`, `MaxStarts`, `MaxDay`, `MaxFailures`, `MaxEvents`, `MaxActs`,
`MaxWrites`, `MaxChanges`, `MaxEdits`, `MaxImports`, `MaxKey` and `LastDay` bound
what would otherwise grow without end.  They are chosen at the smallest value at
which the interesting case occurs:

- two mutations for an item that undoes another, three for a refused item between
  two good ones; two friendship rows for a deleted and a new row of one pair;
- a challenge whose goal takes two reports, a badge that one request meets and the
  next does not; three candidates, so that a tie has a loser;
- a pending limit of one and two attempts, with a start more than all attempts;
- one more title than a batch of artwork holds, and one title with a backdrop only,
  below the size of a batch (`SyncEnds` has this precondition, see the findings);
- days 1, 2 and 4: a streak that grows, breaks, and spans a gap when two requests race;
- lists one row longer than a page; a catalogue one film larger than the pool;
- two works that only their ids tell apart; a remake, a second spelling, another
  script, a name of punctuation, a second provider, a batch of two, a second batch,
  and a provider that is blocked;
- a cookie that outlives the access token, a refresh token that outlives the cookie,
  and days for two generations of cookies.

In `social_graph` one newcomer may race with himself over two codes; the theorems
cover races of many users.  `sync_faults` has one row with a handler, so that two
locks are not taken in opposite orders; the theorems cover any number of rows.
`TypeOK` of `Ingestion`, `PosterSync`, `Browsing` and `WebSession` has no run of its
own; it is an invariant of their instances.

**Symmetry.**  Requests, workers, codes, voters, titles and keys are used
symmetrically where the instance treats them alike; the runs with liveness use no
symmetry.  In `social_graph` the voters bear the names of the codes: no behaviour has
both, so one permutation of the names does for either.

**Fairness.**  `sync_delivery` assumes weak fairness of each request's own steps
(the event loop runs every coroutine, and no statement waits for ever), of
`Receive` (a reply that has arrived is processed) and of `Push`.  The app has no
timer: it pushes after a queue, on reconnection and from the sync screen, so
fairness of `Push` says that one of these keeps happening while rows are
pending.  `NetworkRecovers` says that replies are not lost for ever.  The run
leaves out the other faults and shared rows, because with them the code does not
deliver: see the findings.  `operations` assumes weak fairness of each sync's steps:
the HTTP client has a time-out, and statements end.  `mobile` assumes weak fairness
of each task's steps: `ApiClient` sets connect and receive time-outs, and calls of
secure storage return.  Nothing is assumed of users, administrators or the browser.

**Deadlock** is checked in every run but three.  `OfflineSync`, `SocialGraph` and
`GroupPlay` may stand still only when they are at rest (`Rest`): nothing pending and
no request open.  `operations`, `library` and `views` do not check it, since their
systems stop when the bounds on starts, days, events, writes or edits are used up,
or when every job has ended.

## 4. Findings

`PROJECT.json` lists all of them with their lines.  The properties named below are
defined in the modules and refuted by TLC; three of them have a run, which is named.
The others are stated beside the properties that hold, so that the two can be
compared.

*Synchronisation.*
1. *Silent loss* (`sync_silent_loss`).  The Valkey key is set before a mutation
   is processed and stays when processing fails or is rolled back
   (`S/repositories/sync.py:54`).  The next push of that mutation is acknowledged
   as a duplicate and the device stops sending it.  The shortest behaviour needs
   no fault: two open pushes, of which the second waits for the first one's
   rating row and is rolled back.  ADR-004 promises "protected from silent loss".
2. *Unhandled type.*  The swipe screen queues `ADD_TO_WATCHLIST`, which the dispatch
   does not know; it is acknowledged and recorded as processed (`sync.py:87`).
3. The pull ignores its cursor and never says that there is more
   (`sync.py:176`, `EverythingFound` in `Browsing`).

*Social features.*
4. One code serves two accounts (`S/routers/auth.py:310`, `social_single_use`), and an
   accepted friendship goes back to pending (`social.py:330`, `NoDowngrade`):
   both check a row read before.
5. The later of two PATCHes takes a recommendation back (535, `StrictTransitions`);
   two joins or two reports store one (2330, 2540); a resolved room gets another
   winner (1922, `WinnerLocked`).

*Upkeep.*
6. A recovered job that is out of attempts keeps its pending slot (`S/jobs.py:297`,
   `NoLeak`).  The scheduler's lock goes with its connection while the job goes on
   (`S/scheduler.py:82`).  After an interrupted download all later imports of
   administrators fail, since the cut file counts as downloaded
   (`S/scripts/seed_bulk_imdb.py:116`).
7. A title with a backdrop only is fetched for ever (`tmdb_worker.py:345`); a network
   error is stored as NOT_FOUND (289).
8. Ingestion: a batch's own titles are candidates twice (`pipeline.py:1109`), the
   gate does not ask the registry (63, `GateFollowsRegistry`), one failing batch
   rolls back the others (`batch_runner.py:119`), display ids collide (926), and
   promoting a candidate creates no title (`quality.py:175`).  Names of punctuation
   compare with nothing, and each item becomes a title of its own
   (`identity_resolution.py:89`, `NoDuplicates`).

*Sessions.*
9. A client without `onUnauthorized` clears the tokens while the app stays signed in
   and its outbox waits for the next user (`catalog_provider.dart:8`, `OwnAccount`);
   a refresh under way at a logout signs in again (`api_client.dart:126`,
   `mobile_logout`); tokens are written key by key (`secure_storage.dart:18`,
   `WholeSession`).
10. Web: the answer of a call that refreshed sets the cookie after a logout has deleted
    it (`OnlyLoginSignsIn`); a page that found no session deletes the cookie that a
    login has set meanwhile (`middleware.ts:102`); after a failed refresh the proxy
    goes on anonymously, where `token-refresh.ts:24-25` demands a new login.

*Library and views.*
11. Streaks are overwritten (`personal.py:422`), and may come out too long as well as
    too short (`StreakConsecutive`); episodes of another series complete a series under
    whose title they were logged (302, `CompletedByItsOwn`), and a series whose last two
    episodes are watched at once stays WATCHING (302); a file imported twice at once, or
    with a row twice, is recorded twice (2611, `ImportOnce`); imports reset
    favourites (2669); resolving a conflict writes nothing (`routers/personal.py:590`).
12. Search cuts its first page (`search.py:301`) and a genre filter repeats titles
    (`canonical.py:379`), so other titles are never shown (`EverythingFound`);
    `GET /titles` has no next cursor (`titles.py:81`); pages by offset shift
    (`canonical.py:405`).
13. Logging a film may lower the hours of the leaderboard (`social.py:1094`,
    `HoursGrow`); four views total watching time in four ways (2053); the stored
    streak does not expire (`personal.py:436`).
14. The runtime filter comes after the limit (`recommendations.py:377`,
    `PoolIsEnough`), taste is derived from the pool alone (622), the re-ranking
    changes no selection (843), and the group's average vector is not used
    (`ai.py:134`).
15. *Archives.*  A JSON archive does not bring a new account to what the old one was
    (`personal.py:2655`, `RoundTrip`): a title in two of its sections fails the whole
    file in a new account, favourites, collections and states are not imported,
    ratings up to 5 are doubled, and what has no status comes back as completed,
    with a watch event of now.  Of titles with one name and one year the
    first is taken (2384).  Headers with underscores match no alias
    (`mapping.py:83`), and `x/10` means two things (`import.ts:296`).  A title
    added to a collection after a removal may be shown before older ones
    (`personal.py:1100`, `AddedLast`).

What holds nevertheless is what the runs show: effects are never duplicated, the
outbox table and the data never disagree, member counts, progress and badges err on
the low side only, a declared winner did lead, refreshes do not import old files,
sessions of users who come back in time last.

## 5. Proofs

All theorems are about arbitrary constants that satisfy the named assumptions of
their modules (finite bounds, sentinels that are not members, types), and are
checked by TLAPS.  The assumptions say no more than the code provides: of
`InsightsAssumption`, that runtimes are numbers and that only series have episodes
and only films editions; of `BrowsingAssumption`, that ids are positive, keys are
numbers and a page holds a row; of `LibraryAssumption`, that a title has finitely
many episodes, any of which may be logged under any title, and what the rows of a
file and the bodies of requests may hold; of `DiscoveryAssumption`, a finite
catalogue with positive ids, ratings of 1 to 10, and preferences only with a cold
start; of `PortabilityAssumption`, finitely many works and days, that a row without
a day is not one with a day, that `None` is no work, and that uploads are rows in an
order.

`OfflineSyncProofs`: `TypeCorrect`, `LedgerAgrees`, `RowsAreExclusive`,
`EffectsAtMostOnce`, `SyncRefinesLedger`.  `AtMostOnce` is not inductive: a
commit adds the effects of everything staged, so one needs that nothing staged
is committed already (`RowsExclusive`), and that being committed and having an
effect are the same (`LedgerMatchesData`).  The inductive invariant `IInv` is the
conjunction of the three with `TypeOK`.  `Record` preserves it because the primary
key makes it wait for another holder and fail on a committed row; the Valkey key
and the caches play no part, which is the reason why `AtMostOnce` survives their
loss.  The refinement needs one more invariant, `Queued`: a request only handles
mutations that the device has queued.

The second half of `OfflineSyncProofs` is about claims: `CellsAgree` (every fault),
`OneExecutor` (Valkey does not fail) and `RefusalsIsolated` (only the network fails,
rows are apart).  The invariant `ClaimInv` says what holds a mutation's key: whatever
is executed, acknowledged, SYNCED, recorded or cached; with it, a key has one
executor, and what is acknowledged is staged with a request that will commit, or
committed (`NothingLost`).

`SocialGraphProofs`: `TypeCorrect`, `PairsAreUnique`, `AccountsAreGated`,
`AddresseeAccepts`, `RelationsArePreserved`.  What a request has read may be
stale; the auxiliary invariant `JobsCurrent` collects what stays true of it (the
row exists, its two users are the same, the actor was entitled, the code exists),
because rows and codes are never renumbered (`Kept`).  The two action properties
follow from it with the list of the steps that touch the table (`FriendsChange`).

Its second half is about pick rooms, `WinnersHaveLed` and `SettledBallots`; `Founded`
says that the leaders under a close that is going on, and the winner it is about to
declare, have led.

`GroupPlayProofs`: `NoShortcuts`, `AllEarned`, `ReachedStays`.  Each part has its
invariant (`RecInv`, `ClubInv`, `ChallengeInv`, `BadgeInv`), the `Sound` half of
which says what a stale read still guarantees: a status that was read is one the
recommendation has had, a count that was read is no more than the members there
will be when it is written, a progress no more than what was reported.

`OperationsProofs`: `TypeCorrect`, `DeadLettersEarned` and `ClosedStaysClosed` for the
job registry; `Known` says that what a runner holds is a job that was submitted.
`ImportsAreFresh` and `ImportsAreComplete` for the refreshes; `LockHeld` for the
lock, `NewEnough` for the files (those in the refresh directory are as new as every
running refresh needs, since each begins by unlinking them), and `StagedAll` for the
two INSERT statements.  `ArtworkIsKept` and `SyncsEndComplete` for the syncs of
artwork: `NothingMissed` says that a title still PENDING is in what is left of a last
batch.  It rests on `ShortBatch`, that a batch smaller than LIMIT is everything that
was wanting, proved by counting the titles ahead of another one; the order of the
rows is assumed to be strict and total, which is what a database does to rows of
one `created_at`.

`SessionProofs`: `RefreshedOnce`, `SignedOutForGood`; `Kinds` ties where a task is
to what it does: only requests refresh, and each has a client.  `SignedOutForGood`
is an action property: each step without tokens is a login, or adds none to the
refreshes that hold tokens (`Storing`) and stores only what one of them holds.
`ReturningStaysSignedIn` for the browser, assuming only that the lifetimes are
ordered as in the code.  Its invariant follows a session from where it is made:
`Made` says what lifetimes the parts of a session can have, `Carries` that every
call under way carries such a session or answers with one, and `Lasting` that the
cookie of somebody who has visited lives less than an access token's life shorter
than a cookie made that day.

`IngestionProofs`: `NoTitleTwice`, `RemakesStayApart`, `MappingsAreKept`.  Requests
decide on copies, so the invariant says what copies are worth: what a request has
created and not committed is invisible to all others (`Apart`) and recorded once in
its own maps (`Tidy`); what it maps, it maps to a title that exists or that it
creates (`Placed`), and what it remembers of the catalogue was there (`Own`).  The
proof of `NoTitleTwice` goes over one file, item by item, and uses of a name only that
some word of it counts.

`PersonalLibraryProofs`: `SeriesCompletedEarned`, `CompletedByAll`, `StreaksEarned`,
`ExistingKept`.  The writes of a request were computed from rows that may have
changed by the time they are committed.  `Sound` says what they are worth then: a
watch that completes a series found as many other episodes logged under it as it
needs, and a deleted event leaves its tombstone (`EventsKept`), so that they still
are; when all of them are the series' own, they are all it has (`CompletedByAll`);
the streak columns of a watch are those of `After`, the next streak, of the row it
read (`StreakWritesAre`), and become it if that row is still there
(`StreakCommitted`); every other request is `Confined` to its tables.
`ExistingKept` then needs what the database refuses: the insert of a row that has
come in between (`NoRowTwice`).  `CommitTypes` says what each row is after a commit,
in terms of the last write of its columns (`LastWrittenIs`).

`ViewsProofs` begins with what the library's recursive folds over finite sets
compute. `MapThenSumSet` is a CHOOSE over functions; `TotalsExist` shows that there
is such a function, by an induction on subsets in the form of a set
(`SubsetsInduct`), and `SumIs`, `SumGrows` that sums do not depend on the order and
grow with the set. `PagesConsistent`, `BoardsAlwaysAgree` and `ComparisonsMirrored`
follow: `PageInv` bounds what each read of a page has found by what its month holds
now (`MonthGrows`), and the ranks are those of a strict order (`RankOrders`).
`NothingFinished`: `Leaving` says that a title finished all along is outside of what
any SELECT so far has kept. `ListsAreComplete`: `Walking` says what a walk has
shown.  By keyset, all rows up to the last id that stayed.  By offset, those of its
rows with fewer than `from` rows before them (`Ahead`): an insertion only pushes
rows back, so what was shown stays shown, and only a removal, a new key, a tie or a
row between count and page, all of which the walk records, takes a row past the
offset unseen.  `OffsetRead` is the step: without ties the place of a row in any
order is its rank (`PlaceIs`), so a page shows exactly the ranks from `from` to
`from + Limit`.

`TasteIsMonotone`: `Kinder` compares what two requests would read, equal but for one
title that is rated better, made a favourite or no longer dropped.  Every genre,
director and actor then weighs no less (`WeightGrows`, a total over the titles that
have it), nor does the taste of the whole pool, and each term of a score is monotone
in these (`ScoreGrows`, with the clamps and integer divisions of the code).  `Asking`
says that what a request has read so far are rows of the right types.

`PlannedStayPlanned` and `HistorySurvives` are about an archive from its first SELECT to
its import.  A file's rows are folds of concatenations: `AllRowsFold` shows that
`AllRows` is a function of the subsets of a table, `RowsOfAll` that a row is among all
rows as often as the elements have it together, and `JsonRowsAre` what any row of a
JSON archive says: it is of a planned title, of a title of another table or of a watch
event, and of each watch event there are as many rows as its table counts.  `Moving`
carries this to the import: every table of an export under way is one that some account
had (`TableWritten`), and the items in the wizard are exactly the converted rows of the
file, none of which is dropped (`AllValid`) or left to the user (`Identified`).  It needs
the account to be sound (`Kept`) in every state, since tables are read at different
moments.  The import then gives a day without events one for each row of it
(`GainedIs`): a row without a day becomes one of today, which is no day of the archive
(`DaysAre`), and of the four kinds of events of a title and day, with or without a note,
of an episode or not, those of episodes come back as those of the title (`CopiesAre`).
The theorems cover what the run leaves out: any number of works, days and edits,
repeated imports, and files of other programs uploaded in between.

Only model-checked: `Delivered`, `SyncEnds` and `RequestsEnd`, since liveness under
fairness is out of the prover's reach.

## 6. Not modelled

- *Rate limiter*: a window counted atomically by one Lua script; a refused request
  changes nothing elsewhere.
- *Control room and AI assistant*: each decision reads and writes one proposal or one
  conflict in one transaction, and proposals are a language model's text.
- *User interface*: rendering, the browser's query cache; only the calls that change
  rows are inputs of the models.
- *Migrations*: static schema; the unique keys the models rely on are cited.
- *Telemetry, storage*: I/O wrappers and counters.
- *Login*: password and signature checks, which are stateless.
- In `Ingestion`: content types, which the resolver does not compare, seasons,
  genres, conflict and provenance rows, adapters' payloads; the merge of titles,
  which no caller outside the tests reaches.
- In `Insights` and `Discovery`: names, explanations, themes, average rating and era,
  which are totals over the same rows; taste vectors are given distances.
- In `Portability`: one export per behaviour, and no files of other programs beside an
  export; lookup by IMDb and TMDb ids, the texts of notes.
- In `GroupPlay` and `PickRooms`: the posts of a club's feed and candidates added
  later, which only insert rows; referral milestones, which no code advances.
- `resolve_conflict` and the unused writers of
  `personal_offline_repository.dart`, which nothing reaches or which write nothing.
