# PayWise in TLA+

A verification project for PayWise (`backend/`, `fraud-service/`, `frontend/`, `fds-research/`,
`fds_scripts/`). It models what decides about money and what is kept of it and of its users, checks
the models with TLC on small instances, and proves the main properties for every instance with
TLAPS. Paths are relative to the repository's root; a name like `consumer.py:120` is a line of the
file of the component that the section is about.

## 1. The system

| Component | State | Operations | Talks to |
|---|---|---|---|
| **fraud-service** | | | |
| Decision policy (`rule_engine.py`, `fraud_service.py`, `policy_merge.py`) | rule switches | fourteen rules, model bands, merge, fraud type, threshold | lists, profile, device and graph stores |
| Transaction evaluation (`routes_fraud.py`) | none of its own | evaluate, batch, step-up answer | every store of the service, in a thread per request |
| Audit chain (`blockchain_audit.py`) | chain in memory, write queue, JSONL file | append, verify, shutdown, load, migrate | the evaluation, `routes_audit.py` |
| Audit log files (`audit_logger.py`) | a file and its backups | write, roll over, tail | the evaluation, the dashboard |
| Step-up store (`stepup_store.py`) | Redis hashes with a time to live, a dictionary per node | set_pending, get, update_status | the evaluation and its answers |
| Settings at run time (`rule_engine.py`, `ensemble.py`, `alarm_manager.py`) | switches, weights, the alarm's rollback | toggle, PATCH weights, check_and_act, restore | Redis, drift and SLO statistics |
| Kafka pipeline (`consumer.py`, `producer.py`) | offsets, the supervisor, a producer | consume, decide, publish, dead letters, stop, restart | brokers, the evaluation's core |
| Profile stores (`profile_store.py`, `profile_store_redis.py`) | a list, or a sorted set, per user | ingest, windows, histograms, delete | the rules |
| Transfer graph (`graph_store.py`, `graph_features.py`) | sorted sets in Redis, lists per process | record, features of a sender and a receiver | the mule and layering rules |
| Counters (`ab_test.py`, `stats_collector.py`, `drift_detector.py`, `feedback_store.py`) | deques and dictionaries, a lock each | record, summarise, reset, chargebacks | the evaluation, the alarm |
| Intelligence (`intelligence_store.py`) | a list and a counter in Redis, fallbacks per process | publish, list, count | other organisations |
| Models and scores (`model_loader.py`, `behavioral_signals.py`, `sequence_score.py`) | a cached bundle, amounts per user | load, validate, clear, score | the evaluation |
| Rate limit (`rate_limit.py`), access (`abe_auth.py`, `abe_engine.py`, `abac_engine.py`) | times per caller, revoked attributes | admit, refuse, mask | every endpoint |
| Protocols that are shown (`security_protocols.py`) | trust, challenges, keys | attest, ask, answer, decrypt | its benchmark |
| **backend** | | | |
| Spend profiles (`spend_profile_db.py`, `spend_profile.py`, `db/redis.py`) | rows, a cache in Redis, a copy in memory | ingest, get, delete, seed, restore | the pages |
| Notifications (`notification_service.py`) | rows, WebSockets, a subscriber | create_and_push, connect, disconnect | Redis pub/sub, the emotions |
| Education (`education_store_db.py`, `routes_education.py`) | courses, challenges, badges, quizzes, a leaderboard | advance, enroll, update, sync, diagnose, simulate | the payments |
| Training (`ml/trainer.py`, `persistence.py`, `ml/*.py`) | model objects, files | train_all, dump, judge | the payments, a thread for judging |
| Accounts (`routes_auth.py`, `jwt.py`, `deps.py`, `routes_stepup.py`) | the user's row, tokens, a blacklist in Redis | register, login, refresh, logout, TOTP, backup codes, step-up | the web client |
| Passkeys (`routes_fido.py`, `fido_challenge_store.py`) | credentials, counters, challenges in Redis or memory | begin, complete, remove | devices |
| Dashboard (`routes_security_dashboard.py`, `audit_retention.py`) | a chain of rows, consents, pseudonyms | log, verify, purge, consent, revoke | fraud-service (mirror) |
| Emotions, advice, policy files (`emotion_engine.py`, `category_engine.py`, `routes_strategy.py`, `routes_analysis.py`, `policy_loader.py`) | tags, failures, budgets, a cached file | tag, warn, advise, reload | payments, profile |
| **frontend** (`useAuth.ts`, `fetchWithAuth.ts`, `AuthGuard.tsx`) | localStorage | mount, call, refresh, log out | the backend |
| **studies** (`mec_simulation.py`, `federated_sim.py`, `consortium_sharing_sim.py`) | one run's state | approve, train, mask, match | offline |

How they interact. A client posts a transaction to `POST /v1/fraud/evaluate`; FastAPI gives the
handler a thread. The handler makes a manager, asks it for the rules' action, the final action, a
push, and texts, and *each of these calls reads the stores anew*. In between it enters the
transaction into the profile, records statistics, appends to the audit chain (whose writer thread
persists it later) and opens a step-up entry, which another request, the user's answer, settles.
The same core runs in the Kafka consumer's worker thread. Administrators change lists, switches and
weights while all this goes on, and the alarm changes the weights by itself. docker-compose starts
a container again when it stops (`restart: unless-stopped`); nothing calls the chain's `shutdown`.
The backend is one event loop: a request runs to its next `await`, of a statement, of Redis or of a
send, and others run there; each request is one transaction of PostgreSQL. The web client's hooks,
calls and pages share the tokens in localStorage and nothing else.

What is hard here:

* **interleaving**: threads of requests between the reads and writes of one evaluation, two answers
  to one step-up, two flips of a switch, a PATCH between the two writes of a rollback; in the
  backend, a reader that fills a cache after another request has emptied it, two requests that count
  each other's rows, two hooks that refresh one token;
* **crashes**: a chain that is durable later than it answers, offsets committed ahead of the work,
  answers and entries in the memory of a node that restarts, an alarm that forgets, models that a
  start trains on too little and writes over those of before;
* **failures in the middle**: torn lines, rollovers that stop half way, sends that fail although
  delivered, Redis calls that fail with effect, a deletion of cached keys that never comes;
* **boundaries**: every `>=` of the policy, `x or default` with a zero, windows of one and five
  minutes, clips of weights, texts of attributes inside of each other, percentiles of two values;
* **liveness**: a queue that must drain, a consumer that must come back, a message that must reach
  every open connection.

`PROJECT.json` lists these hazards at their lines, each with the properties that would see it go
wrong; section 3 states what makes each component correct.

## 2. The models and the code

A module models one component; `MC...` makes instances for TLC; `..._proofs` holds theorems.
Operators named `Mut_...` are slips of a programmer in the definition that follows or precedes them;
each property has one that breaks it, and no specification uses them.

**Composites.** `FraudService`, `MCStores` and `MCUsers` extend the modules of one process and run them
*one at a time*: a variable `focus`, chosen at the start, says which component a behaviour is about,
and the others stay as their `Init` left them. `MCFraud` gives `FraudService` its values and adds the
texts of policies, whose parsers are recursive. The components under one composite share no state
(the evaluation, which does read several stores, is a module of its own), so an interleaving of two
of them would show nothing that each does not show alone, and the states add up instead of
multiplying.

### Deciding (fraud-service)

* **`Policy`**, `MCPolicy` is pure: `Fires` (the rules' `evaluate`), `Fired` and `Asks`
  (`evaluate_all`), `RuleAction`, `ModelAction`, `Merge`, `ClassifyFraudType`, `ApplyThreshold`,
  `FinalAction`. Amounts count 10,000 won, scores thousandths, times hundredths of a minute. The
  order of the lines of `classify_fraud_type` is kept. `MCPolicy` is a walk over a grid with every
  boundary, in which a step makes one fact worse or changes a list or a switch.
* **`Evaluation`**, `MCEvaluation`: one action for each group of calls of `_evaluate_one` between
  which another thread may change what it reads: `Rules`, `Decide`, `Push`, `Ingest`, `Record`,
  `Register`, `Route`, `Tell`, `Summarise`. `Ctx(r)` is what the rules read *at that moment*, from
  the lists, the profile and the devices; `Mark` is the write that the device rule makes on each
  evaluation. Administrators are `Blacklist`, `Whitelist`, `Toggle`; time is `LeaveMinute`,
  `LeaveFive`, `Forget`. It extends `Policy`, so that every decision in it is the real one. Requests
  carry no receiver and no hour (the API's defaults).
* **`StepUp`**: `redis` and `local` are the hash and each node's `_local_store`. An
  answer is read (`Read`), asks whether the hash exists (`Ask`), and writes (`Write`): three calls
  of Redis, between which others run, and each of which may fail with or without effect (`Fail`) and
  then goes on in the dictionary. `Open` is `set_pending`, whose `hset` keeps the old
  `resolved_action`; `Expire` the 30 minutes; `Restart` a node's end.
* **`RuntimeSettings`**: `Turn` and `Persist` are the two halves of `toggle_rule`, the second after
  the lock is released. `Write` is one assignment of `set_weights` for a PATCH; `Collect`,
  `Trigger`, `Save`, `Zero` are `check_and_act` and `Restore`, `PutBack` are
  `restore_default_weights`, one access to `ALPHA` or `BETA` a step, because the module's globals
  are not under the alarm's lock. Two histories: `chosen` is what was PATCHed last, which nothing
  resets, and `undone` the parts that a restart, or a restore with nothing saved, has put back to
  the default since. `Restart` loads the switches and forgets the rest.
* **`KafkaConsumer`**, `MCKafkaConsumer`: `Take`, `Process`, `Send`, `SendDlq` are the body of the
  loop, one await each; `Raise` is an iterator that raises, which ends in the supervisor's wait;
  `Connect` its next attempt; `Start`, `Stop`, `Crash` the process. The brokers are external:
  `Commit` is the client's timer, which commits the iterator's position, ahead of the request in the
  body; `latest` applies where nothing is committed.

### Recording (fraud-service)

* **`AuditLog`** is the promise: a log that grows, with a durable prefix; a stop forgets the rest.
  **`AuditChain`** is the code. `chain`, `queue` and `file` are `_chain`,
  `_write_queue` and the JSONL file; `holding` is the block between the writer's `get()` and its
  write; `stop` and `stray` are the sentinel of `shutdown` and what is put behind it; `legacy` says
  that a file of the old format lies there, which the first start migrates. Actions: the outcomes of
  the constructor (`Start...`), `AppendBlock` (with the enqueue or the direct write at its end),
  `Shutdown`, `WriterTake`, `WriterAppend`, `WriterAppendFail`, `WriterExit`, and the environment's
  `Exit`, `PowerLoss`, `Damage`, `Tamper`. Digests are fresh numbers and `intact` says that the
  stored ones equal the recomputed ones; the file is what a loader sees of it, with the state of its
  last line, because `_append_line_sync` continues an unterminated one.
* **`AuditLines`**: `WriteLine` with the rollover before it, rename by rename (`Renamed`), a rename
  that fails and leaves the stream closed, `Reopen`, and `LastLines`, the dashboard's tail.
* **`ProfileWindows`**: the list and the sorted set under one sequence of payments; a reader of the
  list shortens it. **`TransferGraph`**: both sorted sets and both lists, a call that fails with or
  without effect, the features of the mule and layering rules. **`Monitoring`**: one record of each
  kind under its own lock; `KS` is the drift statistic, beside its definition as a supremum.
* **`Intelligence`**: `TakeNumber` and `EnterPost`, with others between; `AllEntries` is the list
  that is served. **`ModelCache`**: `Replace` (trainers), `Hit`, `ReadFiles`, `Checked` (which fills
  an `lru_cache` that does not lock), `Clear`. **`Signals`**: the two scores, pure but for the
  amounts that the second keeps; `Speak` is a client that sends signals at all (`heard`), without
  which `Risk` is 0 whatever the server saw.
* **`RateLimit`**: `AskLimiter` with `InWindow` (the `popleft`s) and `RetryAfter`. **`Access`**: one
  request at a time, let in and filtered, with revocations between. **`Protocols`**: trust,
  challenges and keys.

### The backend and the client

* **`SpendProfiles`**: each request statement by statement: `BeginIngest`, `Insert` (to its commit),
  `Keys` and `Del` (the invalidation), `Look`, `Sums`, `Hours`, `Period`, `Fill` (a reader); seeds,
  resets, the start of the process (`Start`, `DemoAccount`, `DemoSeed`, `Restore`, `Serve`) and
  `Restart`; an `Outage`. Rows stand for transactions, and an aggregate for the set of rows that its
  statement saw.
* **`Notifications`**: `Publish`, `Take`, `Send`, `EndSend`, `Connect`, `Break`, `Disconnect`,
  `Listen`, `Away`, `Back`. A send goes on over the list object that it began with: `connect` adds
  to the object, `disconnect` puts a new one in its place, which `shared` tells apart.
* **`Education`**: the requests of one user, each a transaction: `ReadProgress`, `ReadActive`,
  `Enroll`, `ReadChallenge`, `AddScore`, `Award`, the three counts `Count`, `CountChallenges` and
  `AverageScores`, `Load`, `Commit`, and what a unique index and a locked row do to the second.
  **`Lessons`**: the tables of the programme beside `Policy`'s rules, and the metrics of the
  challenges as time and payments go on; `Mark` enters a quiz by the beginning of its transaction,
  before those that began later and were committed first.
* **`Training`**: `train_all` query by query (`AnswerQuery`, and `AnswerShares` and `AnswerSample` of
  the classifier, which takes three), its fits and dumps (`OpenFile`, `CloseFile`),
  and a prediction in a thread (`Judge`, `JudgeEnds`).
* **`Accounts`**: each request loads the user once, decides by what it loaded and saves the columns
  it changed; a token is named by the request that issued it; `before[r]` are the requests that were
  over when `r` began. **`Passkeys`**: challenges, answers that overtake each other, counters.
  **`ClientSession`**: hooks, calls and logouts over one storage.
* **`Dashboard`**: `ReadLastBlock`, `CommitBlock`, `Mirror`, and `SelectBatch`, `DeleteBatch` of a
  purge; consents and pseudonyms.
  **`Emotions`**, **`Advice`**, **`PolicyFile`**: requests that tag and warn; categories, budgets and
  what the pages say; a file that is edited while it is read.
* **`Studies`**: the edge and the federation, whose state is that of one run. **`PolicyTexts`**: how a
  policy's text is read, by `abe_engine.py` and by both copies of the study of sharing; it is apart
  because its parsers are recursive, which the prover does not take.

## 3. What is checked

Each run is `tlc -workers 2 -config <cfg> <module>`; the counts are distinct states.

| Run | States | Shows |
|---|---|---|
| `audit_threads` | 8,817 | threads, stops, torn writes, power losses, damage, a migration that fails half way; refinement and liveness |
| `evaluation_velocity` | 1,179,886 | five payments of one account over two threads |
| `evaluation_lists` | 168,107 | two accounts on one device while lists and a switch change |
| `kafka_faults` | 404,880 | two requests of one user, a garbled one, failures, crashes, broken connections; liveness |
| `fraud_components` | 432,432 | every other component of fraud-service, and the studies, one at a time |
| `backend_stores` | 237,889 | spend profiles, notifications (with liveness), education, training |
| `backend_users` | 552,337 | accounts, passkeys, the client's session, lessons and challenges, records |
| `audit_torn`, `policy_layering`, `evaluation_told`, `stepup_race`, `client_refresh` | | one disagreement each, section 5 |

**Audit chain** (`audit_threads`). `ServesGenuineRun`: whatever the disk did, a service that is up
serves an unbroken run of blocks that `append` made, with consecutive indices, which
`_verify_unlocked` never looks at. `DiskMirrorsChain`, `RefusesOnlyAfterLoss`: until the
environment spoils something, file + writer + queue is the chain, and no stop makes a start refuse.
`RefinesAuditLog`: until then the chain implements `AuditLog`. `WrittenInTheEnd`: what is queued gets
written unless the process ends or a write fails, and a shut down writer takes the sentinel with
nothing unwritten before it, unless the process ends.

**Policy** (`fraud_components`, focus `policy`). `HigherScoreNeverWeaker`: the decision is monotone
in the score, at every threshold.

**Evaluation.** `VelocityOvershoot`: requests that are decided before any of them is in the profile
pass the velocity rule together, but at most as many as there are threads: 2 + Threads within five
minutes, not 3. `ListsObeyed`: a request that saw no change is decided by the lists, however its
reads interleave with others'. `OneVerdict`: the chain, the log, the statistics and the step-up
entry hold the one verdict of the response.

**Kafka.** `NoneSkipped`: behind the offsets every request has a decision, a dead letter, or was
dropped in a way the code knows of. `EnteredOnce`: without a rewind no request enters a profile
twice. `DecidedInOrder`: a user's decisions keep the order of the requests, over failed sends and
redelivery. `RequestsSettle`: every request gets an outcome, over crashes and broken connections.

**The rest of fraud-service** (`fraud_components`). `LateAnswerRepeats`: until a call of Redis
fails, an answer that starts after another has decided never decides anew, over expiry, restart and
another opening; `RepeatsWereMade`: with failures too, no answer is told of a decision that none
made. `SwitchesSurvive`: a restart finds the switches as they were, except where two requests
crossed over one or Redis failed; `WeightsRemembered`: no checks and restores, however interleaved,
lose the administrators' weights while no PATCH comes between, but for a restore while nothing is
rolled back, which puts the default in their place as a restart does (section 5). `WindowsAgree`:
both profile stores give the rules the same windows, the list as long as payments come in the order
of their times. `MulesAreSeen`: whoever was paid by three within the window and has sent four fifths
on meets the rule at the next transfer. `MonitoringAgrees`: each variant's counts and detections add
up but for the requests between two locks, and the drift statistic is never below the distance of
the distributions. `PublishedIsServed`: an answered entry is served, once, unless its process ended
or newer ones pushed it out. `LimitKept`: no window lets more than the limit through, and who waits
as told is let through. `ReadsAreFresh`: the tail has the latest lines, over rollovers that stop
half way, and no score comes from a bundle that misses what its domain needs or is older than the
last clear. `ScoresMeanIt`: of a client that sends signals more evidence never lowers the risk, and
nothing that it says takes it below that of what the server saw of the network; a client that sends
none has no risk; and what a user always does is not unusual. `LessShowsNoMore`: losing or revoking
an attribute shows nothing more. `PoliciesReadAsMeant`: the text of a policy is read as it was
written, in `abe_engine.py` and in both copies of the study. `TrustWearsOff`: a device whose
attestation is too old is allowed four more requests at most; a response delivered again logs nobody
in. `StudiesHold`: a payment that would be approved would be too at a smaller amount, a lower risk
or a higher tier, the day's sums are kept, percentiles are in order, rows are shared out without
loss, masks stay apart, contributions add up.

**Stores of the backend** (`backend_stores`). `StaleOnlyIfMissed`: a cached profile whose reader no
commit overlapped is the rows', unless its deletion is to come or was lost. `OncePerConnection`: no
connection gets a notification twice, unless its publish took effect and yet failed. `OpenIsReached`:
what the subscriber has yet to take reaches every connection that is and stays open. `EarnedIsShown`:
who has completed something has its badge, and the leaderboard is what the rows make, unless two
requests count around each other. `TrainedStays`: a trained model stays so, and falls behind only by
a training that another was under way with.

**Users of the backend** (`backend_users`). `CodesHold`: what serves once is refused to a request
that begins after its use, and the second factor is on only over a secret, with the overlaps and
outages named. `CeremoniesHold`: a challenge serves one answer, and a genuine device is taken for a
clone only if a later answer of it was committed before this one was verified. `SessionHolds`: a
cleared storage stays empty but for a refresh on its way, and a session ends only if the network
lost a refresh or two refreshed with one pair. `LessonsHold`: what is taught, marked and simulated
agrees with the engine's rules, but for the places of section 5. `MetricMoves`: what a challenge
measures moves one way, but for late payments, late quizzes and the sliding of what is read.
`RecordsHold`: the audit rows verify over overlapping purges, tags are of one request, advice is
about payments that were made, the pages agree where they can, a policy file is read whole, consents
and pseudonyms are kept apart.

### Bounds

* Chain: four digests are enough for the first block, one lost to a stop, a fork after it and one
  behind both; every fault may happen at each step; a file of the old format has two blocks, so that
  a migration may fail between them.
* Policy: amounts and scores around the boundaries (10, 50, 500 units; 350, 660, 950) with three
  profiles and three graphs that sit on the rules' bounds. The theorems drop the grid.
* Evaluation: five requests, since 2 + Threads = 4 pass and a fifth could show one more; two changes
  by administrators, so that one may undo the other.
* Step-up: one transaction, as entries do not touch each other; three answers on two nodes, the third
  after a race of two; two openings, so that an opened entry can be answered and opened again.
* Settings: three flips of one switch, one to overlap two; a PATCH of both weights and one of a part
  beyond the clip.
* Audit rows (`RowBatches`): three requests that log, so that a purge can delete a row that is not the
  last and one that a request has read, with one purge; and two that log, one of them mirrored
  (`Mirroring`), with overlapping purges. Training: two requests that overlap, begun over enough
  payments and with a disk that holds; or one about a start and a restart, with disks that fail.
  Challenges: ten quizzes, the streak's target, each before at most one that began later.
* Kafka: two requests of one user for order and redelivery, one garbled request in a second
  partition, two starts of the process, one broken connection.
* Windows of 2 or 3 entries and clocks of a few units, so that something leaves each; rollovers with
  two backups and one that fails; three publications over two processes with two faults and a
  restart; bundles that are good, of another layout and below the bar.
* Backend: batches of requests name which run at once (three to eight of them); each batch of spend
  profiles has a writer with a reader, or two writers with one. One outage, one restart, one lost
  answer: each is needed once for the exceptions that the properties name, and a second adds no
  other.

Symmetry is used where requests say the same (`Evaluation_velocity`, `Evaluation_told`), and in no
run with a liveness property.

### Fairness

* `WF_vars(Writer)` of the chain: the writer is a thread of a running process that blocks only on
  its queue, and writes end. Nothing else is owed; a stop of the process is always possible and the
  properties except it.
* Kafka: weak fairness of `Start` (docker-compose restarts the container), `Connect` (the supervisor
  tries every few seconds), `Take` (the client polls), `Process`, `Send`, `SendDlq` (each await ends
  with an answer, an exception or a timeout). None for failures, commits, stops. `RequestsSettle`
  excepts a garbled message at the position and a process out of starts.
* Notifications: weak fairness of the subscriber's task (`SubscriberStep`): the event loop runs each
  task that is ready, and a send ends, with an error if need be. None for connects, breaks, faults.
* The other modules claim no liveness: a request may be abandoned with its process at any step.

## 4. What is proved

Each `..._proofs` module proves, for all values of the constants under the modules' named
assumptions (`ChainConstants`, `EvaluationConstants`, `PasskeyConstants`, ...), that the type
invariant of each component in it holds, and what the table lists. The composites run components that
share nothing one at a time, so that a theorem is about a component's own specification (`NoteSpec`,
`AccSpec`, ...). `ServiceParts` and `UsersParts` prove that every behaviour of `FraudService` and of
`MCUsers` is a behaviour of each component; the runs' formulas about several of them follow.

| Module | Theorems | Argument |
|---|---|---|
| `Policy_proofs` | `StrongerSideWins`, `WhitelistSkipsRules`, `BlacklistBlocks`, `ScoreMonotone`, `SwitchSilences` | Lemmas bound `Strongest` and `Merge` by ranks; monotonicity splits on the two bands and on the threshold, which no score changes; a rule that is off is no member of what fires, whichever of the fourteen it is, so that nothing that it reads is looked at. For every transaction and context. |
| `Evaluation_proofs` | `OvershootBounded` | Count a user's passed transactions in the window together with those decided but not yet in it: one that is let through finds at most two in the window, and all that are on their way are in flight, of which there are at most `Threads`. |
| | `ListsDecide`, `VerdictIsOne`, `ModelStands` | A request that saw no change carries the names of its first evaluation to the threshold of its second; each record is written from the verdict, which no later action changes. |
| | `NothingSkipped`, `EntersOnce`, `DecisionsInOrder` | Offsets lie within the log, and a request is in the body only while the loop runs. What has entered lies behind the position until a start goes back; what is decided lies behind it too, and behind the position that a start goes back to everything is decided, dead or lost. |
| `Fraud_proofs` | `SwitchesKept`, `WeightsKept` | A flip that is alone with its rule carries the value that memory has. Only the lock's holder is between its writes, and `HalfWay` says what is saved and what is written at each of its stages; a part of the weights is what was PATCHed, or the default if it is among `undone`, which only a restart and a restore with nothing saved add to. |
| | `AnswersSettle`, `RepeatsGenuine` | While nothing has failed the dictionaries stay empty, and an entry decided since its opening is never pending: it is resolved with one of those decisions, or gone. With failures: every resolved hash and dictionary entry carries the decision of an answer already told. |
| | `LimitIsKept` | The window kept is the tail of all that were let through, in order of their times, and what is before it is too old; who is let through finds less than the limit in it, so that the one a limit before is out of it. |
| | `ScoresAreOfTheFile` | The version at the last clear is never above the file's; what is cached is complete, and is not older than the last clear unless its reader had begun before it. |
| | `TrustIsBounded` | Trust is at most 100 less ten for each request since the attestation grew old, and four of these are above the bar. A response logs in only while its nonce is unspent, and verifying spends it. |
| | `PublishedStays` | Redis has the latest entries in the order in which they were pushed, a process those that reached it; a post is in one of the two, once, and Redis' counter is above every number it gave. |
| | `GenuineRunServed`, `DiskMirrored`, `PlacesAreIndices`, `StopsAreHarmless` | Digests are unique among created blocks and each block's index is one more than that of the block its `prev` names. So a list of blocks whose links verify has consecutive indices, although `Verifies` compares none, and the file, whatever was cut from it, holds only created or tampered blocks. The mirror is inductive together with "the file's blocks verify until something is spoiled". |
| | `ChainIsLog` | The refinement: the chain's initial states are initial states of `AuditLog`, and every step maps to a step of it or to a stutter for as long as nothing is lost. |
| | `TailIsLatest` | Each file ends where the one before it began (`Meet`), before and after every rename. |
| | `LessNeverShowsMore` | Each of the eight rules denies and masks no less of a subject with fewer attributes, or with one that it does not know; an answer is filtered by what is left when it is given, which a revocation in between has made less. |
| `Scores_proofs` | `MulesAreFound` | Until a call of Redis fails, a key holds every edge of its account that is within the window, and lives as long as its youngest (`HoldsRecent`); so the sender's features see three others and all the money that they sent. |
| | `WindowsHold` | The sorted set is the latest of all payments, and the list a tail of them in order of their times (`SetIsLatest`, `ListIsLatest`). That the bisection ends at the first payment within a window follows by the smallest distance at which it would not (`SearchFinds`); a window is then a tail of either, and counts the same. |
| | `MonitoringHolds` | What a variant has counted is what has passed its first lock, and what the table lists is what has passed the second, as long as none is dropped. For the drift statistic: two sorted samples have each a merge that follows both (`AscendingIs`, `MergeReaches`), which passes every value at which the distributions differ most (`SupremumIs`), and what it finds on its way may only be more. |
| | `ScoresHold` | A risk is the sum of the weights of the signals, cut off at 100, and a worse set of signals has another one in it, as has what a client adds to the server's; the mean and the spread of amounts that are all equal are that amount and nothing. |
| | `EdgeIsSound` | The loads, sums of a day and results of a processor are a function of the payments that it was given (`HistoryOf`), so that the one without nodes repeats the other. Every policy of a higher tier allows what a lower one does (`AsGood`). That a list has a k-th smallest value, and one no less for a greater k, needs no sorting: the numbers of values below and up to a value say it (`Nth`). |
| | `FederationIsSound` | Slices: the even ones, by products of the length of a chunk; the uneven ones, each from where the sizes before it add up to, by prefix sums, which leave fewer rows than there are clients. Masks: a sum over all pairs in which two of each cancel out. Contributions: each client's part is what the sum telescopes to. |
| `FraudService_proofs` | `TypesAreKept`, `ReadsAreTrue`, `StudiesAreSound` | Of all components together: at every step one of them acts or stutters and the rest stand still (`ServiceStep`). Most type invariants are part of the inductive invariant; for the rest it bounds what the types alone do not: no more is in a file than lines were written (`FilesAreOfLines`), no more is pushed than was counted (`PushedFits`). |
| `Stores_proofs` | `CachedIsRight` | What a reader has seen is right unless a commit overlapped it; a cached profile is right, or its deletion is pending in some request, or was lost. |
| | `ComesOnce` | A message is in the queue of Redis once; a connection gets it from one source, and not yet while it is in that source's list. |
| | `EarnedIsRight` | What a request is to write at each statement (`OwnAt`), that a completed row without a badge has its request still under way, and what each request has counted by its three selects, next to what there is, and around whose commit (`CountedAt`). |
| | `TrainedIsKept` | What is told as trained is trained; who judges found a trained detector; files of trained models are of trained models until a restart; every version found is of the past, and a model is as new as any request that met no other has read. The second half is an action property. |
| | `LessonsAgree` | No induction but that of the types: the engine's fourteen rules on a first payment come down to five, which are the simulator's; seven of the quiz's scenarios are quiet and three are not; a part of the answers is no more than all of them. |
| | `MetricsMove` | How a sum over the payments of a window, and the longest streak of days, change with one payment more or one day later; the streaks are recursive on days, and agree with those of the day before up to the last (a least day on which they would not). An action property. |
| `Users_proofs` | `CodesAreRight` | What a request has loaded, shows and will save at each statement (`PlacedAt`, `ShowsAt`, `PendingAt`), what is known of requests that were over when it began (`OrderAt`, `NotedAt`), and that a code that is spent is out of the row unless a request that loaded it saves it again (`SpentAt`). |
| | `CeremoniesAreOnce` | A challenge is in Redis, in the process, in the hand of one request, or was accepted once (`OnePlace`); the credential's counter is below that of every answer on its way that none has overtaken (`CountAt`, `CounterOf`). |
| | `SessionLasts` | While nothing is lost and nobody ends the session, refreshes on their way carry tokens of their own, which are good until the server has rotated them, and a stored one that is spent is carried by a refresh on its way (`OwnTokens`); after a logout, each such refresh counts as one that raced with it (`LateOnes`). |
| | `PurgesKeepTheChain` | Numbers and days of birth rise along the chain, so that what is expired is always its oldest part; rows follow each other by number and digest but for a gap, below which only expired rows are left while a call runs (`RowsLinked`). What a request has read is the last row, or one that was stored after it (`SeenAt`), unless a purge emptied its place. A call counts what it selects, at least what it deletes (`PurgeAt`). |
| | `PrivacyIsKept` | What each consent's status says of the day on which it was last listed (`ConsentsKept` is inductive with the types). A user's pseudonyms are as many as the list is long, and a new one is none of anybody's (`PidAt`). |
| | `PolicyIsTheFile` | Nothing in memory is newer than the file; while no two edits share a tick, a time belongs to one text (`FileTimes`, `FileTold`). |
| | `AdviceIsSound`, `PagesAreSound` | The profile is the part of the last half year of some prefix of the payments; all else is sums over them: what the categories cost adds up to what was paid (`SumByClass`), a weighted sum lies between its terms, and of ten numbers none is further from their mean than three deviations (`NoneIsFar`, Samuelson's inequality). |
| | `RecordsAreKept` | The composite `MCUsers` itself: at every step one component acts or stutters and the rest stand still, so that its behaviours are behaviours of each part, and what is proved of the parts holds together. |
| | `MoodsAreTrue` | What a request has found is the row, and no other request has found it, while its payment is not one that requests overlapped on (`FoundAt`); what is kept in order of the commits has been stored (`KeptAt`). The rest are sums: each group's mean lies below the dearest, and a group that is half again as dear as all is not all of them; a stressed payment adds to the sum of the intensities what it adds to their number. |
| `Sums` | lemmas | What `MapThenSumSet` returns. The fold is a recursive function on the subsets of its set; that there is exactly one follows from a smallest subset on which it would fail, which needs no induction scheme. Then: a sum with one element more, of two parts, of smaller terms, of equal terms; and what the quotient of two numbers is at least. |

**Why the strengthenings.** Most of these properties speak of quiet states, or of what an action
did, and a step into one starts half way through an operation. So the inductive invariants say of
each request what it has read, what it holds and what it will write at each of its awaits (the
predicates named `...At`), and a *frame* lemma says that a step of one request leaves another's
predicate true unless it writes what that one read. What the exceptions of a property are (an
overlap, an outage, an answer that was lost) is recorded when it happens, and the invariant is what
shows that nothing else needs to be excepted. The larger invariants were checked with TLC before their proofs. Four
proofs failed for a good reason. A token spent by a logout may be spent by another one (section 5),
so that `CodesHold` excepts it. A new pseudonym was taken from one number more than the type allows,
and a consent's duration was taken for positive, which the handler does not ask: both are mended in
`Dashboard`, and the runs have durations below zero. An hour that is not given is stored as -1, which
the type of `Signals` had only because the run's hours have it too.

**Only model-checked**, and why:

* liveness: `WrittenInTheEnd`, `RequestsSettle`, `OpenIsReached` (the prover has no `ENABLED`);
* `PoliciesReadAsMeant`, of parsers that are recursive on texts: an induction over data, in a module
  with `RECURSIVE` operators;
* the refutations of section 5, which are counterexamples and need no proof.

## 5. Where code and documents disagree

Shown by a run, each with the shortest trace TLC finds:

* `audit_torn`: a line cut short swallows the next block's line, whose write succeeded
  (`blockchain_audit.py:290`; its docstring at 185 says one line per block).
* `policy_layering`: an inbound transfer of the last 0.3 seconds rounds to `0.0` minutes, which
  `x or 9999.0` takes for none, so `LAYERING_CHAIN` misses the fastest pass-through
  (`rule_engine.py:315`).
* `evaluation_told`: routing and message are decided again after the transaction itself has entered
  the profile; the response can route and tell a verdict other than the one recorded.
* `stepup_race`: two answers that both read "pending" are both accepted, one PASS, one BLOCK.
* `client_refresh`: two mounted hooks (`AuthGuard` and the page in it) refresh with one token; the
  one that the server refuses removes the pair that the other has stored, and the user is logged out
  (`useAuth.ts:113`).

Met while modelling, and not shown by a run:

*Audit.* The chain's file is flushed and never synced (`blockchain_audit.py:288`), although the
docstring at 187 lists fsync; `PowerLoss` models the consequence. Damaged lines at the beginning or
the end of the file are skipped and the rest is served, while `docs/blog/16` (line 366) has the
start refuse; `ServesGenuineRun` says what is left of the promise. A failed rollover of the log
leaves its stream closed: later evaluations answer 500 after the stores have changed.

*Deciding.* One more rule that fires can raise the bar for a block: `SPLIT_TXN` turns a foreign
payment (`ACCOUNT_TAKEOVER`, 0.65) into `CARD_TESTING`, 0.7, whereas a test's docstring
(`fraud-service/tests/test_fraud_type_threshold.py:26`) wants lower bars for stronger signals. A push
prompt may ask for an answer for which no step-up entry is opened: the push decides anew
(`routes_fraud.py:81`) and the entry depends on both (`routes_fraud.py:177`). A step-up hash that
expires between `exists` and `hset` is made anew without a time to live. After a failed call, an
answer may be accepted and recorded nowhere: `update_status` returns False, which the handler ignores.
`set_reference` of the drift detector is called by nothing that runs, and its statistic treats equal
values one sample at a time (`drift_detector.py:24`), so it may exceed the distance of the samples.
From Redis a receiver always counts as first seen within the day. In memory, the list of
payments is cut to 60 minutes by each reader, while Redis keeps seven days.

*Settings and models.* Two flips of one switch may write to Redis in the other order, and a restart
then finds the switch turned (`rule_engine.py:11` says that switches survive). A restart during a
rollback ends it; a PATCH during a rollback is undone by the restore; a restore while nothing is
rolled back, as the second of two, replaces the PATCHed weights by the default
(`alarm_manager.py:149`); with both weights zero every score is zero; the roll back on p99 latency
of `docs/kpi_ml_mapping.md:61` is not in `alarm_manager.py`. The cache of models keeps "no model"
when a file could not be read, until it is cleared, which only tests do. An entry numbered by a
process's own counter may share its number with another (`intelligence_store.py:101`). A request
without signals has risk 0 whatever the server saw of its network (`behavioral_signals.py:151`),
less than one with benign signals.

*Kafka.* A message that is no JSON raises in the iterator, outside the loop's `try`, so it becomes no
dead letter (W4-#4), and the consumer meets it again after each connection until an offset passes it.
An automatic commit covers the request in flight; a crash then loses it.

*Access and studies.* A policy's `AND` is split before its `OR`, unlike in most languages, and a
group in two pairs of parentheses is read as one attribute. Answers are filtered only where they are
objects. A missing location or device counts as internal, or a desktop. The processor "without edge
nodes" uses them (`mec_nodes or ...`, `mec_simulation.py:134`). The daily limit is never reset and
depends on the tier of each payment. The study of sharing asks each owner for its own attributes, so
that it counts a match of both every time. The masks of the federation do not cancel, which an
assertion of 0.05 allows.

*Profiles, notifications, education.* The start of the process restores the demonstration account's
rows twice into memory (`main.py:166`; `spend_profile.py:8` says that memory mirrors the table). A
notification's row is flushed and never committed (`routes_emotion.py:40`), while
`notification_service.py:115` says that it is stored. A question of the fraud quiz (`FQ_006`,
`routes_education.py:264`) has the night rule fire at 1 a.m.; the engine's hours are 2 to 4, the
simulator's 2 to 5. The course's text gives 0.35 for PASS and ten minutes for the velocity rule
(`education_store.py:231`, `:234`); the engine asks for review from 0.005 and counts five minutes.
The streak of quizzes is of all that were ever taken, before the challenge too; a failed one that
began earlier and is marked later breaks a streak that was already counted
(`education_store_db.py:232`); the coffee challenge is reached with the first payment or never; an
unanswered question without a key counts as right.

*Training.* `load_all_models` is never called, and would leave the models unfitted if it were
(`persistence.py:3`); each training dumps what is in memory, so that a start with too little data
replaces trained files by untrained ones.

*Accounts and client.* A logout looks at no blacklist, so that a token of a logout can log out once
more (it answers 200 and changes nothing); the proof of `SpentStaysSpent` found this, the runs had
only one logout then.

*Records, advice.* Requests that read the same last row contend for its successor, and one answers
500. A late answer of the mirror is told as "not mirrored". Nothing calls `purge_db`. Consents are
looked up by the user's name and compared with the row's number, so that the owner is refused
(`routes_security_dashboard.py:353`). With five tags a stressed one of little weight can lower the
risk. The profile that advice looks at is loaded at the start only; `monthly_total` is given, not
summed (`routes_strategy.py:127` says it is); the page of overspending computes a ratio of a mean to
itself and never exceeds 50. Two edits of a policy file in one tick of its time leave the old cached.

## 6. What is not modelled, and why

`PROJECT.json` lists every component and what is left out of each. In general: what a model learns
and predicts, statistics beyond the drift test, latencies, costs and charts are numbers that no
control depends on, and are inputs of any value. Push and OSINT are external calls without state.
Cryptography is equality of what was hashed or signed. Routes that only read, searches, demonstrations
and the scripts that train and measure offline keep no state. The web client's pages show what the
backend answers.

Abstractions that a reader should keep in mind: one evaluation of the rules is one instant, though it
reads four stores; a thread's step is a call, not a bytecode; the transfer graph is a constant of the
policy and empty in the evaluation; a statement of the backend sees what is committed when it runs
(READ COMMITTED), and a commit is one step; components under a composite do not run together (section
2); expiry is a step that may come at any time, or is left out where nothing depends on it.

## 7. Plan

Done: every component that decides about money or keeps something of it and of its users is modelled
and checked, and every invariant and action property of the passing runs but one is proved for all
values of the constants. What would come next:

1. `DecidedInOrder` and `NoneSkipped` as a refinement: the pipeline as an abstract queue that hands
   each request on once or says that it did not, as `AuditLog` is for the chain.
2. `PoliciesReadAsMeant` for texts of any depth. Its parsers would have to be written as recursive
   functions on positions, and an induction on the length of a text would have to go by a shortest
   text that is misread, as the sums do by a smallest set.
3. The components that are not modelled: push, scenarios and the data for demonstrations.
