# Protege Mais: formal models

TLA+ models of the parts of Protege Mais in which concurrency, failure and time
decide whether the program is right. The commit they follow is a backend at an
early stage: a Manager API with two authentication routes, a worker that
consumes job queues, PostgreSQL and Redis adapters, and the tables of the
domains to come. Source paths below are relative to `packages/` unless they
start with `apps/` or `docs/`.

## Inventory

| Component | State it keeps | Operations | What makes it correct |
| --- | --- | --- | --- |
| Refresh-token rotation (`useCases/authentication/refresh-session.ts`, `repositories/authentication/index.ts:112-187`) | rows of `auth_sessions`; the signed tokens at clients | `execute`: verify, issue, `rotate` in one transaction | a token is exchanged at most once; reuse is reported for spent tokens only, and ends the session; expiry is absolute; no write for a blocked account |
| Login (`useCases/authentication/login.ts`, `index.ts`, `repositories/authentication/index.ts:20-110`) | `accounts.last_login_at`, new rows of `auth_sessions` | find, verify password, `recordSuccessfulLogin`, issue, `create` | no token without a session; no session for an ineligible account; a changed password is noticed; `last_login_at` never goes back |
| Login rate limit (`middlewares/authentication`, `plugins/redis/index.ts:145-167`) | one Redis counter per client address | `consume` before the login handler | at most the maximum per window; nobody limited without cause; the window is fixed |
| Token services (`services/authentication`) | keys only | issue, verify, hash | tokens verify between issue and expiry and nowhere else |
| Queues (`plugins/queues`) | BullMQ jobs in Redis | `publish`, `inspect`, `removeSettled`, `close`; pool `start`, `#process`, `close` | one job per idempotency key; runs bounded; announcements kept; every job settles; close waits for the active job only |
| Job payloads (`plugins/queues/index.ts:142-256`) | none | `assertPayloadValue`, at publication and again in the worker | accepted exactly if JSON keeps the value as it is |
| Worker (`apps/worker`, `useCases/jobs`) | registry, shutdown promise, the race of start and signal | `JobProcessor.process`, `runWorkerShell`, `waitForShutdown` | every failure is classified; ready only if consuming; a signal at any time closes pool, then Redis |
| Connections (`plugins/redis`, `plugins/database`) | connect, start and close tasks; the pool | `connect`, `start`, `isReady`, `close` | not ready while closing; close leaves nothing open; everyone who waits for the pool is answered |
| Readiness and API lifecycle (`plugins/readiness`, `apps/manager_api/src/lifecycle.ts`, `server.ts`) | probes, `acceptingTraffic`, shutdown promise | `isReady`, `markShuttingDown`, shutdown | never ready again once shutting down; closed once, PostgreSQL before Redis |
| Configuration (`config`) | none after the start | ten loaders | explicit and safe values in PROD; two different JWT secrets; errors name the variable at fault |
| Domain tables (`models`) | accounts, organisations, units, members, roles, grants | any statement the constraints admit | references stay coherent; an identifier names one live account |
| Value rules (`common`, `models`) | none | normalisers, validators, CHECKs, the EWKB reader | what one side accepts the other stores; a code has one meaning |
| Log sanitisation (`plugins/logging/sanitization.ts`) | the set of objects seen | `sanitizeLogValue` | nothing sensitive, nothing twice, nothing lost to a value that throws |
| Error handler, i18n, schemas, wiring, web and mobile shells | none that others read | formatting, composition | not modelled; `PROJECT.json` gives the reason for each |

How they interact. A login passes the rate limit, then makes three separate
accesses to PostgreSQL through a shared pool; a refresh makes one transaction.
They meet in the row of the account, which a login updates and locks, and which
a refresh locks after the row of its session, because its `FOR UPDATE` covers
the join. API processes share nothing but the two stores: their clocks disagree,
and `usedAt` and `createdAt` are clock readings of the process, taken before any
lock is waited for. The worker shares only Redis with the API. Inside
the API process the requests, the readiness probes and the start share one pool
of PostgreSQL connections and one Redis client, which the shutdown closes under
them.

What is hard: rows re-evaluated after a lock wait, clock readings older than
the row they are written to, answers lost after COMMIT, replies judged in
another order than they were counted, values read before a slow password check and used
after it, a job that is removed in two commands, a worker whose job was taken
from it, a shutdown that arrives while something is still starting, and rules
that are written twice, in TypeScript and in SQL. `PROJECT.json` lists each such place with its line and the
property that watches it.

## Modules

| Module | Models |
| --- | --- |
| `AuthStore` | what logins and refreshes share: rows of `auth_sessions`, eligibility of accounts, row locks, signed claims, the clock; `verify`, the lifecycle CHECK, the row a login inserts |
| `RefreshSession` | a refresh request, step by step; its properties and inductive invariant; the refinement mapping |
| `SessionFamily` | the promise of ADR-011, without rows, locks or clocks: `Open`, `Exchange`, `End` |
| `RefreshSessionProofs` | the theorems about `RefreshSession` |
| `LoginSession` | a login, statement by statement |
| `Authentication` | logins and refreshes over one store, with account administration |
| `LoginRateLimit` | the fixed-window counter in Redis and the judgement of its replies |
| `JobQueue` | one BullMQ queue: publishers, worker processes, operators; attempts, backoff, locks, stalls, crash, close, restart |
| `JobLife` | what the queue promises of one job id: pending, settled, discarded |
| `WorkerShell` | one worker process: start and close of its consumers, the race with the signal, Redis |
| `RedisConnection`, `ConnectionPool` | the two managed connections, each with its `connect` or `start`, probe and `close` |
| `ApiLifecycle` | the API process over both connections: start, failed listen, signals, requests, probes, close hooks |
| `Configuration` | the ten environment loaders, and an operator who edits, starts and repairs |
| `Directory` | accounts, organisations, units, members, roles and grants under their constraints |
| `TextRules`, `Cnpj`, `Municipality`, `UnitPosition` | rules on values, the TypeScript side against the SQL side |
| `ObjectGraph`, `JobPayload`, `LogSanitization` | JavaScript values with sharing and cycles, and the two walks over them |
| `MCRefreshSession`, `MCAuthentication`, `MCLoginRateLimit`, `MCJobQueue` | the instances TLC checks |
| `MCProcesses` | the API, the worker and the configuration, one process alive per behaviour |
| `MCRules` | the rule modules and the tables, one subject per behaviour |
| `AuthenticationProofs`, `LoginRateLimitProofs`, `JobQueueProofs`, `ApiLifecycleProofs` | the theorems about the module each is named after |
| `ProcessesProofs` | the theorems about the worker shell, the configuration, and the processes side by side |
| `ValuesProofs` | the theorems about texts, CNPJs, municipalities and positions, as `MCRules` runs them |
| `RulesProofs` | the theorems about the tables of `Directory`, payloads and log lines, as `MCRules` runs them |

### Correspondence

- A **credential** is a refresh token. Its random `jti` makes it unique, so it
  is named by the login or the request that issues it; `claims` says what its
  signature vouches for and `Hash(t)` is what the row stores. SHA-256 is assumed
  not to collide and signatures not to be forged.
- A **refresh request** goes through `Receive` (clock, `verify`, both issues),
  `Select` (the condition on committed rows), `LockSession`, `LockAccount` (the
  locks, and the condition again on the locked rows, as READ COMMITTED does),
  `Rotate` or `Revoke` (the conditional UPDATE, the CHECK, COMMIT) and `Respond`.
  `Abort` stands for statement timeouts, broken connections and dying processes;
  `LoseResponse` for answers that never arrive.
- `Select` to `LockAccount` splits one SQL statement where another transaction
  can come in between. `UpdateAndCommit` is one step because the row stays locked
  from `LockAccount` to COMMIT.
- A **login** goes through `Find`, `Verify`, `Record`, `Issue`, `Create`,
  `Insert`, `LoginRespond`. `found` is what the first SELECT projected, kept to
  the end as the code does.
- Time is in whole seconds, as `authenticationTokenIssuedAt` floors it. `now` is
  the fastest clock; a handler reads any value in the last `Skew` seconds.
- `RefreshSession` alone replaces the login by its committed effect
  (`OpenSession`, the token already delivered); `Authentication` uses the real one.
- A **rate-limited attempt** is `Execute` (the MULTI block, one instant in
  Redis), then `Judge`. `Fail` covers an unreachable Redis, a timeout and a lost
  reply; a command that timed out may still be counted later. `Forget` is a Redis
  that restarts or evicts the key.
- A **job** of `JobQueue` is the hash BullMQ keeps for one job id; each BullMQ
  command is a Lua script and so one action. What the code does in several
  commands is several actions: `Take`, `Execute`, `Settle` of a worker, `GetJob`,
  `GetState`, `Remove` of an operator. `Stall` is the stalled check of any live
  worker, and it may take a job from a worker that is only slow; that worker's
  `Settle` then finds the lock gone. `Crash` and `Restart` are the process.
  The names `Attempts` and `MaxStalledCount` are the retry policy and line 507.
- In `WorkerShell` every promise that may be pending when something else happens
  is a variable: `race` (`Promise.race`), `start`, `close`, and per queue
  `ready`, `consumer` and `socket`. `BullMQ`'s `Worker.close` waits for the job
  that runs; it may also reject, and `Promise.all` then does not wait for the
  others, which the properties name as an exception.
- In `ApiLifecycle` the hooks `CloseDatabase`, `CloseRedis`, `CloseReadiness` run
  in the reverse order of registration after the last request in flight has been
  answered, as Fastify does. `task` is what each user has of the pool, `ping`
  where each probe of Redis is. `Verdict` reads `accepting` again.
- In `Configuration` a raw value stands for what its parser tells apart
  ("padded", "unsafe", "zero", "withPath"). `KindOf` says which parser reads
  which variable, each loader is the sequence of keys it reads in order.
- In `Directory` an action is one SQL statement that all constraints admit;
  foreign keys over a NULL column are not enforced (MATCH SIMPLE), and the unique
  constraint on grants treats NULLs as equal.
- In `TextRules` a character is a class. Each module has the control class it
  writes (`SessionControl`, `MemberControl`, `SqlControl`) and each language its
  lower case (`Lower`, `SqlLower`); `"Sigma"` stands for the letters that have
  two. A name with BEL or a C1 control is outside `NormalisedNameIsStorable`,
  because nothing in `common` refuses controls in names before the CHECK does. In
  `Cnpj` a character is its code minus 48, in
  `UnitPosition` a byte of the header or the index of a coordinate byte. The
  state of these modules is the input; each type, edit or damage is a step, so
  that TLC visits every input of the bound. What a loop or a replacement
  computes is a recursive function over positions.
- In `JobPayload` and `LogSanitization` the state is an object graph that a step
  changes in one field. The walks are recursive functions of one call:
  `Accepts` of the value, its ancestors and its depth, as `assertPayloadValue`;
  `SanitizeObject` of the object, the walk so far (what has been seen, written
  and thrown) and the depth. `SanitizeEntry` is one turn of its loop, with the
  `catch` around it, and `SanitizeInternal` the value in one field.

Definitions whose comment begins with "Slip" are not part of the model. Each is
a plausible mistake in the definition that follows it, and shows that a property
notices it (`PROJECT.json`, "mutants").

## Runs

`tlc -config <run>.cfg <module>`. Runs that end in a violation document a
disagreement between the code and a text of the repository.

| Run | Bounds | Shows |
| --- | --- | --- |
| `refresh_safety` | 1 account, 1 session, 3 requests, skew 1, lifetime 2, clock 0..2 | all safety and action properties of rotation, the inductive invariant, and the refinement |
| `auth_logins` | 2 logins, 1 refresh, 2 passwords, skew 1 | login safety; no cycle of lock waits, locks die with their transaction; the inductive invariant of the composition |
| `auth_mixed` | 1 login, 2 refreshes, clock 0..2, fairness | rotation keeps its promises with a real login; refinement; everyone who began is answered |
| `rate_limit` | 4 attempts, 2 addresses, maximum 2, two windows of 4 ticks, Redis may forget a key | no window admits more than the maximum for each counter begun in it; nobody limited without cause; the window is fixed |
| `queue` | 1 key published twice, 2 workers, 1 operator, 2 attempts, 2 faults, fairness | runs bounded, announcements honoured, every job settles, close ends, the queue implements `JobLife` |
| `processes` | 2 requests and a pool of 1; 3 queues; 2 edited variables; fairness | the API and the worker close what they opened in order, are never ready in vain, and end; configurations that start are safe, and repairing what errors name ends |
| `rules` | texts to 5 characters, a column of 3; 3 CNPJ roots with all check digits and one changed character; all 100 municipality prefixes; one damaged or missing byte; 3 objects of 4 fields in all; tables of 1 or 2 rows | both sides of every rule agree, logs and payloads are safe; no statement leaves a reference to a row that is gone or to a unit of another organisation, or a scope held twice; an identifier names one live account, and a deleted organisation can be restored |
| `refresh_reuse_ends` | 1 session, 2 requests | **violated**: a reuse may leave the session usable |
| `refresh_device_lock` | 2 sessions, 2 requests | **violated**: devices do wait for each other |
| `rate_limit_sixth` | 4 attempts, healthy Redis | **violated**: 503 instead of 429 in the last half second |
| `text_metadata_cut` | texts to 5 characters, a column of 3 | **violated**: a truncated device text may end in a space, which its CHECK refuses |
| `text_metadata_controls` | texts to 3 characters, a column of 3 | **violated**: a C1 control is kept in a device text, and its CHECK refuses it |

Why the bounds are enough. Three requests give a winner, a reuse and a third
transaction that waits behind both, and a chain of two rotations with a late
presentation of the first token. A lifetime of 2 with a clock to 2 reaches
expiry; a skew of 1 puts a reading before the issue of the token and before the
last use. Four attempts with a maximum of 2 fill a window and spill into the
next. One key is enough for the queue, since no rule of it relates two jobs
(`Take` picks any waiting one, so fairness to each job is that of BullMQ); two
publications, two attempts and two faults (crash, restart, or a lock lost) reach
a second stall, a retry after a stall, a run that goes on after its job was
given to the other worker, and a second life of the id. A pool of one connection
is the smallest that requests can exhaust; with two requests one holds it and
one waits, beside the first connection of the start. Three queues are needed
for a consumer that rejects, one that is busy and one that is idle. Two edited
variables are the fewest that can clash. In `rules`, five characters fill a
column of three with white space of two kinds around and inside; three objects
make a chain, a cycle, and one object shared by two. Beyond the bounds lie only
longer inputs of the same classes. In the tables two rows are enough
for every constraint, each of which relates a row to one other; two grants and
two memberships of one unit make a delete that is refused twice. The tables are
two subjects, lest their products multiply: scopes of the accounts
`ScopeAccounts`, whose identifiers come from `ScopeEmails` and `ScopeSubjects`
(`FewIdentities`), and identities of all accounts without scopes (`NoScopes`).
With the three constants equal to `Accounts`, `Emails` and `Subjects` the first
subject has no such bound. Objects, organisations, units, memberships and grants
are interchangeable, and no definition tells two of them apart, so symmetry is
sound. The CNPJ roots of `SampleBases` are zeros, which the validator refuses, a
numeric one and the published alphanumeric example. The theorems below remove
the bounds of every run, for all that is not liveness.

The run `queue` has one operator. With two, `RemovesOnlySettled` and with it
`ImplementsJobLife` fall: both read a settled state, one removes the job, a
publisher adds its key again, and the other removes the job that has not run.
The documentation does not say what `removeSettled` promises beyond its name, so
that this is stated here and under "hazards" and is no run of its own.

Deadlock checking is off wherever the system may stop: once every request is
served, the process has ended, or every bound on clocks and faults is reached.
`LocksAreSound`, `ApiEnds`, `SignalEnds`, `CloseEnds` and `AllAnswered` ask the
question that matters, whether anyone waits for ever.

Fairness. `FairAuthSpec` assumes weak fairness of each handler's own work: the
event loop runs a ready continuation, PostgreSQL grants a free lock and a
statement ends. `JobQueue!Fairness` assumes that a worker that is up fetches,
ends and settles its jobs (use cases bound their own waiting), that delays pass
and that a live worker's stalled check finds an expired lock; never that anybody
publishes, restarts or removes. `WorkerShell!Fairness` and
`ApiLifecycle!Fairness` assume that running continuations continue, that a job
ends, and that the timeouts of the pool and of the client fire; not that a
server answers or that a consumer ever connects. For the end of a ping that is
what `docs/REDIS.md` claims of the command timeout; the client applies it to a
command that is still queued, and one already written to a server that stays
silent ends with its socket, so `ApiEnds` rests on that as well. `Configuration!Fairness` is an
operator who goes on repairing. Nothing is assumed of clients, clocks, aborts,
signals, or of the other writers. Weak fairness is enough for a lock because in
an instance the handlers that can take it are finitely many and each is served
once; for endless traffic the queue of PostgreSQL would be needed, which is not
modelled.

## What the violated runs say

1. `ReuseEndsSession`: `revokedAt` is the reading taken before the wait. If the
   winning rotation read its clock later, `auth_sessions_lifecycle_check` refuses
   the revocation, the transaction throws, and the winner's successor works on.
   `RotationPassesCheck` shows that rotations are not exposed to this.
2. `DeviceIndependence`: `.for('update')` on the join locks the account row too.
3. `SixthIsLimited`: Redis rounds TTL to the nearest second, and the adapter
   rejects 0.
4. `MetadataIsTrimmed`: the truncation comes after the trim. A User-Agent of
   more than 512 code points whose 512th is a space keeps it, the CHECK refuses
   the row, and the login fails although its credentials were right.
5. `MetadataHasNoControls`: the sanitiser replaces U+0000-001F and U+007F, the
   CHECK refuses `[[:cntrl:]]`, which goes on to U+009F. A device name or
   User-Agent with a C1 control fails the login in the same way.
   `MetadataRefusedInTwoCases`, which the run `rules` checks, says that these two
   are all the cases.

Three more observations have no run of their own. A search key or the key of an
e-mail is lower-cased by `toLowerCase` and compared with `lower()` by a CHECK:
they differ on a capital sigma at the end of a word (and on a few letters like
it), and such a row is refused (`NormalisedNameIsStorable`) or, if another writer
stored it, its e-mail is not found (`LookupFindsStoredEmail`). A job that `#process` refuses
before it calls the processor, or that BullMQ fails for its second stall, is
settled as failed without the event `worker.job.failed` that
`docs/WORKER_QUEUES.md:112` and `:143` describe (`AnnouncementHonoured` therefore
asks only what an announced attempt promises). And MFA that becomes required
between a login's first SELECT and its INSERT does not stop that login, which
leaves what a login just before the change would have left.

## Proofs

`tlapm <module>` on each module whose name ends in `Proofs`. TLC checks an
instance; the theorems hold for any sets of accounts, sessions, requests,
clients, attempts, jobs, workers, operators, tasks, queues, rows and objects,
and for texts of any length.

Assumptions. They are the named `ASSUME`s of the modules, which TLC evaluates in
every run: credentials, workers and keys are distinct from the value that stands
for none of them; lifetime, maximum and window are positive; skew and bounds are
naturals; the retry policy has one to ten attempts, as `queues` validates it;
the pool has at least one connection and the readiness probes and the queries
are those of the same requests; NULL is no key, no value and no row (`NullAssumption`); a
root of a CNPJ has twelve digits or letters (`CnpjAssumption`), a column holds at
least one character (`TextAssumption`), and objects are finitely many, other
than the leaves, under a depth limit that is a natural (`GraphAssumption`). The two
theorems about `removeSettled` and the life of a job take one more hypothesis,
`OneRemover`: at most one operator. It is needed, not convenient: two operators
can remove an unfinished job (see Runs), and a refinement that admitted it would
promise nothing.

The properties are seldom inductive as they stand. What was added to each, and
why:

- **Rotation** (`RefreshSession`, `Inv`). That a token is exchanged at most once
  needs that a spent token is never again in a row (`Lineage`), which needs that
  the successor a request installs is new (`Progress`) and belongs to the
  session of the token presented (`Successors`, `ClaimsMatchRows`,
  `Provenance`). That a rotation passes the CHECK whatever the clocks read needs
  that the token in the row was issued at the last use recorded in it, and that
  every request in its transaction verified its token at `usedAt`
  (`Chronology`). That no write happens for an ineligible account needs the lock
  on the account from its re-evaluation to COMMIT (`Locked`).
  `ContinuesUnlessLost` needs in addition that a login's token has reached its
  client (`OpenedAtClient`).
- **Logins and refreshes over one store** (`Authentication`, `AuthInv`). A real
  login signs its token before the row of its session exists. The parts of `Inv`
  that speak of all signed tokens are therefore stated for tokens `InEffect`,
  which is every signed token when a session opens in one step. `LoginInv` says
  what a login knows at each step (what it found, the hash it verified, the row
  it is about to insert), and `LockHolders` ties each lock to a transaction that
  is still open. The lemmas about refresh steps are those of
  `RefreshSessionProofs`, used again. `NoDeadlock` then follows from the order of
  locks: whoever holds an account waits for nothing, whoever holds a session
  waits for an account only.
- **Rate limit** (`CountingIsSound`). The limit per window is a counting
  argument: each reply of one window carries a different value
  (`ValuesAreCounted`), none above the counter (`CountersAreCounted`), and an
  admitted attempt read at most the maximum (`JudgedByReply`), so the admitted
  attempts inject into 1..maximum. `FixedWindow` is `EXPIRE NX`.
- **Queue** (`QueueSafe`). A job's runs are bounded because they are the attempts
  counted, the stalls tolerated and the run going on (`Counted`); that a settle
  counts the attempt it ran needs that only the holder of the lock settles, with
  a copy of the policy that is still the job's (`LocksAreHeld`, `Informed`).
  `LifeRefinement` maps a hash of BullMQ to one pending, settled or discarded
  life; publication, settling, the second stall and the removal are its steps,
  everything else stutters.
- **API** (`ApiInv`). How far `app.close()` has come decides what is closed
  (`ClosedSoFar`), and a client that is being closed is not opened again by the
  connect that was pending (`StaysClosed`). The pool's bound needs that the
  holders are finitely many, and that a pool that has ended has none.
- **Worker** (`WorkerInv`). `Begun` orders boot, start, race and close, with
  signals in any place; `ReleasedAfterClose` says what the close has reached when
  it answers or rejects.
- **Configuration**. `ConfigurationInv` is typing alone; the rest is a proof about
  the ten loaders and the thirteen parsers: a loader that reports nothing has
  refused nothing (`NoneRefused`), in PROD no parser passes a placeholder or an
  absent value (`ParsedForProduction`), and the keys of the worker, database,
  Redis and JWT loaders are among those of the API and parsed alike.
- **Processes** (`ProcessesProofs`). A step of one process is a step of its
  module and a stutter of the others (`OneProcessMoves`), so the three invariants
  hold side by side.
- **Tables** (`DirectoryInv`, `UniqueInv`). The coherence of references is
  inductive with the types: a foreign key keeps it at the row that is written,
  RESTRICT and NO ACTION at the row that is referenced. The scope check is needed
  for a grant with a unit and no organisation, which MATCH SIMPLE would not look
  at. Uniqueness needs one lemma for a row that is replaced by one like no other
  (`PutKeepsUnique`). The theorems are about `MCRules`, whose steps are those of
  the tables or leave them alone (`TablesStep`).
- **Recursive rules.** The induction theorems of the library take a predicate,
  which none of the provers can instantiate. Induction is therefore stated once
  for a set of numbers (`SetInduction`, from the least number outside it), and on
  it rest two lemmas about recursive functions over positions: one exists
  (`RecursionExists`), and whatever obeys its step has its values
  (`RecursionUnique`). They give a recursive definition its equation; each
  argument below is then an induction over a set of positions, steps or depths.
- **Texts** (`TextInv`, typing alone). What trimming leaves is the text between
  its first and last visible character (`StrippedFacts`), and what collapsing
  leaves has no two spaces side by side and begins and ends as the text did
  (`CollapsedFacts`, by the prefixes read so far). So `normalizeText` makes a text
  `Normal`, a normal text is not changed by it, and the CHECK asks nothing more of
  one than its length and no control (`NormalIsStored`). The two lower cases of a
  text are equal exactly if no word of it ends in a capital sigma (`LowerFacts`).
- **CNPJs** (`CnpjInv`, typing). The normal form of a value typed in any of the
  three ways is the value (`NormalisedAlong`: how many characters are kept of each
  prefix); the sum of `packages/common` unrolls to the one the CHECK spells out
  (`SumUnrolled`); the digits of a root are a function of it (`DigitsOfRoot`).
- **Positions** (`PointInv`). The bytes of an undamaged geometry are a prefix of
  its encoding, so the readers find byte order, kind, reference system and offset
  where they were written (`HeaderReadBack`), or the length is short.
- **Payloads** (`PayloadInv`, typing of the graph). The specification speaks of
  what is reachable and of walks without a cycle, the check of paths with
  their ancestors. `ReachableByWalks` joins them: an object is reachable
  exactly if a walk of some length ends there, which needs that the closure is
  reached after as many steps as there are objects (`ReachableIsClosed`). An
  accepted payload has no walk longer than the limit, hence no cycle
  (`ShortWalksHaveNoCycle`); conversely each visit is of the end of a walk whose
  ancestors all lead to it (`Comes`, `Descends`), and an ancestor met again would
  be a cycle.
- **Log lines** (`LogInv`, typing of the graph, whose arrays have no names).
  Each call of `sanitizeObject` gets a log that is `Clean`, where every entry is
  of an object that has been seen and is open, and no field is there twice; it
  makes of it one that has `Grew` by the fields of the object and of objects that
  had not been seen. That a field is not written again needs that an object is
  seen before its fields are walked and never unseen, not even when the catch
  drops what was written below it. The induction goes from the depth limit
  upwards (`WalksAreSound`).

| Property | Theorem |
| --- | --- |
| `Inv`, with the types `TypeOK` | `Safety`, `Typing` |
| `SingleSuccessor`, `ReuseIsGenuine`, `ExpiryIsAbsolute`, `RotationPassesCheck` | `ExchangedOnce`, `NoFalseReuse`, `AbsoluteExpiry`, `RotationIsStorable` |
| `ContinuesUnlessLost`, `WrittenOnlyWhileEligible`, `ReuseStands` | `Continuation`, `NoWriteForIneligible`, `ReuseIsFinal` |
| `ImplementsSessionFamily`, of the rotation and of the composition | `Refinement`, `AuthRefinement` |
| `AuthInv`, `LocksAreSound`, `NoTokenWithoutSession`, `ContinuesAfterLogin` | `AuthSafety`, `NoDeadlock`, `TokensHaveRows`, `ContinuationAfterLogin` |
| `CreatedOnlyWhileEligible`, `LastLoginAdvances`, `RecordedWithCurrentPassword` | `NoSessionForIneligible`, `LastLoginIsMonotonic`, `OnlyCurrentPassword` |
| `CountingIsSound`, `WindowIsFixed`, `LimitPerWindow` | `CountingSafety`, `FixedWindow`, `AdmissionsAreLimited` |
| `QueueSafe`, `AnnouncementHonoured` | `QueueSafety`, `AnnouncementsHonoured` |
| `RemovesOnlySettled`, `ImplementsJobLife`, with one operator | `OneRemoverRemovesSettled`, `LifeRefinement` |
| `ApiInv`, `ApiClosesInOrder`, `NeverReadyAfterShutdown` | `ApiSafety`, `ApiClosing`, `NotReadyAfterShutdown` and, beside the other processes, `ReadyIsServing` |
| `WorkerClosesInOrder`, `ReadyMeansConsuming`, `ConfigurationIsSafe` | `WorkerClosing`, `ReadyIsConsuming`, `ConfigurationSafety` |
| `ScopesAreCoherent`, `IdentifiersAreUnique` | `ScopesStayCoherent`, `IdentifiersStayUnique` |
| `AcceptedIsStorable`, `CodesAreUnambiguous` | `AcceptedStaysStorable`, `CodesStayUnambiguous` |
| `AcceptsWhatJsonKeeps`, `LogsAreSafe` | `PayloadsStayFaithful`, `LogsStaySafe` |

Model-checked only: `AllAnswered`, `EverySettles`, `CloseEnds`, `ApiEnds`,
`SignalEnds` and `RepairsEnd`, which are liveness under fairness and out of the
prover's reach. Every invariant, action property and refinement of the passing
runs has a theorem.

## Not modelled

Signatures, Argon2id, HMAC and the character-level formats of strings other than
those of `TextRules`, `Cnpj` and `Municipality`; the constant-time comparison of
an unknown e-mail; access tokens, which no route verifies; response bodies, the
mapping of errors to HTTP answers, translations, correlation identifiers;
multipart, CORS and Swagger options; deadlocks PostgreSQL would have to break
(`LocksAreSound` shows there are none); deletion of sessions, which no code
performs; a `buildServer` that fails after the Redis plugin was registered;
permissions, role codes and the system flag, addresses and validity dates of the
tables; the limit of 100 entries and the list of names of the log sanitiser. The
web and mobile applications hold no logic at this commit. `PROJECT.json` gives
the reason for each component.

## Plan

1. *Done*: `AuthStore`, `RefreshSession`, `SessionFamily` and their proofs;
   `LoginSession`, `Authentication`, `LoginRateLimit`; `JobQueue`, `JobLife`;
   `WorkerShell`; `RedisConnection`, `ConnectionPool`, `ApiLifecycle`;
   `Configuration`; `Directory` and the value rules; `JobPayload`,
   `LogSanitization`.
2. *Done*: the theorems above, for every invariant, action property and
   refinement of the passing runs.
3. *Left*: liveness, should a prover reach it; and models for code that is still
   to come, such as the routes over the domain tables, the deletion of sessions
   and the MFA that a login only refuses.
