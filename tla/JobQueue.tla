------------------------------ MODULE JobQueue ------------------------------
(***************************************************************************)
(* One queue of packages/plugins/queues: publishers that deduplicate by    *)
(* job id, a pool of workers that run the job processor, and operators     *)
(* that inspect and remove settled jobs.  A key is one job id, the SHA-256 *)
(* of a job name and an idempotency key.  The five queues of the catalogue *)
(* share nothing but the Redis server, so one of them is enough.           *)
(*                                                                         *)
(* The commands of BullMQ run as Lua scripts, each one atomic.  What this  *)
(* code calls in several commands (removeSettled, inspect, a job that is   *)
(* taken, executed and settled) is several actions here.                   *)
(***************************************************************************)
EXTENDS Naturals, FiniteSets

CONSTANTS Keys,          \* job ids
          Workers,       \* worker processes, each with concurrency 1
          Operators,     \* clients of inspect and removeSettled
          NoWorker,      \* the owner of a lock nobody alive holds
          NoKey,         \* a worker or operator that handles no job
          Attempts,      \* QueueRetryPolicy.attempts
          MaxPublishes,  \* bound on the calls of add, ours or foreign
          MaxFaults      \* bound on crashes and graceful restarts

ASSUME JobQueueAssumption ==
    /\ Attempts \in 1..10
    /\ MaxPublishes \in Nat
    /\ MaxFaults \in Nat
    /\ NoWorker \notin Workers
    /\ NoKey \notin Keys

VARIABLES job,        \* the job hash of every key
          worker,     \* what every worker process is doing
          operator,   \* what every operator has read
          published,  \* calls of add so far
          faults      \* crashes and restarts so far

vars == <<job, worker, operator, published, faults>>

-----------------------------------------------------------------------------
(* State *)

MaxStalledCount == 1

Settled == {"completed", "failed"}
Pending == {"waiting", "active", "delayed"}

\* A job hash: attempts is opts.attempts (0 when the producer set none), atm
\* the attempts made, stalls the recoveries, runs the attempts announced as
\* started, sound whether id and envelope pass the checks of #process.
Job == [state : {"absent"} \cup Pending \cup Settled, lock : Workers \cup {NoWorker},
        attempts : Nat, atm : Nat, stalls : Nat, runs : Nat, sound : BOOLEAN]

NoJob == [state |-> "absent", lock |-> NoWorker, attempts |-> 0, atm |-> 0,
          stalls |-> 0, runs |-> 0, sound |-> TRUE]

Announcements == {"nothing", "started", "completed", "retry", "exhausted", "terminal"}

Worker == [pc : {"idle", "executing", "settling", "closed", "down"}, closing : BOOLEAN,
           key : Keys \cup {NoKey}, attempt : Nat, maxAttempts : Nat,
           verdict : {"none", "done", "retryable", "unrecoverable"},
           said : Announcements]

Idle == [pc |-> "idle", closing |-> FALSE, key |-> NoKey, attempt |-> 0,
         maxAttempts |-> 0, verdict |-> "none", said |-> "nothing"]

Operator == [pc : {"idle", "got", "removing"}, key : Keys \cup {NoKey},
             op : {"inspect", "remove"}, atm : Nat]

AtRest == [pc |-> "idle", key |-> NoKey, op |-> "inspect", atm |-> 0]

Init ==
    /\ job = [k \in Keys |-> NoJob]
    /\ worker = [w \in Workers |-> Idle]
    /\ operator = [o \in Operators |-> AtRest]
    /\ published = 0
    /\ faults = 0

-----------------------------------------------------------------------------
(* Publication *)

\* add with a jobId is a no-op when the id exists, in whatever state.
AddedIfAbsentAlways(k, new) == [job EXCEPT ![k] = new]    \* Slip: jobId not passed on
AddedIfAbsent(k, new) ==
    IF job[k].state = "absent" THEN [job EXCEPT ![k] = new] ELSE job

\* publish: validated name, envelope and key, the default retry policy.
Publish(k) ==
    /\ published < MaxPublishes
    /\ published' = published + 1
    /\ job' = AddedIfAbsent(k, [NoJob EXCEPT !.state = "waiting", !.attempts = Attempts])
    /\ UNCHANGED <<worker, operator, faults>>

\* Another writer of the same Redis: any envelope or id, no retry policy.
PublishForeign(k) ==
    /\ published < MaxPublishes
    /\ published' = published + 1
    /\ \E sound \in BOOLEAN :
           job' = AddedIfAbsent(k, [NoJob EXCEPT !.state = "waiting", !.sound = sound])
    /\ UNCHANGED <<worker, operator, faults>>

-----------------------------------------------------------------------------
(* Workers *)

AtLeastOne(n) == IF n = 0 THEN 1 ELSE n

\* The worker fetches the next job and #process looks at it: a bad id or
\* envelope is unrecoverable before the handler is called; otherwise the
\* processor logs that the attempt started and calls the use case.
TakenBy(w, k) ==
    [pc |-> IF job[k].sound THEN "executing" ELSE "settling",
     closing |-> FALSE, key |-> k,
     attempt |-> job[k].atm + 1, maxAttempts |-> AtLeastOne(job[k].attempts),
     verdict |-> IF job[k].sound THEN "none" ELSE "unrecoverable",
     said |-> IF job[k].sound THEN "started" ELSE "nothing"]

Take(w, k) ==
    /\ worker[w].pc = "idle"
    /\ ~worker[w].closing
    /\ job[k].state = "waiting"
    /\ job' = [job EXCEPT ![k].state = "active", ![k].lock = w,
                          ![k].runs = IF job[k].sound THEN @ + 1 ELSE @]
    /\ worker' = [worker EXCEPT ![w] = TakenBy(w, k)]
    /\ UNCHANGED <<operator, published, faults>>

\* How a use case can end; "missing" is a job name the registry lacks.
Outcomes == {"done", "RetryableJobError", "TerminalJobError", "unclassified", "missing"}

\* The event JobProcessor.process logs for the outcome of an attempt.
AnnouncedOffByOne(outcome, attempt, max) ==    \* Slip: attempt <= maxAttempts
    CASE outcome = "done"              -> "completed"
      [] outcome = "RetryableJobError" -> IF attempt <= max THEN "retry" ELSE "exhausted"
      [] OTHER                         -> "terminal"
Announced(outcome, attempt, max) ==
    CASE outcome = "done"              -> "completed"
      [] outcome = "RetryableJobError" -> IF attempt < max THEN "retry" ELSE "exhausted"
      [] OTHER                         -> "terminal"

\* The error #process throws to BullMQ; an unclassified one is terminal.
Verdict(outcome) ==
    CASE outcome = "done"              -> "done"
      [] outcome = "RetryableJobError" -> "retryable"
      [] OTHER                         -> "unrecoverable"

Execute(w, outcome) ==
    /\ worker[w].pc = "executing"
    /\ worker' = [worker EXCEPT ![w].pc = "settling", ![w].verdict = Verdict(outcome),
          ![w].said = Announced(outcome, worker[w].attempt, worker[w].maxAttempts)]
    /\ UNCHANGED <<job, operator, published, faults>>

\* BullMQ counts the attempt and decides, with its own copy of the policy.
AfterAttempt(j, verdict) ==
    [j EXCEPT !.lock = NoWorker, !.atm = @ + 1,
              !.state = CASE verdict = "done" -> "completed"
                          [] verdict = "retryable" /\ j.atm + 1 < j.attempts -> "delayed"
                          [] OTHER -> "failed"]

\* A worker whose lock is gone gets an error and leaves the job alone.
HoldsLock(w, k) == job[k].state = "active" /\ job[k].lock = w

\* The worker is free again, or free to close.
FreedForgetful(w) == Idle    \* Slip: the wish to close is lost
Freed(w) == [Idle EXCEPT !.closing = worker[w].closing]

Settle(w) ==
    /\ worker[w].pc = "settling"
    /\ LET k == worker[w].key IN
           job' = IF HoldsLock(w, k)
                  THEN [job EXCEPT ![k] = AfterAttempt(@, worker[w].verdict)]
                  ELSE job
    /\ worker' = [worker EXCEPT ![w] = Freed(w)]
    /\ UNCHANGED <<operator, published, faults>>

\* The backoff of a delayed job has passed.
Promote(k) ==
    /\ job[k].state = "delayed"
    /\ job' = [job EXCEPT ![k].state = "waiting"]
    /\ UNCHANGED <<worker, operator, published, faults>>

Running(w) == worker[w].pc \notin {"closed", "down"}

\* The stalled check of any live worker: the lock of an active job ran out,
\* because its worker died or did not renew it in time.
RecoveredForever(j) ==    \* Slip: maxStalledCount left unlimited
    [j EXCEPT !.lock = NoWorker, !.stalls = @ + 1, !.state = "waiting"]
Recovered(j) ==
    [j EXCEPT !.lock = NoWorker, !.stalls = @ + 1,
              !.state = IF j.stalls + 1 > MaxStalledCount THEN "failed" ELSE "waiting"]

CanRecoverOwn(k) == \E w \in Workers : Running(w) /\ job[k].lock = w    \* Slip: own jobs only
CanRecover(k) == \E w \in Workers : Running(w)

Stall(k) ==
    /\ job[k].state = "active"
    /\ CanRecover(k)
    /\ job' = [job EXCEPT ![k] = Recovered(@)]
    /\ UNCHANGED <<worker, operator, published, faults>>

-----------------------------------------------------------------------------
(* Crash, graceful close and restart of a worker process *)

\* The locks of a dead process have no owner any more.
Crash(w) ==
    /\ Running(w)
    /\ faults < MaxFaults
    /\ faults' = faults + 1
    /\ job' = [k \in Keys |-> [job[k] EXCEPT !.lock = IF @ = w THEN NoWorker ELSE @]]
    /\ worker' = [worker EXCEPT ![w] = [Idle EXCEPT !.pc = "down"]]
    /\ UNCHANGED <<operator, published>>

\* QueueWorkerPool.close: no new job is fetched, the active one is awaited.
Close(w) ==
    /\ Running(w)
    /\ ~worker[w].closing
    /\ faults < MaxFaults
    /\ faults' = faults + 1
    /\ worker' = [worker EXCEPT ![w].closing = TRUE]
    /\ UNCHANGED <<job, operator, published>>

ReadyToClose(w) == worker[w].closing /\ worker[w].pc = "idle"

CloseDone(w) ==
    /\ ReadyToClose(w)
    /\ worker' = [worker EXCEPT ![w] = [Idle EXCEPT !.pc = "closed"]]
    /\ UNCHANGED <<job, operator, published, faults>>

Restart(w) ==
    /\ ~Running(w)
    /\ worker' = [worker EXCEPT ![w] = Idle]
    /\ UNCHANGED <<job, operator, published, faults>>

-----------------------------------------------------------------------------
(* inspect and removeSettled: one command at a time *)

\* getJob answers undefined for an absent job and both operations end there.
GetJob(o, k, op) ==
    /\ operator[o].pc = "idle"
    /\ job[k].state # "absent"
    /\ operator' = [operator EXCEPT ![o] =
                        [pc |-> "got", key |-> k, op |-> op, atm |-> job[k].atm]]
    /\ UNCHANGED <<job, worker, published, faults>>

Removable(state) == state \in Settled

\* getState: inspect answers with it, removeSettled goes on if it is settled.
GetState(o) ==
    /\ operator[o].pc = "got"
    /\ operator' = [operator EXCEPT ![o] =
           IF operator[o].op = "remove" /\ Removable(job[operator[o].key].state)
           THEN [@ EXCEPT !.pc = "removing"] ELSE AtRest]
    /\ UNCHANGED <<job, worker, published, faults>>

\* remove works by id: it fails on a locked job and takes any other.  The
\* lock of an active job runs out without an event of its own.
Remove(o) ==
    /\ operator[o].pc = "removing"
    /\ LET k == operator[o].key IN
           \E locked \in {job[k].state = "active", FALSE} :
               job' = IF locked THEN job ELSE [job EXCEPT ![k] = NoJob]
    /\ operator' = [operator EXCEPT ![o] = AtRest]
    /\ UNCHANGED <<worker, published, faults>>

-----------------------------------------------------------------------------

WorkerStep(w) ==
    \/ \E k \in Keys : Take(w, k)
    \/ \E outcome \in Outcomes : Execute(w, outcome)
    \/ Settle(w)
    \/ CloseDone(w)

OperatorStep(o) ==
    \/ \E k \in Keys, op \in {"inspect", "remove"} : GetJob(o, k, op)
    \/ GetState(o)
    \/ Remove(o)

Next ==
    \/ \E k \in Keys : Publish(k) \/ PublishForeign(k) \/ Promote(k) \/ Stall(k)
    \/ \E w \in Workers : WorkerStep(w) \/ Crash(w) \/ Close(w) \/ Restart(w)
    \/ \E o \in Operators : OperatorStep(o)

Spec == Init /\ [][Next]_vars

\* A worker that is up fetches, ends and settles its jobs (every use case is
\* required to bound its own waiting), delays pass and stalled jobs are found.
\* Nothing obliges anybody to publish, to remove or to restart a process.
Fairness ==
    /\ \A w \in Workers : WF_vars(WorkerStep(w))
    /\ \A k \in Keys : WF_vars(Promote(k)) /\ WF_vars(Stall(k))

FairSpec == Spec /\ Fairness

-----------------------------------------------------------------------------
(* Properties *)

\* Every variable has its type.
TypeOK ==
    /\ job \in [Keys -> Job]
    /\ worker \in [Workers -> Worker]
    /\ operator \in [Operators -> Operator]
    /\ published \in Nat
    /\ faults \in Nat

\* However crashes, stalls, retries and repeated publications interleave, one
\* publication is attempted at most as often as its policy allows plus once
\* per tolerated stall: the bound a use case's idempotence is up against.
RunsBounded ==
    \A k \in Keys : job[k].runs <= AtLeastOne(job[k].attempts) + MaxStalledCount

\* A pool that has closed gracefully left no job behind that still counts on
\* it: nothing of it has to stall before another worker can go on.
ClosedHoldsNoJob ==
    \A w \in Workers : worker[w].pc = "closed" => \A k \in Keys : job[k].lock # w

\* What a pending job has left of its policy: its runs are the attempts
\* counted, the stalls, and the one going on; a removed job leaves nothing.
Counted ==
    \A k \in Keys :
        /\ job[k].attempts \in {0, Attempts}
        /\ job[k].state = "absent" => job[k] = NoJob
        /\ job[k].state \in Pending =>
              /\ job[k].atm < AtLeastOne(job[k].attempts)
              /\ job[k].stalls <= MaxStalledCount
              /\ job[k].runs <= job[k].atm + job[k].stalls
                                + IF job[k].state = "active" THEN 1 ELSE 0

Busy(w) == worker[w].pc \in {"executing", "settling"}

\* A lock is on an active job, and its worker is busy with that job.
LocksAreHeld ==
    \A k \in Keys, w \in Workers : job[k].lock = w =>
        job[k].state = "active" /\ Busy(w) /\ worker[w].key = k

SaysWhatItDecided(w) ==
    CASE worker[w].verdict = "done" -> worker[w].said = "completed"
      [] worker[w].verdict = "retryable" ->
            worker[w].said = IF worker[w].attempt < worker[w].maxAttempts
                             THEN "retry" ELSE "exhausted"
      [] worker[w].verdict = "unrecoverable" -> worker[w].said \in {"nothing", "terminal"}
      [] OTHER -> FALSE

\* While a worker has the lock, its copy of the policy is the one of the
\* queue; what it announced is what its verdict and its copy say, and only an
\* attempt announced as started can end in anything but a refusal.
Informed ==
    \A w \in Workers :
        /\ Busy(w) => worker[w].key \in Keys
        /\ Busy(w) /\ HoldsLock(w, worker[w].key) =>
              /\ worker[w].attempt = job[worker[w].key].atm + 1
              /\ worker[w].maxAttempts = AtLeastOne(job[worker[w].key].attempts)
              /\ worker[w].pc = "executing" \/ worker[w].verdict # "unrecoverable" =>
                    job[worker[w].key].runs > 0
        /\ worker[w].pc = "settling" => SaysWhatItDecided(w)

\* An operator that has read a job goes on with the key it asked for.
OperatorsKnowTheirKey ==
    \A o \in Operators : operator[o].pc # "idle" => operator[o].key \in Keys

\* With one operator the state that removeSettled has read is not stale when
\* it removes: nothing but a removal takes a job out of a settled state.
OneRemover == \A o, p \in Operators : o = p

OneRemoverIsNotStale ==
    OneRemover => \A o \in Operators :
        operator[o].pc = "removing" => job[operator[o].key].state \in Settled

\* Together they are what every state of the queue satisfies, and inductive.
QueueSafe ==
    /\ TypeOK /\ RunsBounded /\ ClosedHoldsNoJob
    /\ Counted /\ LocksAreHeld /\ Informed
    /\ OperatorsKnowTheirKey /\ OneRemoverIsNotStale

\* What the processor announced is what the queue does: whenever the worker
\* that settles a job moves it, a retry was announced exactly if the job is
\* delayed, and a completion exactly if it completes.
AnnouncementHonoured ==
    [][\A w \in Workers :
           worker[w].pc = "settling" /\ worker'[w].pc = "idle" =>
               LET k == worker[w].key IN
               /\ job[k].state # "delayed" /\ job'[k].state = "delayed"
                      => worker[w].said = "retry"
               /\ job[k].state # "completed" /\ job'[k].state = "completed"
                      => worker[w].said = "completed"
               /\ job[k].state # "failed" /\ job'[k].state = "failed"
                      => worker[w].said \notin {"retry", "completed"}]_vars

\* With one operator, removeSettled removes completed and failed jobs only: a
\* job that was removed and published again since its state was read would
\* otherwise be removed although it has not run.
RemovesOnlySettled ==
    [][\A k \in Keys : job'[k].state = "absent" =>
           job[k].state \in Settled \cup {"absent"}]_vars

\* Every job that is published settles, unless no worker is left running.
EverySettles ==
    \A k \in Keys : job[k].state \in Pending ~>
        (job[k].state \notin Pending \/ \A w \in Workers : ~Running(w))

\* A graceful close ends: it waits for one job, not for those that follow.
CloseEnds == \A w \in Workers : worker[w].closing ~> ~Running(w)

\* The queue keeps the promise of an idempotent job: see JobLife.
Fate == [k \in Keys |-> IF job[k].state \in Pending THEN "pending" ELSE job[k].state]

Runs == [k \in Keys |-> job[k].runs]

Life == INSTANCE JobLife WITH fate <- Fate, runs <- Runs, Limit <- Attempts + MaxStalledCount

ImplementsJobLife == Life!Spec
=============================================================================
