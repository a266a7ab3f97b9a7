--------------------------- MODULE JobQueueProofs ---------------------------
(***************************************************************************)
(* Proofs about JobQueue, for any number of keys, workers and operators,   *)
(* any policy of attempts and any number of crashes, restarts and stalls.  *)
(***************************************************************************)
EXTENDS JobQueue, TLAPS

(* The numbers the policy is made of.                                       *)
LEMMA PolicyNumbers ==
    /\ Attempts \in Nat /\ Attempts >= 1
    /\ MaxStalledCount = 1
    /\ \A n \in Nat : AtLeastOne(n) \in Nat /\ AtLeastOne(n) >= 1 /\ AtLeastOne(n) >= n
BY JobQueueAssumption DEF MaxStalledCount, AtLeastOne

(* A publication adds a waiting job or changes nothing.                     *)
LEMMA Added ==
    ASSUME TypeOK, NEW k \in Keys, NEW new \in Job
    PROVE  /\ AddedIfAbsent(k, new) \in [Keys -> Job]
           /\ \A j \in Keys : AddedIfAbsent(k, new)[j] =
                 IF j = k /\ job[k].state = "absent" THEN new ELSE job[j]
BY DEF TypeOK, AddedIfAbsent

(* What the three functions that write a job hash give.                     *)
LEMMA AfterAttemptIs ==
    ASSUME NEW j \in Job, NEW v \in {"done", "retryable", "unrecoverable"}
    PROVE  /\ AfterAttempt(j, v) \in Job
           /\ AfterAttempt(j, v).lock = NoWorker
           /\ AfterAttempt(j, v).atm = j.atm + 1
           /\ AfterAttempt(j, v).attempts = j.attempts
           /\ AfterAttempt(j, v).stalls = j.stalls
           /\ AfterAttempt(j, v).runs = j.runs
           /\ AfterAttempt(j, v).state = "completed" <=> v = "done"
           /\ AfterAttempt(j, v).state = "delayed" <=> v = "retryable" /\ j.atm + 1 < j.attempts
           /\ AfterAttempt(j, v).state \in {"completed", "delayed", "failed"}
<1>1. j.atm + 1 \in Nat
  BY DEF Job
<1>2. AfterAttempt(j, v) \in Job
  BY <1>1 DEF AfterAttempt, Job, Pending, Settled
<1> QED BY <1>2 DEF AfterAttempt, Job

LEMMA RecoveredIs ==
    ASSUME NEW j \in Job
    PROVE  /\ Recovered(j) \in Job
           /\ Recovered(j).lock = NoWorker
           /\ Recovered(j).atm = j.atm
           /\ Recovered(j).attempts = j.attempts
           /\ Recovered(j).stalls = j.stalls + 1
           /\ Recovered(j).runs = j.runs
           /\ Recovered(j).state = "failed" <=> j.stalls + 1 > MaxStalledCount
           /\ Recovered(j).state \in {"waiting", "failed"}
<1>1. j.stalls + 1 \in Nat
  BY DEF Job
<1>2. Recovered(j) \in Job
  BY <1>1 DEF Recovered, Job, Pending, Settled
<1> QED BY <1>2 DEF Recovered, Job

-----------------------------------------------------------------------------
(* Typing: one lemma per action that computes a record.                     *)

LEMMA TypeInit == Init => TypeOK
BY DEF Init, TypeOK, NoJob, Job, Idle, Worker, Announcements, AtRest, Operator, Settled, Pending

LEMMA TypePublish ==
    ASSUME TypeOK, NEW k \in Keys, Publish(k) \/ PublishForeign(k)
    PROVE  TypeOK'
<1>1. [NoJob EXCEPT !.state = "waiting", !.attempts = Attempts] \in Job
  BY PolicyNumbers DEF NoJob, Job, Pending
<1>2. \A sound \in BOOLEAN : [NoJob EXCEPT !.state = "waiting", !.sound = sound] \in Job
  BY DEF NoJob, Job, Pending
<1>3. job' \in [Keys -> Job]
  BY <1>1, <1>2, Added DEF Publish, PublishForeign
<1>4. published' = published + 1 /\ UNCHANGED <<worker, operator, faults>>
  BY DEF Publish, PublishForeign
<1> QED BY <1>3, <1>4 DEF TypeOK

LEMMA TypeTake ==
    ASSUME TypeOK, NEW w \in Workers, NEW k \in Keys, Take(w, k)
    PROVE  TypeOK'
<1>1. /\ job[k] \in Job /\ job[k].runs + 1 \in Nat /\ job[k].atm + 1 \in Nat
      /\ AtLeastOne(job[k].attempts) \in Nat
  BY PolicyNumbers DEF TypeOK, Job
<1>2. TakenBy(w, k) \in Worker
  BY <1>1 DEF TakenBy, Worker, Announcements, Job
<1>3. job' \in [Keys -> Job]
  BY <1>1 DEF Take, TypeOK, Job, Pending
<1> QED BY <1>2, <1>3 DEF Take, TypeOK

LEMMA TypeExecute ==
    ASSUME TypeOK, NEW w \in Workers, NEW outcome \in Outcomes, Execute(w, outcome)
    PROVE  TypeOK'
<1>1. Announced(outcome, worker[w].attempt, worker[w].maxAttempts) \in Announcements
  BY DEF Announced, Announcements
<1>2. Verdict(outcome) \in {"done", "retryable", "unrecoverable"}
  BY DEF Verdict
<1> DEFINE announced == Announced(outcome, worker[w].attempt, worker[w].maxAttempts)
           new == [worker[w] EXCEPT !.pc = "settling", !.verdict = Verdict(outcome),
                                    !.said = announced]
<1>3. worker' = [worker EXCEPT ![w] = new]
  BY DEF Execute, TypeOK
<1>4. new \in Worker
  BY <1>1, <1>2 DEF TypeOK, Worker
<1> QED BY <1>3, <1>4 DEF Execute, TypeOK

LEMMA TypeSettle ==
    ASSUME TypeOK, Informed, OperatorsKnowTheirKey, NEW w \in Workers, Settle(w)
    PROVE  TypeOK'
<1>1. worker[w].key \in Keys /\ worker[w].verdict \in {"done", "retryable", "unrecoverable"}
  BY DEF Settle, Informed, Busy, TypeOK, Worker, SaysWhatItDecided
<1>2. AfterAttempt(job[worker[w].key], worker[w].verdict) \in Job
  BY <1>1, AfterAttemptIs DEF TypeOK
<1>3. job' \in [Keys -> Job]
  BY <1>1, <1>2 DEF Settle, TypeOK
<1>4. Freed(w) \in Worker
  BY DEF Freed, Idle, Worker, TypeOK, Announcements
<1> QED BY <1>3, <1>4 DEF Settle, TypeOK

(* Crash takes the locks of one worker away, whatever jobs they are on.     *)
LEMMA UnlockedIs ==
    ASSUME NEW j \in Job, NEW w \in Workers
    PROVE  LET u == [j EXCEPT !.lock = IF @ = w THEN NoWorker ELSE @]
           IN  /\ u \in Job
               /\ u.lock = IF j.lock = w THEN NoWorker ELSE j.lock
               /\ u.state = j.state /\ u.attempts = j.attempts /\ u.atm = j.atm
               /\ u.stalls = j.stalls /\ u.runs = j.runs /\ u.sound = j.sound
BY DEF Job

LEMMA TypeWorkerEvent ==
    ASSUME TypeOK, NEW w \in Workers,
           Crash(w) \/ Close(w) \/ CloseDone(w) \/ Restart(w)
    PROVE  TypeOK'
<1>1. CASE Crash(w)
  <2>1. job' \in [Keys -> Job]
    BY <1>1, UnlockedIs DEF Crash, TypeOK
  <2>2. [Idle EXCEPT !.pc = "down"] \in Worker
    BY DEF Idle, Worker, Announcements
  <2> QED BY <1>1, <2>1, <2>2 DEF Crash, TypeOK
<1>2. CASE Close(w)
  <2>1. [worker[w] EXCEPT !.closing = TRUE] \in Worker
    BY DEF TypeOK, Worker
  <2> QED BY <1>2, <2>1 DEF Close, TypeOK
<1>3. CASE CloseDone(w) \/ Restart(w)
  <2>1. [Idle EXCEPT !.pc = "closed"] \in Worker /\ Idle \in Worker
    BY DEF Idle, Worker, Announcements
  <2> QED BY <1>3, <2>1 DEF CloseDone, Restart, TypeOK
<1> QED BY <1>1, <1>2, <1>3

LEMMA TypeKeyEvent ==
    ASSUME TypeOK, NEW k \in Keys, Promote(k) \/ Stall(k)
    PROVE  TypeOK'
<1>1. CASE Promote(k)
  BY <1>1 DEF Promote, TypeOK, Job, Pending
<1>2. CASE Stall(k)
  <2>1. Recovered(job[k]) \in Job
    BY RecoveredIs DEF TypeOK
  <2> QED BY <1>2, <2>1 DEF Stall, TypeOK
<1> QED BY <1>1, <1>2

LEMMA TypeOperatorStep ==
    ASSUME TypeOK, NEW o \in Operators, OperatorStep(o)
    PROVE  TypeOK'
<1>1. ASSUME NEW k \in Keys, NEW op \in {"inspect", "remove"}, GetJob(o, k, op)
      PROVE  TypeOK'
  <2>1. job[k].atm \in Nat
    BY DEF TypeOK, Job
  <2> QED BY <1>1, <2>1 DEF GetJob, TypeOK, Operator
<1>2. CASE GetState(o)
  BY <1>2 DEF GetState, TypeOK, Operator, AtRest
<1>3. CASE Remove(o)
  <2>1. NoJob \in Job /\ AtRest \in Operator
    BY DEF NoJob, Job, AtRest, Operator
  <2> QED BY <1>3, <2>1 DEF Remove, TypeOK
<1> QED BY <1>1, <1>2, <1>3 DEF OperatorStep

-----------------------------------------------------------------------------
(* The budget of one job: Counted and RunsBounded for its hash.             *)

WithinPolicy(j) ==
    /\ j.attempts \in {0, Attempts}
    /\ j.state = "absent" => j = NoJob
    /\ j.state \in Pending =>
          /\ j.atm < AtLeastOne(j.attempts)
          /\ j.stalls <= MaxStalledCount
          /\ j.runs <= j.atm + j.stalls + IF j.state = "active" THEN 1 ELSE 0
    /\ j.runs <= AtLeastOne(j.attempts) + MaxStalledCount

LEMMA BudgetParts ==
    Counted /\ RunsBounded <=> \A k \in Keys : WithinPolicy(job[k])
BY DEF Counted, RunsBounded, WithinPolicy

LEMMA NewJobWithinPolicy ==
    ASSUME NEW j \in Job, j.state = "waiting", j.attempts \in {0, Attempts},
           j.atm = 0, j.stalls = 0, j.runs = 0
    PROVE  WithinPolicy(j)
<1>1. AtLeastOne(j.attempts) \in Nat /\ AtLeastOne(j.attempts) >= 1
  BY PolicyNumbers DEF Job
<1> QED BY <1>1, PolicyNumbers DEF WithinPolicy, Pending

LEMMA TakenWithinPolicy ==
    ASSUME NEW j \in Job, WithinPolicy(j), j.state = "waiting", NEW w \in Workers
    PROVE  LET t == [j EXCEPT !.state = "active", !.lock = w,
                              !.runs = IF j.sound THEN @ + 1 ELSE @]
           IN  t \in Job /\ WithinPolicy(t)
<1> DEFINE t == [j EXCEPT !.state = "active", !.lock = w, !.runs = IF j.sound THEN @ + 1 ELSE @]
<1>1. /\ t.state = "active" /\ t.attempts = j.attempts /\ t.atm = j.atm
      /\ t.stalls = j.stalls /\ t.runs = IF j.sound THEN j.runs + 1 ELSE j.runs
  BY DEF Job
<1>2. AtLeastOne(j.attempts) \in Nat /\ j.attempts \in Nat /\ j.runs \in Nat
      /\ j.atm \in Nat /\ j.stalls \in Nat
  BY PolicyNumbers DEF Job
<1>3. j.atm < AtLeastOne(j.attempts) /\ j.stalls <= 1 /\ j.runs <= j.atm + j.stalls
  BY <1>2, PolicyNumbers DEF WithinPolicy, Pending
<1>4. t \in Job
  <2> DEFINE more == IF j.sound THEN j.runs + 1 ELSE j.runs
  <2>1. more \in Nat
    BY <1>2
  <2>2. t = [j EXCEPT !.state = "active", !.lock = w, !.runs = more]
    BY DEF Job
  <2> HIDE DEF more, t
  <2> QED BY <2>1, <2>2 DEF Job, Pending
<1> HIDE DEF t
<1>5. (t.runs = j.runs \/ t.runs = j.runs + 1) /\ j.attempts \in {0, Attempts}
  BY <1>1 DEF WithinPolicy
<1>6. t.runs <= AtLeastOne(j.attempts) + 1 /\ t.runs <= t.atm + t.stalls + 1
  BY <1>1, <1>2, <1>3, <1>5
<1>7. WithinPolicy(t)
  BY <1>1, <1>2, <1>3, <1>5, <1>6, PolicyNumbers DEF WithinPolicy, Pending
<1> QED BY <1>4, <1>7 DEF t

LEMMA SettledWithinPolicy ==
    ASSUME NEW j \in Job, WithinPolicy(j), j.state = "active",
           NEW v \in {"done", "retryable", "unrecoverable"}
    PROVE  WithinPolicy(AfterAttempt(j, v))
<1> DEFINE a == AfterAttempt(j, v)
<1>1. j.attempts \in Nat /\ AtLeastOne(j.attempts) \in Nat /\ j.attempts <= AtLeastOne(j.attempts)
      /\ j.runs \in Nat /\ j.atm \in Nat /\ j.stalls \in Nat
  BY PolicyNumbers DEF Job
<1>2. j.stalls <= 1 /\ j.runs <= j.atm + j.stalls + 1
  BY <1>1, PolicyNumbers DEF WithinPolicy, Pending
<1>3. /\ a.atm = j.atm + 1 /\ a.attempts = j.attempts
      /\ a.stalls = j.stalls /\ a.runs = j.runs
      /\ a.state = "delayed" => j.atm + 1 < j.attempts
      /\ a.state \in {"completed", "delayed", "failed"}
  BY AfterAttemptIs
<1> HIDE DEF a
<1>4. WithinPolicy(a)
  BY <1>1, <1>2, <1>3, PolicyNumbers DEF WithinPolicy, Pending
<1> QED BY <1>4 DEF a

LEMMA RecoveredWithinPolicy ==
    ASSUME NEW j \in Job, WithinPolicy(j), j.state = "active"
    PROVE  WithinPolicy(Recovered(j))
<1> DEFINE r == Recovered(j)
<1>1. j.attempts \in Nat /\ AtLeastOne(j.attempts) \in Nat
      /\ j.runs \in Nat /\ j.atm \in Nat /\ j.stalls \in Nat
  BY PolicyNumbers DEF Job
<1>2. j.runs <= j.atm + j.stalls + 1 /\ j.atm < AtLeastOne(j.attempts)
  BY <1>1, PolicyNumbers DEF WithinPolicy, Pending
<1>3. /\ r.atm = j.atm /\ r.attempts = j.attempts /\ r.stalls = j.stalls + 1
      /\ r.runs = j.runs /\ r.state \in {"waiting", "failed"}
      /\ r.state = "failed" <=> j.stalls + 1 > MaxStalledCount
  BY RecoveredIs
<1> HIDE DEF r
<1>4. WithinPolicy(r)
  BY <1>1, <1>2, <1>3, PolicyNumbers DEF WithinPolicy, Pending
<1> QED BY <1>4 DEF r

-----------------------------------------------------------------------------
(* The parts of the invariant that a step can disturb.                      *)

InformedOf(w) ==
    /\ Busy(w) => worker[w].key \in Keys
    /\ Busy(w) /\ HoldsLock(w, worker[w].key) =>
          /\ worker[w].attempt = job[worker[w].key].atm + 1
          /\ worker[w].maxAttempts = AtLeastOne(job[worker[w].key].attempts)
          /\ worker[w].pc = "executing" \/ worker[w].verdict # "unrecoverable" =>
                job[worker[w].key].runs > 0
    /\ worker[w].pc = "settling" => SaysWhatItDecided(w)

Rest ==
    /\ \A k \in Keys : WithinPolicy(job[k])
    /\ LocksAreHeld
    /\ \A w \in Workers : InformedOf(w)
    /\ OperatorsKnowTheirKey

(* A closed worker is not busy, so LocksAreHeld leaves it no lock.          *)
LEMMA QueueSafeParts == QueueSafe <=> TypeOK /\ Rest /\ OneRemoverIsNotStale
<1>1. Informed <=> \A w \in Workers : InformedOf(w)
  BY DEF Informed, InformedOf
<1>2. LocksAreHeld => ClosedHoldsNoJob
  BY DEF LocksAreHeld, ClosedHoldsNoJob, Busy
<1> QED BY <1>1, <1>2, BudgetParts DEF QueueSafe, Rest

(* A worker that does not move stays informed if no job it has the lock of  *)
(* is given other numbers.                                                  *)
LEMMA StaysInformed ==
    ASSUME NEW w \in Workers, InformedOf(w), worker'[w] = worker[w],
           \A k \in Keys : HoldsLock(w, k)' =>
               /\ HoldsLock(w, k)
               /\ job'[k].atm = job[k].atm /\ job'[k].attempts = job[k].attempts
               /\ job[k].runs > 0 => job'[k].runs > 0
    PROVE  InformedOf(w)'
<1>1. Busy(w)' <=> Busy(w)
  BY DEF Busy
<1>2. SaysWhatItDecided(w) => SaysWhatItDecided(w)'
  BY DEF SaysWhatItDecided
<1> QED BY <1>1, <1>2 DEF InformedOf

LEMMA RestInit == Init => Rest
<1> SUFFICES ASSUME Init PROVE Rest
  OBVIOUS
<1>1. WithinPolicy(NoJob)
  BY PolicyNumbers DEF WithinPolicy, NoJob, Pending
<1>2. \A w \in Workers : ~ Busy(w) /\ worker[w].pc # "settling"
  BY DEF Init, Idle, Busy
<1>3. LocksAreHeld
  BY JobQueueAssumption DEF Init, NoJob, LocksAreHeld
<1> QED BY <1>1, <1>2, <1>3 DEF Init, Rest, InformedOf, OperatorsKnowTheirKey, AtRest

(* What add is called with: a waiting job with nothing counted.             *)
LEMMA PublishedIs ==
    ASSUME NEW k \in Keys, Publish(k) \/ PublishForeign(k)
    PROVE  \E new \in Job :
              /\ job' = AddedIfAbsent(k, new)
              /\ new.lock = NoWorker /\ new.state = "waiting" /\ new.runs = 0
              /\ WithinPolicy(new)
<1>1. CASE Publish(k)
  <2> DEFINE new == [NoJob EXCEPT !.state = "waiting", !.attempts = Attempts]
  <2>1. new \in Job /\ new.lock = NoWorker
    BY PolicyNumbers DEF NoJob, Job, Pending
  <2>2. /\ new.state = "waiting" /\ new.attempts = Attempts
        /\ new.atm = 0 /\ new.stalls = 0 /\ new.runs = 0
    BY DEF NoJob
  <2> HIDE DEF new
  <2>3. WithinPolicy(new)
    BY <2>1, <2>2, NewJobWithinPolicy
  <2> QED BY <1>1, <2>1, <2>2, <2>3 DEF Publish, new
<1>2. ASSUME NEW sound \in BOOLEAN,
             job' = AddedIfAbsent(k, [NoJob EXCEPT !.state = "waiting", !.sound = sound])
      PROVE  \E new \in Job :
                /\ job' = AddedIfAbsent(k, new)
                /\ new.lock = NoWorker /\ new.state = "waiting" /\ new.runs = 0
                /\ WithinPolicy(new)
  <2> DEFINE new == [NoJob EXCEPT !.state = "waiting", !.sound = sound]
  <2>1. new \in Job /\ new.lock = NoWorker
    BY DEF NoJob, Job, Pending
  <2>2. /\ new.state = "waiting" /\ new.attempts = 0
        /\ new.atm = 0 /\ new.stalls = 0 /\ new.runs = 0
    BY DEF NoJob
  <2> HIDE DEF new
  <2>3. WithinPolicy(new)
    BY <2>1, <2>2, NewJobWithinPolicy
  <2> QED BY <1>2, <2>1, <2>2, <2>3 DEF new
<1> QED BY <1>1, <1>2 DEF PublishForeign

(* A publication touches absent jobs only, and those have no lock.          *)
LEMMA RestPublish ==
    ASSUME TypeOK, Rest, NEW k \in Keys, Publish(k) \/ PublishForeign(k)
    PROVE  Rest'
<1>1. PICK new \in Job : /\ job' = AddedIfAbsent(k, new)
                         /\ new.lock = NoWorker /\ WithinPolicy(new)
  BY PublishedIs
<1>2. \A j \in Keys : job'[j] = IF j = k /\ job[k].state = "absent" THEN new ELSE job[j]
  BY <1>1, Added
<1>3. UNCHANGED <<worker, operator>>
  BY DEF Publish, PublishForeign
<1>4. \A j \in Keys, w \in Workers : job'[j].lock = w => job'[j] = job[j]
  BY <1>1, <1>2, JobQueueAssumption
<1>5. \A j \in Keys : WithinPolicy(job'[j])
  BY <1>1, <1>2 DEF Rest
<1>6. LocksAreHeld'
  BY <1>3, <1>4 DEF Rest, LocksAreHeld, Busy
<1>7. \A w \in Workers : InformedOf(w)'
  BY <1>3, <1>4, StaysInformed DEF Rest, HoldsLock
<1> QED BY <1>3, <1>5, <1>6, <1>7 DEF Rest, OperatorsKnowTheirKey, WithinPolicy

LEMMA RestTake ==
    ASSUME TypeOK, Rest, NEW w \in Workers, NEW k \in Keys, Take(w, k)
    PROVE  Rest'
<1> DEFINE t == [job[k] EXCEPT !.state = "active", !.lock = w,
                               !.runs = IF job[k].sound THEN @ + 1 ELSE @]
<1>1. /\ job[k] \in Job /\ job[k].state = "waiting" /\ WithinPolicy(job[k])
      /\ job[k].runs \in Nat
  BY DEF Take, TypeOK, Rest, Job
<1>2. t \in Job /\ WithinPolicy(t)
  BY <1>1, TakenWithinPolicy
<1>3. /\ t.state = "active" /\ t.lock = w /\ t.atm = job[k].atm
       /\ t.attempts = job[k].attempts
       /\ t.runs = IF job[k].sound THEN job[k].runs + 1 ELSE job[k].runs
  BY <1>1 DEF Job
<1>4. job[k].sound => t.runs > 0
  BY <1>1, <1>3
<1> HIDE DEF t
<1>5. job' = [job EXCEPT ![k] = t]
  BY DEF Take, TypeOK, t
<1>6. /\ worker' = [worker EXCEPT ![w] = TakenBy(w, k)]
      /\ UNCHANGED operator
      /\ worker[w].pc = "idle"
  BY DEF Take
<1>7. /\ job'[k] = t /\ \A j \in Keys \ {k} : job'[j] = job[j]
      /\ worker'[w] = TakenBy(w, k) /\ \A v \in Workers \ {w} : worker'[v] = worker[v]
  BY <1>5, <1>6 DEF TypeOK
<1>8. \A j \in Keys : job[j].lock # w
  BY <1>6 DEF Rest, LocksAreHeld, Busy
<1>9. \A j \in Keys : WithinPolicy(job[j])'
  BY <1>2, <1>7 DEF Rest, WithinPolicy
<1>10. LocksAreHeld'
  BY <1>3, <1>7, <1>8 DEF Rest, LocksAreHeld, Busy, TakenBy
<1>11. InformedOf(w)'
  BY <1>3, <1>4, <1>7 DEF InformedOf, TakenBy, Busy, HoldsLock, SaysWhatItDecided
<1>12. ASSUME NEW v \in Workers \ {w} PROVE InformedOf(v)'
  BY <1>3, <1>7, StaysInformed DEF Rest, HoldsLock
<1> QED BY <1>6, <1>9, <1>10, <1>11, <1>12 DEF Rest, OperatorsKnowTheirKey

(* The announcement is made from the worker's copy of the policy.           *)
LEMMA RestExecute ==
    ASSUME TypeOK, Rest, NEW w \in Workers, NEW outcome \in Outcomes, Execute(w, outcome)
    PROVE  Rest'
<1> DEFINE announced == Announced(outcome, worker[w].attempt, worker[w].maxAttempts)
<1>1. /\ worker[w].pc = "executing" /\ UNCHANGED <<job, operator>>
      /\ \A v \in Workers \ {w} : worker'[v] = worker[v]
  BY DEF Execute, TypeOK
<1>2. /\ worker'[w].pc = "settling" /\ worker'[w].verdict = Verdict(outcome)
      /\ worker'[w].said = announced
      /\ worker'[w].key = worker[w].key /\ worker'[w].attempt = worker[w].attempt
      /\ worker'[w].maxAttempts = worker[w].maxAttempts
  BY DEF Execute, TypeOK, Worker
<1>3. SaysWhatItDecided(w)'
  BY <1>2 DEF SaysWhatItDecided, Verdict, Announced, Outcomes
<1>4. InformedOf(w)'
  BY <1>1, <1>2, <1>3 DEF Rest, InformedOf, Busy, HoldsLock
<1>5. ASSUME NEW v \in Workers \ {w} PROVE InformedOf(v)'
  BY <1>1, StaysInformed DEF Rest, HoldsLock
<1>6. LocksAreHeld'
  BY <1>1, <1>2 DEF Rest, LocksAreHeld, Busy
<1> QED BY <1>1, <1>4, <1>5, <1>6 DEF Rest, OperatorsKnowTheirKey, WithinPolicy

(* A step that only takes locks away leaves the other workers informed, and *)
(* the locks that remain are held.                                          *)
LEMMA LocksTaken ==
    ASSUME TypeOK, Rest, NEW w,
           \A v \in Workers \ {w} : worker'[v] = worker[v],
           \A k \in Keys : \/ job'[k] = job[k] /\ job[k].lock # w
                          \/ job'[k].lock = NoWorker
    PROVE  LocksAreHeld' /\ \A v \in Workers \ {w} : InformedOf(v)'
<1>1. \A v \in Workers, k \in Keys : job'[k].lock = v => job'[k] = job[k] /\ v # w
  BY JobQueueAssumption
<1>2. LocksAreHeld'
  BY <1>1 DEF Rest, LocksAreHeld, Busy
<1>3. ASSUME NEW v \in Workers \ {w} PROVE InformedOf(v)'
  <2>1. \A k \in Keys : HoldsLock(v, k)' => job'[k] = job[k]
    BY <1>1 DEF HoldsLock
  <2> QED BY <2>1, StaysInformed DEF Rest, HoldsLock
<1> QED BY <1>2, <1>3

LEMMA RestSettle ==
    ASSUME TypeOK, Rest, NEW w \in Workers, Settle(w)
    PROVE  Rest'
<1> DEFINE k == worker[w].key
           after == AfterAttempt(job[k], worker[w].verdict)
<1>1. k \in Keys /\ worker[w].verdict \in {"done", "retryable", "unrecoverable"}
  BY DEF Settle, Rest, InformedOf, Busy, TypeOK, Worker, SaysWhatItDecided
<1>2. job[k] \in Job /\ WithinPolicy(job[k])
  BY <1>1 DEF TypeOK, Rest
<1>3. job[k].state = "active" => WithinPolicy(after) /\ after.lock = NoWorker
  BY <1>1, <1>2, SettledWithinPolicy, AfterAttemptIs
<1> HIDE DEF after
<1>4. job' = IF HoldsLock(w, k) THEN [job EXCEPT ![k] = after] ELSE job
  BY <1>1 DEF Settle, TypeOK, after
<1>5. /\ worker'[w] = Freed(w) /\ UNCHANGED operator
      /\ \A v \in Workers \ {w} : worker'[v] = worker[v]
  BY DEF Settle, TypeOK
<1>6. \A j \in Keys : \/ job'[j] = job[j]
                      \/ j = k /\ job[k].state = "active" /\ job'[j] = after
  BY <1>1, <1>4 DEF TypeOK, HoldsLock
<1>7. \A j \in Keys : job[j].lock = w => HoldsLock(w, k) /\ j = k
  BY DEF Rest, LocksAreHeld, HoldsLock
<1>8. \A j \in Keys : \/ job'[j] = job[j] /\ job[j].lock # w
                      \/ job'[j].lock = NoWorker
  BY <1>1, <1>3, <1>4, <1>6, <1>7 DEF TypeOK, HoldsLock
<1>9. \A j \in Keys : WithinPolicy(job[j])'
  BY <1>3, <1>6 DEF Rest, WithinPolicy
<1>10. InformedOf(w)'
  BY <1>5 DEF InformedOf, Freed, Idle, Busy
<1> QED BY <1>5, <1>8, <1>9, <1>10, LocksTaken DEF Rest, OperatorsKnowTheirKey

LEMMA RestKeyEvent ==
    ASSUME TypeOK, Rest, NEW k \in Keys, Promote(k) \/ Stall(k)
    PROVE  Rest'
<1>1. PICK new : /\ job' = [job EXCEPT ![k] = new]
                 /\ WithinPolicy(new) /\ new.lock = NoWorker
  <2>1. CASE Promote(k)
    <3> DEFINE new == [job[k] EXCEPT !.state = "waiting"]
    <3>1. /\ new.state = "waiting" /\ new.attempts = job[k].attempts /\ new.atm = job[k].atm
          /\ new.stalls = job[k].stalls /\ new.runs = job[k].runs /\ new.lock = job[k].lock
      BY DEF TypeOK, Job
    <3>2. job[k].state = "delayed" /\ job[k] \in Job /\ WithinPolicy(job[k])
      BY <2>1 DEF Promote, TypeOK, Rest
    <3> HIDE DEF new
    <3>3. WithinPolicy(new)
      BY <3>1, <3>2 DEF WithinPolicy, Pending
    <3>4. new.lock = NoWorker
      BY <3>1, <3>2 DEF Rest, LocksAreHeld, Job
    <3> QED BY <2>1, <3>3, <3>4 DEF Promote, new
  <2>2. CASE Stall(k)
    <3>1. job[k].state = "active" /\ job[k] \in Job /\ WithinPolicy(job[k])
      BY <2>2 DEF Stall, TypeOK, Rest
    <3> QED BY <2>2, <3>1, RecoveredIs, RecoveredWithinPolicy DEF Stall
  <2> QED BY <2>1, <2>2
<1>2. UNCHANGED <<worker, operator>>
  BY DEF Promote, Stall
<1>3. \A j \in Keys : job'[j] = IF j = k THEN new ELSE job[j]
  BY <1>1 DEF TypeOK
<1>4. \A j \in Keys : WithinPolicy(job[j])'
  BY <1>1, <1>3 DEF Rest, WithinPolicy
<1>5. \A j \in Keys : \/ job'[j] = job[j] /\ job[j].lock # NoWorker
                      \/ job'[j].lock = NoWorker
  BY <1>1, <1>3
<1>6. LocksAreHeld' /\ \A v \in Workers \ {NoWorker} : InformedOf(v)'
  BY <1>2, <1>5, LocksTaken
<1> QED BY <1>2, <1>4, <1>6, JobQueueAssumption DEF Rest, OperatorsKnowTheirKey

LEMMA RestWorkerEvent ==
    ASSUME TypeOK, Rest, NEW w \in Workers,
           Crash(w) \/ Close(w) \/ CloseDone(w) \/ Restart(w)
    PROVE  Rest'
<1>1. CASE Crash(w)
  <2>1. \A k \in Keys : /\ job'[k].lock = IF job[k].lock = w THEN NoWorker ELSE job[k].lock
                        /\ job[k].lock # w => job'[k] = job[k]
                        /\ WithinPolicy(job'[k])
    <3> SUFFICES ASSUME NEW k \in Keys
                 PROVE  /\ job'[k].lock = IF job[k].lock = w THEN NoWorker ELSE job[k].lock
                        /\ job[k].lock # w => job'[k] = job[k]
                        /\ WithinPolicy(job'[k])
      OBVIOUS
    <3> DEFINE u == [job[k] EXCEPT !.lock = IF @ = w THEN NoWorker ELSE @]
    <3>1. job'[k] = u /\ job[k] \in Job /\ WithinPolicy(job[k])
      BY <1>1 DEF Crash, TypeOK, Rest
    <3>2. /\ u.lock = IF job[k].lock = w THEN NoWorker ELSE job[k].lock
          /\ u.state = job[k].state /\ u.attempts = job[k].attempts
          /\ u.atm = job[k].atm /\ u.stalls = job[k].stalls /\ u.runs = job[k].runs
          /\ job[k].lock # w => u = job[k]
      BY <3>1 DEF Job
    <3>3. job[k].state = "absent" => job[k].lock # w
      BY DEF Rest, LocksAreHeld
    <3> HIDE DEF u
    <3>4. WithinPolicy(u)
      BY <3>1, <3>2, <3>3 DEF WithinPolicy
    <3> QED BY <3>1, <3>2, <3>4
  <2>2. /\ worker'[w] = [Idle EXCEPT !.pc = "down"] /\ UNCHANGED operator
        /\ \A v \in Workers \ {w} : worker'[v] = worker[v]
    BY <1>1 DEF Crash, TypeOK
  <2>3. InformedOf(w)'
    BY <2>2 DEF InformedOf, Idle, Busy
  <2> QED BY <2>1, <2>2, <2>3, LocksTaken DEF Rest, OperatorsKnowTheirKey, WithinPolicy
<1>2. CASE Close(w)
  <2>1. UNCHANGED <<job, operator>> /\ worker' = [worker EXCEPT ![w].closing = TRUE]
    BY <1>2 DEF Close
  <2>2. \A v \in Workers : /\ worker'[v].pc = worker[v].pc /\ worker'[v].key = worker[v].key
                           /\ worker'[v].attempt = worker[v].attempt
                           /\ worker'[v].maxAttempts = worker[v].maxAttempts
                           /\ worker'[v].verdict = worker[v].verdict
                           /\ worker'[v].said = worker[v].said
    BY <2>1 DEF TypeOK, Worker
  <2>3. LocksAreHeld' /\ \A v \in Workers : InformedOf(v)'
    BY <2>1, <2>2 DEF Rest, LocksAreHeld, InformedOf, Busy, HoldsLock, SaysWhatItDecided
  <2> QED BY <2>1, <2>3 DEF Rest, OperatorsKnowTheirKey, WithinPolicy
<1>3. CASE CloseDone(w) \/ Restart(w)
  <2>1. /\ UNCHANGED <<job, operator>> /\ ~ Busy(w)
        /\ worker'[w].pc \in {"closed", "idle"}
        /\ \A v \in Workers \ {w} : worker'[v] = worker[v]
    BY <1>3 DEF CloseDone, Restart, ReadyToClose, Running, Busy, Idle, TypeOK
  <2>2. \A k \in Keys : job[k].lock # w
    BY <2>1 DEF Rest, LocksAreHeld
  <2>3. InformedOf(w)'
    BY <2>1 DEF InformedOf, Busy
  <2> QED BY <2>1, <2>2, <2>3, LocksTaken DEF Rest, OperatorsKnowTheirKey, WithinPolicy
<1> QED BY <1>1, <1>2, <1>3

LEMMA RestOperatorStep ==
    ASSUME TypeOK, Rest, NEW o \in Operators, OperatorStep(o)
    PROVE  Rest'
<1>1. ASSUME NEW k \in Keys, NEW op \in {"inspect", "remove"}, GetJob(o, k, op)
      PROVE  UNCHANGED <<job, worker>> /\ OperatorsKnowTheirKey'
  BY <1>1 DEF GetJob, Rest, OperatorsKnowTheirKey, TypeOK
<1>2. GetState(o) => UNCHANGED <<job, worker>> /\ OperatorsKnowTheirKey'
  BY DEF GetState, Rest, OperatorsKnowTheirKey, AtRest, TypeOK, Operator
<1>3. CASE UNCHANGED <<job, worker>> /\ OperatorsKnowTheirKey'
  <2>1. UNCHANGED <<job, worker>>
    BY <1>3
  <2>2. (\A k \in Keys : WithinPolicy(job[k])') /\ LocksAreHeld'
    BY <2>1 DEF Rest, WithinPolicy, LocksAreHeld, Busy
  <2>3. \A v \in Workers : InformedOf(v)'
    BY <2>1, StaysInformed DEF Rest, HoldsLock
  <2> QED BY <1>3, <2>2, <2>3 DEF Rest
<1>4. CASE Remove(o)
  <2> DEFINE k == operator[o].key
  <2>1. k \in Keys /\ worker' = worker
    BY <1>4 DEF Remove, Rest, OperatorsKnowTheirKey
  <2>2. \A j \in Keys : job'[j] = job[j] \/ job'[j] = NoJob
    BY <1>4, <2>1 DEF Remove, TypeOK
  <2>3. WithinPolicy(NoJob)
    BY PolicyNumbers DEF WithinPolicy, NoJob, Pending
  <2>4. \A j \in Keys : WithinPolicy(job[j])'
    BY <2>2, <2>3 DEF Rest, WithinPolicy
  <2>5. \A j \in Keys : \/ job'[j] = job[j] /\ job[j].lock # NoWorker
                        \/ job'[j].lock = NoWorker
    BY <2>2 DEF NoJob
  <2>6. LocksAreHeld' /\ \A v \in Workers \ {NoWorker} : InformedOf(v)'
    BY <2>1, <2>5, LocksTaken
  <2>7. OperatorsKnowTheirKey'
    BY <1>4 DEF Remove, Rest, OperatorsKnowTheirKey, AtRest, TypeOK
  <2> QED BY <2>4, <2>6, <2>7, JobQueueAssumption DEF Rest
<1> QED BY <1>1, <1>2, <1>3, <1>4 DEF OperatorStep

LEMMA PartsStep == TypeOK /\ Rest /\ [Next]_vars => TypeOK' /\ Rest'
<1> SUFFICES ASSUME TypeOK, Rest, [Next]_vars
             PROVE  TypeOK' /\ Rest'
  OBVIOUS
<1>1. Informed /\ OperatorsKnowTheirKey
  BY DEF Rest, Informed, InformedOf
<1>2. ASSUME NEW k \in Keys, Publish(k) \/ PublishForeign(k)
      PROVE  TypeOK' /\ Rest'
  BY <1>2, TypePublish, RestPublish
<1>3. ASSUME NEW k \in Keys, Promote(k) \/ Stall(k)
      PROVE  TypeOK' /\ Rest'
  BY <1>3, TypeKeyEvent, RestKeyEvent
<1>4. ASSUME NEW w \in Workers, NEW k \in Keys, Take(w, k)
      PROVE  TypeOK' /\ Rest'
  BY <1>4, TypeTake, RestTake
<1>5. ASSUME NEW w \in Workers, NEW outcome \in Outcomes, Execute(w, outcome)
      PROVE  TypeOK' /\ Rest'
  BY <1>5, TypeExecute, RestExecute
<1>6. ASSUME NEW w \in Workers, Settle(w)
      PROVE  TypeOK' /\ Rest'
  BY <1>1, <1>6, TypeSettle, RestSettle
<1>7. ASSUME NEW w \in Workers, Crash(w) \/ Close(w) \/ CloseDone(w) \/ Restart(w)
      PROVE  TypeOK' /\ Rest'
  BY <1>7, TypeWorkerEvent, RestWorkerEvent
<1>8. ASSUME NEW o \in Operators, OperatorStep(o)
      PROVE  TypeOK' /\ Rest'
  BY <1>8, TypeOperatorStep, RestOperatorStep
<1>9. CASE UNCHANGED vars
  <2>1. TypeOK'
    BY <1>9 DEF vars, TypeOK
  <2>2. (\A k \in Keys : WithinPolicy(job[k])') /\ LocksAreHeld' /\ OperatorsKnowTheirKey'
    BY <1>9 DEF vars, Rest, WithinPolicy, LocksAreHeld, Busy, OperatorsKnowTheirKey
  <2>3. \A v \in Workers : InformedOf(v)'
    BY <1>9, StaysInformed DEF vars, Rest, HoldsLock
  <2> QED BY <2>1, <2>2, <2>3 DEF Rest
<1> QED
  BY <1>2, <1>3, <1>4, <1>5, <1>6, <1>7, <1>8, <1>9 DEF Next, WorkerStep

(* A step that is no removal publishes an absent job, moves a pending one,  *)
(* or leaves the state as it is.                                            *)
LEMMA StateMoves ==
    ASSUME TypeOK, Rest, Next, NEW k \in Keys, \A o \in Operators : ~ Remove(o)
    PROVE  \/ job'[k].state = job[k].state
           \/ job[k].state = "absent" /\ job'[k].state = "waiting"
           \/ job[k].state \in Pending /\ job'[k].state \in Pending \cup Settled
<1> DEFINE Moves == \/ job'[k].state = job[k].state
                    \/ job[k].state = "absent" /\ job'[k].state = "waiting"
                    \/ job[k].state \in Pending /\ job'[k].state \in Pending \cup Settled
<1>1. ASSUME NEW j \in Keys, Publish(j) \/ PublishForeign(j)
      PROVE  Moves
  <2>1. PICK new \in Job : job' = AddedIfAbsent(j, new) /\ new.state = "waiting"
    BY <1>1, PublishedIs
  <2> QED BY <2>1, Added
<1>2. ASSUME NEW j \in Keys, Promote(j)
      PROVE  Moves
  BY <1>2 DEF Promote, TypeOK, Job, Pending
<1>3. ASSUME NEW j \in Keys, Stall(j)
      PROVE  Moves
  <2>1. Recovered(job[j]).state \in {"waiting", "failed"}
    BY RecoveredIs DEF TypeOK
  <2> QED BY <1>3, <2>1 DEF Stall, TypeOK, Pending, Settled
<1>4. ASSUME NEW w \in Workers, NEW j \in Keys, Take(w, j)
      PROVE  Moves
  BY <1>4 DEF Take, TypeOK, Job, Pending
<1>5. ASSUME NEW w \in Workers, Settle(w)
      PROVE  Moves
  <2>1. worker[w].verdict \in {"done", "retryable", "unrecoverable"}
    BY <1>5 DEF Settle, Rest, InformedOf, SaysWhatItDecided, TypeOK, Worker
  <2>2. AfterAttempt(job[k], worker[w].verdict).state \in {"completed", "delayed", "failed"}
    BY <2>1, AfterAttemptIs DEF TypeOK
  <2> QED BY <1>5, <2>2 DEF Settle, HoldsLock, TypeOK, Pending, Settled
<1>6. ASSUME NEW w \in Workers, Crash(w)
      PROVE  Moves
  BY <1>6, UnlockedIs DEF Crash, TypeOK
<1> QED
  BY <1>1, <1>2, <1>3, <1>4, <1>5, <1>6
     DEF Next, WorkerStep, OperatorStep, Execute, CloseDone, Close, Restart, GetJob, GetState

LEMMA OneRemoverInit == Init => OneRemoverIsNotStale
BY DEF Init, OneRemoverIsNotStale, AtRest

LEMMA OneRemoverStep ==
    TypeOK /\ Rest /\ OneRemoverIsNotStale /\ [Next]_vars => OneRemoverIsNotStale'
<1> SUFFICES ASSUME TypeOK, Rest, OneRemoverIsNotStale, [Next]_vars, OneRemover,
                    NEW o \in Operators, operator'[o].pc = "removing"
             PROVE  job'[operator'[o].key].state \in Settled
  BY DEF OneRemoverIsNotStale
<1>1. CASE UNCHANGED vars
  BY <1>1 DEF vars, OneRemoverIsNotStale
<1>2. CASE Next /\ operator' = operator
  <2>1. operator[o].key \in Keys /\ job[operator[o].key].state \in Settled
    BY <1>2 DEF OneRemoverIsNotStale, Rest, OperatorsKnowTheirKey
  <2>2. ASSUME NEW p \in Operators, Remove(p) PROVE FALSE
    BY <1>2, <2>2 DEF Remove, AtRest, TypeOK
  <2> QED BY <1>2, <2>1, <2>2, StateMoves DEF Settled, Pending
<1>3. CASE Next /\ operator' # operator
  <2>1. PICK p \in Operators : OperatorStep(p)
    BY <1>3 DEF Next, Publish, PublishForeign, Promote, Stall, WorkerStep, Take, Execute,
                Settle, CloseDone, Crash, Close, Restart
  <2>2. p = o
    BY DEF OneRemover
  <2>3. GetState(o)
    BY <2>1, <2>2 DEF OperatorStep, GetJob, Remove, AtRest, TypeOK
  <2> QED BY <2>3 DEF GetState, Removable, AtRest, TypeOK, Operator
<1> QED BY <1>1, <1>2, <1>3

(* Safety of the queue: types, the bound on runs, closed workers that hold  *)
(* no job, and the parts that make these inductive, for any number of keys, *)
(* workers, operators, crashes and publications.                            *)
THEOREM QueueSafety == Spec => []QueueSafe
<1>1. Init => TypeOK /\ Rest /\ OneRemoverIsNotStale
  BY TypeInit, RestInit, OneRemoverInit
<1> QED BY <1>1, PartsStep, OneRemoverStep, QueueSafeParts, PTL DEF Spec

-----------------------------------------------------------------------------
(* Announcements: only Settle makes a settling worker idle, and the lock    *)
(* under which it moves the job is the one Informed speaks of.              *)

LEMMA SettleAsAnnounced ==
    ASSUME QueueSafe, NEW w \in Workers, Settle(w)
    PROVE  LET k == worker[w].key IN
           /\ job[k].state # "delayed" /\ job'[k].state = "delayed"
                  => worker[w].said = "retry"
           /\ job[k].state # "completed" /\ job'[k].state = "completed"
                  => worker[w].said = "completed"
           /\ job[k].state # "failed" /\ job'[k].state = "failed"
                  => worker[w].said \notin {"retry", "completed"}
<1> DEFINE k == worker[w].key
           v == worker[w].verdict
<1>1. /\ worker[w].pc = "settling" /\ k \in Keys /\ SaysWhatItDecided(w)
      /\ HoldsLock(w, k) => /\ worker[w].attempt = job[k].atm + 1
                            /\ worker[w].maxAttempts = AtLeastOne(job[k].attempts)
  BY DEF Settle, QueueSafe, Informed, Busy
<1>2. v \in {"done", "retryable", "unrecoverable"} /\ job[k] \in Job
  BY <1>1 DEF SaysWhatItDecided, QueueSafe, TypeOK, Worker
<1>3. CASE ~ HoldsLock(w, k)
  BY <1>3 DEF Settle
<1>4. CASE HoldsLock(w, k)
  <2> DEFINE after == AfterAttempt(job[k], v)
  <2>1. /\ after.state = "completed" <=> v = "done"
        /\ after.state = "delayed" <=> v = "retryable" /\ job[k].atm + 1 < job[k].attempts
        /\ after.state \in {"completed", "delayed", "failed"}
    BY <1>2, AfterAttemptIs
  <2>2. job'[k] = after
    BY <1>1, <1>4 DEF Settle, QueueSafe, TypeOK
  <2> HIDE DEF after
  <2>3. v = "retryable" =>
           (worker[w].said = "retry" <=> job[k].atm + 1 < AtLeastOne(job[k].attempts))
    BY <1>1, <1>4 DEF SaysWhatItDecided
  <2>4. job[k].attempts \in Nat /\ job[k].atm \in Nat
        /\ (job[k].atm + 1 < AtLeastOne(job[k].attempts) <=>
               job[k].atm + 1 < job[k].attempts)
    BY <1>2 DEF Job, AtLeastOne
  <2>5. /\ v = "done" => worker[w].said = "completed"
        /\ v = "retryable" => worker[w].said \in {"retry", "exhausted"}
        /\ v = "unrecoverable" => worker[w].said \in {"nothing", "terminal"}
    BY <1>1 DEF SaysWhatItDecided
  <2> QED BY <1>2, <2>1, <2>2, <2>3, <2>4, <2>5
<1> QED BY <1>3, <1>4

LEMMA OnlySettleFrees ==
    ASSUME QueueSafe, Next, NEW w \in Workers,
           worker[w].pc = "settling", worker'[w].pc = "idle"
    PROVE  Settle(w)
<1>1. worker \in [Workers -> Worker]
  BY DEF QueueSafe, TypeOK
<1>2. UNCHANGED worker \/ \E v \in Workers : WorkerStep(v) \/ Crash(v) \/ Close(v) \/ Restart(v)
  BY DEF Next, Publish, PublishForeign, Promote, Stall, OperatorStep, GetJob, GetState, Remove
<1>3. PICK v \in Workers : WorkerStep(v) \/ Crash(v) \/ Close(v) \/ Restart(v)
  BY <1>2
<1>4. v = w
  BY <1>1, <1>3 DEF WorkerStep, Take, Execute, Settle, CloseDone, Crash, Close, Restart
<1>5. ~ Crash(w) /\ ~ Close(w)
  BY <1>1 DEF Crash, Close, Idle, Worker
<1>6. ~ Restart(w) /\ ~ CloseDone(w)
  BY DEF Restart, CloseDone, ReadyToClose, Running
<1> QED BY <1>3, <1>4, <1>5, <1>6 DEF WorkerStep, Take, Execute

(* What the processor announced is what the queue does, whatever takes the  *)
(* lock away in between.                                                    *)
THEOREM AnnouncementsHonoured == Spec => AnnouncementHonoured
<1>1. QueueSafe /\ [Next]_vars =>
         [\A w \in Workers :
             worker[w].pc = "settling" /\ worker'[w].pc = "idle" =>
                 LET k == worker[w].key IN
                 /\ job[k].state # "delayed" /\ job'[k].state = "delayed"
                        => worker[w].said = "retry"
                 /\ job[k].state # "completed" /\ job'[k].state = "completed"
                        => worker[w].said = "completed"
                 /\ job[k].state # "failed" /\ job'[k].state = "failed"
                        => worker[w].said \notin {"retry", "completed"}]_vars
  BY OnlySettleFrees, SettleAsAnnounced
<1> QED BY <1>1, QueueSafety, PTL DEF Spec, AnnouncementHonoured

(* With one operator, removeSettled removes settled jobs only, whatever is  *)
(* published, settled or stalled between its commands.                      *)
THEOREM OneRemoverRemovesSettled ==
    ASSUME OneRemover
    PROVE  Spec => RemovesOnlySettled
<1>1. ASSUME QueueSafe, Next, NEW k \in Keys, job'[k].state = "absent"
      PROVE  job[k].state \in Settled \cup {"absent"}
  <2>1. TypeOK /\ Rest /\ OneRemoverIsNotStale
    BY <1>1, QueueSafeParts
  <2>2. ASSUME NEW o \in Operators, Remove(o)
        PROVE  job[k].state \in Settled \cup {"absent"}
    <3>1. operator[o].key = k => job[k].state \in Settled
      BY <2>1, <2>2 DEF Remove, OneRemoverIsNotStale
    <3>2. operator[o].key # k => job'[k] = job[k]
      BY <2>1, <2>2 DEF Remove, TypeOK
    <3> QED BY <1>1, <3>1, <3>2
  <2>3. CASE \A o \in Operators : ~ Remove(o)
    BY <1>1, <2>1, <2>3, StateMoves DEF Settled, Pending
  <2> QED BY <2>2, <2>3
<1>2. QueueSafe /\ [Next]_vars =>
         [\A k \in Keys : job'[k].state = "absent" =>
             job[k].state \in Settled \cup {"absent"}]_vars
  BY <1>1
<1> QED BY <1>2, QueueSafety, PTL DEF Spec, RemovesOnlySettled

-----------------------------------------------------------------------------
(* Refinement: without workers, locks and commands a job is its fate and    *)
(* its runs, as JobLife has it.                                             *)

FateOf(j) == IF j.state \in Pending THEN "pending" ELSE j.state

LifeVars == <<Fate, Runs>>

(* A step that writes one hash changes the fate and the runs of one key.    *)
LEMMA OneKeyMoves ==
    ASSUME TypeOK, NEW k \in Keys, NEW j, job' = [job EXCEPT ![k] = j]
    PROVE  /\ Fate[k] = FateOf(job[k]) /\ Runs[k] = job[k].runs
           /\ Fate' = [Fate EXCEPT ![k] = FateOf(j)]
           /\ Runs' = [Runs EXCEPT ![k] = j.runs]
           /\ FateOf(j) = FateOf(job[k]) => Fate' = Fate
           /\ j.runs = job[k].runs => Runs' = Runs
<1>1. job'[k] = j /\ \A x \in Keys \ {k} : job'[x] = job[x]
  BY DEF TypeOK
<1>2. /\ Fate = [x \in Keys |-> FateOf(job[x])] /\ Fate' = [x \in Keys |-> FateOf(job'[x])]
      /\ Runs = [x \in Keys |-> job[x].runs] /\ Runs' = [x \in Keys |-> job'[x].runs]
  BY DEF Fate, FateOf, Runs
<1>3. /\ Fate[k] = FateOf(job[k]) /\ Fate' = [Fate EXCEPT ![k] = FateOf(j)]
      /\ FateOf(j) = FateOf(job[k]) => Fate' = Fate
  BY <1>1, <1>2
<1>4. /\ Runs[k] = job[k].runs /\ Runs' = [Runs EXCEPT ![k] = j.runs]
      /\ j.runs = job[k].runs => Runs' = Runs
  BY <1>1, <1>2
<1> QED BY <1>3, <1>4

LEMMA SameLife ==
    ASSUME TypeOK, NEW k \in Keys, NEW j, job' = [job EXCEPT ![k] = j],
           FateOf(j) = FateOf(job[k]), j.runs = job[k].runs
    PROVE  UNCHANGED LifeVars
<1>1. Fate' = Fate /\ Runs' = Runs
  BY OneKeyMoves
<1> QED BY <1>1 DEF LifeVars

LEMMA PublishIsLife ==
    ASSUME TypeOK, Rest, NEW k \in Keys, Publish(k) \/ PublishForeign(k)
    PROVE  Life!Publish(k) \/ UNCHANGED LifeVars
<1>1. PICK new \in Job : /\ job' = AddedIfAbsent(k, new)
                         /\ new.state = "waiting" /\ new.runs = 0
  BY PublishedIs
<1>2. CASE job[k].state # "absent"
  BY <1>1, <1>2 DEF AddedIfAbsent, LifeVars, Fate, Runs
<1>3. CASE job[k].state = "absent"
  <2>1. job' = [job EXCEPT ![k] = new]
    BY <1>1, <1>3 DEF AddedIfAbsent
  <2>2. job[k] = NoJob
    BY <1>3 DEF Rest, WithinPolicy
  <2>3. FateOf(job[k]) = "absent" /\ FateOf(new) = "pending" /\ job[k].runs = 0
    BY <1>1, <2>2 DEF FateOf, NoJob, Pending
  <2>4. /\ Fate[k] = FateOf(job[k]) /\ Fate' = [Fate EXCEPT ![k] = FateOf(new)]
        /\ new.runs = job[k].runs => Runs' = Runs
    BY <2>1, OneKeyMoves
  <2> QED BY <1>1, <2>3, <2>4 DEF Life!Publish
<1> QED BY <1>2, <1>3

(* Taking a sound job is an attempt, and the policy still has one left.     *)
LEMMA TakeIsLife ==
    ASSUME TypeOK, Rest, NEW w \in Workers, NEW k \in Keys, Take(w, k)
    PROVE  Life!Attempt(k) \/ UNCHANGED LifeVars
<1> DEFINE runs == IF job[k].sound THEN job[k].runs + 1 ELSE job[k].runs
           t == [job[k] EXCEPT !.state = "active", !.lock = w, !.runs = runs]
<1>1. job[k] \in Job /\ job[k].state = "waiting" /\ WithinPolicy(job[k])
  BY DEF Take, TypeOK, Rest
<1>2. t.state = "active" /\ t.runs = runs
  BY <1>1 DEF Job
<1>3. job' = [job EXCEPT ![k] = t]
  BY DEF Take, TypeOK
<1> HIDE DEF t
<1>4. FateOf(job[k]) = "pending" /\ FateOf(t) = "pending"
  BY <1>1, <1>2 DEF FateOf, Pending
<1>5. CASE ~ job[k].sound
  BY <1>2, <1>3, <1>4, <1>5, SameLife
<1>6. CASE job[k].sound
  <2>1. /\ AtLeastOne(job[k].attempts) \in Nat /\ AtLeastOne(job[k].attempts) <= Attempts
        /\ job[k].runs \in Nat /\ job[k].atm \in Nat /\ job[k].stalls \in Nat
    BY <1>1, PolicyNumbers DEF Job, WithinPolicy, AtLeastOne
  <2>2. job[k].runs < Attempts + MaxStalledCount
    BY <1>1, <2>1, PolicyNumbers DEF WithinPolicy, Pending
  <2>3. Fate[k] = FateOf(job[k]) /\ Runs[k] = job[k].runs /\ Fate' = Fate
        /\ Runs' = [Runs EXCEPT ![k] = t.runs]
    BY <1>3, <1>4, OneKeyMoves
  <2>4. t.runs = Runs[k] + 1
    BY <1>2, <1>6, <2>3
  <2> QED BY <1>4, <2>2, <2>3, <2>4 DEF Life!Attempt
<1> QED BY <1>5, <1>6

LEMMA SettleIsLife ==
    ASSUME TypeOK, Rest, NEW w \in Workers, Settle(w)
    PROVE  \/ \E k \in Keys : Life!Complete(k) \/ Life!Fail(k)
           \/ UNCHANGED LifeVars
<1> DEFINE k == worker[w].key
           v == worker[w].verdict
           after == AfterAttempt(job[k], v)
<1>1. k \in Keys /\ v \in {"done", "retryable", "unrecoverable"} /\ job[k] \in Job
  BY DEF Settle, Rest, InformedOf, Busy, TypeOK, Worker, SaysWhatItDecided
<1>2. /\ after.runs = job[k].runs
      /\ after.state = "completed" => v = "done"
      /\ after.state \in {"completed", "delayed", "failed"}
  BY <1>1, AfterAttemptIs
<1> HIDE DEF after
<1>3. CASE ~ HoldsLock(w, k)
  BY <1>3 DEF Settle, LifeVars, Fate, Runs
<1>4. CASE HoldsLock(w, k)
  <2>1. job' = [job EXCEPT ![k] = after]
    BY <1>1, <1>4 DEF Settle, TypeOK, after
  <2>2. FateOf(job[k]) = "pending"
    BY <1>4 DEF HoldsLock, FateOf, Pending
  <2>3. v = "done" => job[k].runs > 0
    BY <1>1, <1>4 DEF Settle, Rest, InformedOf, Busy
  <2>4. Fate[k] = "pending" /\ Runs[k] = job[k].runs /\ Runs' = Runs
        /\ Fate' = [Fate EXCEPT ![k] = FateOf(after)]
    BY <1>1, <1>2, <2>1, <2>2, OneKeyMoves
  <2>5. CASE after.state = "delayed"
    BY <1>1, <1>2, <2>1, <2>2, <2>5, SameLife DEF FateOf, Pending
  <2>6. CASE after.state = "completed"
    BY <1>1, <1>2, <2>3, <2>4, <2>6 DEF Life!Complete, FateOf, Pending
  <2>7. CASE after.state = "failed"
    BY <1>1, <2>4, <2>7 DEF Life!Fail, FateOf, Pending
  <2> QED BY <1>2, <2>5, <2>6, <2>7
<1> QED BY <1>3, <1>4

LEMMA KeyEventIsLife ==
    ASSUME TypeOK, Rest, NEW k \in Keys, Promote(k) \/ Stall(k)
    PROVE  Life!Fail(k) \/ UNCHANGED LifeVars
<1>1. CASE Promote(k)
  <2> DEFINE new == [job[k] EXCEPT !.state = "waiting"]
  <2>1. new.state = "waiting" /\ new.runs = job[k].runs
    BY DEF TypeOK, Job
  <2>2. job' = [job EXCEPT ![k] = new]
    BY <1>1 DEF Promote, TypeOK
  <2> HIDE DEF new
  <2>3. FateOf(new) = FateOf(job[k])
    BY <1>1, <2>1 DEF Promote, FateOf, Pending
  <2> QED BY <2>1, <2>2, <2>3, SameLife
<1>2. CASE Stall(k)
  <2>1. /\ job' = [job EXCEPT ![k] = Recovered(job[k])]
        /\ Recovered(job[k]).state \in {"waiting", "failed"}
        /\ Recovered(job[k]).runs = job[k].runs
    BY <1>2, RecoveredIs DEF Stall, TypeOK
  <2>2. FateOf(job[k]) = "pending"
    BY <1>2 DEF Stall, FateOf, Pending
  <2>3. CASE Recovered(job[k]).state = "waiting"
    BY <2>1, <2>2, <2>3, SameLife DEF FateOf, Pending
  <2>4. CASE Recovered(job[k]).state = "failed"
    <3>1. FateOf(Recovered(job[k])) = "failed"
      BY <2>4 DEF FateOf, Pending
    <3>2. Fate[k] = FateOf(job[k]) /\ Runs' = Runs
          /\ Fate' = [Fate EXCEPT ![k] = FateOf(Recovered(job[k]))]
      BY <2>1, OneKeyMoves
    <3> QED BY <2>2, <3>1, <3>2 DEF Life!Fail
  <2> QED BY <2>1, <2>3, <2>4
<1> QED BY <1>1, <1>2

LEMMA CrashIsNoLife ==
    ASSUME TypeOK, NEW w \in Workers, Crash(w)
    PROVE  UNCHANGED LifeVars
<1>1. \A k \in Keys : job'[k].state = job[k].state /\ job'[k].runs = job[k].runs
  BY UnlockedIs DEF Crash, TypeOK
<1> QED BY <1>1 DEF LifeVars, Fate, Runs

LEMMA RemoveIsLife ==
    ASSUME TypeOK, Rest, OneRemover, OneRemoverIsNotStale, NEW o \in Operators, Remove(o)
    PROVE  \E k \in Keys : Life!Discard(k)
<1> DEFINE k == operator[o].key
<1>1. k \in Keys /\ job[k].state \in Settled
  BY DEF Remove, Rest, OperatorsKnowTheirKey, OneRemoverIsNotStale
<1>2. job' = [job EXCEPT ![k] = NoJob]
  BY <1>1 DEF Remove, Settled
<1>3. FateOf(job[k]) \in {"completed", "failed"} /\ FateOf(NoJob) = "absent" /\ NoJob.runs = 0
  BY <1>1 DEF FateOf, Settled, Pending, NoJob
<1>4. Fate[k] = FateOf(job[k]) /\ Fate' = [Fate EXCEPT ![k] = FateOf(NoJob)]
      /\ Runs' = [Runs EXCEPT ![k] = NoJob.runs]
  BY <1>1, <1>2, OneKeyMoves
<1> QED BY <1>1, <1>3, <1>4 DEF Life!Discard

LEMMA LifeInit == Init => Life!Init
BY DEF Init, Life!Init, Fate, Runs, NoJob, Pending

LEMMA LifeStep ==
    ASSUME OneRemover
    PROVE  QueueSafe /\ [Next]_vars => [Life!Next]_LifeVars
<1> SUFFICES ASSUME QueueSafe, [Next]_vars
             PROVE  [Life!Next]_LifeVars
  OBVIOUS
<1>1. TypeOK /\ Rest /\ OneRemoverIsNotStale
  BY QueueSafeParts
<1>2. ASSUME UNCHANGED job PROVE UNCHANGED LifeVars
  BY <1>2 DEF LifeVars, Fate, Runs
<1>3. ASSUME NEW k \in Keys, Publish(k) \/ PublishForeign(k) \/ Promote(k) \/ Stall(k)
      PROVE  [Life!Next]_LifeVars
  BY <1>1, <1>3, PublishIsLife, KeyEventIsLife DEF Life!Next
<1>4. ASSUME NEW w \in Workers, WorkerStep(w)
      PROVE  [Life!Next]_LifeVars
  <2>1. ASSUME NEW k \in Keys, Take(w, k) PROVE [Life!Next]_LifeVars
    BY <1>1, <2>1, TakeIsLife DEF Life!Next
  <2>2. CASE Settle(w)
    BY <1>1, <2>2, SettleIsLife DEF Life!Next
  <2> QED BY <1>2, <1>4, <2>1, <2>2 DEF WorkerStep, Execute, CloseDone
<1>5. ASSUME NEW w \in Workers, Crash(w) \/ Close(w) \/ Restart(w)
      PROVE  UNCHANGED LifeVars
  BY <1>1, <1>2, <1>5, CrashIsNoLife DEF Close, Restart
<1>6. ASSUME NEW o \in Operators, OperatorStep(o)
      PROVE  [Life!Next]_LifeVars
  BY <1>1, <1>2, <1>6, RemoveIsLife DEF OperatorStep, GetJob, GetState, Life!Next
<1>7. CASE UNCHANGED vars
  BY <1>2, <1>7 DEF vars
<1> QED BY <1>3, <1>4, <1>5, <1>6, <1>7 DEF Next

(* The refinement: with one operator, whatever workers crash, stall, close  *)
(* and restart, a job id lives one bounded life at a time.                  *)
THEOREM LifeRefinement ==
    ASSUME OneRemover
    PROVE  Spec => ImplementsJobLife
<1>1. QueueSafe /\ [Next]_vars => [Life!Next]_(Life!lifeVars)
  BY LifeStep DEF LifeVars, Life!lifeVars
<1> QED BY <1>1, LifeInit, QueueSafety, PTL DEF Spec, ImplementsJobLife, Life!Spec
=============================================================================
