----------------------------- MODULE MCProcesses -----------------------------
(***************************************************************************)
(* The processes of a deployment, one at a time: the Manager API, a        *)
(* worker, or the start of any process under its environment variables.    *)
(* The others are over from the beginning: killed while they booted, or    *)
(* running with variables that were accepted.                              *)
(***************************************************************************)
EXTENDS ApiLifecycle, Sequences

CONSTANTS QueueNames, MaxEdits

VARIABLES shell, race, signal, start, close, ready, consumer, socket, redis,
          source, target, process, started

Worker == INSTANCE WorkerShell
Deployment == INSTANCE Configuration

workerVars == <<shell, race, signal, start, close, ready, consumer, socket, redis>>
deploymentVars == <<source, target, process, started>>

\* A process that a signal reached before its handlers were installed.
WorkerKilled ==
    /\ shell = "killed" /\ race = "open" /\ signal = "none"
    /\ start = "none" /\ close = "none" /\ redis = "none"
    /\ ready = Worker!All("pending") /\ consumer = Worker!All("none")
    /\ socket = Worker!All("none")

ApiKilled ==
    /\ main = "killed" /\ listeners = FALSE /\ accepting = TRUE /\ app = "open"
    /\ request = [r \in Requests |-> "none"]
    /\ RedisInit /\ PoolInit

Deployed ==
    /\ target = "PROD" /\ process = Deployment!ManagerApi /\ started = TRUE
    /\ source = [k \in Deployment!Keys |-> Deployment!Good(k, "PROD")]

ProcessInit ==
    \/ Init /\ WorkerKilled /\ Deployed
    \/ ApiKilled /\ Worker!Init /\ Deployed
    \/ ApiKilled /\ WorkerKilled /\ Deployment!Init

ProcessNext ==
    \/ Next /\ UNCHANGED <<workerVars, deploymentVars>>
    \/ Worker!Next /\ UNCHANGED <<vars, deploymentVars>>
    \/ Deployment!Next /\ UNCHANGED <<vars, workerVars>>

ProcessSpec ==
    /\ ProcessInit /\ [][ProcessNext]_<<vars, workerVars, deploymentVars>>
    /\ Fairness /\ Worker!Fairness /\ Deployment!Fairness

-----------------------------------------------------------------------------
(* Properties: those of the modules, by the question they answer *)

\* The API closes what it opened, PostgreSQL before Redis, never uses more
\* connections than its pool may open, and leaves nothing behind.
ApiClosesInOrder ==
    /\ ApiInv
    /\ PoolClosesFirst /\ NothingLeft
    /\ PoolBounded /\ ClosedPoolIsIdle /\ ClosedForGood

\* The worker takes no connection from under a job, closes Redis last and
\* leaves no listener and no consumer behind.
WorkerClosesInOrder ==
    /\ Worker!WorkerInv
    /\ Worker!ConnectionsOutliveJobs /\ Worker!RedisClosedLast /\ Worker!NothingLeft

\* worker.ready is announced only by a pool that consumes and is not closing.
ReadyMeansConsuming == Worker!ReadyMeansConsuming

\* However the connections behave, every task of the API that waits for its
\* pool is answered, and whoever begins a shutdown, the process ends.
ApiEnds == ShutdownEnds /\ EveryTaskEnds

\* A signal, or a start that fails, ends the worker.
SignalEnds == Worker!SignalEnds

\* A process that runs was given explicit values in PROD, with two different
\* JWT secrets, and the loaders of one deployment agree on them.
ConfigurationIsSafe ==
    Deployment!ProductionIsExplicit /\ Deployment!SecretsDiffer /\ Deployment!LoadersAgree

\* Repairing what each error names gets any process running.
RepairsEnd == Deployment!RepairsEnd
=============================================================================
