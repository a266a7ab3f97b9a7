--------------------------- MODULE ProcessesProofs ---------------------------
(***************************************************************************)
(* Proofs about the processes of a deployment side by side: the worker     *)
(* shell by itself, with any number of queues, then the API, the worker    *)
(* and the variables they start from as one specification.                 *)
(***************************************************************************)
EXTENDS MCProcesses, ApiLifecycleProofs

-----------------------------------------------------------------------------
(* The worker                                                               *)

LEMMA WorkerInvInit == Worker!Init => Worker!WorkerInv
BY DEF Worker!Init, Worker!All, Worker!WorkerInv, Worker!TypeOK, Worker!Begun,
       Worker!ReleasedAfterClose, Worker!RedisClosedLast, Worker!PoolClosed,
       Worker!AllReady, Worker!Over

(* One consumer connects, is refused, works or is closed.                   *)
LEMMA WorkerInvConsumer ==
    ASSUME Worker!WorkerInv, NEW q \in QueueNames, Worker!ConsumerStep(q)
    PROVE  Worker!WorkerInv'
<1> USE DEF Worker!WorkerInv
<1>1. UNCHANGED <<shell, race, signal, start, close, socket, redis>>
  BY DEF Worker!ConsumerStep, Worker!Connect, Worker!Refuse, Worker!BeginJob,
         Worker!EndJob, Worker!CloseConsumer
<1>2. Worker!TypeOK'
  BY <1>1 DEF Worker!TypeOK, Worker!ConsumerStep, Worker!Connect, Worker!Refuse,
              Worker!BeginJob, Worker!EndJob, Worker!CloseConsumer
<1>3. \A p \in QueueNames : ready[p] = "yes" => ready'[p] = "yes"
  BY DEF Worker!TypeOK, Worker!ConsumerStep, Worker!Connect, Worker!Refuse,
         Worker!BeginJob, Worker!EndJob, Worker!CloseConsumer
<1>4. \A p \in QueueNames : /\ consumer[p] = "closed" => consumer'[p] = "closed"
                            /\ consumer[p] = "broken" => consumer'[p] = "broken"
  BY DEF Worker!TypeOK, Worker!ConsumerStep, Worker!Connect, Worker!Refuse,
         Worker!BeginJob, Worker!EndJob, Worker!CloseConsumer
<1>5. Worker!Begun'
  BY <1>1, <1>3 DEF Worker!Begun, Worker!AllReady, Worker!PoolClosed
<1>6. Worker!ReleasedAfterClose' /\ Worker!RedisClosedLast'
  BY <1>1, <1>4
     DEF Worker!ReleasedAfterClose, Worker!RedisClosedLast, Worker!AllClosed,
         Worker!PoolClosed, Worker!All
<1> QED BY <1>2, <1>5, <1>6

(* The shell, the pool and the signals.                                     *)
LEMMA WorkerInvShell ==
    ASSUME Worker!WorkerInv,
           Worker!ShellStep \/ Worker!PoolStep \/ Worker!ReceiveSignal
    PROVE  Worker!WorkerInv'
<1> USE DEF Worker!WorkerInv, Worker!TypeOK, Worker!Begun, Worker!ReleasedAfterClose,
            Worker!RedisClosedLast, Worker!PoolClosed, Worker!All, Worker!Over,
            Worker!poolVars
<1>1. CASE Worker!Boot
  BY <1>1 DEF Worker!Boot
<1>2. CASE Worker!AnnounceReady
  BY <1>2 DEF Worker!AnnounceReady, Worker!AllReady, Worker!AllClosed
<1>3. CASE Worker!BeginClose
  BY <1>3 DEF Worker!BeginClose, Worker!Cancelled, Worker!CloseRequested,
              Worker!AllReady, Worker!AllClosed
<1>4. CASE Worker!Finish
  BY <1>4 DEF Worker!Finish, Worker!AllReady, Worker!AllClosed
<1>5. CASE Worker!StartReady
  BY <1>5 DEF Worker!StartReady, Worker!AllReady, Worker!AllClosed, Worker!Raced,
              Worker!Alive
<1>6. CASE Worker!StartFails
  BY <1>6 DEF Worker!StartFails, Worker!CloseRequested, Worker!AllClosed,
              Worker!AllReady, Worker!Alive
<1>7. CASE Worker!StartRejects
  BY <1>7 DEF Worker!StartRejects, Worker!Raced, Worker!AllClosed, Worker!AllReady,
              Worker!Alive
<1>8. CASE Worker!ConsumersClosed
  BY <1>8 DEF Worker!ConsumersClosed, Worker!AllClosed, Worker!AllReady, Worker!Alive
<1>9. CASE Worker!ReleaseConnections
  BY <1>9 DEF Worker!ReleaseConnections, Worker!AllClosed, Worker!AllReady, Worker!Alive
<1>10. CASE Worker!ReceiveSignal
  BY <1>10 DEF Worker!ReceiveSignal, Worker!Raced, Worker!AllClosed, Worker!AllReady
<1> QED
  BY <1>1, <1>2, <1>3, <1>4, <1>5, <1>6, <1>7, <1>8, <1>9, <1>10
     DEF Worker!ShellStep, Worker!PoolStep

LEMMA WorkerInvStep == Worker!WorkerInv /\ [Worker!Next]_workerVars => Worker!WorkerInv'
<1> SUFFICES ASSUME Worker!WorkerInv, [Worker!Next]_workerVars
             PROVE  Worker!WorkerInv'
  OBVIOUS
<1>1. CASE UNCHANGED workerVars
  BY <1>1 DEF workerVars, Worker!WorkerInv, Worker!TypeOK, Worker!Begun,
              Worker!ReleasedAfterClose, Worker!RedisClosedLast, Worker!PoolClosed,
              Worker!AllReady, Worker!AllClosed
<1> QED BY <1>1, WorkerInvConsumer, WorkerInvShell DEF Worker!Next

LEMMA WorkerProperties ==
    Worker!WorkerInv =>
        /\ Worker!ConnectionsOutliveJobs /\ Worker!RedisClosedLast /\ Worker!NothingLeft
BY DEF Worker!WorkerInv, Worker!TypeOK, Worker!Begun, Worker!ReleasedAfterClose,
       Worker!RedisClosedLast, Worker!ConnectionsOutliveJobs, Worker!NothingLeft,
       Worker!PoolClosed, Worker!AllClosed

(* What is announced as ready consumes every queue and is not closing.      *)
LEMMA ServingStep ==
    ASSUME Worker!WorkerInv, [Worker!Next]_workerVars,
           shell # "serving", shell' = "serving"
    PROVE  close = "none" /\ \A q \in QueueNames : ready[q] = "yes" /\ socket[q] = "open"
<1>1. Worker!AnnounceReady
  BY DEF workerVars, Worker!Next, Worker!ShellStep, Worker!PoolStep, Worker!ConsumerStep,
         Worker!Boot, Worker!BeginClose, Worker!Finish, Worker!StartReady,
         Worker!StartFails, Worker!StartRejects, Worker!ConsumersClosed,
         Worker!ReleaseConnections, Worker!ReceiveSignal, Worker!Connect, Worker!Refuse,
         Worker!BeginJob, Worker!EndJob, Worker!CloseConsumer
<1> QED
  BY <1>1 DEF Worker!AnnounceReady, Worker!WorkerInv, Worker!TypeOK, Worker!Begun,
              Worker!ReleasedAfterClose, Worker!PoolClosed, Worker!AllReady, Worker!Over

-----------------------------------------------------------------------------
(* The variables a process starts from                                      *)

(* A loader reads few keys, each of them known; the environment comes first. *)
LEMMA LoaderShape ==
    ASSUME NEW loader \in Deployment!Loaders
    PROVE  /\ loader \in Seq(Deployment!Keys)
           /\ Len(loader) \in 2 .. 9
           /\ DOMAIN loader = 1 .. Len(loader)
<1> USE DEF Deployment!Keys, Deployment!KindOf
<1>1. CASE loader = Deployment!ManagerApi
  BY <1>1 DEF Deployment!ManagerApi
<1>2. CASE loader = Deployment!Worker
  BY <1>2 DEF Deployment!Worker
<1>3. CASE loader = Deployment!Web
  BY <1>3 DEF Deployment!Web
<1>4. CASE loader = Deployment!Mobile
  BY <1>4 DEF Deployment!Mobile
<1>5. CASE loader = Deployment!Database
  BY <1>5 DEF Deployment!Database
<1>6. CASE loader = Deployment!Redis
  BY <1>6 DEF Deployment!Redis
<1>7. CASE loader = Deployment!Jwt
  BY <1>7 DEF Deployment!Jwt
<1>8. CASE loader = Deployment!Encryption
  BY <1>8 DEF Deployment!Encryption
<1>9. CASE loader = Deployment!S3
  BY <1>9 DEF Deployment!S3
<1>10. CASE loader = Deployment!Smtp
  BY <1>10 DEF Deployment!Smtp
<1> QED
  BY <1>1, <1>2, <1>3, <1>4, <1>5, <1>6, <1>7, <1>8, <1>9, <1>10 DEF Deployment!Loaders

(* A non-empty set of the positions of a loader has a first one.            *)
LEMMA FirstPosition ==
    ASSUME NEW I \in SUBSET (1 .. 9), I # {}
    PROVE  Deployment!Min(I) \in I
<1>1. \E x \in I : \A y \in I : x <= y
  <2> SUFFICES ASSUME \A x \in I : \E y \in I : y < x
               PROVE  FALSE
    OBVIOUS
  <2>1. 1 \notin I
    OBVIOUS
  <2>2. 2 \notin I
    BY <2>1
  <2>3. 3 \notin I
    BY <2>1, <2>2
  <2>4. 4 \notin I
    BY <2>1, <2>2, <2>3
  <2>5. 5 \notin I
    BY <2>1, <2>2, <2>3, <2>4
  <2>6. 6 \notin I
    BY <2>1, <2>2, <2>3, <2>4, <2>5
  <2>7. 7 \notin I
    BY <2>1, <2>2, <2>3, <2>4, <2>5, <2>6
  <2>8. 8 \notin I
    BY <2>1, <2>2, <2>3, <2>4, <2>5, <2>6, <2>7
  <2>9. 9 \notin I
    BY <2>1, <2>2, <2>3, <2>4, <2>5, <2>6, <2>7, <2>8
  <2>10. PICK n \in I : TRUE
    OBVIOUS
  <2>11. n \in 1 .. 9 /\ n \in I
    BY <2>10
  <2>12. n = 1 \/ n = 2 \/ n = 3 \/ n = 4 \/ n = 5 \/ n = 6 \/ n = 7 \/ n = 8 \/ n = 9
    BY <2>11
  <2> HIDE <2>10
  <2> QED BY <2>1, <2>2, <2>3, <2>4, <2>5, <2>6, <2>7, <2>8, <2>9, <2>11, <2>12
<1> QED BY <1>1 DEF Deployment!Min

(* No key is refused exactly if every key passes its parser.                *)
LEMMA NoneRefused ==
    ASSUME NEW loader \in Deployment!Loaders
    PROVE  Deployment!FirstRefused(loader) = 0 <=>
              \A k \in Deployment!Range(loader) : Deployment!Outcome(loader, k) = "ok"
<1> DEFINE I == {i \in 1 .. Len(loader) : Deployment!Outcome(loader, loader[i]) # "ok"}
<1>1. Deployment!FirstRefused(loader) = IF I # {} THEN Deployment!Min(I) ELSE 0
  BY DEF Deployment!FirstRefused, Deployment!SelectInSeq
<1>2. I \in SUBSET (1 .. 9)
  BY LoaderShape
<1>3. I = {} <=> \A k \in Deployment!Range(loader) : Deployment!Outcome(loader, k) = "ok"
  BY LoaderShape DEF Deployment!Range
<1> HIDE DEF I
<1>4. I # {} => Deployment!Min(I) # 0
  BY <1>2, FirstPosition
<1> QED BY <1>1, <1>3, <1>4

(* What editing, starting and repairing keep.                               *)
ConfigurationInv ==
    /\ process \in Deployment!Loaders
    /\ target \in {"DEV", "PROD"}
    /\ DOMAIN source = Deployment!Keys
    /\ \A k \in Deployment!Keys : source[k] \in Deployment!Values(k)

LEMMA GoodIsValue ==
    ASSUME NEW k \in Deployment!Keys, NEW environment \in {"DEV", "PROD"}
    PROVE  Deployment!Good(k, environment) \in Deployment!Values(k)
BY DEF Deployment!Keys, Deployment!KindOf, Deployment!Good, Deployment!Values,
       Deployment!ValuesOf

LEMMA ConfigurationInvInit == Deployed \/ Deployment!Init => ConfigurationInv
<1>1. Deployment!Init => ConfigurationInv
  BY GoodIsValue DEF Deployment!Init, ConfigurationInv
<1>2. Deployed => ConfigurationInv
  BY GoodIsValue DEF Deployed, ConfigurationInv, Deployment!Loaders
<1> QED BY <1>1, <1>2

LEMMA ConfigurationInvStep ==
    ConfigurationInv /\ [Deployment!Next]_deploymentVars => ConfigurationInv'
<1> SUFFICES ASSUME ConfigurationInv, [Deployment!Next]_deploymentVars
             PROVE  ConfigurationInv'
  OBVIOUS
<1>1. ASSUME NEW k \in Deployment!Range(process), NEW v \in Deployment!Values(k),
             Deployment!Edit(k, v)
      PROVE  ConfigurationInv'
  <2>1. k \in Deployment!Keys
    BY LoaderShape DEF ConfigurationInv, Deployment!Range
  <2> QED BY <1>1, <2>1 DEF Deployment!Edit, ConfigurationInv
<1>2. CASE Deployment!Repair
  BY <1>2, GoodIsValue DEF Deployment!Repair, ConfigurationInv
<1>3. CASE Deployment!Start \/ UNCHANGED deploymentVars
  BY <1>3 DEF Deployment!Start, deploymentVars, ConfigurationInv
<1> QED BY <1>1, <1>2, <1>3 DEF Deployment!Next

(* In PROD no parser lets a placeholder or an absent value through.         *)
LEMMA ParsedForProduction ==
    ASSUME NEW k \in Deployment!Keys, NEW v \in Deployment!Values(k),
           Deployment!Parse(k, v, TRUE) = "ok"
    PROVE  Deployment!Given(v) /\ v \notin {"unsafe", "unsafeEncoded"}
<1>1. Deployment!Given(v)
  <2>1. PICK outcome : Deployment!Parse(k, v, TRUE) =
                         IF k \in Deployment!HasDefault
                         THEN Deployment!WithNonProductionDefault(v, TRUE, outcome)
                         ELSE Deployment!Required(v, outcome)
    BY Zenon DEF Deployment!Parse
  <2> QED BY <2>1 DEF Deployment!WithNonProductionDefault, Deployment!Required
<1>2. CASE Deployment!KindOf[k] \in {"secret", "jwtSecret"}
  <2>1. k \notin Deployment!HasDefault
    BY <1>2 DEF Deployment!HasDefault, Deployment!KindOf
  <2>2. \/ Deployment!Parse(k, v, TRUE) = Deployment!Required(v, Deployment!Secret(v, TRUE))
        \/ Deployment!Parse(k, v, TRUE) =
              Deployment!Required(v, Deployment!JwtHmacSecret(v, TRUE))
    BY <1>2, <2>1 DEF Deployment!Parse
  <2>3. Deployment!Secret(v, TRUE) = "ok"
    BY <1>1, <2>2 DEF Deployment!Required, Deployment!JwtHmacSecret
  <2>4. v # "unsafe"
    BY <2>3 DEF Deployment!Secret
  <2>5. v # "unsafeEncoded"
    BY <1>2 DEF Deployment!Values, Deployment!ValuesOf
  <2> QED BY <1>1, <2>4, <2>5
<1>3. CASE Deployment!KindOf[k] \in {"databaseUrl", "redisUrl"}
  BY <1>1, <1>3
     DEF Deployment!Parse, Deployment!WithNonProductionDefault, Deployment!Required,
         Deployment!DatabaseUrl, Deployment!RedisUrl, Deployment!UrlPassword,
         Deployment!Values, Deployment!ValuesOf, Deployment!Given
<1>4. CASE Deployment!KindOf[k] \notin {"secret", "jwtSecret", "databaseUrl", "redisUrl"}
  <2>1. Deployment!KindOf[k] \in {"environment", "logLevel", "host", "origins", "port",
                                  "bucket", "publicUrl", "boolean", "text", "email"}
    BY <1>4 DEF Deployment!Keys, Deployment!KindOf
  <2>2. \A kind \in {"environment", "logLevel", "host", "origins", "port",
                     "bucket", "publicUrl", "boolean", "text", "email"} :
          "unsafe" \notin Deployment!ValuesOf[kind] /\ "unsafeEncoded" \notin Deployment!ValuesOf[kind]
    BY DEF Deployment!ValuesOf
  <2> QED BY <1>1, <2>1, <2>2 DEF Deployment!Values
<1> QED BY <1>1, <1>2, <1>3, <1>4

(* Variables that were accepted, whatever was edited and repaired before.   *)
LEMMA AcceptedIsSafe == ConfigurationInv => ConfigurationIsSafe
<1> SUFFICES ASSUME ConfigurationInv
             PROVE  ConfigurationIsSafe
  OBVIOUS
<1>1. /\ process \in Deployment!Loaders
      /\ Deployment!Range(process) \subseteq Deployment!Keys
  BY LoaderShape DEF ConfigurationInv, Deployment!Range
<1>2. Deployment!Accepts(process) =>
        \A k \in Deployment!Range(process) :
            Deployment!Parse(k, source[k], Deployment!Production(process)) = "ok"
  BY <1>1, NoneRefused DEF Deployment!Accepts, Deployment!Outcome
<1>3. Deployment!ProductionIsExplicit
  <2> SUFFICES ASSUME Deployment!Accepts(process), Deployment!Production(process),
                      NEW k \in Deployment!Range(process)
               PROVE  /\ Deployment!Given(source[k])
                      /\ source[k] \notin {"unsafe", "unsafeEncoded"}
    BY DEF Deployment!ProductionIsExplicit
  <2>1. Deployment!Parse(k, source[k], TRUE) = "ok"
    <3>1. Deployment!Production(process) = TRUE
      BY DEF Deployment!Production
    <3> QED BY <1>2, <3>1
  <2> QED BY <1>1, <2>1, ParsedForProduction DEF ConfigurationInv
<1>4. Deployment!SecretsDiffer
  <2>1. \A k \in Deployment!Secrets, prod \in BOOLEAN :
          Deployment!Parse(k, "padded", prod) # "ok"
    BY DEF Deployment!Secrets, Deployment!Parse, Deployment!KindOf, Deployment!Required,
           Deployment!HasDefault, Deployment!Given, Deployment!JwtHmacSecret,
           Deployment!Secret
  <2>2. Deployment!Production(process) \in BOOLEAN
    BY DEF Deployment!Production
  <2> QED
    BY <1>2, <2>1, <2>2
       DEF Deployment!SecretsDiffer, Deployment!Accepts, Deployment!SecretsClash
<1>5. Deployment!LoadersAgree
  <2> SUFFICES ASSUME Deployment!Accepts(Deployment!ManagerApi),
                      NEW loader \in {Deployment!Worker, Deployment!Database,
                                      Deployment!Redis, Deployment!Jwt}
               PROVE  Deployment!Accepts(loader)
    BY DEF Deployment!LoadersAgree
  <2>1. /\ Deployment!Range(loader) \subseteq Deployment!Range(Deployment!ManagerApi)
        /\ loader[1] = Deployment!ManagerApi[1]
    BY DEF Deployment!Range, Deployment!ManagerApi, Deployment!Worker,
           Deployment!Database, Deployment!Redis, Deployment!Jwt
  <2>2. loader \in Deployment!Loaders /\ Deployment!ManagerApi \in Deployment!Loaders
    BY DEF Deployment!Loaders
  <2>3. \A k : Deployment!Outcome(loader, k) = Deployment!Outcome(Deployment!ManagerApi, k)
    BY <2>1 DEF Deployment!Outcome, Deployment!Production
  <2>4. Deployment!FirstRefused(loader) = 0
    BY <2>1, <2>2, <2>3, NoneRefused DEF Deployment!Accepts
  <2>5. ~Deployment!SecretsClash(loader)
    BY <2>1 DEF Deployment!Accepts, Deployment!SecretsClash
  <2> QED BY <2>4, <2>5 DEF Deployment!Accepts
<1> QED BY <1>3, <1>4, <1>5 DEF ConfigurationIsSafe

-----------------------------------------------------------------------------
(* The processes side by side                                               *)

(* Nothing was opened when a signal killed the API while it booted.         *)
LEMMA ApiInvKilled == ApiKilled => ApiInv
<1> SUFFICES ASSUME ApiKilled
             PROVE  ApiInv
  OBVIOUS
<1>1. Holders = {}
  BY DEF ApiKilled, PoolInit, Holders
<1>2. IsFiniteSet(Holders) /\ PoolBounded
  BY <1>1, FS_EmptySet, PoolAssumption DEF PoolBounded
<1>3. ApiTypeOK /\ ClosedSoFar /\ StaysClosed /\ ClosedPoolIsIdle
  BY <1>1 DEF ApiKilled, RedisInit, PoolInit, ApiTypeOK, RedisTypeOK, PoolTypeOK, Users,
              ClosedSoFar, StaysClosed, IsOpen, ClosedPoolIsIdle, Over
<1> QED BY <1>2, <1>3 DEF ApiInv

LEMMA WorkerInvKilled == WorkerKilled => Worker!WorkerInv
BY DEF WorkerKilled, Worker!All, Worker!WorkerInv, Worker!TypeOK, Worker!Begun,
       Worker!ReleasedAfterClose, Worker!RedisClosedLast, Worker!PoolClosed,
       Worker!AllReady, Worker!Over

ProcessInv == ApiInv /\ Worker!WorkerInv /\ ConfigurationInv

LEMMA ProcessInvInit == ProcessInit => ProcessInv
BY ApiInvInit, ApiInvKilled, WorkerInvInit, WorkerInvKilled, ConfigurationInvInit
   DEF ProcessInit, ProcessInv

(* A step of one process is a step of its own module and a stutter of the   *)
(* others.                                                                  *)
LEMMA OneProcessMoves ==
    [ProcessNext]_<<vars, workerVars, deploymentVars>> =>
        [Next]_vars /\ [Worker!Next]_workerVars /\ [Deployment!Next]_deploymentVars
BY DEF ProcessNext

LEMMA ProcessInvStep ==
    ProcessInv /\ [ProcessNext]_<<vars, workerVars, deploymentVars>> => ProcessInv'
BY OneProcessMoves, ApiInvStep, WorkerInvStep, ConfigurationInvStep DEF ProcessInv

LEMMA ProcessSafety == ProcessSpec => []ProcessInv
BY ProcessInvInit, ProcessInvStep, PTL DEF ProcessSpec

(* The API closes PostgreSQL before Redis, stays within its pool and leaves *)
(* nothing behind, for any number of requests and connections.              *)
THEOREM ApiClosing == ProcessSpec => []ApiClosesInOrder
<1>1. ProcessInv => ApiClosesInOrder
  BY ApiProperties DEF ProcessInv, ApiClosesInOrder
<1> QED BY <1>1, ProcessSafety, PTL

(* The worker takes no connection from under a job, closes Redis last and   *)
(* leaves no listener and no consumer behind, for any number of queues.     *)
THEOREM WorkerClosing == ProcessSpec => []WorkerClosesInOrder
<1>1. ProcessInv => WorkerClosesInOrder
  BY WorkerProperties DEF ProcessInv, WorkerClosesInOrder
<1> QED BY <1>1, ProcessSafety, PTL

(* What starts was given explicit values in PROD and two JWT secrets, and   *)
(* the loaders agree on them, however many variables were edited.           *)
THEOREM ConfigurationSafety == ProcessSpec => []ConfigurationIsSafe
<1>1. ProcessInv => ConfigurationIsSafe
  BY AcceptedIsSafe DEF ProcessInv
<1> QED BY <1>1, ProcessSafety, PTL

(* worker.ready is announced only by a pool all of whose consumers          *)
(* connected and that nobody has begun to close.                            *)
THEOREM ReadyIsConsuming == ProcessSpec => ReadyMeansConsuming
<1>1. ProcessInv /\ [ProcessNext]_<<vars, workerVars, deploymentVars>> =>
        [shell # "serving" /\ shell' = "serving" =>
             close = "none" /\ \A q \in QueueNames : ready[q] = "yes" /\ socket[q] = "open"]_(Worker!vars)
  BY OneProcessMoves, ServingStep DEF ProcessInv
<1> QED
  BY <1>1, ProcessSafety, PTL
     DEF ProcessSpec, ReadyMeansConsuming, Worker!ReadyMeansConsuming

(* The same for the readiness of the API: no 200 once a shutdown has begun. *)
THEOREM ReadyIsServing == ProcessSpec => NeverReadyAfterShutdown
<1>1. ProcessInv /\ [ProcessNext]_<<vars, workerVars, deploymentVars>> =>
        [\A r \in Requests : request[r] # "ready" /\ request'[r] = "ready" => app = "open"]_vars
  BY OneProcessMoves, ReadyStep DEF ProcessInv
<1> QED
  BY <1>1, ProcessSafety, PTL DEF ProcessSpec, NeverReadyAfterShutdown
=============================================================================
