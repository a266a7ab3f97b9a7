------------------------- MODULE ApiLifecycleProofs -------------------------
(***************************************************************************)
(* Proofs about ApiLifecycle, for any number of requests and any size of   *)
(* the pool: first the Redis connection and the pool by themselves, then   *)
(* the process that starts and closes them.                                *)
(***************************************************************************)
EXTENDS ApiLifecycle, FiniteSetTheorems, TLAPS

-----------------------------------------------------------------------------
(* The Redis connection                                                     *)

RedisInv == RedisTypeOK /\ StaysClosed /\ (closeTask # "none" <=> closing)

(* Whatever the client, the probes and close do, in any order.              *)
LEMMA RedisInvStep ==
    ASSUME RedisInv,
           \/ Connect \/ RedisStep \/ BeginClose \/ UNCHANGED redisVars
           \/ \E r \in Requests : BeginPing(r) \/ Asked(r)
    PROVE  RedisInv'
<1> USE DEF RedisInv, RedisTypeOK, StaysClosed, IsOpen
<1>1. CASE Connect
  BY <1>1 DEF Connect, MayConnect
<1>2. CASE Established \/ Lost
  BY <1>2 DEF Established, Lost
<1>3. CASE Drained
  BY <1>3 DEF Drained
<1>4. CASE ConnectGivesUp
  BY <1>4 DEF ConnectGivesUp
<1>5. CASE EndClose
  BY <1>5 DEF EndClose, ConnectSettled
<1>6. CASE BeginClose
  BY <1>6 DEF BeginClose
<1>7. ASSUME NEW r \in Requests, BeginPing(r) \/ EndPing(r) \/ Pong(r) \/ Asked(r)
      PROVE  RedisInv'
  BY <1>7, ApiAssumption DEF BeginPing, EndPing, Pong, Asked, Requests
<1>8. CASE UNCHANGED redisVars
  BY <1>8 DEF redisVars
<1> QED
  BY <1>1, <1>2, <1>3, <1>4, <1>5, <1>6, <1>7, <1>8 DEF RedisStep, RedisProgress

-----------------------------------------------------------------------------
(* The pool                                                                 *)

PoolInv ==
    /\ PoolTypeOK
    /\ IsFiniteSet(Holders) /\ PoolBounded /\ ClosedPoolIsIdle
    /\ poolClosing <=> poolClose # "none"

(* One user changes state: the connections in use stay countable, and stay  *)
(* within the limit if a connection is only taken while one is free.        *)
LEMMA HoldersStep ==
    ASSUME PoolTypeOK, IsFiniteSet(Holders), PoolBounded, NEW t \in Users,
           NEW x, task' = [task EXCEPT ![t] = x],
           x = "holding" => Free \/ t \in Holders
    PROVE  /\ IsFiniteSet(Holders)' /\ PoolBounded'
           /\ Holders' \subseteq Holders \cup {t}
           /\ x # "holding" => Holders' \subseteq Holders
<1>1. Holders' = IF x = "holding" THEN Holders \cup {t} ELSE Holders \ {t}
  BY DEF PoolTypeOK, Holders
<1>2. Cardinality(Holders) \in Nat
  BY FS_CardinalityType
<1>3. CASE x = "holding"
  <2>1. /\ IsFiniteSet(Holders \cup {t})
        /\ Cardinality(Holders \cup {t}) =
              IF t \in Holders THEN Cardinality(Holders) ELSE Cardinality(Holders) + 1
    BY FS_AddElement
  <2> QED BY <1>1, <1>2, <1>3, <2>1, PoolAssumption DEF PoolBounded, Free
<1>4. CASE x # "holding"
  <2>1. /\ IsFiniteSet(Holders \ {t})
        /\ Cardinality(Holders \ {t}) =
              IF t \in Holders THEN Cardinality(Holders) - 1 ELSE Cardinality(Holders)
    BY FS_RemoveElement
  <2> QED BY <1>1, <1>2, <1>4, <2>1, PoolAssumption DEF PoolBounded
<1> QED BY <1>1, <1>3, <1>4

(* Whatever the users and close do, in any order.                           *)
LEMMA PoolInvStep ==
    ASSUME PoolInv,
           \/ PoolStep \/ BeginPoolClose \/ UNCHANGED poolVars
           \/ \E t \in Users : Ask(t) \/ Reuse(t)
    PROVE  PoolInv'
<1>1. ASSUME NEW t \in Users,
             Ask(t) \/ Grant(t) \/ WaitEnds(t) \/ Answer(t) \/ Reuse(t)
      PROVE  PoolInv'
  <2>1. PICK x \in {"idle", "queued", "holding", "ok", "failed"} :
          /\ task' = [task EXCEPT ![t] = x]
          /\ x = "holding" => Free /\ ~poolClosing
          /\ x = "queued" => ~poolClosing
    <3> DEFINE Takes(x) == /\ task' = [task EXCEPT ![t] = x]
                           /\ x = "holding" => Free /\ ~poolClosing
                           /\ x = "queued" => ~poolClosing
    <3>1. CASE Ask(t)
      <4>1. PICK x \in IF ~MayAsk THEN {"failed"}
                     ELSE IF Free THEN {"holding", "failed"} ELSE {"queued"} :
              task' = [task EXCEPT ![t] = x]
        BY <3>1 DEF Ask
      <4>2. /\ x \in {"holding", "queued", "failed"}
            /\ x = "holding" => Free /\ MayAsk
            /\ x = "queued" => MayAsk
        BY <4>1
      <4> QED BY <4>1, <4>2 DEF MayAsk
    <3>2. Grant(t) => Takes("holding")
      BY DEF Grant
    <3>3. WaitEnds(t) => Takes("failed")
      BY DEF WaitEnds
    <3>4. Answer(t) => Takes("ok") \/ Takes("failed")
      BY DEF Answer
    <3>5. Reuse(t) => Takes("idle")
      BY DEF Reuse
    <3> QED BY <1>1, <3>1, <3>2, <3>3, <3>4, <3>5
  <2>2. UNCHANGED <<poolClosing, poolClose>>
    BY <1>1 DEF Ask, Grant, WaitEnds, Answer, Reuse
  <2>3. PoolTypeOK'
    BY <2>1, <2>2 DEF PoolInv, PoolTypeOK
  <2>4. IsFiniteSet(Holders)' /\ PoolBounded' /\ (x # "holding" => Holders' \subseteq Holders)
    BY <2>1, HoldersStep DEF PoolInv
  <2>5. ClosedPoolIsIdle'
    BY <2>1, <2>2, <2>4 DEF PoolInv, PoolTypeOK, ClosedPoolIsIdle, Users
  <2> QED BY <2>2, <2>3, <2>4, <2>5 DEF PoolInv
<1>2. CASE UNCHANGED task /\ (PoolProgress \/ BeginPoolClose \/ UNCHANGED poolVars)
  <2>1. Holders' = Holders
    BY <1>2 DEF Holders
  <2>2. IsFiniteSet(Holders)' /\ PoolBounded'
    BY <2>1 DEF PoolInv, PoolBounded
  <2>3. PoolTypeOK'
    BY <1>2
       DEF PoolInv, PoolTypeOK, PoolProgress, PoolEnded, EndPoolClose, BeginPoolClose,
           poolVars
  <2>5. poolClosing' <=> poolClose' # "none"
    BY <1>2
       DEF PoolInv, PoolProgress, PoolEnded, EndPoolClose, BeginPoolClose, poolVars
  <2>4. ClosedPoolIsIdle'
    BY <1>2, <2>1
       DEF PoolInv, ClosedPoolIsIdle, PoolProgress, PoolEnded, EndPoolClose,
           StartSettled, BeginPoolClose, poolVars
  <2> QED BY <2>2, <2>3, <2>4, <2>5 DEF PoolInv
<1>3. PoolProgress \/ BeginPoolClose \/ UNCHANGED poolVars => UNCHANGED task
  BY DEF PoolProgress, PoolEnded, EndPoolClose, BeginPoolClose, poolVars
<1> QED BY <1>1, <1>2, <1>3 DEF PoolStep

-----------------------------------------------------------------------------
(* The process                                                              *)

LEMMA ApiInvInit == Init => ApiInv
<1> SUFFICES ASSUME Init
             PROVE  ApiInv
  OBVIOUS
<1>1. Holders = {}
  BY DEF Init, PoolInit, Holders
<1>2. IsFiniteSet(Holders) /\ PoolBounded
  BY <1>1, FS_EmptySet, PoolAssumption DEF PoolBounded
<1>3. ApiTypeOK /\ ClosedSoFar /\ StaysClosed /\ ClosedPoolIsIdle
  BY <1>1 DEF Init, RedisInit, PoolInit, ApiTypeOK, RedisTypeOK, PoolTypeOK, Users,
              ClosedSoFar, StaysClosed, IsOpen, ClosedPoolIsIdle, Over
<1> QED BY <1>2, <1>3 DEF ApiInv

(* What a step does to each of the two connections.                         *)
LEMMA StepParts ==
    ASSUME [Next]_vars
    PROVE  /\ \/ Connect \/ RedisStep \/ BeginClose \/ UNCHANGED redisVars
              \/ \E r \in Requests : BeginPing(r) \/ Asked(r)
           /\ \/ PoolStep \/ BeginPoolClose \/ UNCHANGED poolVars
              \/ \E t \in Users : Ask(t) \/ Reuse(t)
BY DEF Next, vars, ConfigurationFails, Build, Listen, ListenFails, Signal,
       ProcessStep, Exit, CloseDatabase, CloseRedis, CloseReadiness, RequestStep,
       BeginReady, EndReady, BeginWork, EndWork, Another, Requests, Users

LEMMA ApiTypes ==
    ASSUME ApiInv, [Next]_vars
    PROVE  /\ main' \in {"building", "listening", "serving", "cleaning"} \cup Over
           /\ listeners' \in BOOLEAN /\ accepting' \in BOOLEAN
           /\ app' \in {"open", "draining", "database", "redis", "closed"}
           /\ request' \in [Requests -> {"none", "probing", "working", "ready", "notReady", "answered"}]
<1> USE DEF ApiInv, ApiTypeOK
<1>1. CASE \/ ConfigurationFails \/ Build \/ Listen \/ ListenFails \/ Signal \/ ProcessStep
           \/ UNCHANGED apiVars
  BY <1>1
     DEF ConfigurationFails, Build, Listen, ListenFails, Signal, Shutdown, ProcessStep,
         Exit, CloseDatabase, CloseRedis, CloseReadiness, apiVars, Over
<1>2. ASSUME NEW r \in Requests, RequestStep(r)
      PROVE  /\ UNCHANGED <<main, listeners, accepting, app>>
             /\ request' \in [Requests -> {"none", "probing", "working", "ready", "notReady", "answered"}]
  BY <1>2 DEF RequestStep, BeginReady, EndReady, Status, BeginWork, EndWork, Another
<1> QED BY <1>1, <1>2 DEF Next, vars, apiVars

LEMMA ClosedSoFarStep ==
    ASSUME ApiInv, [Next]_vars
    PROVE  ClosedSoFar'
<1> USE DEF ApiInv, ClosedSoFar
<1>1. CASE ConfigurationFails \/ Listen \/ Exit
  BY <1>1 DEF ConfigurationFails, Listen, Exit, redisVars, poolVars, Over
<1>2. CASE Build
  BY <1>2 DEF Build, Connect, Ask
<1>3. CASE ListenFails \/ Signal
  BY <1>3 DEF ListenFails, Signal, Shutdown, redisVars, poolVars, Over
<1>4. CASE CloseDatabase
  BY <1>4 DEF CloseDatabase, BeginPoolClose, redisVars
<1>5. CASE CloseRedis
  BY <1>5 DEF CloseRedis, BeginClose, DatabaseClosed, poolVars
<1>6. CASE CloseReadiness
  BY <1>6 DEF CloseReadiness, RedisClosed, redisVars, poolVars
<1>7. ASSUME NEW r \in Requests, RequestStep(r)
      PROVE  ClosedSoFar'
  BY <1>7 DEF RequestStep, BeginReady, EndReady, BeginWork, EndWork, Another,
              BeginPing, Asked, Ask, Reuse, redisVars, poolVars
<1>8. CASE RedisStep /\ UNCHANGED <<apiVars, poolVars>>
  BY <1>8 DEF RedisStep, Established, Lost, RedisProgress, Drained, ConnectGivesUp,
              EndClose, Pong, EndPing, apiVars, poolVars
<1>9. CASE PoolStep /\ UNCHANGED <<apiVars, redisVars>>
  BY <1>9 DEF PoolStep, PoolProgress, PoolEnded, EndPoolClose, Grant, WaitEnds,
              Answer, apiVars, redisVars
<1>10. CASE UNCHANGED vars
  BY <1>10 DEF vars, apiVars, redisVars, poolVars
<1> QED
  BY <1>1, <1>2, <1>3, <1>4, <1>5, <1>6, <1>7, <1>8, <1>9, <1>10 DEF Next, ProcessStep

LEMMA ApiInvStep == ApiInv /\ [Next]_vars => ApiInv'
<1> SUFFICES ASSUME ApiInv, [Next]_vars
             PROVE  ApiInv'
  OBVIOUS
<1>1. RedisInv /\ PoolInv
  BY DEF ApiInv, ApiTypeOK, ClosedSoFar, RedisInv, PoolInv
<1>2. RedisInv' /\ PoolInv'
  BY <1>1, StepParts, RedisInvStep, PoolInvStep
<1> QED
  BY <1>2, ApiTypes, ClosedSoFarStep DEF ApiInv, ApiTypeOK, RedisInv, PoolInv, Over

(* The process, however it is started and ended, keeps its types, closes    *)
(* PostgreSQL before Redis and never exceeds its pool.                      *)
THEOREM ApiSafety == Spec => []ApiInv
BY ApiInvInit, ApiInvStep, PTL DEF Spec

LEMMA ApiProperties ==
    ApiInv => PoolClosesFirst /\ NothingLeft /\ PoolBounded /\ ClosedPoolIsIdle /\ ClosedForGood
BY DEF ApiInv, ClosedSoFar, StaysClosed, ClosedPoolIsIdle, PoolClosesFirst, NothingLeft,
       ClosedForGood

(* An answer 200 needs the flag, which is off once a shutdown has begun.    *)
LEMMA ReadyStep ==
    ASSUME ApiInv, [Next]_vars, NEW r \in Requests,
           request[r] # "ready", request'[r] = "ready"
    PROVE  app = "open"
<1>1. \A q \in Requests : EndReady(q) => request' = [request EXCEPT ![q] = Status(q)]
  BY DEF EndReady
<1>2. EndReady(r)
  BY DEF ApiInv, ApiTypeOK, Next, vars, apiVars, ConfigurationFails, Build, Listen,
         ListenFails, Signal, ProcessStep, Exit, CloseDatabase, CloseRedis,
         CloseReadiness, RequestStep, BeginReady, EndReady, BeginWork, EndWork, Another
<1>3. Status(r) = "ready"
  BY <1>1, <1>2 DEF ApiInv, ApiTypeOK
<1>4. accepting
  BY <1>3 DEF Status, Verdict
<1> QED BY <1>4 DEF ApiInv, ClosedSoFar

(* No /ready answers 200 after the shutdown has begun, in any interleaving  *)
(* of probes, signals and the close.                                        *)
THEOREM NotReadyAfterShutdown == Spec => NeverReadyAfterShutdown
<1>1. ApiInv /\ [Next]_vars =>
        [\A r \in Requests : request[r] # "ready" /\ request'[r] = "ready" => app = "open"]_vars
  BY ReadyStep
<1> QED BY <1>1, ApiSafety, PTL DEF Spec, NeverReadyAfterShutdown
=============================================================================
