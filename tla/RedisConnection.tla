--------------------------- MODULE RedisConnection ---------------------------
(***************************************************************************)
(* ManagedRedisConnection of packages/plugins/redis: one client shared by  *)
(* a process, its memoised connect and close tasks and the readiness       *)
(* probe.  The client reconnects on its own for ever; commands sent while  *)
(* it is not ready fail at once (no offline queue).                        *)
(***************************************************************************)
CONSTANT Probes    \* concurrent callers of isReady

VARIABLES client,       \* the node-redis client
          connectTask,  \* the memoised promise of connect
          closing,      \* the flag of close
          closeTask,    \* the progress of #close
          ping          \* the PING of every probe

redisVars == <<client, connectTask, closing, closeTask, ping>>

IsOpen == client \in {"connecting", "ready", "reconnecting"}

RedisTypeOK ==
    /\ client \in {"new", "connecting", "ready", "reconnecting", "closing", "closed"}
    /\ connectTask \in {"none", "pending", "resolved", "rejected"}
    /\ closing \in BOOLEAN
    /\ closeTask \in {"none", "draining", "awaiting", "closed"}
    /\ ping \in [Probes -> {"idle", "sent", "yes", "no"}]

RedisInit ==
    /\ client = "new" /\ connectTask = "none"
    /\ closing = FALSE /\ closeTask = "none"
    /\ ping = [p \in Probes |-> "idle"]

\* connect and start: refused while closing, otherwise one task for all.
MayConnect == ~closing

Connect ==
    /\ MayConnect /\ connectTask = "none"
    /\ connectTask' = "pending" /\ client' = "connecting"
    /\ UNCHANGED <<closing, closeTask, ping>>

Established ==
    /\ client \in {"connecting", "reconnecting"}
    /\ client' = "ready"
    /\ connectTask' = IF connectTask = "pending" THEN "resolved" ELSE connectTask
    /\ UNCHANGED <<closing, closeTask, ping>>

\* The socket drops: what was sent on it fails.
Lost ==
    /\ client = "ready"
    /\ client' = "reconnecting"
    /\ ping' = [p \in Probes |-> IF ping[p] = "sent" THEN "no" ELSE ping[p]]
    /\ UNCHANGED <<connectTask, closing, closeTask>>

\* isReady looks at the client and at closing, and only then sends PING.
BeginPing(p) ==
    /\ ping[p] = "idle"
    /\ ping' = [ping EXCEPT ![p] = IF client = "ready" /\ ~closing THEN "sent" ELSE "no"]
    /\ UNCHANGED <<client, connectTask, closing, closeTask>>

EndPing(p) ==
    /\ ping[p] = "sent"
    /\ ping' = [ping EXCEPT ![p] = "no"]
    /\ UNCHANGED <<client, connectTask, closing, closeTask>>

Pong(p) ==
    /\ ping[p] = "sent" /\ client \in {"ready", "closing"}
    /\ ping' = [ping EXCEPT ![p] = "yes"]
    /\ UNCHANGED <<client, connectTask, closing, closeTask>>

Asked(p) ==
    /\ ping[p] \in {"yes", "no"}
    /\ ping' = [ping EXCEPT ![p] = "idle"]
    /\ UNCHANGED <<client, connectTask, closing, closeTask>>

\* close: an open client is closed, which waits for the replies it owes.
BeginClose ==
    /\ closeTask = "none"
    /\ closing' = TRUE
    /\ IF IsOpen THEN client' = "closing" /\ closeTask' = "draining"
                 ELSE closeTask' = "awaiting" /\ UNCHANGED client
    /\ UNCHANGED <<connectTask, ping>>

Drained ==
    /\ closeTask = "draining" /\ \A p \in Probes : ping[p] # "sent"
    /\ client' = "closed" /\ closeTask' = "awaiting"
    /\ UNCHANGED <<connectTask, closing, ping>>

\* A connect that was pending gives up once its client is closed.
ConnectGivesUp ==
    /\ connectTask = "pending" /\ client \in {"closing", "closed"}
    /\ connectTask' \in {"resolved", "rejected"}
    /\ UNCHANGED <<client, closing, closeTask, ping>>

ConnectSettled == connectTask # "pending"

EndClose ==
    /\ closeTask = "awaiting" /\ ConnectSettled
    /\ closeTask' = "closed"
    /\ UNCHANGED <<client, connectTask, closing, ping>>

RedisProgress == Drained \/ ConnectGivesUp \/ EndClose

-----------------------------------------------------------------------------
(* Properties *)

\* Once close has answered, no task of the connection is pending and the
\* client never opens again, whether connect came before, during or after.
ClosedForGood ==
    closeTask = "closed" => ~IsOpen /\ connectTask # "pending"
=============================================================================
