--------------------------- MODULE LoginRateLimit ---------------------------
(***************************************************************************)
(* FixedWindowLoginRateLimiter.consume over the Redis adapter's            *)
(* incrementWithExpiration: MULTI; INCR; EXPIRE NX; TTL; EXEC.             *)
(*                                                                         *)
(* Redis runs the four commands of one attempt at one instant; the replies *)
(* of concurrent attempts are judged later and in any order.  Time is in   *)
(* ticks, several to a second, because TTL answers in rounded seconds.     *)
(***************************************************************************)
EXTENDS Integers, FiniteSets

CONSTANTS
    Attempt,         \* login attempts
    Client,          \* client addresses, one counter key each
    MaximumAttempts, \* loginRateLimitMaximumAttempts
    WindowSeconds,   \* loginRateLimitWindowSeconds
    TicksPerSecond,  \* resolution of the clock of Redis
    LastTick,        \* bound: the clock stops here
    None

ASSUME RateLimitAssumption ==
    /\ MaximumAttempts \in Nat \ {0}
    /\ WindowSeconds \in Nat \ {0}
    /\ TicksPerSecond \in Nat \ {0}
    /\ LastTick \in Nat

VARIABLES
    tick,      \* the clock of Redis
    counter,   \* key of each client: [value, deadline], or None
    reply,     \* what EXEC answered an attempt: [client, value, ttl, deadline]
    verdict    \* "waiting", "replied", "admitted", "limited", "unavailable"

rateVars == <<tick, counter, reply, verdict>>

Verdict == {"waiting", "replied", "admitted", "limited", "unavailable"}
Counter == [value : Nat \ {0}, deadline : Nat]
Reply == [client : Client, value : Nat \ {0}, ttl : Nat, deadline : Nat]

ASSUME RateNoneAssumption == None \notin Counter /\ None \notin Reply

(* RateTypeOK: in particular a counter always has a deadline: no key is     *)
(* left without a TTL, which would limit its client for good.               *)
RateTypeOK ==
    /\ tick \in Nat
    /\ counter \in [Client -> Counter \cup {None}]
    /\ reply \in [Attempt -> Reply \cup {None}]
    /\ verdict \in [Attempt -> Verdict]

RateInit ==
    /\ tick = 0
    /\ counter = [c \in Client |-> None]
    /\ reply = [n \in Attempt |-> None]
    /\ verdict = [n \in Attempt |-> "waiting"]

Live(c) == counter[c] # None /\ counter[c].deadline > tick

(* TTL answers the remaining time rounded to the nearest second.            *)
Ttl(deadline) == (deadline - tick + TicksPerSecond \div 2) \div TicksPerSecond

WindowEnd == tick + WindowSeconds * TicksPerSecond

(* INCR: an expired key counts as absent.                                   *)
Incremented(c) == IF Live(c) THEN counter[c].value + 1 ELSE 1

(* Slip: EXPIRE without NX restarts the window at every attempt.            *)
DeadlineRestarted(c) == WindowEnd

(* EXPIRE NX: only a key without a TTL gets one.                            *)
Deadline(c) == IF Live(c) THEN counter[c].deadline ELSE WindowEnd

(* EXEC for one attempt.  A command that timed out in the client may still  *)
(* reach Redis and be counted.                                              *)
Execute(n, c) ==
    /\ reply[n] = None
    /\ verdict[n] \in {"waiting", "unavailable"}
    /\ counter' = [counter EXCEPT ![c] = [value |-> Incremented(c), deadline |-> Deadline(c)]]
    /\ reply' = [reply EXCEPT ![n] = [client |-> c, value |-> Incremented(c),
                                      ttl |-> Ttl(Deadline(c)), deadline |-> Deadline(c)]]
    /\ verdict' = [verdict EXCEPT ![n] = IF @ = "waiting" THEN "replied" ELSE @]
    /\ UNCHANGED tick

(* Slip: one attempt too many.                                              *)
WithinLimitOffByOne(value) == value <= MaximumAttempts + 1

(* Slip: the last attempt allowed is already refused.                       *)
WithinLimitStrict(value) == value < MaximumAttempts

(* consume lets the value pass that is not greater than the maximum.        *)
WithinLimit(value) == value <= MaximumAttempts

(* The checks of the adapter and of consume on a reply.                     *)
CoherentReply(answer) ==
    /\ answer.value >= 1
    /\ answer.ttl \in 1 .. WindowSeconds

(* consume: an incoherent reply is 503, too many attempts are 429.          *)
Judge(n) ==
    /\ verdict[n] = "replied"
    /\ verdict' = [verdict EXCEPT ![n] =
          IF ~ CoherentReply(reply[n]) THEN "unavailable"
          ELSE IF WithinLimit(reply[n].value) THEN "admitted"
          ELSE "limited"]
    /\ UNCHANGED <<tick, counter, reply>>

(* Redis cannot be reached, the command times out, or the reply is lost.    *)
Fail(n) ==
    /\ verdict[n] \in {"waiting", "replied"}
    /\ verdict' = [verdict EXCEPT ![n] = "unavailable"]
    /\ UNCHANGED <<tick, counter, reply>>

(* Redis restarts without the key, or evicts it.                            *)
Forget(c) ==
    /\ counter[c] # None
    /\ counter' = [counter EXCEPT ![c] = None]
    /\ UNCHANGED <<tick, reply, verdict>>

RedisTick ==
    /\ tick < LastTick
    /\ tick' = tick + 1
    /\ UNCHANGED <<counter, reply, verdict>>

Serve ==
    \E n \in Attempt : (\E c \in Client : Execute(n, c)) \/ Judge(n) \/ Fail(n)

RateNext == Serve \/ RedisTick \/ \E c \in Client : Forget(c)

(* Redis may lose a key before its deadline.                                *)
RateSpec == RateInit /\ [][RateNext]_rateVars

(* Redis keeps its keys, is reachable, and loses no reply.                  *)
HealthyNext ==
    \/ \E n \in Attempt : (\E c \in Client : Execute(n, c)) \/ Judge(n)
    \/ RedisTick

HealthySpec == RateInit /\ [][HealthyNext]_rateVars

-----------------------------------------------------------------------------
(* Properties.                                                              *)

AdmittedIn(c, deadline) ==
    {n \in Attempt : /\ verdict[n] = "admitted"
                     /\ reply[n].client = c
                     /\ reply[n].deadline = deadline}

(* The attempts that found no counter and began one in that window: one,    *)
(* unless Redis lost the key and it was begun again in the same tick.       *)
BegunIn(c, deadline) ==
    {n \in Attempt : /\ reply[n] # None
                     /\ reply[n].client = c
                     /\ reply[n].deadline = deadline
                     /\ reply[n].value = 1}

(* LimitPerWindow: of the attempts of one client in one window, however     *)
(* their replies interleave, at most the maximum is admitted; a Redis that  *)
(* loses the key grants the maximum once more and nothing beyond.           *)
LimitPerWindow ==
    \A n \in Attempt : verdict[n] = "admitted" =>
        Cardinality(AdmittedIn(reply[n].client, reply[n].deadline)) <=
            MaximumAttempts * Cardinality(BegunIn(reply[n].client, reply[n].deadline))

(* WindowIsFixed: attempts made in a window do not prolong it, so a client  *)
(* that keeps trying is not locked out for longer than a window.            *)
WindowIsFixed ==
    [][\A c \in Client : Live(c) /\ counter'[c] # None =>
          counter'[c].deadline = counter[c].deadline]_rateVars

(* LimitedOnlyAfterCounting: 429 is answered only when the maximum was    *)
(* already counted in that window by other attempts, lost replies and a     *)
(* Redis that forgets its keys notwithstanding.                             *)
LimitedOnlyAfterCounting ==
    \A n \in Attempt : verdict[n] = "limited" =>
        Cardinality({k \in Attempt \ {n} :
            /\ reply[k] # None
            /\ reply[k].client = reply[n].client
            /\ reply[k].deadline = reply[n].deadline}) >= MaximumAttempts

(* The attempts counted for a client in a window, and those that were given *)
(* one value of the counter; more than one only if Redis lost the key.      *)
Replied == {n \in Attempt : reply[n] # None}

CountedIn(c, deadline) ==
    {n \in Replied : reply[n].client = c /\ reply[n].deadline = deadline}

Given(c, deadline, value) == {n \in CountedIn(c, deadline) : reply[n].value = value}

(* JudgedByReply: a verdict is about a reply, and agrees with its value.    *)
JudgedByReply ==
    \A n \in Attempt :
        /\ verdict[n] \in {"replied", "admitted", "limited"} => n \in Replied
        /\ verdict[n] = "admitted" => reply[n].value <= MaximumAttempts
        /\ verdict[n] = "limited" => reply[n].value > MaximumAttempts

(* ValuesAreCounted: a value is what was counted before it, and no value is *)
(* given more often than counters were begun.                               *)
ValuesAreCounted ==
    \A n \in Replied :
        /\ Cardinality(CountedIn(reply[n].client, reply[n].deadline)) >= reply[n].value
        /\ Cardinality(Given(reply[n].client, reply[n].deadline, reply[n].value)) <=
              Cardinality(BegunIn(reply[n].client, reply[n].deadline))

(* CountersAreCounted: the counter in Redis counts replies of its window,   *)
(* and the values ahead of it were given by counters begun before it.       *)
CountersAreCounted ==
    \A c \in Client : counter[c] # None =>
        LET deadline == counter[c].deadline IN
        /\ BegunIn(c, deadline) # {}
        /\ Cardinality(CountedIn(c, deadline)) >= counter[c].value
        /\ \A n \in CountedIn(c, deadline) : reply[n].value > counter[c].value =>
              Cardinality(Given(c, deadline, reply[n].value)) <
                  Cardinality(BegunIn(c, deadline))

(* CountingIsSound: the typed state, in which every counter has a deadline, *)
(* LimitedOnlyAfterCounting, and what both promises rest on: however many   *)
(* attempts there may be, finitely many are answered at any time.           *)
CountingIsSound ==
    /\ RateTypeOK /\ LimitedOnlyAfterCounting
    /\ IsFiniteSet(Replied)
    /\ JudgedByReply /\ ValuesAreCounted /\ CountersAreCounted

(* SixthIsLimited: docs/authentication/README.md:180, the attempt after the *)
(* last one allowed returns 429, while Redis answers every command.         *)
SixthIsLimited ==
    \A n \in Attempt :
        verdict[n] \notin {"waiting", "replied"} /\ reply[n].value > MaximumAttempts =>
            verdict[n] = "limited"
=============================================================================
