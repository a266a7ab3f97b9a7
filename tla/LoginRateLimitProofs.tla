------------------------ MODULE LoginRateLimitProofs ------------------------
(***************************************************************************)
(* Proofs about LoginRateLimit, for any number of attempts and clients,    *)
(* any maximum, window and resolution of the clock, and a Redis that may   *)
(* lose its keys at any time.                                              *)
(***************************************************************************)
EXTENDS LoginRateLimit, FiniteSetTheorems, FunctionTheorems, TLAPS

(* The counting parts of CountingIsSound for any client, window and value,  *)
(* the windows and values of no reply included.                             *)
Values ==
    \A c, d : \A v \in Nat :
        /\ Given(c, d, v) # {} => Cardinality(CountedIn(c, d)) >= v
        /\ Cardinality(Given(c, d, v)) <= Cardinality(BegunIn(c, d))

Counters ==
    \A c \in Client, d \in Nat : counter[c] # None /\ counter[c].deadline = d =>
        /\ BegunIn(c, d) # {}
        /\ Cardinality(CountedIn(c, d)) >= counter[c].value
        /\ \A v \in Nat : v > counter[c].value =>
              Cardinality(Given(c, d, v)) < Cardinality(BegunIn(c, d))

Core ==
    /\ RateTypeOK
    /\ IsFiniteSet(Replied)
    /\ JudgedByReply /\ Values /\ Counters

-----------------------------------------------------------------------------
(* The windows and the replies                                              *)

LEMMA WindowIsLater ==
    ASSUME RateTypeOK
    PROVE  WindowEnd \in Nat /\ WindowEnd > tick
<1>1. WindowSeconds * TicksPerSecond \in Nat \ {0}
  BY RateLimitAssumption
<1> QED BY <1>1 DEF WindowEnd, RateTypeOK

LEMMA CounterTyped ==
    ASSUME RateTypeOK, NEW c \in Client
    PROVE  /\ Incremented(c) \in Nat \ {0}
           /\ Deadline(c) \in Nat /\ Deadline(c) > tick
           /\ Ttl(Deadline(c)) \in Nat
<1>1. Live(c) => /\ counter[c].value \in Nat \ {0}
                 /\ counter[c].deadline \in Nat /\ counter[c].deadline > tick
  BY DEF Live, RateTypeOK, Counter
<1>2. Incremented(c) \in Nat \ {0}
  BY <1>1 DEF Incremented
<1>3. Deadline(c) \in Nat /\ Deadline(c) > tick
  BY <1>1, WindowIsLater DEF Deadline
<1>4. \A d \in Nat : d > tick => Ttl(d) \in Nat
  <2> SUFFICES ASSUME NEW d \in Nat, d > tick PROVE Ttl(d) \in Nat
    OBVIOUS
  <2>1. TicksPerSecond \div 2 \in Nat /\ d - tick \in Nat
    BY RateLimitAssumption DEF RateTypeOK
  <2>2. \A n, t \in Nat : t # 0 => n \div t \in Nat
    OBVIOUS
  <2> QED BY <2>1, <2>2, RateLimitAssumption DEF Ttl
<1> QED BY <1>2, <1>3, <1>4

LEMMA RepliedTyped ==
    ASSUME RateTypeOK, NEW n \in Replied
    PROVE  n \in Attempt /\ reply[n] \in Reply
BY DEF RateTypeOK, Replied

(* Every set of replies is finite, and its size a natural number.           *)
LEMMA CountsAreNumbers ==
    ASSUME IsFiniteSet(Replied)
    PROVE  \A c, d, v :
              /\ IsFiniteSet(CountedIn(c, d)) /\ Cardinality(CountedIn(c, d)) \in Nat
              /\ IsFiniteSet(BegunIn(c, d)) /\ Cardinality(BegunIn(c, d)) \in Nat
              /\ IsFiniteSet(Given(c, d, v)) /\ Cardinality(Given(c, d, v)) \in Nat
<1> SUFFICES ASSUME NEW c, NEW d, NEW v
             PROVE  /\ IsFiniteSet(CountedIn(c, d)) /\ Cardinality(CountedIn(c, d)) \in Nat
                    /\ IsFiniteSet(BegunIn(c, d)) /\ Cardinality(BegunIn(c, d)) \in Nat
                    /\ IsFiniteSet(Given(c, d, v)) /\ Cardinality(Given(c, d, v)) \in Nat
  OBVIOUS
<1>1. CountedIn(c, d) \in SUBSET Replied /\ BegunIn(c, d) \in SUBSET Replied
      /\ Given(c, d, v) \in SUBSET Replied
  BY DEF CountedIn, BegunIn, Given, Replied
<1> QED BY <1>1, FS_Subset, FS_CardinalityType

(* The attempts that began a counter are those that were given the value 1. *)
LEMMA BegunAreGivenOne ==
    \A c, d : BegunIn(c, d) = Given(c, d, 1)
BY DEF BegunIn, Given, CountedIn, Replied

-----------------------------------------------------------------------------
(* EXEC adds one reply to the sets it belongs to.                           *)

LEMMA ReplyIsAdded ==
    ASSUME RateTypeOK, IsFiniteSet(Replied),
           NEW n \in Attempt, NEW c \in Client, Execute(n, c)
    PROVE  /\ Replied' = Replied \cup {n} /\ n \notin Replied
           /\ \A m \in Replied : reply'[m] = reply[m]
           /\ reply'[n] \in Reply /\ reply'[n].client = c
           /\ reply'[n].deadline = Deadline(c) /\ reply'[n].value = Incremented(c)
<1> DEFINE answer == [client |-> c, value |-> Incremented(c),
                      ttl |-> Ttl(Deadline(c)), deadline |-> Deadline(c)]
<1>1. reply' = [reply EXCEPT ![n] = answer] /\ reply[n] = None
  BY DEF Execute
<1>2. answer \in Reply
  BY CounterTyped DEF Reply
<1>3. answer # None
  BY <1>2, RateNoneAssumption
<1>4. reply'[n] = answer /\ \A m \in Attempt \ {n} : reply'[m] = reply[m]
  BY <1>1 DEF RateTypeOK
<1>5. Replied' = Replied \cup {n} /\ n \notin Replied
  BY <1>1, <1>3, <1>4 DEF Replied
<1> QED BY <1>2, <1>4, <1>5 DEF Replied

LEMMA CountedGrows ==
    ASSUME RateTypeOK, IsFiniteSet(Replied),
           NEW n \in Attempt, NEW c \in Client, Execute(n, c), NEW x, NEW d
    PROVE  CountedIn(x, d)' = IF x = c /\ d = Deadline(c)
                              THEN CountedIn(x, d) \cup {n} ELSE CountedIn(x, d)
<1>1. CountedIn(x, d)' = {m \in Replied' : reply'[m].client = x /\ reply'[m].deadline = d}
  BY DEF CountedIn
<1> QED BY <1>1, ReplyIsAdded DEF CountedIn

LEMMA GivenGrows ==
    ASSUME RateTypeOK, IsFiniteSet(Replied),
           NEW n \in Attempt, NEW c \in Client, Execute(n, c), NEW x, NEW d, NEW v
    PROVE  Given(x, d, v)' = IF x = c /\ d = Deadline(c) /\ v = Incremented(c)
                             THEN Given(x, d, v) \cup {n} ELSE Given(x, d, v)
<1>1. Given(x, d, v)' = {m \in CountedIn(x, d)' : reply'[m].value = v}
  BY DEF Given
<1>2. \A m \in CountedIn(x, d) : reply'[m] = reply[m] /\ m # n
  BY ReplyIsAdded DEF CountedIn
<1> QED BY <1>1, <1>2, CountedGrows, ReplyIsAdded DEF Given

LEMMA GivenCountGrows ==
    ASSUME RateTypeOK, IsFiniteSet(Replied),
           NEW n \in Attempt, NEW c \in Client, Execute(n, c), NEW x, NEW d, NEW v
    PROVE  Cardinality(Given(x, d, v)') = Cardinality(Given(x, d, v)) +
              IF x = c /\ d = Deadline(c) /\ v = Incremented(c) THEN 1 ELSE 0
<1>1. n \notin Given(x, d, v)
  BY ReplyIsAdded DEF Given, CountedIn
<1>2. IsFiniteSet(Given(x, d, v)) /\ Cardinality(Given(x, d, v)) \in Nat
  BY CountsAreNumbers
<1>3. Cardinality(Given(x, d, v) \cup {n}) = Cardinality(Given(x, d, v)) + 1
  BY <1>1, <1>2, FS_AddElement
<1>4. Given(x, d, v)' = IF x = c /\ d = Deadline(c) /\ v = Incremented(c)
                        THEN Given(x, d, v) \cup {n} ELSE Given(x, d, v)
  BY GivenGrows
<1> QED BY <1>2, <1>3, <1>4

LEMMA WindowCountsGrow ==
    ASSUME RateTypeOK, IsFiniteSet(Replied),
           NEW n \in Attempt, NEW c \in Client, Execute(n, c), NEW x, NEW d
    PROVE  /\ Cardinality(CountedIn(x, d)') = Cardinality(CountedIn(x, d)) +
                 IF x = c /\ d = Deadline(c) THEN 1 ELSE 0
           /\ Cardinality(BegunIn(x, d)') = Cardinality(BegunIn(x, d)) +
                 IF x = c /\ d = Deadline(c) /\ Incremented(c) = 1 THEN 1 ELSE 0
           /\ BegunIn(x, d) \subseteq BegunIn(x, d)'
<1>1. n \notin CountedIn(x, d)
  BY ReplyIsAdded DEF CountedIn
<1>2. IsFiniteSet(CountedIn(x, d)) /\ Cardinality(CountedIn(x, d)) \in Nat
  BY CountsAreNumbers
<1>3. Cardinality(CountedIn(x, d) \cup {n}) = Cardinality(CountedIn(x, d)) + 1
  BY <1>1, <1>2, FS_AddElement
<1>4. CountedIn(x, d)' = IF x = c /\ d = Deadline(c)
                         THEN CountedIn(x, d) \cup {n} ELSE CountedIn(x, d)
  BY CountedGrows
<1>5. BegunIn(x, d) = Given(x, d, 1) /\ BegunIn(x, d)' = Given(x, d, 1)'
  BY DEF BegunIn, Given, CountedIn, Replied
<1>6. Cardinality(Given(x, d, 1)') = Cardinality(Given(x, d, 1)) +
         IF x = c /\ d = Deadline(c) /\ 1 = Incremented(c) THEN 1 ELSE 0
  BY GivenCountGrows
<1>7. Given(x, d, 1) \subseteq Given(x, d, 1)'
  BY GivenGrows
<1> QED BY <1>2, <1>3, <1>4, <1>5, <1>6, <1>7

-----------------------------------------------------------------------------
(* The step of EXEC                                                         *)

(* A value above 1 comes from a live counter, which has not given it before *)
(* as often as counters were begun.                                         *)
LEMMA ValueIsDue ==
    ASSUME Core, NEW c \in Client, NEW d \in Nat, d = Deadline(c),
           NEW w \in Nat, w = Incremented(c), w # 1
    PROVE  /\ Live(c) /\ counter[c].deadline = d
           /\ counter[c].value + 1 = w /\ counter[c].value \in Nat \ {0}
           /\ BegunIn(c, d) # {}
           /\ Cardinality(CountedIn(c, d)) >= counter[c].value
           /\ \A v \in Nat : v >= w =>
                 Cardinality(Given(c, d, v)) < Cardinality(BegunIn(c, d))
<1>1. /\ Live(c) /\ counter[c] # None /\ counter[c].deadline = d
      /\ counter[c].value + 1 = w /\ counter[c].value \in Nat \ {0}
  BY DEF Live, Incremented, Deadline, Core, RateTypeOK, Counter
<1> QED BY <1>1 DEF Core, Counters

LEMMA CoreExecute ==
    ASSUME Core, NEW n \in Attempt, NEW c \in Client, Execute(n, c)
    PROVE  Core'
<1>1. RateTypeOK /\ IsFiniteSet(Replied)
  BY DEF Core
<1>2. PICK e \in Nat, w \in Nat \ {0} : e = Deadline(c) /\ w = Incremented(c)
  BY <1>1, CounterTyped
<1>3. /\ Replied' = Replied \cup {n} /\ n \notin Replied
      /\ \A m \in Replied : reply'[m] = reply[m]
      /\ reply'[n] \in Reply /\ reply'[n].client = c
      /\ reply'[n].deadline = e /\ reply'[n].value = w
  BY <1>1, <1>2, ReplyIsAdded
<1>4. RateTypeOK'
  <2>1. [value |-> w, deadline |-> e] \in Counter
    BY <1>2 DEF Counter
  <2>2. reply' \in [Attempt -> Reply \cup {None}]
    BY <1>1, <1>3 DEF Execute, RateTypeOK
  <2> QED BY <1>1, <1>2, <2>1, <2>2 DEF Execute, RateTypeOK, Verdict
<1>5. IsFiniteSet(Replied')
  BY <1>1, <1>3, FS_AddElement
<1>6. JudgedByReply'
  <2>1. \A m \in Attempt : m # n => verdict'[m] = verdict[m]
    BY <1>1 DEF Execute, RateTypeOK
  <2>2. verdict'[n] \in {"replied", "unavailable"}
    BY <1>1 DEF Execute, RateTypeOK
  <2> QED BY <1>3, <2>1, <2>2 DEF Core, JudgedByReply
<1>7. \A x, d, v : /\ Cardinality(CountedIn(x, d)) \in Nat
                   /\ Cardinality(BegunIn(x, d)) \in Nat
                   /\ Cardinality(Given(x, d, v)) \in Nat
  BY <1>1, CountsAreNumbers
<1>8. \A x, d : /\ Cardinality(CountedIn(x, d)') = Cardinality(CountedIn(x, d)) +
                      IF x = c /\ d = e THEN 1 ELSE 0
                /\ Cardinality(BegunIn(x, d)') = Cardinality(BegunIn(x, d)) +
                      IF x = c /\ d = e /\ w = 1 THEN 1 ELSE 0
                /\ BegunIn(x, d) \subseteq BegunIn(x, d)'
  BY <1>1, <1>2, WindowCountsGrow
<1>9. \A x, d, v : Cardinality(Given(x, d, v)') = Cardinality(Given(x, d, v)) +
                      IF x = c /\ d = e /\ v = w THEN 1 ELSE 0
  BY <1>1, <1>2, GivenCountGrows
<1>10. Cardinality(CountedIn(c, e)') >= w
       /\ Cardinality(Given(c, e, w)') <= Cardinality(BegunIn(c, e)')
  <2>1. CASE w = 1
    <3>1. Cardinality(Given(c, e, 1)) = Cardinality(BegunIn(c, e))
      BY BegunAreGivenOne
    <3> QED BY <1>7, <1>8, <1>9, <2>1, <3>1
  <2>2. CASE w # 1
    BY <1>2, <1>7, <1>8, <1>9, <2>2, ValueIsDue
  <2> QED BY <2>1, <2>2
<1>11. Values'
  <2> SUFFICES ASSUME NEW x, NEW d, NEW v \in Nat
               PROVE  /\ Given(x, d, v)' # {} => Cardinality(CountedIn(x, d)') >= v
                      /\ Cardinality(Given(x, d, v)') <= Cardinality(BegunIn(x, d)')
    BY DEF Values
  <2>1. CASE x = c /\ d = e /\ v = w
    BY <1>10, <2>1
  <2>2. CASE ~ (x = c /\ d = e /\ v = w)
    <3>1. Given(x, d, v)' = Given(x, d, v)
      BY <1>1, <1>2, <2>2, GivenGrows
    <3>2. /\ Given(x, d, v) # {} => Cardinality(CountedIn(x, d)) >= v
          /\ Cardinality(Given(x, d, v)) <= Cardinality(BegunIn(x, d))
      BY DEF Core, Values
    <3> QED BY <1>7, <1>8, <3>1, <3>2
  <2> QED BY <2>1, <2>2
<1>12. Counters'
  <2> SUFFICES ASSUME NEW x \in Client, NEW d \in Nat,
                      counter'[x] # None, counter'[x].deadline = d
               PROVE  /\ BegunIn(x, d)' # {}
                      /\ Cardinality(CountedIn(x, d)') >= counter'[x].value
                      /\ \A v \in Nat : v > counter'[x].value =>
                            Cardinality(Given(x, d, v)') < Cardinality(BegunIn(x, d)')
    BY DEF Counters
  <2>1. Cardinality(BegunIn(x, d)') # 0 => BegunIn(x, d)' # {}
    BY FS_EmptySet
  <2>2. CASE x # c
    <3>1. counter'[x] = counter[x]
      BY <1>1, <2>2 DEF Execute, RateTypeOK
    <3>2. /\ BegunIn(x, d) # {} /\ Cardinality(CountedIn(x, d)) >= counter[x].value
          /\ \A v \in Nat : v > counter[x].value =>
                Cardinality(Given(x, d, v)) < Cardinality(BegunIn(x, d))
      BY <3>1 DEF Core, Counters
    <3>3. BegunIn(x, d)' # {}
      BY <1>8, <3>2
    <3>4. /\ Cardinality(CountedIn(x, d)') = Cardinality(CountedIn(x, d))
          /\ Cardinality(BegunIn(x, d)') = Cardinality(BegunIn(x, d))
          /\ \A v : Cardinality(Given(x, d, v)') = Cardinality(Given(x, d, v))
      BY <1>7, <1>8, <1>9, <2>2
    <3> QED BY <3>1, <3>2, <3>3, <3>4
  <2>3. CASE x = c
    <3>1. counter'[x].value = w /\ d = e
      BY <1>1, <1>2, <2>3 DEF Execute, RateTypeOK
    <3>2. CASE w = 1
      <4>1. \A v \in Nat : Cardinality(Given(c, e, v)) <= Cardinality(BegunIn(c, e))
        BY DEF Core, Values
      <4>2. Cardinality(BegunIn(c, e)') # 0
        <5>1. Cardinality(BegunIn(c, e)') = Cardinality(BegunIn(c, e)) + 1
          BY <1>8, <3>2
        <5>2. Cardinality(BegunIn(c, e)) \in Nat
          BY <1>7
        <5> QED BY <5>1, <5>2
      <4>3. BegunIn(x, d)' # {}
        BY <2>1, <2>3, <3>1, <4>2
      <4>4. \A v \in Nat : v > w =>
               Cardinality(Given(c, e, v)') < Cardinality(BegunIn(c, e)')
        BY <1>7, <1>8, <1>9, <3>2, <4>1
      <4> QED BY <1>10, <2>3, <3>1, <4>3, <4>4
    <3>3. CASE w # 1
      <4>1. /\ BegunIn(c, e) # {}
            /\ \A v \in Nat : v >= w =>
                  Cardinality(Given(c, e, v)) < Cardinality(BegunIn(c, e))
        BY <1>2, <3>3, ValueIsDue
      <4>2. Cardinality(BegunIn(c, e)') = Cardinality(BegunIn(c, e)) /\ BegunIn(c, e)' # {}
        BY <1>7, <1>8, <3>3, <4>1
      <4> QED BY <1>7, <1>9, <1>10, <2>3, <3>1, <4>1, <4>2
    <3> QED BY <3>2, <3>3
  <2> QED BY <2>2, <2>3
<1> QED BY <1>4, <1>5, <1>6, <1>11, <1>12 DEF Core

-----------------------------------------------------------------------------
(* The invariant                                                            *)

LEMMA CoreInit ==
    ASSUME RateInit
    PROVE  Core
<1>1. RateTypeOK
  BY DEF RateInit, RateTypeOK, Verdict
<1>2. Replied = {}
  BY DEF RateInit, Replied
<1>3. \A c, d, v : Given(c, d, v) = {} /\ BegunIn(c, d) = {}
  BY <1>2 DEF Given, CountedIn, BegunIn, Replied
<1>4. IsFiniteSet(Replied) /\ Cardinality({}) = 0
  BY <1>2, FS_EmptySet
<1>5. JudgedByReply
  BY DEF RateInit, JudgedByReply
<1>6. Values
  BY <1>3, <1>4 DEF Values
<1>7. Counters
  BY DEF RateInit, Counters
<1> QED BY <1>1, <1>4, <1>5, <1>6, <1>7 DEF Core

(* A step that adds no reply and writes no counter preserves the counts.    *)
LEMMA CountsUnchanged ==
    ASSUME Core, UNCHANGED reply, \A c \in Client : counter'[c] \in {counter[c], None}
    PROVE  Replied' = Replied /\ Values' /\ Counters'
<1>1. Replied' = Replied
  BY DEF Replied
<1>2. \A c, d : CountedIn(c, d)' = CountedIn(c, d)
  BY <1>1 DEF CountedIn
<1>3. \A c, d : BegunIn(c, d)' = BegunIn(c, d)
  BY DEF BegunIn
<1>4. \A c, d, v : Given(c, d, v)' = Given(c, d, v)
  BY <1>2 DEF Given
<1>5. Values'
  BY <1>2, <1>3, <1>4 DEF Core, Values
<1>6. Counters'
  <2> SUFFICES ASSUME NEW c \in Client, NEW d \in Nat,
                      counter'[c] # None, counter'[c].deadline = d
               PROVE  /\ BegunIn(c, d)' # {}
                      /\ Cardinality(CountedIn(c, d)') >= counter'[c].value
                      /\ \A v \in Nat : v > counter'[c].value =>
                            Cardinality(Given(c, d, v)') < Cardinality(BegunIn(c, d)')
    BY DEF Counters
  <2>1. counter'[c] = counter[c]
    OBVIOUS
  <2> QED BY <1>2, <1>3, <1>4, <2>1 DEF Core, Counters
<1> QED BY <1>1, <1>5, <1>6

LEMMA CoreStep ==
    ASSUME Core, [RateNext]_rateVars
    PROVE  Core'
<1>1. ASSUME NEW n \in Attempt, NEW c \in Client, Execute(n, c)
      PROVE  Core'
  BY <1>1, CoreExecute
<1>2. ASSUME NEW n \in Attempt, Judge(n)
      PROVE  Core'
  <2>1. Replied' = Replied /\ Values' /\ Counters'
    BY <1>2, CountsUnchanged DEF Judge
  <2>2. RateTypeOK'
    BY <1>2 DEF Core, RateTypeOK, Judge, Verdict
  <2>3. n \in Replied /\ reply[n].value \in Nat
    BY <1>2, RepliedTyped DEF Core, JudgedByReply, Judge, Reply
  <2>4. \A m \in Attempt \ {n} : verdict'[m] = verdict[m]
    BY <1>2 DEF Core, RateTypeOK, Judge
  <2>5. /\ verdict'[n] = "admitted" => reply[n].value <= MaximumAttempts
        /\ verdict'[n] = "limited" => ~ (reply[n].value <= MaximumAttempts)
    BY <1>2 DEF Core, RateTypeOK, Judge, WithinLimit
  <2>6. JudgedByReply'
    BY <1>2, <2>1, <2>3, <2>4, <2>5, RateLimitAssumption DEF Core, JudgedByReply, Judge
  <2> QED BY <2>1, <2>2, <2>6 DEF Core
<1>3. ASSUME NEW n \in Attempt, Fail(n)
      PROVE  Core'
  <2>1. Replied' = Replied /\ Values' /\ Counters'
    BY <1>3, CountsUnchanged DEF Fail
  <2>2. RateTypeOK'
    BY <1>3 DEF Core, RateTypeOK, Fail, Verdict
  <2>3. JudgedByReply'
    BY <1>3, <2>1 DEF Core, RateTypeOK, JudgedByReply, Fail
  <2> QED BY <2>1, <2>2, <2>3 DEF Core
<1>4. ASSUME NEW c \in Client, Forget(c)
      PROVE  Core'
  <2>1. \A x \in Client : counter'[x] \in {counter[x], None}
    BY <1>4 DEF Core, RateTypeOK, Forget
  <2>2. Replied' = Replied /\ Values' /\ Counters'
    BY <1>4, <2>1, CountsUnchanged DEF Forget
  <2>3. RateTypeOK' /\ JudgedByReply'
    BY <1>4, <2>2 DEF Core, RateTypeOK, JudgedByReply, Forget
  <2> QED BY <2>2, <2>3 DEF Core
<1>5. ASSUME RedisTick
      PROVE  Core'
  <2>1. Replied' = Replied /\ Values' /\ Counters'
    BY <1>5, CountsUnchanged DEF RedisTick
  <2>2. RateTypeOK' /\ JudgedByReply'
    BY <1>5, <2>1 DEF Core, RateTypeOK, JudgedByReply, RedisTick
  <2> QED BY <2>1, <2>2 DEF Core
<1>6. ASSUME UNCHANGED rateVars
      PROVE  Core'
  <2>1. Replied' = Replied /\ Values' /\ Counters'
    BY <1>6, CountsUnchanged DEF rateVars
  <2>2. RateTypeOK' /\ JudgedByReply'
    BY <1>6, <2>1 DEF Core, RateTypeOK, JudgedByReply, rateVars
  <2> QED BY <2>1, <2>2 DEF Core
<1> QED BY <1>1, <1>2, <1>3, <1>4, <1>5, <1>6 DEF RateNext, Serve

(* Within Core, the parts of CountingIsSound are those of Core.             *)
LEMMA CoreCounts ==
    ASSUME Core
    PROVE  CountingIsSound
<1>1. RateTypeOK /\ IsFiniteSet(Replied)
  BY DEF Core
<1>2. \A c, d, v : /\ IsFiniteSet(CountedIn(c, d)) /\ Cardinality(CountedIn(c, d)) \in Nat
                   /\ Cardinality(Given(c, d, v)) \in Nat
  BY <1>1, CountsAreNumbers
<1>3. ValuesAreCounted
  <2> SUFFICES ASSUME NEW n \in Replied
               PROVE  /\ Cardinality(CountedIn(reply[n].client, reply[n].deadline)) >= reply[n].value
                      /\ Cardinality(Given(reply[n].client, reply[n].deadline, reply[n].value)) <=
                            Cardinality(BegunIn(reply[n].client, reply[n].deadline))
    BY DEF ValuesAreCounted
  <2>1. reply[n].value \in Nat
    BY <1>1, RepliedTyped DEF Reply
  <2>2. n \in Given(reply[n].client, reply[n].deadline, reply[n].value)
    BY DEF Given, CountedIn
  <2> QED BY <2>1, <2>2 DEF Core, Values
<1>4. CountersAreCounted
  <2> SUFFICES ASSUME NEW c \in Client, counter[c] # None, NEW d \in Nat,
                      d = counter[c].deadline
               PROVE  /\ BegunIn(c, d) # {}
                      /\ Cardinality(CountedIn(c, d)) >= counter[c].value
                      /\ \A n \in CountedIn(c, d) : reply[n].value > counter[c].value =>
                            Cardinality(Given(c, d, reply[n].value)) <
                                Cardinality(BegunIn(c, d))
    <3>1. \A c \in Client : counter[c] # None => counter[c].deadline \in Nat
      BY <1>1 DEF RateTypeOK, Counter
    <3> QED BY <3>1 DEF CountersAreCounted
  <2>1. \A n \in CountedIn(c, d) : reply[n].value \in Nat
    BY <1>1, RepliedTyped DEF CountedIn, Reply
  <2> QED BY <2>1 DEF Core, Counters
<1>5. LimitedOnlyAfterCounting
  <2> SUFFICES ASSUME NEW n \in Attempt, verdict[n] = "limited"
               PROVE  Cardinality({k \in Attempt \ {n} :
                          /\ reply[k] # None
                          /\ reply[k].client = reply[n].client
                          /\ reply[k].deadline = reply[n].deadline}) >= MaximumAttempts
    BY DEF LimitedOnlyAfterCounting
  <2> DEFINE counted == CountedIn(reply[n].client, reply[n].deadline)
  <2>1. n \in Replied /\ reply[n].value > MaximumAttempts
    BY DEF Core, JudgedByReply
  <2>2. reply[n].value \in Nat
    BY <1>1, <2>1, RepliedTyped DEF Reply
  <2>3. Cardinality(counted) >= reply[n].value
    BY <1>3, <2>1 DEF ValuesAreCounted
  <2>4. n \in counted
    BY <2>1 DEF CountedIn
  <2>5. {k \in Attempt \ {n} : /\ reply[k] # None
                               /\ reply[k].client = reply[n].client
                               /\ reply[k].deadline = reply[n].deadline} = counted \ {n}
    BY DEF CountedIn, Replied
  <2>6. Cardinality(counted \ {n}) = Cardinality(counted) - 1
    BY <1>2, <2>4, FS_RemoveElement
  <2>7. Cardinality(counted) \in Nat
    BY <1>2
  <2> HIDE DEF counted
  <2>8. Cardinality(counted \ {n}) >= MaximumAttempts
    BY <2>1, <2>2, <2>3, <2>6, <2>7, RateLimitAssumption
  <2> QED BY <2>5, <2>8, Zenon
<1> QED BY <1>1, <1>3, <1>4, <1>5 DEF Core, CountingIsSound

LEMMA CoreHolds == RateSpec => []Core
<1>1. RateInit => Core
  BY CoreInit
<1>2. Core /\ [RateNext]_rateVars => Core'
  BY CoreStep
<1> QED BY <1>1, <1>2, PTL DEF RateSpec

(* Every 429 is preceded by the maximum of counted attempts in its window,  *)
(* every value Redis gave was counted, and no counter is without a deadline *)
(* (Execute: MULTI, INCR, EXPIRE NX, TTL, EXEC).                            *)
THEOREM CountingSafety == RateSpec => []CountingIsSound
<1>1. Core => CountingIsSound
  BY CoreCounts
<1> QED BY <1>1, CoreHolds, PTL

(* No attempt prolongs the window it falls into (EXPIRE NX).                *)
THEOREM FixedWindow == RateSpec => WindowIsFixed
<1>1. Core /\ [RateNext]_rateVars =>
         \A c \in Client : Live(c) /\ counter'[c] # None =>
             counter'[c].deadline = counter[c].deadline
  <2> SUFFICES ASSUME Core, [RateNext]_rateVars,
                      NEW c \in Client, Live(c), counter'[c] # None
               PROVE  counter'[c].deadline = counter[c].deadline
    OBVIOUS
  <2>1. counter \in [Client -> Counter \cup {None}]
    BY DEF Core, RateTypeOK
  <2>2. ASSUME NEW n \in Attempt, NEW x \in Client, Execute(n, x)
        PROVE  counter'[c].deadline = counter[c].deadline
    BY <2>1, <2>2 DEF Execute, Deadline
  <2>3. ASSUME NEW x \in Client, Forget(x)
        PROVE  counter'[c].deadline = counter[c].deadline
    <3>1. counter'[c] = IF x = c THEN None ELSE counter[c]
      BY <2>1, <2>3 DEF Forget
    <3> QED BY <3>1
  <2>4. ASSUME UNCHANGED counter
        PROVE  counter'[c].deadline = counter[c].deadline
    BY <2>4
  <2> QED BY <2>2, <2>3, <2>4 DEF RateNext, Serve, Judge, Fail, RedisTick, rateVars
<1> QED BY <1>1, CoreHolds, PTL DEF RateSpec, WindowIsFixed

-----------------------------------------------------------------------------
(* The limit                                                                *)

LEMMA SmallSetInjects ==
    ASSUME NEW S, IsFiniteSet(S), NEW k \in Nat, Cardinality(S) <= k
    PROVE  \E f \in [S -> 1 .. k] : \A a, b \in S : f[a] = f[b] => a = b
<1>1. ExistsBijection(1 .. Cardinality(S), S) /\ Cardinality(S) \in Nat
  BY FS_CardinalityType
<1>2. ExistsBijection(S, 1 .. Cardinality(S))
  BY <1>1, Fun_ExistsBijSymmetric
<1>3. PICK f : f \in Bijection(S, 1 .. Cardinality(S))
  BY <1>2, Fun_ExistsBij
<1>4. f \in [S -> 1 .. Cardinality(S)] /\ \A a, b \in S : f[a] = f[b] => a = b
  BY <1>3 DEF Bijection, Injection, IsInjective
<1>5. f \in [S -> 1 .. k]
  BY <1>1, <1>4
<1> QED BY <1>4, <1>5

(* A set whose members each have one of v values, no value more often than  *)
(* k times, has at most v * k members.                                      *)
LEMMA ValuesBoundCount ==
    ASSUME NEW S, IsFiniteSet(S), NEW v \in Nat, NEW k \in Nat,
           NEW value \in [S -> 1 .. v],
           \A u \in 1 .. v : Cardinality({n \in S : value[n] = u}) <= k
    PROVE  Cardinality(S) <= v * k
<1> DEFINE of(u) == {n \in S : value[n] = u}
           numbered(u) == CHOOSE f \in [of(u) -> 1 .. k] :
                              \A a, b \in of(u) : f[a] = f[b] => a = b
           place == [n \in S |-> <<value[n], numbered(value[n])[n]>>]
<1>1. \A u \in 1 .. v : /\ numbered(u) \in [of(u) -> 1 .. k]
                        /\ \A a, b \in of(u) : numbered(u)[a] = numbered(u)[b] => a = b
  <2> SUFFICES ASSUME NEW u \in 1 .. v
               PROVE  \E f \in [of(u) -> 1 .. k] :
                          \A a, b \in of(u) : f[a] = f[b] => a = b
    OBVIOUS
  <2>1. IsFiniteSet(of(u))
    BY FS_Subset
  <2> QED BY <2>1, SmallSetInjects
<1>2. \A n \in S : value[n] \in 1 .. v /\ n \in of(value[n])
  OBVIOUS
<1>3. \A a \in S, b \in S : place[a] = place[b] => a = b
  <2> SUFFICES ASSUME NEW a \in S, NEW b \in S, place[a] = place[b]
               PROVE  a = b
    OBVIOUS
  <2> HIDE DEF numbered
  <2>1. value[a] = value[b] /\ numbered(value[a])[a] = numbered(value[b])[b]
    OBVIOUS
  <2>2. a \in of(value[a]) /\ b \in of(value[a])
    BY <2>1
  <2> HIDE DEF of
  <2> QED BY <1>1, <1>2, <2>1, <2>2
<1>4. place \in [S -> (1 .. v) \X (1 .. k)]
  <2> HIDE DEF numbered
  <2>1. \A n \in S : numbered(value[n])[n] \in 1 .. k
    BY <1>1, <1>2
  <2> QED BY <1>2, <2>1
<1> HIDE DEF place
<1>5. place \in Injection(S, (1 .. v) \X (1 .. k))
  BY <1>3, <1>4, Fun_IsInj
<1>6. /\ IsFiniteSet(1 .. v) /\ Cardinality(1 .. v) = v
      /\ IsFiniteSet(1 .. k) /\ Cardinality(1 .. k) = k
  <2> SUFFICES ASSUME NEW m \in Nat
               PROVE  IsFiniteSet(1 .. m) /\ Cardinality(1 .. m) = m
    OBVIOUS
  <2>1. /\ IsFiniteSet(1 .. m)
        /\ Cardinality(1 .. m) = IF 1 > m THEN 0 ELSE m - 1 + 1
    BY FS_Interval
  <2> QED BY <2>1
<1>7. /\ IsFiniteSet((1 .. v) \X (1 .. k))
      /\ Cardinality((1 .. v) \X (1 .. k)) = v * k
  <2> DEFINE values == 1 .. v
             numbers == 1 .. k
  <2>1. /\ IsFiniteSet(values) /\ Cardinality(values) = v
        /\ IsFiniteSet(numbers) /\ Cardinality(numbers) = k
    BY <1>6
  <2> HIDE DEF values, numbers
  <2>2. /\ IsFiniteSet(values \X numbers)
        /\ Cardinality(values \X numbers) = Cardinality(values) * Cardinality(numbers)
    BY <2>1, FS_Product, Zenon
  <2>3. Cardinality(values \X numbers) = v * k
    BY <2>1, <2>2, Zenon
  <2> QED BY <2>2, <2>3 DEF values, numbers
<1> QED BY <1>5, <1>7, FS_Injection

(* However their replies interleave, of the attempts of a client in a       *)
(* window at most the maximum is admitted per counter begun in it           *)
(* (FixedWindowLoginRateLimiter.consume).                                   *)
THEOREM AdmissionsAreLimited == RateSpec => []LimitPerWindow
<1>1. Core => LimitPerWindow
  <2> SUFFICES ASSUME Core, NEW m \in Attempt, verdict[m] = "admitted"
               PROVE  Cardinality(AdmittedIn(reply[m].client, reply[m].deadline)) <=
                          MaximumAttempts * Cardinality(BegunIn(reply[m].client, reply[m].deadline))
    BY DEF LimitPerWindow
  <2>1. PICK c, d : c = reply[m].client /\ d = reply[m].deadline
    OBVIOUS
  <2> DEFINE admitted == AdmittedIn(c, d)
             value == [n \in admitted |-> reply[n].value]
  <2>2. RateTypeOK /\ IsFiniteSet(Replied)
    BY DEF Core
  <2>3. \A n \in admitted : n \in CountedIn(c, d) /\ reply[n].value <= MaximumAttempts
    BY DEF Core, JudgedByReply, AdmittedIn, CountedIn
  <2>4. \A n \in CountedIn(c, d) : reply[n].value \in Nat \ {0}
    BY <2>2, RepliedTyped DEF CountedIn, Reply
  <2>5. value \in [admitted -> 1 .. MaximumAttempts]
    BY <2>3, <2>4, RateLimitAssumption
  <2>6. IsFiniteSet(admitted)
    <3>1. admitted \in SUBSET Replied
      BY <2>3 DEF CountedIn
    <3> QED BY <2>2, <3>1, FS_Subset
  <2>7. Cardinality(BegunIn(c, d)) \in Nat
    BY <2>2, CountsAreNumbers
  <2>8. \A u \in 1 .. MaximumAttempts :
           Cardinality({n \in admitted : value[n] = u}) <= Cardinality(BegunIn(c, d))
    <3> SUFFICES ASSUME NEW u \in 1 .. MaximumAttempts
                 PROVE  Cardinality({n \in admitted : value[n] = u}) <=
                            Cardinality(BegunIn(c, d))
      OBVIOUS
    <3>1. {n \in admitted : value[n] = u} \in SUBSET Given(c, d, u)
      BY <2>3 DEF Given
    <3>2. IsFiniteSet(Given(c, d, u)) /\ Cardinality(Given(c, d, u)) \in Nat
      BY <2>2, CountsAreNumbers
    <3>3. /\ Cardinality({n \in admitted : value[n] = u}) <= Cardinality(Given(c, d, u))
          /\ IsFiniteSet({n \in admitted : value[n] = u})
      BY <3>1, <3>2, FS_Subset
    <3>4. Cardinality(Given(c, d, u)) <= Cardinality(BegunIn(c, d))
      BY RateLimitAssumption DEF Core, Values
    <3>5. Cardinality({n \in admitted : value[n] = u}) \in Nat
      BY <3>3, FS_CardinalityType
    <3> QED BY <2>7, <3>2, <3>3, <3>4, <3>5
  <2> HIDE DEF admitted, value
  <2>9. Cardinality(admitted) <= MaximumAttempts * Cardinality(BegunIn(c, d))
    BY <2>5, <2>6, <2>7, <2>8, ValuesBoundCount, RateLimitAssumption
  <2> QED BY <2>1, <2>9 DEF admitted
<1> QED BY <1>1, CoreHolds, PTL
=============================================================================
