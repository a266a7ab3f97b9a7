---------------------------- MODULE ValuesProofs ----------------------------
(***************************************************************************)
(* Proofs about the rules for single values: positions, municipalities,     *)
(* registration numbers and texts of any length.                            *)
(***************************************************************************)
EXTENDS MCRules, TLAPS, SequenceTheorems, WellFoundedInduction

(* Induction over 0..n, and what a recursive definition computes            *)

(* A set of numbers has a least element, for < is well-founded on Nat.      *)
LEMMA LeastElement ==
    ASSUME NEW T \in SUBSET Nat, T # {}
    PROVE  \E least \in T : \A n \in T : least <= n
<1>1. \E x \in T : \A y \in T : ~ (<<y, x>> \in OpToRel(<,Nat))
  BY NatLessThanWellFounded, WFMin
<1>2. OpToRel(<, Nat) = {ss \in Nat \X Nat : ss[1] < ss[2]}
  BY DEF OpToRel
<1> HIDE DEF OpToRel
<1>3. \A x, y \in Nat : <<y, x>> \in {ss \in Nat \X Nat : ss[1] < ss[2]} <=> y < x
  OBVIOUS
<1>4. PICK x \in T : \A y \in T : ~ (<<y, x>> \in {ss \in Nat \X Nat : ss[1] < ss[2]})
  BY <1>1, <1>2
<1>5. \A n \in T : n \in Nat /\ x \in Nat /\ ~(n < x)
  BY <1>3, <1>4
<1>6. \A n \in T : x <= n
  BY <1>5
<1> QED BY <1>6

(* Induction, over the set of the numbers it holds for: by the least one    *)
(* outside.                                                                 *)
LEMMA SetInduction ==
    ASSUME NEW S, 0 \in S, \A n \in Nat : n \in S => n + 1 \in S
    PROVE  Nat \subseteq S
<1> SUFFICES ASSUME Nat \ S # {} PROVE FALSE
  OBVIOUS
<1>1. PICK least \in Nat \ S : \A n \in Nat \ S : least <= n
  BY LeastElement
<1>2. least - 1 \in Nat /\ least - 1 \in S
  BY <1>1
<1> QED BY <1>1, <1>2

(* A recursion over positions, and that its values exist.                   *)
IsRecursion(g, n, v0, step) ==
    g[0] = v0 /\ \A i \in 1..n : g[i] = step[i][g[i - 1]]

LEMMA RecursionExists ==
    ASSUME NEW V, NEW v0 \in V, NEW n \in Nat, NEW step \in [1..n -> [V -> V]]
    PROVE  \E g \in [0..n -> V] : IsRecursion(g, n, v0, step)
<1> DEFINE Good == {m \in Nat : m <= n => \E g \in [0..m -> V] : IsRecursion(g, m, v0, step)}
<1>1. 0 \in Good
  <2> DEFINE g == [i \in 0..0 |-> v0]
  <2>1. g \in [0..0 -> V] /\ IsRecursion(g, 0, v0, step)
    BY DEF IsRecursion
  <2> QED BY <2>1
<1>2. \A m \in Nat : m \in Good => m + 1 \in Good
  <2> SUFFICES ASSUME NEW m \in Nat, m + 1 <= n, m \in Good
               PROVE  \E g \in [0..m + 1 -> V] : IsRecursion(g, m + 1, v0, step)
    OBVIOUS
  <2>1. PICK g \in [0..m -> V] : IsRecursion(g, m, v0, step)
    OBVIOUS
  <2>2. step[m + 1][g[m]] \in V
    <3>1. m + 1 \in 1..n /\ g[m] \in V
      OBVIOUS
    <3> QED BY <3>1
  <2> DEFINE h == [i \in 0..m + 1 |-> IF i = m + 1 THEN step[m + 1][g[m]] ELSE g[i]]
  <2>3. h \in [0..m + 1 -> V]
    BY <2>2
  <2>4. \A i \in 0..m : h[i] = g[i]
    OBVIOUS
  <2>5. h[m + 1] = step[m + 1][h[m]]
    BY <2>4
  <2> HIDE DEF h
  <2>6. \A i \in 1..m + 1 : h[i] = step[i][h[i - 1]]
    <3> TAKE i \in 1..m + 1
    <3>1. CASE i = m + 1
      <4>1. i - 1 = m
        BY <3>1
      <4> QED BY <2>5, <3>1, <4>1
    <3>2. CASE i \in 1..m
      <4>1. h[i] = g[i] /\ h[i - 1] = g[i - 1]
        BY <2>4, <3>2
      <4> QED BY <2>1, <3>2, <4>1 DEF IsRecursion
    <3> QED BY <3>1, <3>2
  <2>7. IsRecursion(h, m + 1, v0, step)
    BY <2>1, <2>4, <2>6 DEF IsRecursion
  <2> QED BY <2>3, <2>7
<1> HIDE DEF Good
<1>3. Nat \subseteq Good
  BY <1>1, <1>2, SetInduction
<1> QED BY <1>3 DEF Good

Follows(h, V, n, v0, step) ==
    h[0] = v0 /\ \A i \in 1..n : h[i - 1] \in V => h[i] = step[i][h[i - 1]]

(* The only one: whatever obeys the step as far as its values have the type *)
(* has the values of the recursion.                                         *)
LEMMA RecursionUnique ==
    ASSUME NEW V, NEW n \in Nat, NEW v0, NEW step, NEW g \in [0..n -> V],
           IsRecursion(g, n, v0, step), NEW h, Follows(h, V, n, v0, step)
    PROVE  h[n] = g[n]
<1> DEFINE Good == {m \in Nat : m <= n => h[m] = g[m]}
<1>1. 0 \in Good
  BY DEF IsRecursion, Follows
<1>2. \A m \in Nat : m \in Good => m + 1 \in Good
  <2> SUFFICES ASSUME NEW m \in Nat, m \in Good, m + 1 <= n
               PROVE  h[m + 1] = g[m + 1]
    OBVIOUS
  <2>1. m + 1 \in 1..n /\ (m + 1) - 1 = m /\ h[m] = g[m] /\ g[m] \in V
    OBVIOUS
  <2> QED BY <2>1 DEF IsRecursion, Follows
<1> HIDE DEF Good
<1>3. Nat \subseteq Good
  BY <1>1, <1>2, SetInduction
<1> QED BY <1>3 DEF Good

-----------------------------------------------------------------------------

(* The sum that packages/common reduces to, position by position.           *)
LEMMA SumAtPositions ==
    ASSUME NEW v \in Seq(Int), NEW w, \A i \in 1..Len(v) : w[i] \in Int
    PROVE  \E g \in [0..Len(v) -> Int] :
               /\ g[0] = 0
               /\ \A i \in 1..Len(v) : g[i] = g[i - 1] + v[i] * w[i]
               /\ Number!WeightedSum(v, w) = g[Len(v)]
<1> DEFINE n == Len(v)
           step == [i \in 1..n |-> [s \in Int |-> s + v[i] * w[i]]]
<1>0. n \in Nat /\ 0 \in Int /\ \A i \in 1..n : v[i] * w[i] \in Int
  BY ElementOfSeq
<1>1. step \in [1..n -> [Int -> Int]]
  BY <1>0
<1>2. \A i \in 1..n, s \in Int : step[i][s] = s + v[i] * w[i]
  OBVIOUS
<1> HIDE DEF n, step
<1>3. PICK g \in [0..n -> Int] : IsRecursion(g, n, 0, step)
  BY <1>0, <1>1, RecursionExists
<1>4. \A i \in 1..n : i # 0 /\ i \in 0..n /\ i - 1 \in 0..n /\ g[i - 1] \in Int
  BY <1>0
<1>5. g[0] = 0 /\ \A i \in 1..n : g[i] = g[i - 1] + v[i] * w[i]
  BY <1>2, <1>3, <1>4 DEF IsRecursion
<1>6. g = [i \in 0..n |-> IF i = 0 THEN 0 ELSE g[i - 1] + v[i] * w[i]]
  BY <1>0, <1>5
<1> DEFINE sum[i \in 0..Len(v)] == IF i = 0 THEN 0 ELSE sum[i - 1] + v[i] * w[i]
<1>7. sum[n] = Number!WeightedSum(v, w)
  BY DEF Number!WeightedSum, n
<1>8. sum = [i \in 0..n |-> IF i = 0 THEN 0 ELSE sum[i - 1] + v[i] * w[i]]
  BY <1>6 DEF n
<1> HIDE DEF sum
<1>9. sum[0] = 0
  BY <1>0, <1>8
<1>10. \A i \in 1..n : sum[i] = sum[i - 1] + v[i] * w[i]
  BY <1>4, <1>8
<1>11. Follows(sum, Int, n, 0, step)
  BY <1>2, <1>9, <1>10 DEF Follows
<1>12. sum[n] = g[n]
  <2>1. n \in Nat
    BY <1>0
  <2>2. \A h : Follows(h, Int, n, 0, step) => h[n] = g[n]
    BY <1>3, <2>1, RecursionUnique
  <2> QED BY <1>11, <2>2
<1> QED BY <1>3, <1>5, <1>7, <1>12 DEF n

-----------------------------------------------------------------------------
(* What stands where in a sequence                                          *)

(* What stands where in a concatenation.                                    *)
Joined(u, s, t) ==
    /\ Len(u) = Len(s) + Len(t)
    /\ \A i \in 1..Len(s) + Len(t) : u[i] = IF i <= Len(s) THEN s[i] ELSE t[i - Len(s)]

LEMMA ConcatJoins ==
    ASSUME NEW S, NEW s \in Seq(S), NEW t \in Seq(S)
    PROVE  s \o t \in Seq(S) /\ Joined(s \o t, s, t)
BY ConcatProperties DEF Joined

(* What a slice is made of.                                                 *)
LEMMA SliceFacts ==
    ASSUME NEW S, NEW s \in Seq(S), NEW m \in 1..Len(s) + 1, NEW n \in m - 1..Len(s)
    PROVE  /\ SubSeq(s, m, n) \in Seq(S)
           /\ Len(SubSeq(s, m, n)) = n - m + 1
           /\ \A i \in 1..n - m + 1 : SubSeq(s, m, n)[i] = s[m + i - 1]
<1>1. m \in Int /\ n \in Int /\ \A i \in m..n : s[i] \in S
  BY ElementOfSeq
<1>2. n - m + 1 = IF m <= n THEN n - m + 1 ELSE 0
  OBVIOUS
<1> QED BY <1>1, <1>2, SubSeqProperties

(* One more element makes the next prefix.                                  *)
LEMMA PrefixGrows ==
    ASSUME NEW S, NEW s \in Seq(S), NEW k \in Nat, k + 1 <= Len(s)
    PROVE  /\ SubSeq(s, 1, k) \in Seq(S)
           /\ Append(SubSeq(s, 1, k), s[k + 1]) = SubSeq(s, 1, k + 1)
<1> DEFINE u == SubSeq(s, 1, k)
           t == SubSeq(s, 1, k + 1)
<1>0. Len(s) \in Nat /\ s[k + 1] \in S
  BY ElementOfSeq
<1>1. u \in Seq(S) /\ Len(u) = k /\ \A i \in 1..k : u[i] = s[i]
  <2>1. 1 \in 1..Len(s) + 1 /\ k \in 1 - 1..Len(s)
    BY <1>0
  <2>2. /\ u \in Seq(S) /\ Len(u) = k - 1 + 1
        /\ \A i \in 1..k - 1 + 1 : u[i] = s[1 + i - 1]
    BY <2>1, SliceFacts
  <2> HIDE DEF u
  <2> QED BY <2>2
<1>2. t \in Seq(S) /\ Len(t) = k + 1 /\ \A i \in 1..k + 1 : t[i] = s[i]
  <2>1. 1 \in 1..Len(s) + 1 /\ k + 1 \in 1 - 1..Len(s)
    BY <1>0
  <2>2. /\ t \in Seq(S) /\ Len(t) = (k + 1) - 1 + 1
        /\ \A i \in 1..(k + 1) - 1 + 1 : t[i] = s[1 + i - 1]
    BY <2>1, SliceFacts
  <2> HIDE DEF t
  <2> QED BY <2>2
<1> HIDE DEF u, t
<1> DEFINE a == Append(u, s[k + 1])
<1>3. a \in Seq(S) /\ Len(a) = k + 1 /\ \A i \in 1..k + 1 : a[i] = IF i <= k THEN u[i] ELSE s[k + 1]
  BY <1>0, <1>1, AppendProperties
<1> HIDE DEF a
<1>4. \A i \in 1..k + 1 : a[i] = t[i]
  <2> TAKE i \in 1..k + 1
  <2>1. CASE i <= k
    BY <1>1, <1>2, <1>3, <2>1
  <2>2. CASE i = k + 1
    BY <1>2, <1>3, <2>2
  <2> QED BY <2>1, <2>2
<1>5. a = t
  BY <1>2, <1>3, <1>4, SeqEqual
<1> QED BY <1>1, <1>5 DEF a, t, u

-----------------------------------------------------------------------------
(* Positions: an encoding is read back, and a part of it is refused         *)

Origins == [little : BOOLEAN, srid : BOOLEAN]

(* The header, byte by byte, and where the coordinates begin.               *)
Header(e, o) ==
    LET start == IF o.srid THEN 9 ELSE 5 IN
    /\ e \in Seq(Nat) /\ Len(e) = start + 16
    /\ e[1] = (IF o.little THEN 1 ELSE 0)
    /\ e[2] = (IF o.little THEN 1 ELSE IF o.srid THEN 32 ELSE 0)
    /\ e[3] = 0 /\ e[4] = 0
    /\ e[5] = (IF ~o.little THEN 1 ELSE IF o.srid THEN 32 ELSE 0)
    /\ o.srid => /\ e[6] = (IF o.little THEN 230 ELSE 0)
                 /\ e[7] = (IF o.little THEN 16 ELSE 0)
                 /\ e[8] = (IF o.little THEN 0 ELSE 16)
                 /\ e[9] = (IF o.little THEN 0 ELSE 230)
    /\ \A i \in 1..16 : e[start + i] = Point!Coordinates[i]

(* What the model calls an encoding has that header.                        *)
LEMMA EncodedBytes ==
    ASSUME NEW o \in Origins
    PROVE  Header(Point!Encoded(o), o)
<1> DEFINE C == Point!Coordinates
<1>1. C \in Seq(Nat) /\ Len(C) = 16 /\ \A i \in 1..16 : C[i] = 100 + i
  BY DEF Point!Coordinates
<1> HIDE DEF C
<1> DEFINE order == <<IF o.little THEN 1 ELSE 0>>
           type == IF o.little THEN <<1, 0, 0, IF o.srid THEN 32 ELSE 0>>
                               ELSE <<IF o.srid THEN 32 ELSE 0, 0, 0, 1>>
           srid == IF o.srid THEN IF o.little THEN <<230, 16, 0, 0>> ELSE <<0, 0, 16, 230>>
                             ELSE <<>>
           header == order \o type
<1>2. Point!Encoded(o) = (header \o srid) \o C
  BY DEF Point!Encoded, Point!Word, C, Origins
<1>3. /\ order \in Seq(Nat) /\ Len(order) = 1 /\ order[1] = IF o.little THEN 1 ELSE 0
      /\ type \in Seq(Nat) /\ Len(type) = 4
      /\ type[1] = (IF o.little THEN 1 ELSE IF o.srid THEN 32 ELSE 0)
      /\ type[2] = 0 /\ type[3] = 0
      /\ type[4] = (IF ~o.little THEN 1 ELSE IF o.srid THEN 32 ELSE 0)
  BY DEF Origins
<1>4. /\ srid \in Seq(Nat) /\ Len(srid) = IF o.srid THEN 4 ELSE 0
      /\ o.srid => /\ srid[1] = (IF o.little THEN 230 ELSE 0)
                   /\ srid[2] = (IF o.little THEN 16 ELSE 0)
                   /\ srid[3] = (IF o.little THEN 0 ELSE 16)
                   /\ srid[4] = (IF o.little THEN 0 ELSE 230)
  BY DEF Origins
<1> HIDE DEF order, type, srid
<1>5. header \in Seq(Nat) /\ Joined(header, order, type)
  BY <1>3, ConcatJoins
<1> HIDE DEF header
<1> DEFINE before == header \o srid
<1>6. before \in Seq(Nat) /\ Joined(before, header, srid)
  BY <1>4, <1>5, ConcatJoins
<1> HIDE DEF before
<1> DEFINE all == before \o C
<1>7. all \in Seq(Nat) /\ Joined(all, before, C)
  BY <1>1, <1>6, ConcatJoins
<1> HIDE DEF all
<1> DEFINE e == Point!Encoded(o)
<1>8. e = all
  BY <1>2 DEF before, all
<1> HIDE DEF e
<1>9. Len(srid) = (IF o.srid THEN 4 ELSE 0) /\ o.srid \in BOOLEAN /\ o.little \in BOOLEAN
  BY <1>4 DEF Origins
<1>10. /\ Len(header) = 5 /\ header[1] = order[1]
       /\ \A i \in 2..5 : header[i] = type[i - 1]
  BY <1>3, <1>5 DEF Joined
<1>11. header[2] = type[1] /\ header[3] = type[2] /\ header[4] = type[3] /\ header[5] = type[4]
  BY <1>10
<1>12. CASE o.srid
  <2>1. /\ Len(before) = 9
        /\ \A i \in 1..5 : before[i] = header[i]
        /\ \A i \in 6..9 : before[i] = srid[i - 5]
    BY <1>6, <1>9, <1>10, <1>12 DEF Joined
  <2>2. /\ Len(all) = 25
        /\ \A i \in 1..9 : all[i] = before[i]
        /\ \A i \in 10..25 : all[i] = C[i - 9]
    BY <1>1, <1>7, <2>1 DEF Joined
  <2>3. all[6] = srid[1] /\ all[7] = srid[2] /\ all[8] = srid[3] /\ all[9] = srid[4]
    BY <2>1, <2>2
  <2>4. \A i \in 1..5 : all[i] = header[i]
    BY <2>1, <2>2
  <2>5. \A i \in 1..16 : all[9 + i] = C[i]
    BY <2>2
  <2> QED BY <1>3, <1>4, <1>7, <1>8, <1>10, <1>11, <1>12, <2>2, <2>3, <2>4, <2>5 DEF e, C, Header
<1>13. CASE ~o.srid
  <2>1. /\ Len(before) = 5
        /\ \A i \in 1..5 : before[i] = header[i]
    BY <1>6, <1>9, <1>10, <1>13 DEF Joined
  <2>2. /\ Len(all) = 21
        /\ \A i \in 1..5 : all[i] = before[i]
        /\ \A i \in 6..21 : all[i] = C[i - 5]
    BY <1>1, <1>7, <2>1 DEF Joined
  <2>3. \A i \in 1..5 : all[i] = header[i]
    BY <2>1, <2>2
  <2>4. \A i \in 1..16 : all[5 + i] = C[i]
    BY <2>2
  <2>5. all[1] = order[1] /\ all[2] = type[1] /\ all[3] = type[2] /\ all[4] = type[3] /\ all[5] = type[4]
    BY <1>10, <1>11, <2>3
  <2>6. all \in Seq(Nat) /\ Len(all) = 5 + 16
    BY <1>7, <2>2
  <2> QED BY <1>3, <1>8, <1>9, <1>13, <2>4, <2>5, <2>6 DEF e, C, Header
<1> QED BY <1>12, <1>13

(* What is left of an encoding is read with its byte order and layout.      *)
IsPrefix(b, e) == b \in Seq(Nat) /\ Len(b) <= Len(e) /\ \A i \in 1..Len(b) : b[i] = e[i]

(* The readers of the parser find byte order, kind and offset again.        *)
LEMMA HeaderReadBack ==
    ASSUME NEW o \in Origins, NEW e, Header(e, o), IsPrefix(bytes, e), Len(bytes) >= 21
    PROVE  /\ bytes[1] \in {0, 1}
           /\ Point!CoordinateOffset = IF o.srid THEN 9 ELSE 5
           /\ Point!IsPoint
           /\ o.srid /\ Len(bytes) = 25 => Point!Uint32(5) = <<0, 0, 16, 230>>
<1>0. o.little \in BOOLEAN /\ o.srid \in BOOLEAN
  BY DEF Origins
<1>1. bytes \in Seq(Nat) /\ Len(bytes) \in Nat
  BY DEF IsPrefix
<1>2. \A i \in 1..21 : bytes[i] = e[i]
  BY <1>1 DEF IsPrefix
<1>3. bytes[1] = e[1] /\ bytes[2] = e[2] /\ bytes[3] = e[3] /\ bytes[4] = e[4] /\ bytes[5] = e[5]
      /\ bytes[6] = e[6] /\ bytes[7] = e[7] /\ bytes[8] = e[8] /\ bytes[9] = e[9]
  BY <1>2
<1> DEFINE word == SubSeq(bytes, 2, 5)
           srid == SubSeq(bytes, 6, 9)
<1>4. /\ word[1] = bytes[2] /\ word[4] = bytes[5]
      /\ srid \in Seq(Nat) /\ Len(srid) = 4
      /\ srid[1] = bytes[6] /\ srid[2] = bytes[7] /\ srid[3] = bytes[8] /\ srid[4] = bytes[9]
  BY <1>1
<1>5. Point!Uint32(1) = Point!Word(Point!LittleEndian, word)
  BY DEF Point!Uint32
<1>6. Point!Uint32(5) = Point!Word(Point!LittleEndian, srid)
  BY DEF Point!Uint32
<1> HIDE DEF word, srid
<1>7. Point!GeometryType[4] = 1 /\ Point!GeometryType[1] = IF o.srid THEN 32 ELSE 0
  <2>1. CASE o.little
    <3>1. bytes[1] = 1 /\ bytes[2] = 1 /\ bytes[5] = IF o.srid THEN 32 ELSE 0
      BY <1>3, <2>1 DEF Header
    <3>2. Point!GeometryType = <<word[4], word[3], word[2], word[1]>>
      BY <1>5, <3>1 DEF Point!GeometryType, Point!Word, Point!LittleEndian
    <3> QED BY <1>4, <3>1, <3>2
  <2>2. CASE ~o.little
    <3>1. bytes[1] = 0 /\ bytes[5] = 1 /\ bytes[2] = IF o.srid THEN 32 ELSE 0
      BY <1>3, <2>2 DEF Header
    <3>2. Point!GeometryType = word
      BY <1>5, <3>1 DEF Point!GeometryType, Point!Word, Point!LittleEndian
    <3> QED BY <1>4, <3>1, <3>2
  <2> QED BY <2>1, <2>2
<1>8. Point!CoordinateOffset = IF o.srid THEN 9 ELSE 5
  BY <1>0, <1>7 DEF Point!CoordinateOffset, Point!HasSrid
<1>9. ASSUME o.srid
      PROVE  Point!Uint32(5) = <<0, 0, 16, 230>>
  <2>1. CASE o.little
    <3>1. bytes[1] = 1 /\ bytes[6] = 230 /\ bytes[7] = 16 /\ bytes[8] = 0 /\ bytes[9] = 0
      BY <1>3, <1>9, <2>1 DEF Header
    <3>2. Point!Uint32(5) = <<srid[4], srid[3], srid[2], srid[1]>>
      BY <1>6, <3>1 DEF Point!Word, Point!LittleEndian
    <3> QED BY <1>4, <3>1, <3>2
  <2>2. CASE ~o.little
    <3>1. bytes[1] = 0 /\ bytes[6] = 0 /\ bytes[7] = 0 /\ bytes[8] = 16 /\ bytes[9] = 230
      BY <1>3, <1>9, <2>2 DEF Header
    <3>2. Point!Uint32(5) = srid
      BY <1>6, <3>1 DEF Point!Word, Point!LittleEndian
    <3> QED BY <1>4, <3>1, <3>2
  <2> QED BY <2>1, <2>2
<1>10. bytes[1] \in {0, 1}
  BY <1>3 DEF Header
<1>11. Point!IsPoint
  BY <1>7 DEF Point!IsPoint
<1> QED BY <1>8, <1>9, <1>10, <1>11

(* And the sixteen bytes of the coordinates where they were written.        *)
LEMMA CoordinatesReadBack ==
    ASSUME NEW o \in Origins, NEW e, Header(e, o), IsPrefix(bytes, e), Len(bytes) >= 21,
           Point!LongEnough
    PROVE  Point!Position = Point!Coordinates
<1> DEFINE start == IF o.srid THEN 9 ELSE 5
<1>1. Point!CoordinateOffset = start
  BY HeaderReadBack
<1>2. start \in Nat /\ Len(bytes) \in Nat /\ Len(bytes) >= start + 16
  BY <1>1 DEF IsPrefix, Point!LongEnough
<1>3. \A i \in 1..16 : bytes[start + i] = e[start + i]
  BY <1>2 DEF IsPrefix
<1>31. \A i \in 1..16 : e[start + i] = Point!Coordinates[i]
  BY DEF Header
<1> HIDE DEF start
<1>4. \A i \in 1..16 : bytes[start + i] = Point!Coordinates[i]
  BY <1>3, <1>31
<1>5. \A i \in 1..16 : start + i <= Len(bytes)
  BY <1>2
<1>6. \A i \in 1..16 : (IF Point!CoordinateOffset + i <= Len(bytes)
                         THEN bytes[Point!CoordinateOffset + i] ELSE 0) = Point!Coordinates[i]
  BY <1>1, <1>4, <1>5
<1>7. Point!Position = [i \in 1..16 |-> Point!Coordinates[i]]
  BY <1>6 DEF Point!Position
<1> QED BY <1>7 DEF Point!Coordinates

(* A behaviour about positions: an untouched header is followed by what has *)
(* not been cut off.                                                        *)
PointInv ==
    subject = "point" =>
        /\ origin \in Origins
        /\ damaged = {} => IsPrefix(bytes, Point!Encoded(origin))

LEMMA PointInvInit == Init => PointInv
<1> SUFFICES ASSUME Init, subject = "point"
             PROVE  origin \in Origins /\ IsPrefix(bytes, Point!Encoded(origin))
  BY DEF PointInv
<1>1. origin \in Origins /\ bytes = Point!Encoded(origin)
  BY DEF Init, Point!Init, Origins
<1> QED BY <1>1, EncodedBytes DEF IsPrefix, Header

LEMMA PointInvStep == PointInv /\ [Next]_vars => PointInv'
<1> SUFFICES ASSUME PointInv, [Next]_vars, subject = "point"
             PROVE  PointInv'
  BY DEF Next, vars, PointInv
<1>1. CASE UNCHANGED <<origin, bytes, damaged>>
  BY <1>1 DEF PointInv, Point!Encoded
<1>2. CASE Point!Next
  <2>1. CASE Point!Truncate
    <3>1. damaged = {} => bytes \in Seq(Nat)
      BY DEF PointInv, IsPrefix
    <3>2. ASSUME damaged = {}
          PROVE  IsPrefix(bytes', Point!Encoded(origin))
      <4>1. IsPrefix(bytes, Point!Encoded(origin))
        BY <3>2 DEF PointInv
      <4>5. Len(bytes) \in Nat \ {0}
        BY <2>1, <3>1, <3>2, EmptySeq DEF Point!Truncate
      <4>2. /\ bytes' \in Seq(Nat) /\ Len(bytes') = Len(bytes) - 1
            /\ \A i \in 1..Len(bytes) - 1 : bytes'[i] = bytes[i]
        <5>1. bytes' = SubSeq(bytes, 1, Len(bytes) - 1)
          BY <2>1 DEF Point!Truncate
        <5>2. bytes \in Seq(Nat)
          BY <3>1, <3>2
        <5> DEFINE rest == SubSeq(bytes, 1, Len(bytes) - 1)
        <5>3. 1 \in 1..Len(bytes) + 1 /\ Len(bytes) - 1 \in 1 - 1..Len(bytes)
          BY <4>5
        <5>4. /\ rest \in Seq(Nat) /\ Len(rest) = (Len(bytes) - 1) - 1 + 1
              /\ \A i \in 1..(Len(bytes) - 1) - 1 + 1 : rest[i] = bytes[1 + i - 1]
          BY <5>2, <5>3, SliceFacts
        <5> HIDE DEF rest
        <5>5. /\ rest \in Seq(Nat) /\ Len(rest) = Len(bytes) - 1
              /\ \A i \in 1..Len(bytes) - 1 : rest[i] = bytes[i]
          BY <4>5, <5>4
        <5> QED BY <5>1, <5>5 DEF rest
      <4>3. Len(Point!Encoded(origin)) \in Nat
        BY EncodedBytes DEF PointInv, Header
      <4>4. ASSUME NEW e, IsPrefix(bytes, e), Len(e) \in Nat
            PROVE  IsPrefix(bytes', e)
        <5>1. 1..Len(bytes) - 1 \subseteq 1..Len(bytes) /\ Len(bytes) - 1 <= Len(e)
          BY <4>4, <4>5 DEF IsPrefix
        <5>2. \A i \in 1..Len(bytes') : bytes'[i] = e[i]
          BY <4>2, <4>4, <5>1 DEF IsPrefix
        <5> QED BY <4>2, <5>1, <5>2 DEF IsPrefix
      <4> QED BY <4>1, <4>3, <4>4
    <3> QED BY <2>1, <3>2 DEF Point!Truncate, PointInv, Point!Encoded
  <2>2. CASE \E i \in 1..9, b \in HeaderBytes : Point!Damage(i, b)
    <3>1. damaged' # {} /\ UNCHANGED origin
      BY <2>2 DEF Point!Damage
    <3> QED BY <3>1 DEF PointInv
  <2> QED BY <1>2, <2>1, <2>2 DEF Point!Next
<1> QED BY <1>1, <1>2 DEF Next, vars, registration

(* The whole encoding is read as the point; a shorter one is too short for  *)
(* it.                                                                      *)
LEMMA PositionsAreUnambiguous ==
    PointInv => (subject = "point" => Point!RoundTrip /\ Point!TruncationIsNoticed)
<1> SUFFICES ASSUME PointInv, subject = "point"
             PROVE  Point!RoundTrip /\ Point!TruncationIsNoticed
  OBVIOUS
<1> DEFINE e == Point!Encoded(origin)
<1>1. origin \in Origins /\ Header(e, origin)
  BY EncodedBytes DEF PointInv
<1> HIDE DEF e
<1>2. ASSUME bytes = e
      PROVE  Point!Accepted /\ Point!Position = Point!Coordinates
  <2>1. IsPrefix(bytes, e)
    <3>1. e \in Seq(Nat) /\ Len(e) \in Nat
      BY <1>1 DEF Header
    <3> QED BY <1>2, <3>1 DEF IsPrefix
  <2>2. Len(bytes) = (IF origin.srid THEN 9 ELSE 5) + 16
    BY <1>1, <1>2 DEF Header
  <2>8. Len(bytes) >= 21
    BY <2>2
  <2>3. /\ bytes[1] \in {0, 1}
        /\ Point!CoordinateOffset = (IF origin.srid THEN 9 ELSE 5)
        /\ Point!IsPoint
        /\ origin.srid /\ Len(bytes) = 25 => Point!Uint32(5) = <<0, 0, 16, 230>>
    BY <1>1, <2>1, <2>8, HeaderReadBack
  <2>4. Point!LongEnough
    BY <2>2, <2>3 DEF Point!LongEnough
  <2>5. ASSUME Point!HasSrid, ~origin.srid
        PROVE  FALSE
    BY <2>3, <2>5 DEF Point!CoordinateOffset
  <2>6. Point!HasSrid => Point!Uint32(5) = <<0, 0, 16, 230>>
    BY <2>2, <2>3, <2>5
  <2>7. Point!Position = Point!Coordinates
    BY <1>1, <2>1, <2>4, <2>8, CoordinatesReadBack
  <2> QED BY <2>1, <2>3, <2>4, <2>6, <2>7, <2>8 DEF Point!Accepted
<1>3. ASSUME damaged = {}, Point!Accepted
      PROVE  Point!Position = Point!Coordinates
  <2>1. IsPrefix(bytes, e)
    BY <1>3 DEF PointInv, e
  <2> QED BY <1>1, <1>3, <2>1, CoordinatesReadBack DEF Point!Accepted
<1> QED BY <1>2, <1>3 DEF Point!RoundTrip, Point!TruncationIsNoticed, e
-----------------------------------------------------------------------------
(* Municipalities: the IBGE prefix decides the state                        *)

(* No two states have the same IBGE prefix.                                 *)
LEMMA PrefixesDiffer ==
    \A s, t \in City!States : City!Prefixes[s] = City!Prefixes[t] => s = t
BY DEF City!States, City!Prefixes

(* So one code is not valid in two states.                                  *)
LEMMA StateBelongs == City!OneStatePerMunicipality
<1> SUFFICES ASSUME NEW s \in City!States, NEW t \in City!States, s # t,
                    City!IsValidMunicipality(code, [name |-> s, untidy |-> FALSE]),
                    City!IsValidMunicipality(code, [name |-> t, untidy |-> FALSE])
             PROVE  FALSE
  BY DEF City!OneStatePerMunicipality
<1>1. code.prefix = City!Prefixes[s] /\ code.prefix = City!Prefixes[t]
  BY DEF City!IsValidMunicipality, City!NormalizeState
<1> QED BY <1>1, PrefixesDiffer

(* Of a normalised state both sides ask the same.                           *)
LEMMA MunicipalityAgrees == state \in City!Typed => City!MunicipalityIsStorable
BY DEF City!MunicipalityIsStorable, City!IsValidMunicipality, City!Stored, City!StateCheck,
       City!CodeCheck, City!MunicipalityStateCheck, City!NormalizeState, City!Typed

-----------------------------------------------------------------------------
(* CNPJs: the normal form is what was meant                                 *)

(* What the two replacements keep of a typed value, position by position.   *)
LEMMA KeptAtPositions ==
    ASSUME NEW v \in Seq(Int)
    PROVE  \E g \in [0..Len(v) -> Seq(Int)] :
               /\ g[0] = <<>>
               /\ \A i \in 1..Len(v) :
                      g[i] = IF v[i] \in Number!Mask THEN g[i - 1]
                             ELSE Append(g[i - 1], Number!Upper(v[i]))
               /\ Number!NormalizeCnpj(v) = g[Len(v)]
<1> DEFINE n == Len(v)
           next(i, s) == IF v[i] \in Number!Mask THEN s ELSE Append(s, Number!Upper(v[i]))
           step == [i \in 1..n |-> [s \in Seq(Int) |-> next(i, s)]]
<1>0. n \in Nat /\ <<>> \in Seq(Int) /\ \A i \in 1..n : Number!Upper(v[i]) \in Int
  BY ElementOfSeq DEF Number!Upper
<1>1. step \in [1..n -> [Seq(Int) -> Seq(Int)]]
  <2>1. \A i \in 1..n, s \in Seq(Int) : next(i, s) \in Seq(Int)
    BY <1>0, AppendProperties
  <2> HIDE DEF next
  <2> QED BY <2>1
<1> HIDE DEF next
<1>2. \A i \in 1..n, s \in Seq(Int) : step[i][s] = next(i, s)
  OBVIOUS
<1> DEFINE V == Seq(Int)
<1> HIDE DEF n, step, V
<1>3. PICK g \in [0..n -> V] : IsRecursion(g, n, <<>>, step)
  BY <1>0, <1>1, RecursionExists DEF V
<1>4. \A i \in 1..n : i # 0 /\ i \in 0..n /\ i - 1 \in 0..n /\ g[i - 1] \in V
  BY <1>0
<1>5. g[0] = <<>> /\ \A i \in 1..n : g[i] = next(i, g[i - 1])
  BY <1>2, <1>3, <1>4 DEF IsRecursion, V
<1>6. g = [i \in 0..n |-> IF i = 0 THEN <<>> ELSE next(i, g[i - 1])]
  BY <1>0, <1>5
<1> DEFINE kept[i \in 0..Len(v)] ==
               IF i = 0 THEN <<>>
               ELSE IF v[i] \in Number!Mask THEN kept[i - 1]
               ELSE Append(kept[i - 1], Number!Upper(v[i]))
<1>7. kept[n] = Number!NormalizeCnpj(v)
  BY DEF Number!NormalizeCnpj, n
<1>8. kept = [i \in 0..n |-> IF i = 0 THEN <<>> ELSE next(i, kept[i - 1])]
  BY <1>6 DEF n, next
<1> HIDE DEF kept
<1>9. kept[0] = <<>>
  BY <1>0, <1>8
<1>10. \A i \in 1..n : kept[i] = next(i, kept[i - 1])
  BY <1>4, <1>8
<1>11. Follows(kept, V, n, <<>>, step)
  BY <1>2, <1>9, <1>10 DEF Follows, V
<1>12. kept[n] = g[n]
  BY <1>0, <1>3, <1>11, RecursionUnique
<1> QED BY <1>3, <1>5, <1>7, <1>12 DEF n, next, V

(* v is w, in either case, with characters of the mask in between: at[i]    *)
(* characters of w are read once i of v have been.                          *)
Along(v, w, at) ==
    /\ v \in Seq(Int) /\ w \in Seq(Int)
    /\ at \in [0..Len(v) -> 0..Len(w)] /\ at[0] = 0 /\ at[Len(v)] = Len(w)
    /\ \A i \in 1..Len(v) :
           \/ v[i] \in Number!Mask /\ at[i] = at[i - 1]
           \/ /\ v[i] \notin Number!Mask /\ at[i] = at[i - 1] + 1
              /\ Number!Upper(v[i]) = w[at[i]]

(* The normal form of v is then w: the recursion follows at.                *)
LEMMA NormalisedAlong ==
    ASSUME NEW v, NEW w, NEW at, Along(v, w, at)
    PROVE  Number!NormalizeCnpj(v) = w
<1> DEFINE n == Len(v)
<1>0. v \in Seq(Int) /\ w \in Seq(Int) /\ n \in Nat /\ Len(w) \in Nat
  BY DEF Along
<1>1. PICK g \in [0..n -> Seq(Int)] :
          /\ g[0] = <<>>
          /\ \A i \in 1..n : g[i] = IF v[i] \in Number!Mask THEN g[i - 1]
                                    ELSE Append(g[i - 1], Number!Upper(v[i]))
          /\ Number!NormalizeCnpj(v) = g[n]
  BY <1>0, KeptAtPositions
<1>11. \A m \in 0..n : at[m] \in Nat /\ at[m] <= Len(w)
  <2>1. \A m \in 0..n : at[m] \in 0..Len(w)
    BY DEF Along
  <2> QED BY <1>0, <2>1
<1>12. at[0] = 0 /\ at[n] = Len(w)
  BY DEF Along
<1>13. \A i \in 1..n :
           \/ v[i] \in Number!Mask /\ at[i] = at[i - 1]
           \/ /\ v[i] \notin Number!Mask /\ at[i] = at[i - 1] + 1
              /\ Number!Upper(v[i]) = w[at[i]]
  BY DEF Along
<1> HIDE DEF n
<1> DEFINE Good == {m \in Nat : m <= n => g[m] = SubSeq(w, 1, at[m])}
<1>2. 0 \in Good
  <2>1. SubSeq(w, 1, 0) = <<>>
    BY SubSeqEmpty
  <2> QED BY <1>1, <1>12, <2>1
<1>3. \A m \in Nat : m \in Good => m + 1 \in Good
  <2> SUFFICES ASSUME NEW m \in Nat, m \in Good, m + 1 <= n
               PROVE  g[m + 1] = SubSeq(w, 1, at[m + 1])
    OBVIOUS
  <2>1. m + 1 \in 1..n /\ (m + 1) - 1 = m /\ m \in 0..n /\ m + 1 \in 0..n
    BY <1>0
  <2>2. g[m] = SubSeq(w, 1, at[m]) /\ at[m] \in Nat /\ at[m + 1] \in Nat /\ at[m + 1] <= Len(w)
    BY <1>0, <1>11, <2>1
  <2>3. CASE v[m + 1] \in Number!Mask
    BY <1>1, <1>13, <2>1, <2>2, <2>3
  <2>4. CASE v[m + 1] \notin Number!Mask
    <3>1. at[m + 1] = at[m] + 1 /\ Number!Upper(v[m + 1]) = w[at[m] + 1]
      BY <1>13, <2>1, <2>4
    <3>2. g[m + 1] = Append(SubSeq(w, 1, at[m]), w[at[m] + 1])
      BY <1>1, <2>1, <2>2, <2>4, <3>1
    <3> QED BY <1>0, <2>2, <3>1, <3>2, PrefixGrows
  <2> QED BY <2>3, <2>4
<1> HIDE DEF Good
<1>4. Nat \subseteq Good
  BY <1>2, <1>3, SetInduction
<1>5. g[n] = SubSeq(w, 1, Len(w))
  BY <1>0, <1>4, <1>12 DEF Good
<1> QED BY <1>0, <1>1, <1>5, SubSeqFull
(* Twelve characters of a root and two digits, or any 14 characters alike.  *)
Canonical ==
    {v \in Seq(Int) : Len(v) = 14 /\ \A i \in 1..14 : v[i] \in Number!Digits \cup Number!Letters}

(* Digits and letters survive, in either case, and lower case becomes upper *)
(* case.                                                                    *)
LEMMA CharactersAreKept ==
    /\ \A c \in Number!Digits \cup Number!Letters :
           c \in Int /\ c \notin Number!Mask /\ Number!Upper(c) = c
    /\ \A c \in Number!Letters :
           c + 32 \in Int /\ c + 32 \notin Number!Mask /\ Number!Upper(c + 32) = c
BY DEF Number!Digits, Number!Letters, Number!Mask, Number!Upper

(* A canonical value is its own normal form.                                *)
LEMMA CanonicalIsNormalised == \A v \in Canonical : Number!NormalizeCnpj(v) = v
<1> SUFFICES ASSUME NEW v \in Canonical
             PROVE  Number!NormalizeCnpj(v) = v
  OBVIOUS
<1>1. v \in Seq(Int) /\ Len(v) = 14 /\ \A i \in 1..14 : v[i] \in Number!Digits \cup Number!Letters
  BY DEF Canonical
<1> DEFINE at == [i \in 0..14 |-> i]
<1>2. at \in [0..14 -> 0..14] /\ at[0] = 0 /\ at[14] = 14
  OBVIOUS
<1>3. \A i \in 1..14 : at[i] = at[i - 1] + 1 /\ at[i] = i
  OBVIOUS
<1>4. \A i \in 1..14 : v[i] \notin Number!Mask /\ Number!Upper(v[i]) = v[i]
  BY <1>1, CharactersAreKept
<1> HIDE DEF at
<1>5. Along(v, v, at)
  BY <1>1, <1>2, <1>3, <1>4 DEF Along
<1> QED BY <1>5, NormalisedAlong

(* Typed in lower case or with its mask, a canonical value is found again.  *)
LEMMA TypedIsNormalised ==
    ASSUME NEW v \in Canonical, form \in {"plain", "masked", "lower"}
    PROVE  Number!NormalizeCnpj(Number!Typed(v)) = v
<1> DEFINE u == Number!Typed(v)
<1>1. v \in Seq(Int) /\ Len(v) = 14 /\ \A i \in 1..14 : v[i] \in Number!Digits \cup Number!Letters
  BY DEF Canonical
<1>2. CASE form = "plain"
  BY <1>2, CanonicalIsNormalised DEF Number!Typed
<1>3. CASE form = "lower"
  <2> DEFINE at == [i \in 0..14 |-> i]
             w == [i \in 1..14 |-> IF v[i] \in Number!Letters THEN v[i] + 32 ELSE v[i]]
  <2>1. u = w
    <3>1. DOMAIN v = 1..14
      BY <1>1
    <3> QED BY <1>3, <3>1 DEF Number!Typed
  <2>2. at \in [0..14 -> 0..14] /\ at[0] = 0 /\ at[14] = 14
    OBVIOUS
  <2>3. \A i \in 1..14 : w[i] \in Int /\ w[i] \notin Number!Mask /\ Number!Upper(w[i]) = v[i]
    BY <1>1, CharactersAreKept
  <2>4. w \in Seq(Int) /\ Len(w) = 14
    BY <2>3
  <2>5. \A i \in 1..14 : at[i] = at[i - 1] + 1 /\ at[i] = i
    OBVIOUS
  <2> HIDE DEF at
  <2>6. Along(w, v, at)
    BY <1>1, <2>2, <2>3, <2>4, <2>5 DEF Along
  <2> HIDE DEF w
  <2> QED BY <2>1, <2>6, NormalisedAlong
<1>4. CASE form = "masked"
  <2> DEFINE at == [i \in 0..19 |-> IF i = 0 THEN 0 ELSE IF i < 4 THEN i - 1
                                    ELSE IF i < 8 THEN i - 2 ELSE IF i < 12 THEN i - 3
                                    ELSE IF i < 17 THEN i - 4 ELSE i - 5]
             w == [i \in 1..19 |-> IF Number!Layout[i] \in Number!Mask THEN Number!Layout[i]
                                   ELSE v[Number!Layout[i]]]
  <2>1. DOMAIN Number!Layout = 1..19
    BY DEF Number!Layout
  <2>2. u = w
    BY <1>4, <2>1 DEF Number!Typed
  <2>3. at \in [0..19 -> 0..14] /\ at[0] = 0 /\ at[19] = 14
    OBVIOUS
  <2>4. \A i \in 1..19 :
            \/ Number!Layout[i] \in Number!Mask /\ at[i] = at[i - 1]
            \/ /\ Number!Layout[i] \in 1..14 /\ Number!Layout[i] = at[i] /\ at[i] = at[i - 1] + 1
    BY DEF Number!Layout, Number!Mask
  <2> HIDE DEF at
  <2>5. \A i \in 1..19 : w[i] = IF Number!Layout[i] \in Number!Mask THEN Number!Layout[i]
                                ELSE v[Number!Layout[i]]
    OBVIOUS
  <2>6. \A i \in 1..19 :
            \/ w[i] \in Number!Mask /\ at[i] = at[i - 1]
            \/ /\ w[i] \notin Number!Mask /\ at[i] = at[i - 1] + 1
               /\ w[i] \in Int /\ Number!Upper(w[i]) = v[at[i]]
    <3> SUFFICES ASSUME NEW i \in 1..19
                 PROVE  \/ w[i] \in Number!Mask /\ at[i] = at[i - 1]
                        \/ /\ w[i] \notin Number!Mask /\ at[i] = at[i - 1] + 1
                           /\ w[i] \in Int /\ Number!Upper(w[i]) = v[at[i]]
      OBVIOUS
    <3> HIDE DEF w
    <3>1. CASE Number!Layout[i] \in Number!Mask /\ at[i] = at[i - 1]
      BY <2>5, <3>1
    <3>2. CASE /\ Number!Layout[i] \in 1..14 /\ Number!Layout[i] = at[i]
               /\ at[i] = at[i - 1] + 1
      <4>1. Number!Layout[i] \notin Number!Mask
        BY <3>2 DEF Number!Mask
      <4>2. w[i] = v[at[i]] /\ at[i] \in 1..14
        BY <2>5, <3>2, <4>1
      <4> QED BY <1>1, <3>2, <4>2, CharactersAreKept
    <3> QED BY <2>4, <3>1, <3>2
  <2>7. w \in Seq(Int) /\ Len(w) = 19
    <3>1. \A i \in 1..19 : w[i] \in Int
      BY <2>6 DEF Number!Mask
    <3> QED BY <3>1
  <2> HIDE DEF w
  <2>8. Along(w, v, at)
    BY <1>1, <2>3, <2>6, <2>7 DEF Along
  <2> QED BY <2>2, <2>8, NormalisedAlong
<1> QED BY <1>2, <1>3, <1>4

-----------------------------------------------------------------------------
(* CNPJs: both sides compute the same check digits                          *)

(* The sums of the two sides, term by term.                                 *)
SqlSum(v, w) ==
    v[1] * w[1] + v[2] * w[2] + v[3] * w[3] + v[4] * w[4] + v[5] * w[5] + v[6] * w[6]
    + v[7] * w[7] + v[8] * w[8] + v[9] * w[9] + v[10] * w[10] + v[11] * w[11] + v[12] * w[12]

(* The recursive sum of packages/common is the sum the CHECK spells out.    *)
LEMMA SumUnrolled ==
    ASSUME NEW v \in Seq(Int), NEW w, NEW n \in {12, 13}, Len(v) = n, \A i \in 1..n : w[i] \in Int
    PROVE  Number!WeightedSum(v, w) = SqlSum(v, w) + IF n = 13 THEN v[13] * w[13] ELSE 0
<1> DEFINE p == [i \in 1..n |-> v[i] * w[i]]
<1>1. \A i \in 1..n : p[i] \in Int
  <2>1. \A i \in 1..n : v[i] \in Int
    BY ElementOfSeq
  <2> QED BY <2>1
<1>2. PICK g \in [0..n -> Int] :
          /\ g[0] = 0
          /\ \A i \in 1..n : g[i] = g[i - 1] + v[i] * w[i]
          /\ Number!WeightedSum(v, w) = g[n]
  BY SumAtPositions
<1>3. \A i \in 1..n : p[i] = v[i] * w[i]
  OBVIOUS
<1> HIDE DEF p
<1>4. \A i \in 1..n : g[i] = g[i - 1] + p[i]
  BY <1>2, <1>3
<1>0. \A i \in 1..12 : i \in 1..n /\ i \in 0..n
  OBVIOUS
<1>5. \A i \in 1..12 : g[i] = g[i - 1] + p[i] /\ g[i] \in Int /\ p[i] \in Int
  BY <1>0, <1>1, <1>4
<1>6. g[12] = p[1] + p[2] + p[3] + p[4] + p[5] + p[6] + p[7] + p[8] + p[9] + p[10] + p[11] + p[12]
  <2>1. /\ g[1] = g[0] + p[1] /\ g[2] = g[1] + p[2] /\ g[3] = g[2] + p[3]
        /\ g[4] = g[3] + p[4] /\ g[5] = g[4] + p[5] /\ g[6] = g[5] + p[6]
    BY <1>5
  <2>2. /\ g[7] = g[6] + p[7] /\ g[8] = g[7] + p[8] /\ g[9] = g[8] + p[9]
        /\ g[10] = g[9] + p[10] /\ g[11] = g[10] + p[11] /\ g[12] = g[11] + p[12]
    BY <1>5
  <2>3. /\ p[1] \in Int /\ p[2] \in Int /\ p[3] \in Int /\ p[4] \in Int /\ p[5] \in Int
        /\ p[6] \in Int /\ p[7] \in Int /\ p[8] \in Int /\ p[9] \in Int /\ p[10] \in Int
        /\ p[11] \in Int /\ p[12] \in Int
    BY <1>5
  <2>4. g[0] = 0
    BY <1>2
  <2>5. g[1] = p[1]
    <3>1. g[1] = g[1 - 1] + p[1] /\ p[1] \in Int
      BY <1>5
    <3> QED BY ONLY <2>4, <3>1
  <2> QED BY <2>1, <2>2, <2>5, Zenon
<1>7. SqlSum(v, w) = g[12]
  <2>1. /\ p[1] = v[1] * w[1] /\ p[2] = v[2] * w[2] /\ p[3] = v[3] * w[3]
        /\ p[4] = v[4] * w[4] /\ p[5] = v[5] * w[5] /\ p[6] = v[6] * w[6]
        /\ p[7] = v[7] * w[7] /\ p[8] = v[8] * w[8] /\ p[9] = v[9] * w[9]
        /\ p[10] = v[10] * w[10] /\ p[11] = v[11] * w[11] /\ p[12] = v[12] * w[12]
    <3>1. /\ 1 \in 1..n /\ 2 \in 1..n /\ 3 \in 1..n /\ 4 \in 1..n /\ 5 \in 1..n
          /\ 6 \in 1..n /\ 7 \in 1..n /\ 8 \in 1..n /\ 9 \in 1..n /\ 10 \in 1..n
          /\ 11 \in 1..n /\ 12 \in 1..n
      BY <1>0
    <3> QED BY <1>3, <3>1, Zenon
  <2> QED BY <1>6, <2>1, Zenon DEF SqlSum
<1>8. CASE n = 12
  <2>1. Number!WeightedSum(v, w) = g[12]
    BY <1>2, <1>8
  <2>2. g[12] \in Int
    BY <1>5
  <2>3. (IF n = 13 THEN v[13] * w[13] ELSE 0) = 0
    BY <1>8
  <2>4. SqlSum(v, w) + 0 = SqlSum(v, w)
    BY ONLY <1>7, <2>2
  <2> QED BY <1>7, <2>1, <2>3, <2>4, Zenon
<1>9. CASE n = 13
  <2>1. g[13] = g[12] + v[13] * w[13]
    <3>1. 13 \in 1..n /\ 13 - 1 = 12
      BY <1>9
    <3> QED BY <1>2, <3>1
  <2> QED BY <1>2, <1>7, <1>9, <2>1
<1> QED BY <1>8, <1>9

(* The CHECK of a digit, with the sum named.                                *)
LEMMA SqlDigitOfSum ==
    ASSUME NEW v, NEW w, NEW n \in {13, 14}
    PROVE  Number!SqlDigit(v, n, w) <=>
             LET mod == (SqlSum(v, w) + IF n = 14 THEN v[13] * w[13] ELSE 0) % 11
             IN  v[n] = IF mod < 2 THEN 0 ELSE 11 - mod
BY DEF Number!SqlDigit, SqlSum

(* A prefix of the canonical form, and its digit.                           *)
LEMMA DigitOfPrefix ==
    ASSUME NEW v \in Canonical, NEW w, NEW n \in {13, 14}, \A i \in 1..n - 1 : w[i] \in Int
    PROVE  Number!CheckDigit(SubSeq(v, 1, n - 1), w) = v[n] <=> Number!SqlDigit(v, n, w)
<1> DEFINE u == SubSeq(v, 1, n - 1)
<1>1. v \in Seq(Int) /\ Len(v) = 14
  BY DEF Canonical
<1>2. u \in Seq(Int) /\ Len(u) = n - 1 /\ \A i \in 1..n - 1 : u[i] = v[i]
  <2>1. 1 \in 1..Len(v) + 1 /\ n - 1 \in 1 - 1..Len(v)
    BY <1>1
  <2>2. /\ u \in Seq(Int) /\ Len(u) = (n - 1) - 1 + 1
        /\ \A i \in 1..(n - 1) - 1 + 1 : u[i] = v[1 + i - 1]
    BY <1>1, <2>1, SliceFacts
  <2> HIDE DEF u
  <2> QED BY <2>2
<1> HIDE DEF u
<1>3. Number!WeightedSum(u, w) = SqlSum(u, w) + IF n = 14 THEN u[13] * w[13] ELSE 0
  <2>1. n - 1 \in {12, 13} /\ (n - 1 = 13 <=> n = 14)
    OBVIOUS
  <2> QED BY <1>2, <2>1, SumUnrolled
<1>4. SqlSum(u, w) = SqlSum(v, w) /\ (n = 14 => u[13] = v[13])
  BY <1>2 DEF SqlSum
<1>5. Number!WeightedSum(u, w) = SqlSum(v, w) + IF n = 14 THEN v[13] * w[13] ELSE 0
  BY <1>3, <1>4
<1> QED BY <1>5, SqlDigitOfSum DEF Number!CheckDigit, u

(* Two neighbours as a slice.                                               *)
LEMMA PairOf ==
    ASSUME NEW S, NEW s \in Seq(S), NEW m \in 1..Len(s), m + 1 \in 1..Len(s)
    PROVE  SubSeq(s, m, m + 1) = <<s[m], s[m + 1]>>
<1> DEFINE u == SubSeq(s, m, m + 1)
<1>1. m \in 1..Len(s) + 1 /\ m + 1 \in m - 1..Len(s) /\ (m + 1) - m + 1 = 2
  OBVIOUS
<1>2. u \in Seq(S) /\ Len(u) = 2 /\ \A i \in 1..2 : u[i] = s[m + i - 1]
  BY <1>1, SliceFacts
<1> HIDE DEF u
<1>3. u[1] = s[m] /\ u[2] = s[m + 1]
  BY <1>2
<1>4. u = <<s[m], s[m + 1]>>
  BY <1>2, <1>3
<1> QED BY <1>4 DEF u

(* What the validator calls the check digits are the digits the two CHECKs  *)
(* of the table compute.                                                    *)
LEMMA ValidIsStored ==
    ASSUME NEW v \in Canonical, NEW typed, Number!NormalizeCnpj(typed) = v
    PROVE  Number!IsValidCnpj(typed) <=> Number!StoredCnpj(v)
<1> DEFINE root == SubSeq(v, 1, 12)
           first == Number!CheckDigit(root, Number!FirstWeights)
           second == Number!CheckDigit(Append(root, first), Number!SecondWeights)
           end == SubSeq(v, 13, 14)
<1>1. v \in Seq(Int) /\ Len(v) = 14
  BY DEF Canonical
<1>2. /\ \A i \in 1..12 : Number!FirstWeights[i] \in Int
      /\ \A i \in 1..13 : Number!SecondWeights[i] \in Int
  BY DEF Number!FirstWeights, Number!SecondWeights
<1>3. first = v[13] <=> Number!SqlDigit(v, 13, Number!FirstWeights)
  BY <1>2, DigitOfPrefix
<1>4. Number!CheckDigit(SubSeq(v, 1, 13), Number!SecondWeights) = v[14]
        <=> Number!SqlDigit(v, 14, Number!SecondWeights)
  BY <1>2, DigitOfPrefix
<1>5. Append(root, v[13]) = SubSeq(v, 1, 13)
  BY <1>1, PrefixGrows
<1>6. first = v[13] => (second = v[14] <=> Number!SqlDigit(v, 14, Number!SecondWeights))
  BY <1>4, <1>5
<1>7. end = <<v[13], v[14]>>
  <2>1. 13 \in 1..Len(v) /\ 13 + 1 \in 1..Len(v) /\ 13 + 1 = 14
    BY <1>1
  <2> QED BY <1>1, <2>1, PairOf
<1>8. Number!IsValidCnpj(typed) <=> Number!WellFormed(v) /\ end = <<first, second>>
  BY DEF Number!IsValidCnpj
<1>9. Number!StoredCnpj(v) <=> /\ Number!WellFormed(v)
                               /\ Number!SqlDigit(v, 13, Number!FirstWeights)
                               /\ Number!SqlDigit(v, 14, Number!SecondWeights)
  BY DEF Number!StoredCnpj, Number!FirstWeights, Number!SecondWeights
<1> HIDE DEF first, second, end
<1>10. end = <<first, second>> <=> first = v[13] /\ second = v[14]
  BY <1>7
<1> QED BY <1>3, <1>6, <1>8, <1>9, <1>10

Roots == [1..12 -> Number!Digits \cup Number!Letters]

Composed(c, root, a, b) ==
    /\ c \in Canonical /\ SubSeq(c, 1, 12) = root
    /\ c[13] = a /\ c[14] = b /\ \A i \in 1..12 : c[i] = root[i]

(* A root and its two digits are a canonical value with those parts.        *)
LEMMA RootAndDigits ==
    ASSUME NEW root \in Roots, NEW a \in Number!Digits, NEW b \in Number!Digits
    PROVE  Composed(root \o <<a, b>>, root, a, b)
<1> DEFINE c == root \o <<a, b>>
           end == <<a, b>>
           S == Number!Digits \cup Number!Letters
<1>1. S \subseteq Int /\ Number!Digits \subseteq S
  BY DEF Number!Digits, Number!Letters
<1> HIDE DEF S
<1>2. root \in Seq(S) /\ Len(root) = 12 /\ \A i \in 1..12 : root[i] \in S
  <2>1. root \in [1..12 -> S]
    BY DEF Roots, S
  <2>2. [i \in 1..12 |-> root[i]] \in Seq(S) /\ root = [i \in 1..12 |-> root[i]]
    BY <2>1
  <2> QED BY <2>1, <2>2
<1>3. end \in Seq(S) /\ Len(end) = 2 /\ end[1] = a /\ end[2] = b
  BY <1>1
<1> HIDE DEF end
<1>4. c \in Seq(S) /\ Joined(c, root, end)
  BY <1>2, <1>3, ConcatJoins DEF end
<1> HIDE DEF c
<1>5. Len(c) = 14 /\ (\A i \in 1..12 : c[i] = root[i]) /\ c[13] = a /\ c[14] = b
  BY <1>2, <1>3, <1>4 DEF Joined
<1>6. \A i \in 1..14 : c[i] \in S
  BY <1>4, <1>5, ElementOfSeq
<1>7. c \in Canonical
  <2>1. c \in Seq(Int)
    BY <1>1, <1>4, SeqMonotonic
  <2> QED BY <1>5, <1>6, <2>1 DEF Canonical, S
<1> DEFINE u == SubSeq(c, 1, 12)
<1>8. u = root
  <2>1. 1 \in 1..Len(c) + 1 /\ 12 \in 1 - 1..Len(c)
    BY <1>5
  <2>2. /\ u \in Seq(S) /\ Len(u) = 12 - 1 + 1
        /\ \A i \in 1..12 - 1 + 1 : u[i] = c[1 + i - 1]
    BY <1>4, <2>1, SliceFacts
  <2> HIDE DEF u
  <2>3. u \in Seq(S) /\ Len(u) = 12 /\ \A i \in 1..12 : u[i] = root[i]
    BY <1>5, <2>2
  <2> QED BY <1>2, <2>3, SeqEqual
<1>9. Composed(c, root, a, b)
  BY <1>5, <1>7, <1>8 DEF u, Composed
<1> QED BY <1>9 DEF c, end

(* The sum of a typed value is a number, ...                                *)
LEMMA SumIsInt ==
    ASSUME NEW v \in Seq(Int), NEW w, \A i \in 1..Len(v) : w[i] \in Int
    PROVE  Number!WeightedSum(v, w) \in Int
<1>1. Len(v) \in 0..Len(v)
    OBVIOUS
<1> QED BY <1>1, SumAtPositions

(* ... what is computed from a number is a digit, ...                       *)
LEMMA DigitOfSum ==
    ASSUME NEW v, NEW w, Number!WeightedSum(v, w) \in Int
    PROVE  Number!CheckDigit(v, w) \in Number!Digits
<1> DEFINE remainder == Number!WeightedSum(v, w) % 11
<1>2. remainder \in 0..10
  OBVIOUS
<1>3. CASE remainder < 2
  BY <1>3 DEF Number!CheckDigit, Number!Digits
<1>4. CASE ~(remainder < 2)
  <2>1. Number!CheckDigit(v, w) = 11 - remainder
     BY <1>4 DEF Number!CheckDigit
  <2>3. 11 - remainder \in 0..9
     BY <1>2, <1>4
  <2>2. QED BY <2>1, <2>3 DEF Number!Digits
<1>6. QED BY <1>3, <1>4

(* ... and so the check digit is one.                                       *)
LEMMA CheckDigitIsDigit ==
    ASSUME NEW v \in Seq(Int), NEW w, \A i \in 1..Len(v) : w[i] \in Int
    PROVE  Number!CheckDigit(v, w) \in Number!Digits
BY SumIsInt, DigitOfSum

(* The sums of a root of zeros are zero, and so are its digits.             *)
LEMMA ZerosHaveZeroDigits ==
    ASSUME NEW v \in Seq(Int), NEW w, NEW n \in {12, 13}, Len(v) = n,
           \A i \in 1..n : w[i] \in Int, \A i \in 1..n : v[i] = 0
    PROVE  Number!CheckDigit(v, w) = 0
<1>1. \A i \in 1..n : v[i] * w[i] = 0
  OBVIOUS
<1>2. PICK g \in [0..n -> Int] :
          /\ g[0] = 0
          /\ \A i \in 1..n : g[i] = g[i - 1] + v[i] * w[i]
          /\ Number!WeightedSum(v, w) = g[n]
  BY SumAtPositions
<1>3. \A i \in 1..n : g[i] = g[i - 1] + 0
  BY <1>1, <1>2
<1> DEFINE Good == {m \in Nat : m <= n => g[m] = 0}
<1>4. 0 \in Good
  BY <1>2
<1>5. \A m \in Nat : m \in Good => m + 1 \in Good
  <2> SUFFICES ASSUME NEW m \in Nat, m \in Good, m + 1 <= n
               PROVE  g[m + 1] = 0
    OBVIOUS
  <2>1. m + 1 \in 1..n /\ (m + 1) - 1 = m /\ g[m] = 0
    OBVIOUS
  <2> QED BY <1>3, <2>1
<1> HIDE DEF Good
<1>6. Nat \subseteq Good
  BY <1>4, <1>5, SetInduction
<1>7. Number!WeightedSum(v, w) = 0
  BY <1>2, <1>6 DEF Good
<1> QED BY <1>7 DEF Number!CheckDigit

(* Append, element by element.                                              *)
LEMMA OneMore ==
    ASSUME NEW S, NEW s \in Seq(S), NEW elt \in S
    PROVE  /\ Append(s, elt) \in Seq(S) /\ Len(Append(s, elt)) = Len(s) + 1
           /\ \A i \in 1..Len(s) : Append(s, elt)[i] = s[i]
           /\ Append(s, elt)[Len(s) + 1] = elt
BY AppendProperties

(* The first digit is a function of the root, the second of both.           *)
LEMMA DigitsOfRoot ==
    ASSUME NEW root \in Roots
    PROVE  LET pairs == {pair \in Number!Digits \X Number!Digits :
                          Number!IsValidCnpj(root \o pair)} IN
           IF Number!Range(root) = {0} THEN pairs = {} ELSE \E pair \in pairs : pairs = {pair}
<1> DEFINE pairs == {pair \in Number!Digits \X Number!Digits : Number!IsValidCnpj(root \o pair)}
           first == Number!CheckDigit(root, Number!FirstWeights)
           second == Number!CheckDigit(Append(root, first), Number!SecondWeights)
           zero == \A i \in 1..12 : root[i] = 0
<1>1. /\ \A i \in 1..12 : Number!FirstWeights[i] \in Int
      /\ \A i \in 1..13 : Number!SecondWeights[i] \in Int
  BY DEF Number!FirstWeights, Number!SecondWeights
<1>2. root \in Seq(Int) /\ Len(root) = 12
  <2>1. \A i \in 1..12 : root[i] \in Int
    BY DEF Roots, Number!Digits, Number!Letters
  <2>2. [i \in 1..12 |-> root[i]] \in Seq(Int) /\ root = [i \in 1..12 |-> root[i]]
    BY <2>1 DEF Roots
  <2> QED BY <2>2
<1>3. first \in Number!Digits
  <2>1. \A i \in 1..Len(root) : Number!FirstWeights[i] \in Int
    BY <1>1, <1>2
  <2> QED BY <1>2, <2>1, CheckDigitIsDigit
<1> HIDE DEF first
<1> DEFINE longer == Append(root, first)
<1>4. /\ longer \in Seq(Int) /\ Len(longer) = 13
      /\ (\A i \in 1..12 : longer[i] = root[i]) /\ longer[13] = first
  <2>1. first \in Int
    BY <1>3 DEF Number!Digits
  <2>2. root \in Seq(Int)
    BY <1>2
  <2>3. longer \in Seq(Int) /\ Len(longer) = Len(root) + 1 /\ longer[Len(root) + 1] = first
    BY <2>1, <2>2, OneMore
  <2>4. \A i \in 1..Len(root) : longer[i] = root[i]
    BY <2>1, <2>2, OneMore
  <2> HIDE DEF longer
  <2> QED BY <1>2, <2>3, <2>4
<1> HIDE DEF longer
<1>5. second \in Number!Digits
  <2>1. \A i \in 1..Len(longer) : Number!SecondWeights[i] \in Int
    BY <1>1, <1>4
  <2>2. Number!CheckDigit(longer, Number!SecondWeights) \in Number!Digits
    BY <1>4, <2>1, CheckDigitIsDigit
  <2> QED BY <2>2 DEF longer
<1> HIDE DEF second
<1>6. \A a, b \in Number!Digits :
          Number!IsValidCnpj(root \o <<a, b>>)
            <=> a = first /\ b = second /\ ~(zero /\ a = 0 /\ b = 0)
  <2> SUFFICES ASSUME NEW a \in Number!Digits, NEW b \in Number!Digits
               PROVE  Number!IsValidCnpj(root \o <<a, b>>)
                        <=> a = first /\ b = second /\ ~(zero /\ a = 0 /\ b = 0)
    OBVIOUS
  <2> DEFINE c == root \o <<a, b>>
  <2>1. /\ c \in Canonical /\ SubSeq(c, 1, 12) = root /\ c[13] = a /\ c[14] = b
        /\ \A i \in 1..12 : c[i] = root[i]
    <3>1. Composed(c, root, a, b)
      BY RootAndDigits
    <3> HIDE DEF c
    <3> QED BY <3>1 DEF Composed
  <2> HIDE DEF c
  <2>2. Number!NormalizeCnpj(c) = c
    BY <2>1, CanonicalIsNormalised
  <2>3. c \in Seq(Int) /\ Len(c) = 14 /\ \A i \in 1..14 : c[i] \in Number!Digits \cup Number!Letters
    BY <2>1 DEF Canonical
  <2>4. SubSeq(c, 13, 14) = <<a, b>>
    <3>1. 13 \in 1..Len(c) /\ 13 + 1 \in 1..Len(c) /\ 13 + 1 = 14
      BY <2>3
    <3> QED BY <2>1, <2>3, <3>1, PairOf
  <2>5. Number!IsValidCnpj(c) <=> Number!WellFormed(c) /\ <<a, b>> = <<first, second>>
    BY <2>1, <2>2, <2>4 DEF Number!IsValidCnpj, first, second
  <2>6. Number!WellFormed(c) <=> \E i \in 1..14 : c[i] # 0
    <3>1. \A i \in 1..12 : c[i] \in Number!Digits \cup Number!Letters
      BY <2>3
    <3>2. \A i \in 13..14 : c[i] \in Number!Digits
      BY <2>1
    <3> QED BY <2>3, <3>1, <3>2 DEF Number!WellFormed
  <2>7. (\E i \in 1..14 : c[i] # 0) <=> ~(zero /\ a = 0 /\ b = 0)
    BY <2>1
  <2>8. <<a, b>> = <<first, second>> <=> a = first /\ b = second
    OBVIOUS
  <2> QED BY <2>5, <2>6, <2>7, <2>8 DEF c
<1>7. Number!Range(root) = {0} <=> zero
  BY DEF Number!Range, Roots
<1>8. CASE zero
  <2>1. first = 0
    BY <1>1, <1>2, <1>8, ZerosHaveZeroDigits DEF first
  <2>2. \A i \in 1..13 : longer[i] = 0
    BY <1>4, <1>8, <2>1
  <2>3. second = 0
    BY <1>1, <1>4, <2>2, ZerosHaveZeroDigits DEF second, longer
  <2>4. pairs = {}
    BY <1>6, <1>8, <2>1, <2>3
  <2> QED BY <1>7, <1>8, <2>4
<1>9. CASE ~zero
  <2>1. <<first, second>> \in pairs
    BY <1>3, <1>5, <1>6, <1>9
  <2>2. \A pair \in pairs : pair = <<first, second>>
    BY <1>6
  <2>3. pairs = {<<first, second>>}
    BY <2>1, <2>2
  <2> QED BY <1>7, <1>9, <2>1, <2>3
<1> QED BY <1>8, <1>9

(* A behaviour about registration numbers starts from a root and changes it *)
(* to a root.                                                               *)
CnpjInv ==
    subject = "cnpj" =>
        /\ base \in Roots
        /\ digits \in Number!Digits \X Number!Digits
        /\ form \in {"plain", "masked", "lower"}

LEMMA CnpjInvInit == Init => CnpjInv
<1> SUFFICES ASSUME Init, subject = "cnpj"
             PROVE  CnpjInv
  BY DEF CnpjInv
<1>1. base \in Bases /\ digits = <<0, 0>> /\ form \in Forms
  BY DEF Init, Number!Init
<1>2. base \in Roots /\ form \in {"plain", "masked", "lower"}
  BY <1>1, CnpjAssumption DEF Number!ParametersAreTyped, Number!Positions, Roots
<1>3. digits \in Number!Digits \X Number!Digits
  BY <1>1 DEF Number!Digits
<1> QED BY <1>2, <1>3 DEF CnpjInv

LEMMA CnpjInvStep == CnpjInv /\ [Next]_vars => CnpjInv'
<1> SUFFICES ASSUME CnpjInv, [Next]_vars, subject = "cnpj"
             PROVE  CnpjInv'
  BY DEF Next, vars, CnpjInv
<1>1. CASE UNCHANGED <<base, digits, form>>
  BY <1>1 DEF CnpjInv
<1>2. CASE Number!Next
  <2>1. ASSUME NEW i \in Number!Positions, NEW c \in Changed, Number!Change(i, c)
        PROVE  CnpjInv'
    <3>1. base' \in Roots
      BY <2>1, CnpjAssumption DEF Number!Change, Number!ParametersAreTyped,
                                  Number!Positions, Roots, CnpjInv
    <3> QED BY <2>1, <3>1 DEF Number!Change, CnpjInv
  <2>2. ASSUME NEW a \in Number!Digits, NEW b \in Number!Digits, Number!Choose(a, b)
        PROVE  CnpjInv'
    BY <2>2 DEF Number!Choose, CnpjInv
  <2> QED BY <1>2, <2>1, <2>2 DEF Number!Next
<1> QED BY <1>1, <1>2 DEF Next, vars, registration

(* The two properties of registration numbers.                              *)
LEMMA NumbersAgree ==
    ASSUME CnpjInv, subject = "cnpj"
    PROVE  Number!ValidIsStorable /\ Number!OnePairOfDigits
<1> DEFINE v == base \o digits
<1>1. v \in Canonical
  <2>1. PICK a \in Number!Digits, b \in Number!Digits : digits = <<a, b>>
    BY DEF CnpjInv
  <2>2. Composed(base \o <<a, b>>, base, a, b)
    BY RootAndDigits DEF CnpjInv
  <2> QED BY <2>1, <2>2 DEF Composed
<1> HIDE DEF v
<1>2. Number!NormalizeCnpj(Number!Typed(v)) = v
  BY <1>1, TypedIsNormalised DEF CnpjInv
<1>3. Number!IsValidCnpj(Number!Typed(v)) <=> Number!StoredCnpj(v)
  BY <1>1, <1>2, ValidIsStored
<1>4. Number!ValidIsStorable
  BY <1>2, <1>3 DEF Number!ValidIsStorable, v
<1>5. Number!OnePairOfDigits
  BY DigitsOfRoot DEF Number!OnePairOfDigits, CnpjInv
<1> QED BY <1>4, <1>5

-----------------------------------------------------------------------------
(* Texts: what trimming leaves                                              *)

(* A bounded set of numbers has the extremes the model chooses.             *)
LEMMA Extremes ==
    ASSUME NEW K \in SUBSET Nat, K # {}, NEW n \in Nat, \A k \in K : k <= n
    PROVE  /\ Text!Min(K) \in K /\ \A k \in K : Text!Min(K) <= k
           /\ Text!Max(K) \in K /\ \A k \in K : Text!Max(K) >= k
<1>1. \E least \in K : \A k \in K : least <= k
  BY LeastElement
<1>2. \E most \in K : \A k \in K : most >= k
  <2> DEFINE T == {d \in Nat : n - d \in K}
  <2>1. T \in SUBSET Nat /\ T # {}
    <3>1. PICK k \in K : TRUE
      OBVIOUS
    <3>2. n - k \in T
      <4>1. n - k \in Nat /\ n - (n - k) = k
        BY <3>1
      <4> QED BY <3>1, <4>1
    <3> QED BY <3>2
  <2>2. PICK d \in T : \A d2 \in T : d <= d2
    BY <2>1, LeastElement
  <2>3. n - d \in K
    OBVIOUS
  <2>4. \A k \in K : n - d >= k
    <3> TAKE k \in K
    <3>1. n - k \in Nat /\ n - (n - k) = k /\ d \in Nat
      OBVIOUS
    <3>2. n - k \in T
      BY <3>1
    <3>3. d <= n - k
      BY <2>2, <3>2
    <3> HIDE DEF T
    <3> QED BY <3>1, <3>3
  <2> QED BY <2>3, <2>4
<1> QED BY <1>1, <1>2 DEF Text!Min, Text!Max

(* Between the first and the last character outside a class is what is left.*)
LEMMA StrippedIs ==
    ASSUME NEW S, NEW v \in Seq(S), NEW class, NEW m \in 1..Len(v), NEW n \in m..Len(v),
           v[m] \notin class, v[n] \notin class,
           \A i \in 1..Len(v) : v[i] \notin class => m <= i /\ i <= n
    PROVE  Text!Stripped(v, class) = SubSeq(v, m, n)
<1> DEFINE K == {i \in DOMAIN v : v[i] \notin class}
<1>1. DOMAIN v = 1..Len(v) /\ Len(v) \in Nat
  OBVIOUS
<1>2. K \in SUBSET Nat /\ (\A k \in K : k <= Len(v)) /\ m \in K /\ n \in K
  BY <1>1
<1>3. \A k \in K : m <= k /\ k <= n
  BY <1>1
<1> HIDE DEF K
<1>4. /\ Text!Min(K) \in K /\ \A k \in K : Text!Min(K) <= k
      /\ Text!Max(K) \in K /\ \A k \in K : Text!Max(K) >= k
  BY <1>1, <1>2, Extremes
<1>5. Text!Min(K) = m /\ Text!Max(K) = n
  <2>1. Text!Min(K) <= m /\ m <= Text!Min(K) /\ Text!Max(K) >= n /\ Text!Max(K) <= n
    BY <1>2, <1>3, <1>4
  <2>2. Text!Min(K) \in Nat /\ Text!Max(K) \in Nat /\ m \in Nat /\ n \in Nat
    BY <1>2, <1>4
  <2> QED BY <2>1, <2>2
<1>6. Text!Stripped(v, class) = IF K = {} THEN <<>> ELSE SubSeq(v, Text!Min(K), Text!Max(K))
  BY Zenon DEF Text!Stripped, K
<1> QED BY <1>2, <1>5, <1>6

(* Nothing is left of a text of that class only.                            *)
LEMMA StrippedEmpty ==
    ASSUME NEW S, NEW v \in Seq(S), NEW class, \A i \in 1..Len(v) : v[i] \in class
    PROVE  Text!Stripped(v, class) = <<>>
BY DEF Text!Stripped

(* Where the rest of a text begins and ends in it.                          *)
Rest(t, v, class, m, n) ==
    /\ m \in 1..Len(v) /\ n \in m..Len(v) /\ v[m] \notin class /\ v[n] \notin class
    /\ \A i \in 1..Len(v) : v[i] \notin class => m <= i /\ i <= n
    /\ Len(t) = n - m + 1 /\ \A i \in 1..n - m + 1 : t[i] = v[m + i - 1]

(* Either is the case.                                                      *)
LEMMA StrippedFacts ==
    ASSUME NEW S, NEW v \in Seq(S), NEW class
    PROVE  /\ Text!Stripped(v, class) \in Seq(S)
           /\ \/ Text!Stripped(v, class) = <<>> /\ \A i \in 1..Len(v) : v[i] \in class
              \/ \E m, n \in Nat : Rest(Text!Stripped(v, class), v, class, m, n)
<1> DEFINE K == {i \in DOMAIN v : v[i] \notin class}
           t == Text!Stripped(v, class)
<1>1. DOMAIN v = 1..Len(v) /\ Len(v) \in Nat
  OBVIOUS
<1>2. CASE K = {}
  <2>1. \A i \in 1..Len(v) : v[i] \in class
    BY <1>1, <1>2
  <2>2. t = <<>>
    BY <2>1, StrippedEmpty
  <2>3. <<>> \in Seq(S)
    OBVIOUS
  <2> HIDE DEF t
  <2>4. t \in Seq(S)
    BY <2>2, <2>3
  <2> QED BY <2>1, <2>2, <2>4 DEF t
<1>3. CASE K # {}
  <2>1. K \in SUBSET Nat /\ (\A k \in K : k <= Len(v))
    BY <1>1
  <2> DEFINE m == Text!Min(K)
             n == Text!Max(K)
  <2>2. m \in K /\ n \in K /\ \A k \in K : m <= k /\ n >= k
    BY <1>1, <1>3, <2>1, Extremes
  <2> HIDE DEF m, n
  <2>3. m \in 1..Len(v) /\ n \in m..Len(v) /\ v[m] \notin class /\ v[n] \notin class
    BY <1>1, <2>2
  <2>4. \A i \in 1..Len(v) : v[i] \notin class => m <= i /\ i <= n
    BY <1>1, <2>2
  <2> HIDE DEF K
  <2>5. t = SubSeq(v, m, n)
    BY <2>3, <2>4, StrippedIs
  <2> HIDE DEF t
  <2>6. m \in 1..Len(v) + 1 /\ n \in m - 1..Len(v)
    BY <1>1, <2>3
  <2>7. t \in Seq(S) /\ Len(t) = n - m + 1 /\ \A i \in 1..n - m + 1 : t[i] = v[m + i - 1]
    BY <2>5, <2>6, SliceFacts
  <2>8. Rest(t, v, class, m, n) /\ m \in Nat /\ n \in Nat
    BY <1>1, <2>3, <2>4, <2>7 DEF Rest
  <2> QED BY <2>7, <2>8 DEF t
<1> QED BY <1>2, <1>3

(* A text with neither end in the class is not changed.                     *)
LEMMA StripKeeps ==
    ASSUME NEW S, NEW v \in Seq(S), NEW class, Len(v) # 0,
           v[1] \notin class, v[Len(v)] \notin class
    PROVE  Text!Stripped(v, class) = v
<1>1. 1 \in 1..Len(v) /\ Len(v) \in 1..Len(v)
  OBVIOUS
<1>2. \A i \in 1..Len(v) : v[i] \notin class => 1 <= i /\ i <= Len(v)
  OBVIOUS
<1>3. Text!Stripped(v, class) = SubSeq(v, 1, Len(v))
  BY <1>1, <1>2, StrippedIs
<1> QED BY <1>3, SubSeqFull

-----------------------------------------------------------------------------
(* Texts: what collapsing white space leaves                                *)

(* What a character of a run becomes, and one step of the replacement.      *)
Visible(c) == IF c \in Text!JsSpace THEN "space" ELSE c
CollapseStep(v, i, s) ==
    IF v[i] \notin Text!JsSpace THEN Append(s, v[i])
    ELSE IF i > 1 /\ v[i - 1] \in Text!JsSpace THEN s
    ELSE Append(s, "space")

(* The replacement of runs, position by position.                           *)
LEMMA CollapsedAtPositions ==
    ASSUME NEW v \in Seq(Text!Characters)
    PROVE  \E g \in [0..Len(v) -> Seq(Text!Characters)] :
               /\ g[0] = <<>>
               /\ \A i \in 1..Len(v) : g[i] = CollapseStep(v, i, g[i - 1])
               /\ Text!Collapsed(v) = g[Len(v)]
<1> DEFINE n == Len(v)
           V == Seq(Text!Characters)
           step == [i \in 1..n |-> [s \in V |-> CollapseStep(v, i, s)]]
<1>0. n \in Nat /\ <<>> \in V
  OBVIOUS
<1>1. \A i \in 1..n, s \in V : CollapseStep(v, i, s) \in V
  <2>1. "space" \in Text!Characters /\ \A i \in 1..n : v[i] \in Text!Characters
    BY ElementOfSeq DEF Text!Characters
  <2> QED BY <2>1, AppendProperties DEF CollapseStep
<1>2. step \in [1..n -> [V -> V]]
  BY <1>1
<1>3. \A i \in 1..n, s \in V : step[i][s] = CollapseStep(v, i, s)
  OBVIOUS
<1> HIDE DEF n, step, V
<1>4. PICK g \in [0..n -> V] : IsRecursion(g, n, <<>>, step)
  BY <1>0, <1>2, RecursionExists
<1>5. \A i \in 1..n : i # 0 /\ i \in 0..n /\ i - 1 \in 0..n /\ g[i - 1] \in V
  BY <1>0
<1>6. g[0] = <<>> /\ \A i \in 1..n : g[i] = CollapseStep(v, i, g[i - 1])
  BY <1>3, <1>4, <1>5 DEF IsRecursion
<1>7. g = [i \in 0..n |-> IF i = 0 THEN <<>> ELSE CollapseStep(v, i, g[i - 1])]
  BY <1>0, <1>6
<1> DEFINE done[i \in 0..Len(v)] ==
               IF i = 0 THEN <<>>
               ELSE IF v[i] \notin Text!JsSpace THEN Append(done[i - 1], v[i])
               ELSE IF i > 1 /\ v[i - 1] \in Text!JsSpace THEN done[i - 1]
               ELSE Append(done[i - 1], "space")
<1>8. done[n] = Text!Collapsed(v)
  BY DEF Text!Collapsed, n
<1>9. done = [i \in 0..n |-> IF i = 0 THEN <<>> ELSE CollapseStep(v, i, done[i - 1])]
  BY <1>7 DEF n, CollapseStep
<1> HIDE DEF done
<1>10. done[0] = <<>>
  BY <1>0, <1>9
<1>11. \A i \in 1..n : done[i] = CollapseStep(v, i, done[i - 1])
  BY <1>5, <1>9
<1>12. Follows(done, V, n, <<>>, step)
  BY <1>3, <1>10, <1>11 DEF Follows
<1>13. done[n] = g[n]
  BY <1>0, <1>4, <1>12, RecursionUnique
<1> QED BY <1>4, <1>6, <1>8, <1>13 DEF n, V

(* u stands for the first m characters of v.                                *)
Collapses(u, v, m) ==
    /\ u \in Seq(Text!Characters)
    /\ m = 0 => Len(u) = 0
    /\ m > 0 => Len(u) > 0 /\ u[1] = Visible(v[1]) /\ u[Len(u)] = Visible(v[m])
    /\ \A k \in 1..Len(u) : \E i \in 1..m : u[k] = Visible(v[i])
    /\ \A i \in 1..m : \E k \in 1..Len(u) : u[k] = Visible(v[i])
    /\ \A k \in 1..Len(u) - 1 : ~(u[k] = "space" /\ u[k + 1] = "space")

(* One more character, other than a second space.                           *)
LEMMA CollapsesMore ==
    ASSUME NEW v \in Seq(Text!Characters), NEW m \in Nat, m + 1 <= Len(v),
           NEW u, Collapses(u, v, m),
           m > 0 /\ v[m] \in Text!JsSpace => v[m + 1] \notin Text!JsSpace
    PROVE  Collapses(Append(u, Visible(v[m + 1])), v, m + 1)
<1> DEFINE c == Visible(v[m + 1])
           t == Append(u, c)
<1>0. u \in Seq(Text!Characters) /\ Len(u) \in Nat
  BY DEF Collapses
<1>1. c \in Text!Characters
  BY ElementOfSeq DEF Visible, Text!Characters
<1>2. c = "space" <=> v[m + 1] \in Text!JsSpace
  BY DEF Visible, Text!JsSpace
<1> HIDE DEF c
<1>3. /\ t \in Seq(Text!Characters) /\ Len(t) = Len(u) + 1
      /\ \A k \in 1..Len(u) : t[k] = u[k]
      /\ t[Len(u) + 1] = c
  BY <1>0, <1>1, AppendProperties
<1> HIDE DEF t
<1>4. \A k \in 1..Len(t) : k \in 1..Len(u) \/ k = Len(u) + 1
  BY <1>0, <1>3
<1>5. Len(t) > 0 /\ t[Len(t)] = c
  BY <1>0, <1>3
<1>6. t[1] = Visible(v[1])
  <2>1. CASE m = 0
    <3>1. Len(u) + 1 = 1 /\ m + 1 = 1
      BY <2>1 DEF Collapses
    <3> QED BY <1>3, <3>1 DEF c
  <2>2. CASE m > 0
    <3>1. 1 \in 1..Len(u) /\ u[1] = Visible(v[1])
      BY <1>0, <2>2 DEF Collapses
    <3> QED BY <1>3, <3>1
  <2> QED BY <2>1, <2>2
<1>7. \A k \in 1..Len(t) : \E i \in 1..m + 1 : t[k] = Visible(v[i])
  <2> TAKE k \in 1..Len(t)
  <2>1. CASE k \in 1..Len(u)
    <3>1. PICK i \in 1..m : u[k] = Visible(v[i])
      BY <2>1 DEF Collapses
    <3>2. i \in 1..m + 1 /\ t[k] = Visible(v[i])
      BY <1>3, <2>1, <3>1
    <3> QED BY <3>2
  <2>2. CASE k = Len(u) + 1
    <3>1. m + 1 \in 1..m + 1 /\ t[k] = Visible(v[m + 1])
      BY <1>3, <2>2 DEF c
    <3> QED BY <3>1
  <2> QED BY <1>4, <2>1, <2>2
<1>8. \A i \in 1..m + 1 : \E k \in 1..Len(t) : t[k] = Visible(v[i])
  <2> TAKE i \in 1..m + 1
  <2>1. CASE i \in 1..m
    <3>1. PICK k \in 1..Len(u) : u[k] = Visible(v[i])
      BY <2>1 DEF Collapses
    <3>2. k \in 1..Len(t) /\ t[k] = Visible(v[i])
      BY <1>0, <1>3, <3>1
    <3> QED BY <3>2
  <2>2. CASE i = m + 1
    <3>1. Len(t) \in 1..Len(t) /\ t[Len(t)] = Visible(v[i])
      BY <1>0, <1>3, <1>5, <2>2 DEF c
    <3> QED BY <3>1
  <2> QED BY <2>1, <2>2
<1>9. \A k \in 1..Len(t) - 1 : ~(t[k] = "space" /\ t[k + 1] = "space")
  <2> SUFFICES ASSUME NEW k \in 1..Len(t) - 1, t[k] = "space", t[k + 1] = "space"
               PROVE  FALSE
    OBVIOUS
  <2>1. k \in 1..Len(u) /\ t[k] = u[k]
    BY <1>0, <1>3
  <2>2. CASE k \in 1..Len(u) - 1
    <3>1. k + 1 \in 1..Len(u) /\ t[k + 1] = u[k + 1]
      BY <1>0, <1>3, <2>2
    <3> QED BY <2>1, <2>2, <3>1 DEF Collapses
  <2>3. CASE k = Len(u)
    <3>1. c = "space" /\ u[Len(u)] = "space"
      BY <1>3, <2>1, <2>3
    <3>2. m > 0
      BY <1>0, <2>1 DEF Collapses
    <3>3. Visible(v[m]) = "space"
      BY <3>1, <3>2 DEF Collapses
    <3>4. v[m] \in Text!JsSpace
      BY <3>3 DEF Visible, Text!JsSpace
    <3> QED BY <1>2, <3>1, <3>2, <3>4
  <2> QED BY <1>0, <2>1, <2>2, <2>3
<1>10. Collapses(t, v, m + 1)
  <2>1. m + 1 # 0
    OBVIOUS
  <2> QED BY <1>3, <1>5, <1>6, <1>7, <1>8, <1>9, <2>1 DEF Collapses, c
<1> QED BY <1>10 DEF t, c

(* The whole text, by induction over its prefixes.                          *)
LEMMA CollapsedFacts ==
    ASSUME NEW v \in Seq(Text!Characters)
    PROVE  Collapses(Text!Collapsed(v), v, Len(v))
<1> DEFINE n == Len(v)
<1>0. n \in Nat
  OBVIOUS
<1>1. PICK g \in [0..n -> Seq(Text!Characters)] :
          /\ g[0] = <<>>
          /\ \A i \in 1..n : g[i] = CollapseStep(v, i, g[i - 1])
          /\ Text!Collapsed(v) = g[n]
  BY CollapsedAtPositions
<1> DEFINE Good == {m \in Nat : m <= n => Collapses(g[m], v, m)}
<1>2. 0 \in Good
  <2>1. Collapses(<<>>, v, 0)
    BY DEF Collapses
  <2> QED BY <1>1, <2>1
<1>3. \A m \in Nat : m \in Good => m + 1 \in Good
  <2> SUFFICES ASSUME NEW m \in Nat, m \in Good, m + 1 <= n
               PROVE  Collapses(g[m + 1], v, m + 1)
    OBVIOUS
  <2>1. m + 1 \in 1..n /\ (m + 1) - 1 = m /\ Collapses(g[m], v, m)
    BY <1>0
  <2>2. g[m + 1] = CollapseStep(v, m + 1, g[m])
    BY <1>1, <2>1
  <2>3. CASE m > 0 /\ v[m] \in Text!JsSpace /\ v[m + 1] \in Text!JsSpace
    <3>1. g[m + 1] = g[m]
      BY <2>1, <2>2, <2>3 DEF CollapseStep
    <3>2. Visible(v[m + 1]) = Visible(v[m])
      BY <2>3 DEF Visible
    <3>3. Collapses(g[m], v, m + 1)
      <4> DEFINE u == g[m]
      <4>1. Collapses(u, v, m)
        BY <2>1
      <4> HIDE DEF u
      <4>2. m + 1 # 0 /\ Len(u) > 0 /\ u[1] = Visible(v[1]) /\ u[Len(u)] = Visible(v[m + 1])
        BY <2>3, <3>2, <4>1 DEF Collapses
      <4>3. \A k \in 1..Len(u) : \E i \in 1..m + 1 : u[k] = Visible(v[i])
        BY <4>1 DEF Collapses
      <4>4. \A i \in 1..m + 1 : \E k \in 1..Len(u) : u[k] = Visible(v[i])
        <5> TAKE i \in 1..m + 1
        <5>1. CASE i \in 1..m
          BY <4>1, <5>1 DEF Collapses
        <5>2. CASE i = m + 1
          <6>1. m \in 1..m
            BY <2>3
          <6> QED BY <3>2, <4>1, <5>2, <6>1 DEF Collapses
        <5> QED BY <5>1, <5>2
      <4>5. Collapses(u, v, m + 1)
        BY <4>1, <4>2, <4>3, <4>4 DEF Collapses
      <4> QED BY <4>5 DEF u
    <3> QED BY <3>1, <3>3
  <2>4. CASE ~(m > 0 /\ v[m] \in Text!JsSpace /\ v[m + 1] \in Text!JsSpace)
    <3>1. g[m + 1] = Append(g[m], Visible(v[m + 1]))
      BY <2>1, <2>2, <2>4 DEF CollapseStep, Visible
    <3>2. Collapses(Append(g[m], Visible(v[m + 1])), v, m + 1)
      BY <2>1, <2>4, CollapsesMore
    <3> QED BY <3>1, <3>2
  <2> QED BY <2>3, <2>4
<1> HIDE DEF Good
<1>4. Nat \subseteq Good
  BY <1>2, <1>3, SetInduction
<1> QED BY <1>0, <1>1, <1>4 DEF Good

(* A text without runs, or white space other than the space, stays.         *)
LEMMA CollapsedKeeps ==
    ASSUME NEW v \in Seq(Text!Characters),
           \A i \in 1..Len(v) : v[i] \in Text!JsSpace => v[i] = "space",
           \A i \in 1..Len(v) - 1 : ~(v[i] = "space" /\ v[i + 1] = "space")
    PROVE  Text!Collapsed(v) = v
<1> DEFINE n == Len(v)
<1>0. n \in Nat
  OBVIOUS
<1>1. PICK g \in [0..n -> Seq(Text!Characters)] :
          /\ g[0] = <<>>
          /\ \A i \in 1..n : g[i] = CollapseStep(v, i, g[i - 1])
          /\ Text!Collapsed(v) = g[n]
  BY CollapsedAtPositions
<1> DEFINE Good == {m \in Nat : m <= n => g[m] = SubSeq(v, 1, m)}
<1>2. 0 \in Good
  <2>1. SubSeq(v, 1, 0) = <<>>
    BY SubSeqEmpty
  <2> QED BY <1>1, <2>1
<1>3. \A m \in Nat : m \in Good => m + 1 \in Good
  <2> SUFFICES ASSUME NEW m \in Nat, m \in Good, m + 1 <= n
               PROVE  g[m + 1] = SubSeq(v, 1, m + 1)
    OBVIOUS
  <2>1. m + 1 \in 1..n /\ (m + 1) - 1 = m /\ g[m] = SubSeq(v, 1, m)
    BY <1>0
  <2>2. g[m + 1] = CollapseStep(v, m + 1, g[m])
    BY <1>1, <2>1
  <2>3. g[m + 1] = Append(g[m], v[m + 1])
    <3>1. CASE v[m + 1] \notin Text!JsSpace
      BY <2>2, <3>1 DEF CollapseStep
    <3>2. CASE v[m + 1] \in Text!JsSpace
      <4>1. v[m + 1] = "space"
        BY <2>1, <3>2
      <4>2. ~(m + 1 > 1 /\ v[(m + 1) - 1] \in Text!JsSpace)
        <5> SUFFICES ASSUME m + 1 > 1, v[m] \in Text!JsSpace
                     PROVE  FALSE
          BY <2>1
        <5>1. m \in 1..Len(v) - 1 /\ m \in 1..Len(v)
          BY <1>0
        <5> QED BY <4>1, <5>1
      <4> QED BY <2>2, <3>2, <4>1, <4>2 DEF CollapseStep
    <3> QED BY <3>1, <3>2
  <2> QED BY <2>1, <2>3, PrefixGrows
<1> HIDE DEF Good
<1>4. Nat \subseteq Good
  BY <1>2, <1>3, SetInduction
<1>5. g[n] = SubSeq(v, 1, n)
  BY <1>0, <1>4 DEF Good
<1> QED BY <1>1, <1>5, SubSeqFull

-----------------------------------------------------------------------------
(* Texts: what is accepted is stored                                        *)

TextInv == value \in Seq(Text!Characters)

LEMMA TextInvInit == Init => TextInv
BY DEF Init, Text!Init, TextInv

LEMMA TextInvStep == TextInv /\ [Next]_vars => TextInv'
<1> SUFFICES ASSUME TextInv, [Next]_vars
             PROVE  TextInv'
  OBVIOUS
<1>1. CASE UNCHANGED value
  BY <1>1 DEF TextInv
<1>2. CASE Text!Erase
  <2>1. value # <<>> /\ value' = SubSeq(value, 1, Len(value) - 1)
    BY <1>2 DEF Text!Erase, Text!Front
  <2>2. Len(value) \in Nat \ {0}
    BY <2>1, EmptySeq DEF TextInv
  <2>3. SubSeq(value, 1, Len(value) - 1) \in Seq(Text!Characters)
    BY <2>2, SliceFacts DEF TextInv
  <2> QED BY <2>1, <2>3 DEF TextInv
<1>3. ASSUME NEW c \in Text!Characters, Text!Type(c)
      PROVE  TextInv'
  BY <1>3, AppendProperties DEF Text!Type, TextInv
<1> QED BY <1>1, <1>2, <1>3 DEF Next, vars, registration, Text!Next

(* The normal form of a text: nothing is left of it, or both its ends are   *)
(* visible, its only white space is the space, and no two spaces meet.      *)
Normal(t) ==
    /\ t \in Seq(Text!Characters)
    /\ Len(t) # 0 => t[1] \notin Text!JsSpace /\ t[Len(t)] \notin Text!JsSpace
    /\ \A k \in 1..Len(t) : t[k] \in Text!JsSpace => t[k] = "space"
    /\ \A k \in 1..Len(t) - 1 : ~(t[k] = "space" /\ t[k + 1] = "space")

(* normalizeText makes a normal text of any, and no new visible control.    *)
Sounds == {"bel", "c1"}

LEMMA NormaliseMakesNormal ==
    ASSUME NEW v \in Seq(Text!Characters)
    PROVE  /\ Normal(Text!NormalizeText(v))
           /\ \A k \in 1..Len(Text!NormalizeText(v)) :
                  Text!NormalizeText(v)[k] \in Sounds =>
                      \E i \in 1..Len(v) : v[i] \in Sounds
<1> DEFINE t == Text!Trim(v)
           u == Text!NormalizeText(v)
<1>1. /\ t \in Seq(Text!Characters)
      /\ \/ t = <<>>
         \/ \E m, n \in Nat : Rest(t, v, Text!JsSpace, m, n)
  BY StrippedFacts DEF Text!Trim
<1> HIDE DEF t
<1>2. Collapses(u, t, Len(t))
  BY <1>1, CollapsedFacts DEF Text!NormalizeText, t
<1> HIDE DEF u
<1>3. u \in Seq(Text!Characters) /\ Len(u) \in Nat /\ Len(t) \in Nat
  BY <1>1, <1>2 DEF Collapses
<1>4. Len(t) # 0 => t[1] \notin Text!JsSpace /\ t[Len(t)] \notin Text!JsSpace
  <2> SUFFICES ASSUME Len(t) # 0
               PROVE  t[1] \notin Text!JsSpace /\ t[Len(t)] \notin Text!JsSpace
    OBVIOUS
  <2>1. PICK m \in Nat, n \in Nat : Rest(t, v, Text!JsSpace, m, n)
    BY <1>1, EmptySeq
  <2>2. t[1] = v[m] /\ t[Len(t)] = v[n]
    <3>1. Len(t) = n - m + 1 /\ 1 \in 1..n - m + 1 /\ n - m + 1 \in 1..n - m + 1
      BY <2>1 DEF Rest
    <3>2. m + 1 - 1 = m /\ m + (n - m + 1) - 1 = n
      OBVIOUS
    <3> QED BY <2>1, <3>1, <3>2 DEF Rest
  <2> QED BY <2>1, <2>2 DEF Rest
<1>5. \A c : c \notin Text!JsSpace => Visible(c) \notin Text!JsSpace
  BY DEF Visible
<1>6. Len(u) # 0 => u[1] \notin Text!JsSpace /\ u[Len(u)] \notin Text!JsSpace
  BY <1>2, <1>3, <1>4, <1>5 DEF Collapses
<1>7. \A k \in 1..Len(u) : u[k] \in Text!JsSpace => u[k] = "space"
  BY <1>2 DEF Collapses, Visible
<1>8. Normal(u)
  BY <1>2, <1>6, <1>7 DEF Collapses, Normal
<1>9. \A k \in 1..Len(u) : u[k] \in Sounds => \E i \in 1..Len(v) : v[i] \in Sounds
  <2> SUFFICES ASSUME NEW k \in 1..Len(u), u[k] \in Sounds
               PROVE  \E i \in 1..Len(v) : v[i] \in Sounds
    OBVIOUS
  <2>1. PICK j \in 1..Len(t) : t[j] \in Sounds
    <3>1. PICK j \in 1..Len(t) : u[k] = Visible(t[j])
      BY <1>2 DEF Collapses
    <3> QED BY <3>1 DEF Visible, Sounds
  <2>2. PICK m \in Nat, n \in Nat : Rest(t, v, Text!JsSpace, m, n)
    BY <1>1, <2>1
  <2>3. m + j - 1 \in 1..Len(v) /\ t[j] = v[m + j - 1]
    BY <2>1, <2>2 DEF Rest
  <2> QED BY <2>1, <2>3
<1> QED BY <1>8, <1>9 DEF u

(* A normal text is not changed by normalising it again.                    *)
LEMMA NormalStays ==
    ASSUME NEW t, Normal(t)
    PROVE  Text!NormalizeText(t) = t
<1>1. t \in Seq(Text!Characters) /\ Len(t) \in Nat
  BY DEF Normal
<1>2. Text!Trim(t) = t
  <2>1. CASE Len(t) = 0
    <3>1. t = <<>>
      BY <1>1, <2>1, EmptySeq
    <3>2. \A i \in 1..Len(t) : t[i] \in Text!JsSpace
      BY <2>1
    <3>3. Text!Stripped(t, Text!JsSpace) = <<>>
      BY <1>1, <3>2, StrippedEmpty
    <3> QED BY <3>1, <3>3 DEF Text!Trim
  <2>2. CASE Len(t) # 0
    BY <1>1, <2>2, StripKeeps DEF Normal, Text!Trim
  <2> QED BY <2>1, <2>2
<1>3. Text!Collapsed(t) = t
  BY <1>1, CollapsedKeeps DEF Normal
<1> QED BY <1>2, <1>3 DEF Text!NormalizeText

(* What a CHECK asks of a normal text is its length and no control.         *)
LEMMA NormalIsStored ==
    ASSUME NEW t, Normal(t), Len(t) \in 1..MaximumLength
    PROVE  Text!StoredText(t) <=> \A k \in 1..Len(t) : t[k] \notin Sounds
<1>1. t \in Seq(Text!Characters) /\ Len(t) # 0 /\ DOMAIN t = 1..Len(t) /\ Len(t) \in Nat
  BY TextAssumption DEF Normal
<1>2. Text!Btrimmed(t)
  <2>1. t[1] \notin {"space"} /\ t[Len(t)] \notin {"space"}
    BY <1>1 DEF Normal, Text!JsSpace
  <2>2. Text!Stripped(t, {"space"}) = t
    BY <1>1, <2>1, StripKeeps
  <2> QED BY <2>2 DEF Text!Btrimmed
<1>3. \A k \in 1..Len(t) : t[k] # "lf"
  BY DEF Normal, Text!JsSpace
<1>4. Text!Without(t, Text!SqlControl) <=> \A k \in 1..Len(t) : t[k] \notin Sounds
  BY <1>1, <1>3 DEF Text!Without, Text!SqlControl, Text!Range, Sounds
<1>5. \A k \in 1..Len(t) - 1 : ~({t[k], t[k + 1]} \subseteq Text!SqlSpace)
  <2> SUFFICES ASSUME NEW k \in 1..Len(t) - 1, t[k] \in Text!SqlSpace, t[k + 1] \in Text!SqlSpace
               PROVE  FALSE
    OBVIOUS
  <2>1. k \in 1..Len(t) /\ k + 1 \in 1..Len(t)
    BY <1>1
  <2>2. t[k] = "space" /\ t[k + 1] = "space"
    BY <1>3, <2>1 DEF Text!SqlSpace
  <2> QED BY <2>2 DEF Normal
<1> QED BY <1>2, <1>4, <1>5 DEF Text!StoredText

(* Where the two lower cases agree: on every letter but a final sigma.      *)
Ends(v) == \E i \in DOMAIN v : Text!FinalSigma(v, i)

LEMMA LowerFacts ==
    ASSUME NEW v \in Seq(Text!Characters)
    PROVE  /\ DOMAIN Text!Lower(v) = 1..Len(v) /\ Len(Text!Lower(v)) = Len(v)
           /\ DOMAIN Text!SqlLower(v) = 1..Len(v) /\ Len(Text!SqlLower(v)) = Len(v)
           /\ \A i \in 1..Len(v), c \in {"@"} \cup Text!JsSpace :
                  /\ Text!Lower(v)[i] = c <=> v[i] = c
                  /\ Text!SqlLower(v)[i] = c <=> v[i] = c
           /\ Text!Lower(v) = Text!SqlLower(v) <=> ~Ends(v)
<1> DEFINE low == Text!Lower(v)
           sql == Text!SqlLower(v)
           Case(i) == IF Text!FinalSigma(v, i) THEN "finalSigma" ELSE Text!LowerCase(v[i])
<1>1. Len(v) \in Nat /\ DOMAIN v = 1..Len(v)
  OBVIOUS
<1>2. low = [i \in 1..Len(v) |-> Case(i)] /\ sql = [i \in 1..Len(v) |-> Text!LowerCase(v[i])]
  BY <1>1 DEF Text!Lower, Text!SqlLower
<1> HIDE DEF low, sql
<1>3. DOMAIN low = 1..Len(v) /\ DOMAIN sql = 1..Len(v)
  BY <1>2
<1>4. Len(low) = Len(v) /\ Len(sql) = Len(v)
  BY <1>1, <1>3
<1>5. \A i \in 1..Len(v) : low[i] = Case(i) /\ sql[i] = Text!LowerCase(v[i])
  BY <1>2
<1>6. ASSUME NEW i \in 1..Len(v), NEW c \in {"@"} \cup Text!JsSpace
      PROVE  /\ Case(i) = c <=> v[i] = c
             /\ Text!LowerCase(v[i]) = c <=> v[i] = c
  BY <1>6 DEF Text!FinalSigma, Text!LowerCase, Text!JsSpace
<1>7. ASSUME NEW i \in 1..Len(v), Text!FinalSigma(v, i)
      PROVE  Case(i) # Text!LowerCase(v[i])
  BY <1>7 DEF Text!FinalSigma, Text!LowerCase
<1>8. low = sql <=> ~Ends(v)
  <2>1. ASSUME ~Ends(v) PROVE low = sql
    <3>1. \A i \in 1..Len(v) : Case(i) = Text!LowerCase(v[i])
      BY <1>1, <2>1 DEF Ends
    <3> QED BY <1>2, <3>1
  <2>2. ASSUME Ends(v) PROVE low # sql
    <3>1. PICK i \in 1..Len(v) : Text!FinalSigma(v, i)
      BY <1>1, <2>2 DEF Ends
    <3> HIDE DEF Case
    <3> QED BY <1>5, <1>7, <3>1
  <2> QED BY <2>1, <2>2
<1>9. \A i \in 1..Len(v), c \in {"@"} \cup Text!JsSpace :
          (low[i] = c <=> v[i] = c) /\ (sql[i] = c <=> v[i] = c)
  <2> HIDE DEF Case
  <2> QED BY <1>5, <1>6
<1> QED BY <1>3, <1>4, <1>8, <1>9 DEF low, sql

(* Names: the length and the controls are all that is left to check, and    *)
(* the key is the one of the CHECK unless a word ends in a capital sigma.   *)
LEMMA NamesAreStored ==
    ASSUME TextInv
    PROVE  Text!NormalisedNameIsStorable
<1> DEFINE name == Text!NormalizeText(value)
<1>1. /\ Normal(name)
      /\ \A k \in 1..Len(name) : name[k] \in Sounds =>
             \E i \in 1..Len(value) : value[i] \in Sounds
  BY NormaliseMakesNormal DEF TextInv
<1>2. Text!NormalizeSearchText(value) = Text!Lower(name)
  BY DEF Text!NormalizeSearchText
<1> HIDE DEF name
<1>3. ASSUME Len(name) \in 1..MaximumLength, {"bel", "c1"} \cap Text!Range(value) = {}
      PROVE  Text!StoredText(name)
  <2>1. \A i \in 1..Len(value) : value[i] \notin Sounds
    <3>1. DOMAIN value = 1..Len(value)
      BY DEF TextInv
    <3> QED BY <1>3, <3>1 DEF Text!Range, Sounds
  <2> QED BY <1>1, <1>3, <2>1, NormalIsStored
<1>4. Text!Lower(name) = Text!SqlLower(name) <=> ~\E i \in DOMAIN name : Text!FinalSigma(name, i)
  BY <1>1, LowerFacts DEF Normal, Ends
<1> QED BY <1>2, <1>3, <1>4 DEF Text!NormalisedNameIsStorable, Text!StoredName, name

(* Texts of memberships: the validator asks for a normal text to begin with.*)
LEMMA MemberTextsAgree ==
    ASSUME TextInv
    PROVE  Text!MemberRulesAgree
<1>1. ASSUME NEW t, Normal(t), Text!NormalizeText(t) = t
      PROVE  Text!ValidMemberText(t) <=> Text!StoredText(t)
  <2>1. CASE Len(t) \in 1..MaximumLength
    <3>1. t \in Seq(Text!Characters) /\ DOMAIN t = 1..Len(t)
      BY <1>1 DEF Normal
    <3>2. \A k \in 1..Len(t) : t[k] # "lf"
      BY <1>1 DEF Normal, Text!JsSpace
    <3>3. Text!Without(t, Text!MemberControl) <=> \A k \in 1..Len(t) : t[k] \notin Sounds
      BY <3>1, <3>2 DEF Text!Without, Text!MemberControl, Text!Range, Sounds
    <3> QED BY <1>1, <2>1, <3>3, NormalIsStored DEF Text!ValidMemberText
  <2>2. CASE Len(t) \notin 1..MaximumLength
    BY <2>2 DEF Text!ValidMemberText, Text!StoredText
  <2> QED BY <2>1, <2>2
<1> DEFINE t == Text!NormalizeText(value)
<1>2. Normal(t)
  BY NormaliseMakesNormal DEF TextInv
<1>3. Text!NormalizeText(t) = t
  BY <1>2, NormalStays
<1> HIDE DEF t
<1>4. Text!ValidMemberText(t) <=> Text!StoredText(t)
  BY <1>1, <1>2, <1>3
<1>5. Text!ValidMemberText(value) => value = t
  BY DEF Text!ValidMemberText, t
<1> QED BY <1>4, <1>5 DEF Text!MemberRulesAgree, t

(* In a text without control the normal white space of a session's metadata *)
(* is the space.                                                            *)
LEMMA DecontrolledFacts ==
    ASSUME NEW v \in Seq(Text!Characters)
    PROVE  /\ Text!Decontrolled(v) \in Seq(Text!Characters)
           /\ Len(Text!Decontrolled(v)) = Len(v)
           /\ \A i \in 1..Len(v) :
                  /\ Text!Decontrolled(v)[i] \notin Text!SessionControl
                  /\ Text!Decontrolled(v)[i] \in Text!JsSpace
                        <=> v[i] \in Text!JsSpace \cup Text!SessionControl
<1> DEFINE d == Text!Decontrolled(v)
<1>1. Len(v) \in Nat /\ DOMAIN v = 1..Len(v)
  OBVIOUS
<1>2. d = [i \in 1..Len(v) |-> IF v[i] \in Text!SessionControl THEN "space" ELSE v[i]]
  BY <1>1 DEF Text!Decontrolled
<1>3. \A i \in 1..Len(v) :
          (IF v[i] \in Text!SessionControl THEN "space" ELSE v[i]) \in Text!Characters
  BY ElementOfSeq DEF Text!Characters
<1> HIDE DEF d
<1>4. d \in Seq(Text!Characters) /\ Len(d) = Len(v)
  BY <1>1, <1>2, <1>3
<1>5. \A i \in 1..Len(v) : d[i] = IF v[i] \in Text!SessionControl THEN "space" ELSE v[i]
  BY <1>2
<1>6. "space" \notin Text!SessionControl /\ "space" \in Text!JsSpace
  BY DEF Text!SessionControl, Text!JsSpace
<1> QED BY <1>4, <1>5, <1>6 DEF d

(* The text of a session, from its controls to its truncation: what the     *)
(* CHECK can refuse of it is a C1 control or a space at its end.            *)
LEMMA MetadataIsStored ==
    ASSUME TextInv
    PROVE  Text!MetadataRefusedInTwoCases
<1> DEFINE d == Text!Decontrolled(value)
           n == Text!Collapsed(d)
           t == Text!Trim(n)
           clean == Text!SanitizeText(value)
<1>0. value \in Seq(Text!Characters) /\ Len(value) \in Nat /\ DOMAIN value = 1..Len(value)
  BY DEF TextInv
<1>1. /\ d \in Seq(Text!Characters) /\ Len(d) = Len(value)
      /\ \A i \in 1..Len(value) :
             /\ d[i] \notin Text!SessionControl
             /\ d[i] \in Text!JsSpace <=> value[i] \in Text!JsSpace \cup Text!SessionControl
  BY <1>0, DecontrolledFacts
<1>2. clean = Text!Truncated(t)
  BY DEF Text!SanitizeText
<1> HIDE DEF d, clean
<1>3. Collapses(n, d, Len(d))
  BY <1>1, CollapsedFacts
<1> HIDE DEF n
<1>4. /\ t \in Seq(Text!Characters)
      /\ \/ t = <<>> /\ \A i \in 1..Len(n) : n[i] \in Text!JsSpace
         \/ \E a, b \in Nat : Rest(t, n, Text!JsSpace, a, b)
  BY <1>3, StrippedFacts DEF Text!Trim, Collapses
<1> HIDE DEF t
<1>5. \A k \in 1..Len(n) : n[k] \notin Text!SessionControl
  <2> SUFFICES ASSUME NEW k \in 1..Len(n)
               PROVE  n[k] \notin Text!SessionControl
    OBVIOUS
  <2>1. PICK i \in 1..Len(d) : n[k] = Visible(d[i])
    BY <1>3 DEF Collapses
  <2>2. d[i] \notin Text!SessionControl
    BY <1>1, <2>1
  <2> QED BY <2>1, <2>2 DEF Visible, Text!SessionControl
<1>6. (\A k \in 1..Len(n) : n[k] \in Text!JsSpace)
      <=> \A i \in 1..Len(value) : value[i] \in Text!JsSpace \cup Text!SessionControl
  <2>1. \A c : Visible(c) \in Text!JsSpace <=> c \in Text!JsSpace
    BY DEF Visible, Text!JsSpace
  <2>2. \A k \in 1..Len(n) : \E i \in 1..Len(value) : n[k] = Visible(d[i])
    BY <1>1, <1>3 DEF Collapses
  <2>3. \A i \in 1..Len(value) : \E k \in 1..Len(n) : n[k] = Visible(d[i])
    BY <1>1, <1>3 DEF Collapses
  <2> QED BY <1>1, <2>1, <2>2, <2>3
<1>7. t = <<>> <=> \A k \in 1..Len(n) : n[k] \in Text!JsSpace
  <2>1. ASSUME NEW a \in Nat, NEW b \in Nat, Rest(t, n, Text!JsSpace, a, b)
        PROVE  t # <<>> /\ \E k \in 1..Len(n) : n[k] \notin Text!JsSpace
    <3>1. Len(t) # 0
      BY <2>1 DEF Rest
    <3> QED BY <2>1, <3>1 DEF Rest
  <2> QED BY <1>4, <2>1
<1>8. clean = <<>> <=> t = <<>>
  <2>1. CASE t = <<>>
    <3>1. Len(t) = 0 /\ ~(Len(t) < MaximumLength) => MaximumLength = 0
      BY <2>1, TextAssumption DEF Text!MaximumIsPositive
    <3>2. clean = SubSeq(t, 1, 0)
      BY <1>2, <2>1, <3>1, TextAssumption DEF Text!Truncated, Text!MaximumIsPositive
    <3> QED BY <2>1, <3>2, SubSeqEmpty
  <2>2. CASE t # <<>>
    <3>1. Len(t) \in Nat \ {0}
      BY <1>4, <2>2, EmptySeq
    <3> DEFINE cut == IF Len(t) < MaximumLength THEN Len(t) ELSE MaximumLength
    <3>2. cut \in 1..Len(t) /\ clean = SubSeq(t, 1, cut)
      BY <1>2, <3>1, TextAssumption DEF Text!Truncated, Text!MaximumIsPositive
    <3> HIDE DEF cut
    <3>3. Len(SubSeq(t, 1, cut)) = cut
      BY <1>4, <3>1, <3>2, SliceFacts
    <3> QED BY <2>2, <3>2, <3>3
  <2> QED BY <2>1, <2>2
<1>9. clean = <<>> <=> Text!Range(value) \subseteq Text!JsSpace \cup Text!SessionControl
  <2>1. Text!Range(value) \subseteq Text!JsSpace \cup Text!SessionControl
        <=> \A i \in 1..Len(value) : value[i] \in Text!JsSpace \cup Text!SessionControl
    BY <1>0 DEF Text!Range
  <2> QED BY <1>6, <1>7, <1>8, <2>1
<1>10. ASSUME clean # <<>>
       PROVE  ~Text!StoredMetadata(clean)
                <=> \/ "c1" \in Text!Range(clean)
                    \/ Len(clean) = MaximumLength /\ Text!Last(clean) = "space"
  <2>1. PICK a \in Nat, b \in Nat : Rest(t, n, Text!JsSpace, a, b)
    BY <1>4, <1>8, <1>10
  <2>2. Len(t) \in Nat \ {0} /\ \A k \in 1..Len(t) : t[k] \notin Text!SessionControl
    <3>1. Len(t) \in Nat \ {0}
      BY <1>4, <2>1 DEF Rest
    <3>2. \A k \in 1..Len(t) : t[k] = n[a + k - 1] /\ a + k - 1 \in 1..Len(n)
      BY <2>1 DEF Rest
    <3> QED BY <1>5, <3>1, <3>2
  <2>3. t[1] \notin Text!JsSpace /\ t[Len(t)] \notin Text!JsSpace
    <3>1. Len(t) = b - a + 1 /\ 1 \in 1..b - a + 1 /\ b - a + 1 \in 1..b - a + 1
      BY <2>1 DEF Rest
    <3>2. a + 1 - 1 = a /\ a + (b - a + 1) - 1 = b
      OBVIOUS
    <3>3. t[1] = n[a] /\ t[Len(t)] = n[b]
      BY <2>1, <3>1, <3>2 DEF Rest
    <3> QED BY <2>1, <3>3 DEF Rest
  <2> DEFINE cut == IF Len(t) < MaximumLength THEN Len(t) ELSE MaximumLength
  <2>4. /\ cut \in 1..Len(t) /\ cut <= MaximumLength /\ (cut # MaximumLength => cut = Len(t))
        /\ clean = SubSeq(t, 1, cut)
    BY <1>2, <2>2, TextAssumption DEF Text!Truncated, Text!MaximumIsPositive
  <2> HIDE DEF cut
  <2>5. /\ clean \in Seq(Text!Characters) /\ Len(clean) = cut
        /\ \A k \in 1..cut : clean[k] = t[k]
    <3>1. 1 \in 1..Len(t) + 1 /\ cut \in 1 - 1..Len(t)
      BY <2>2, <2>4
    <3>2. /\ SubSeq(t, 1, cut) \in Seq(Text!Characters)
          /\ Len(SubSeq(t, 1, cut)) = cut - 1 + 1
          /\ \A k \in 1..cut - 1 + 1 : SubSeq(t, 1, cut)[k] = t[1 + k - 1]
      BY <1>4, <3>1, SliceFacts
    <3>3. cut - 1 + 1 = cut /\ \A k \in 1..cut : 1 + k - 1 = k
      BY <2>2, <2>4
    <3> HIDE DEF t
    <3> QED BY <2>4, <3>2, <3>3
  <2>6. Text!Without(clean, Text!SqlControl) <=> "c1" \notin Text!Range(clean)
    <3>1. DOMAIN clean = 1..cut /\ \A k \in 1..cut : k \in 1..Len(t)
      BY <2>2, <2>4, <2>5
    <3>2. \A k \in 1..cut : clean[k] \notin Text!SessionControl
      BY <2>2, <2>5, <3>1
    <3> QED BY <3>1, <3>2 DEF Text!Without, Text!Range, Text!SqlControl, Text!SessionControl
  <2>7. /\ "space" \in Text!JsSpace /\ cut \in Nat /\ 1 \in 1..cut /\ cut \in 1..cut
        /\ Text!Last(clean) = clean[cut]
    BY <2>2, <2>4, <2>5 DEF Text!JsSpace, Text!Last
  <2>8. Text!Btrimmed(clean) <=> clean[cut] # "space"
    <3>1. ASSUME clean[cut] # "space" PROVE Text!Btrimmed(clean)
      <4>1. clean[1] \notin {"space"} /\ clean[Len(clean)] \notin {"space"} /\ Len(clean) # 0
        BY <2>3, <2>5, <2>7, <3>1
      <4> QED BY <2>5, <4>1, StripKeeps DEF Text!Btrimmed
    <3>2. ASSUME Text!Btrimmed(clean), clean[cut] = "space" PROVE FALSE
      <4>1. clean = Text!Stripped(clean, {"space"}) /\ Len(clean) = cut
        BY <2>5, <3>2 DEF Text!Btrimmed
      <4>2. PICK x \in Nat, y \in Nat : Rest(clean, clean, {"space"}, x, y)
        BY <1>10, <2>5, <4>1, StrippedFacts
      <4>3. Len(clean) = y - x + 1 /\ x \in 1..Len(clean) /\ y \in 1..Len(clean)
            /\ clean[y] # "space"
        BY <4>2 DEF Rest
      <4>4. y = cut
        BY <2>7, <4>1, <4>3
      <4> QED BY <3>2, <4>3, <4>4
    <3> QED BY <3>1, <3>2
  <2>9. clean[cut] = "space" => cut = MaximumLength
    BY <2>3, <2>4, <2>5, <2>7
  <2>10. Text!StoredMetadata(clean)
            <=> clean[cut] # "space" /\ "c1" \notin Text!Range(clean)
    BY <1>10, <2>4, <2>5, <2>6, <2>8 DEF Text!StoredMetadata
  <2> QED BY <2>5, <2>7, <2>9, <2>10
<1>11. ASSUME clean = <<>>
       PROVE  /\ Text!StoredMetadata(clean)
              /\ "c1" \notin Text!Range(clean) /\ Len(clean) # MaximumLength
  BY <1>11, TextAssumption DEF Text!StoredMetadata, Text!Range, Text!MaximumIsPositive
<1> QED BY <1>9, <1>10, <1>11 DEF Text!MetadataRefusedInTwoCases, clean

(* White space put around a text without it goes again.                     *)
LEMMA PaddingIsTrimmed ==
    ASSUME NEW v \in Seq(Text!Characters), Len(v) # 0,
           v[1] \notin Text!JsSpace, v[Len(v)] \notin Text!JsSpace,
           NEW before \in Text!JsSpace, NEW after \in Text!JsSpace
    PROVE  Text!Trim(<<before>> \o v \o <<after>>) = v
<1> DEFINE s == <<before>> \o v
           w == s \o <<after>>
           C == Text!Characters
<1>0. Len(v) \in Nat \ {0} /\ before \in C /\ after \in C
  BY DEF Text!JsSpace, Text!Characters
<1>1. /\ <<before>> \in Seq(C) /\ Len(<<before>>) = 1 /\ <<before>>[1] = before
      /\ <<after>> \in Seq(C) /\ Len(<<after>>) = 1 /\ <<after>>[1] = after
  BY <1>0
<1>2. s \in Seq(C) /\ Joined(s, <<before>>, v)
  BY <1>1, ConcatJoins
<1> HIDE DEF s
<1>3. w \in Seq(C) /\ Joined(w, s, <<after>>)
  BY <1>1, <1>2, ConcatJoins
<1>4. /\ Len(s) = Len(v) + 1 /\ s[1] = before
      /\ \A i \in 1..Len(v) : s[i + 1] = v[i]
  <2>1. Len(s) = Len(v) + 1
    BY <1>0, <1>1, <1>2 DEF Joined
  <2>2. s[1] = before
    <3>1. 1 \in 1..Len(<<before>>) + Len(v) /\ 1 <= Len(<<before>>)
      BY <1>0, <1>1
    <3> QED BY <1>1, <1>2, <3>1 DEF Joined
  <2>3. ASSUME NEW i \in 1..Len(v)
        PROVE  s[i + 1] = v[i]
    <3>1. i + 1 \in 1..1 + Len(v) /\ ~(i + 1 <= 1) /\ (i + 1) - 1 = i
      BY <1>0
    <3> QED BY <1>1, <1>2, <3>1 DEF Joined
  <2> QED BY <2>1, <2>2, <2>3
<1> HIDE DEF w
<1>5. /\ Len(w) = Len(v) + 2 /\ w[1] = before /\ w[Len(v) + 2] = after
      /\ \A i \in 1..Len(v) : w[i + 1] = v[i]
  <2>1. Len(w) = Len(v) + 2
    BY <1>0, <1>1, <1>3, <1>4 DEF Joined
  <2>2. \A i \in 1..Len(v) + 1 : w[i] = s[i]
    <3> TAKE i \in 1..Len(v) + 1
    <3>1. i \in 1..Len(s) + Len(<<after>>) /\ i <= Len(s)
      BY <1>0, <1>1, <1>4
    <3> QED BY <1>3, <3>1 DEF Joined
  <2>3. w[Len(v) + 2] = after
    <3>1. /\ Len(v) + 2 \in 1..Len(s) + Len(<<after>>)
          /\ ~(Len(v) + 2 <= Len(s)) /\ (Len(v) + 2) - Len(s) = 1
      BY <1>0, <1>1, <1>4
    <3> QED BY <1>1, <1>3, <3>1 DEF Joined
  <2>4. 1 \in 1..Len(v) + 1 /\ \A i \in 1..Len(v) : i + 1 \in 1..Len(v) + 1
    BY <1>0
  <2> QED BY <1>4, <2>1, <2>2, <2>3, <2>4
<1>6. /\ 2 \in 1..Len(w) /\ Len(v) + 1 \in 2..Len(w)
      /\ w[2] \notin Text!JsSpace /\ w[Len(v) + 1] \notin Text!JsSpace
  <2>1. 1 \in 1..Len(v) /\ Len(v) \in 1..Len(v) /\ 1 + 1 = 2
    BY <1>0
  <2>2. w[2] = v[1] /\ w[Len(v) + 1] = v[Len(v)]
    BY <1>5, <2>1
  <2> QED BY <1>0, <1>5, <2>2
<1>7. \A i \in 1..Len(w) : w[i] \notin Text!JsSpace => 2 <= i /\ i <= Len(v) + 1
  <2> TAKE i \in 1..Len(w)
  <2>1. i = 1 \/ i = Len(v) + 2 \/ (2 <= i /\ i <= Len(v) + 1)
    BY <1>0, <1>5
  <2> QED BY <1>5, <2>1
<1>8. Text!Stripped(w, Text!JsSpace) = SubSeq(w, 2, Len(v) + 1)
  BY <1>3, <1>6, <1>7, StrippedIs
<1>9. SubSeq(w, 2, Len(v) + 1) = v
  <2> DEFINE u == SubSeq(w, 2, Len(v) + 1)
  <2>1. 2 \in 1..Len(w) + 1 /\ Len(v) + 1 \in 2 - 1..Len(w)
    BY <1>0, <1>5
  <2>2. /\ u \in Seq(C) /\ Len(u) = (Len(v) + 1) - 2 + 1
        /\ \A i \in 1..(Len(v) + 1) - 2 + 1 : u[i] = w[2 + i - 1]
    BY <1>3, <2>1, SliceFacts
  <2> HIDE DEF u
  <2>3. Len(u) = Len(v) /\ \A i \in 1..Len(v) : u[i] = v[i]
    <3>1. (Len(v) + 1) - 2 + 1 = Len(v) /\ \A i \in 1..Len(v) : 2 + i - 1 = i + 1
      BY <1>0
    <3> QED BY <1>5, <2>2, <3>1
  <2>4. u = v
    BY <2>2, <2>3, SeqEqual
  <2> QED BY <2>4 DEF u
<1> QED BY <1>8, <1>9 DEF s, w, Text!Trim

(* E-mails: a stored address has a visible first and last character (the    *)
(* "@" is between them, and btrim and the CHECK refuse the rest but the     *)
(* no-break space), so that trimming gives it back, and lower-casing it     *)
(* gives the stored key unless a word ends in a capital sigma.              *)
LEMMA StoredEmailsAreFound ==
    ASSUME TextInv
    PROVE  Text!LookupFindsStoredEmail
<1> SUFFICES ASSUME Text!StoredEmail(value), "nbsp" \notin Text!Range(value),
                    NEW before \in Text!JsSpace, NEW after \in Text!JsSpace
             PROVE  LET key == Text!NormalizeEmail(<<before>> \o value \o <<after>>) IN
                    /\ Text!LookupCandidate(key)
                    /\ key = Text!SqlLower(value)
                          <=> ~\E i \in DOMAIN value : Text!FinalSigma(value, i)
  BY DEF Text!LookupFindsStoredEmail
<1> DEFINE low == Text!Lower(value)
           sql == Text!SqlLower(value)
<1>0. value \in Seq(Text!Characters) /\ Len(value) \in Nat /\ DOMAIN value = 1..Len(value)
  BY DEF TextInv
<1>1. /\ DOMAIN low = 1..Len(value) /\ Len(low) = Len(value)
      /\ DOMAIN sql = 1..Len(value) /\ Len(sql) = Len(value)
      /\ \A i \in 1..Len(value), c \in {"@"} \cup Text!JsSpace :
             /\ low[i] = c <=> value[i] = c
             /\ sql[i] = c <=> value[i] = c
  BY <1>0, LowerFacts
<1>2. Text!OneAt(sql, Text!SqlSpace)
  BY DEF Text!StoredEmail
<1>3. low = sql <=> ~\E i \in DOMAIN value : Text!FinalSigma(value, i)
  BY <1>0, LowerFacts DEF Ends
<1> HIDE DEF low, sql
<1>4. PICK at \in 2..Len(value) - 1 :
          /\ sql[at] = "@"
          /\ \A j \in 1..Len(value) \ {at} : sql[j] \notin Text!SqlSpace \cup {"@"}
  BY <1>1, <1>2 DEF Text!OneAt
<1>5. \A j \in 1..Len(value) : value[j] # "nbsp"
  BY <1>0 DEF Text!Range
<1>6. ASSUME NEW j \in 1..Len(value) \ {at}
      PROVE  value[j] \notin Text!JsSpace \cup {"@"} /\ low[j] \notin Text!JsSpace \cup {"@"}
  <2>1. \A c \in {"space", "lf", "@"} : sql[j] # c
    BY <1>4, <1>6 DEF Text!SqlSpace
  <2>2. \A c \in {"space", "lf", "@"} : value[j] # c
    BY <1>1, <1>6, <2>1 DEF Text!JsSpace
  <2>3. value[j] \notin Text!JsSpace \cup {"@"}
    BY <1>5, <1>6, <2>2 DEF Text!JsSpace
  <2> QED BY <1>1, <1>6, <2>3
<1>7. at \in 1..Len(value) /\ low[at] = "@"
  BY <1>0, <1>1, <1>4
<1>8. 1 \in 1..Len(value) \ {at} /\ Len(value) \in 1..Len(value) \ {at} /\ Len(value) # 0
  <2>1. ASSUME NEW n \in Nat, NEW k \in 2..n - 1
        PROVE  1 \in 1..n \ {k} /\ n \in 1..n \ {k} /\ n # 0
    OBVIOUS
  <2>2. at \in 2..Len(value) - 1
    BY <1>4
  <2> QED BY <1>0, <2>1, <2>2
<1>9. Text!Trim(<<before>> \o value \o <<after>>) = value
  BY <1>0, <1>6, <1>8, PaddingIsTrimmed
<1>10. Text!NormalizeEmail(<<before>> \o value \o <<after>>) = low
  BY <1>9 DEF Text!NormalizeEmail, low
<1>11. Text!LookupCandidate(low)
  <2>1. \A j \in DOMAIN low \ {at} : low[j] \notin Text!JsSpace \cup {"@"}
    BY <1>1, <1>6
  <2>2. at \in 2..Len(low) - 1
    BY <1>1, <1>4
  <2> QED BY <1>7, <2>1, <2>2 DEF Text!LookupCandidate, Text!OneAt
<1> QED BY <1>3, <1>10, <1>11 DEF sql

-----------------------------------------------------------------------------
(* The properties of the run                                                *)

LEMMA CityInvariant == Spec => [](state \in City!Typed)
<1>1. Init => state \in City!Typed
  BY DEF Init, City!Init, City!Typed
<1>2. state \in City!Typed /\ [Next]_vars => (state \in City!Typed)'
  BY DEF Next, vars, registration, City!Next, City!SetState, City!SetCode
<1> QED BY <1>1, <1>2, PTL DEF Spec

LEMMA ValuesInvariant == Spec => [](CnpjInv /\ PointInv /\ TextInv)
<1>1. Init => CnpjInv /\ PointInv /\ TextInv
  BY CnpjInvInit, PointInvInit, TextInvInit
<1>2. CnpjInv /\ PointInv /\ TextInv /\ [Next]_vars => (CnpjInv /\ PointInv /\ TextInv)'
  BY CnpjInvStep, PointInvStep, TextInvStep
<1> QED BY <1>1, <1>2, PTL DEF Spec

(* Every code has one meaning, for every root, digit and damage: a root of  *)
(* a registration number goes with one pair of check digits, a municipality *)
(* belongs to one state, and the bytes of a position are read as the point  *)
(* that was written, in both byte orders and with or without a reference    *)
(* system, or refused when the end is missing.                              *)
THEOREM CodesStayUnambiguous == Spec => []CodesAreUnambiguous
<1>1. CnpjInv /\ PointInv => CodesAreUnambiguous
  BY NumbersAgree, PositionsAreUnambiguous, StateBelongs DEF CodesAreUnambiguous
<1> QED BY <1>1, ValuesInvariant, PTL

(* Whatever a client writes, of any length, the CHECKs of the tables store  *)
(* what packages/common accepts of it once it is normalised, and what they  *)
(* agree to refuse they both refuse: names, texts of memberships, metadata  *)
(* of sessions, e-mails at login, registration numbers in the three ways of *)
(* writing them, and municipalities.  They disagree exactly where a session *)
(* has a C1 control in its metadata, where the metadata was cut after a     *)
(* space, and on the keys of words that end in a capital sigma.             *)
THEOREM AcceptedStaysStorable == Spec => []AcceptedIsStorable
<1>1. CnpjInv /\ TextInv /\ state \in City!Typed => AcceptedIsStorable
  BY NamesAreStored, MemberTextsAgree, MetadataIsStored, StoredEmailsAreFound,
     NumbersAgree, MunicipalityAgrees DEF AcceptedIsStorable
<1> QED BY <1>1, ValuesInvariant, CityInvariant, PTL
=============================================================================
