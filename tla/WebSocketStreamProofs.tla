------------------------ MODULE WebSocketStreamProofs ------------------------
(***************************************************************************)
(* The parser of WebSocketStream.tla is right for frames of every form and *)
(* size, in every order, cut anywhere.  What its loops and the number of a *)
(* length compute is an induction over data; the library's principles take *)
(* an operator, so it is stated here about sets: Induction for what holds  *)
(* of every turn of a loop, Recursion for the function the loop is.        *)
(***************************************************************************)
EXTENDS WebSocketStream, FiniteSetTheorems, SequenceTheorems, TLAPS

-----------------------------------------------------------------------------
(* Induction and recursion up to a number.                                 *)

(* What holds of 0, and of k + 1 when it holds of k, holds up to N: the    *)
(* numbers it does not hold of would have no least one.                    *)
LEMMA Induction ==
  ASSUME NEW N \in Nat, NEW G, 0 \in G, \A k \in 0 .. N - 1 : k \in G => k + 1 \in G
  PROVE  \A k \in 0 .. N : k \in G
<1> DEFINE T == {k \in 0 .. N : k \notin G}
           below(x) == {y \in T : y < x}
           all == {below(x) : x \in T}
<1> SUFFICES ASSUME T # {} PROVE FALSE
  OBVIOUS
<1>1. IsFiniteSet(T)
  <2>1. T \in SUBSET (0 .. N) /\ IsFiniteSet(0 .. N)
    BY FS_Interval
  <2> QED
    BY <2>1, FS_Subset
<1>2. \A x \in T : below(x) \in FiniteSubsetsOf(T)
  BY <1>1, FS_Subset DEF FiniteSubsetsOf
<1>3. all \subseteq FiniteSubsetsOf(T) /\ all # {}
  BY <1>2
<1>4. PICK low \in all : \A other \in all : <<other, low>> \notin StrictSubsetOrdering(T)
  <2> HIDE DEF all
  <2> QED
    BY <1>3, FS_StrictSubsetOrderingWellFounded, WFMin
<1>5. PICK x \in T : low = below(x)
  OBVIOUS
<1>6. x \in 1 .. N /\ x - 1 \in T
  OBVIOUS
<1>7. below(x - 1) \subseteq below(x) /\ x - 1 \in below(x) /\ x - 1 \notin below(x - 1)
  BY <1>6
<1>8. <<below(x - 1), below(x)>> \in StrictSubsetOrdering(T)
  BY <1>7 DEF StrictSubsetOrdering
<1> QED
  BY <1>4, <1>5, <1>6, <1>8

(* What a loop of N turns has made of a after each of them, when its k-th  *)
(* turn makes g[k][v] of v.                                                *)
Loop(f, N, V, a, g) ==
  /\ f \in [0 .. N -> V]
  /\ f[0] = a
  /\ \A k \in 1 .. N : f[k] = g[k][f[k - 1]]

(* There is such a function.                                               *)
LEMMA Recursion ==
  ASSUME NEW N \in Nat, NEW V, NEW a \in V, NEW g \in [1 .. N -> [V -> V]]
  PROVE  \E f : Loop(f, N, V, a, g)
<1> DEFINE Upto(f, n) == f[0] = a /\ \A k \in 1 .. n : f[k] = g[k][f[k - 1]]
           G == {n \in 0 .. N : \E f \in [0 .. n -> V] : Upto(f, n)}
<1>1. 0 \in G
  <2> DEFINE f == [k \in 0 .. 0 |-> a]
  <2>1. f \in [0 .. 0 -> V] /\ Upto(f, 0)
    OBVIOUS
  <2> HIDE DEF Upto, f
  <2> QED
    BY <2>1
<1>2. ASSUME NEW n \in 0 .. N - 1, n \in G PROVE n + 1 \in G
  <2>1. PICK f \in [0 .. n -> V] : Upto(f, n)
    BY <1>2
  <2> DEFINE h == [k \in 0 .. n + 1 |-> IF k <= n THEN f[k] ELSE g[n + 1][f[n]]]
  <2>2. h \in [0 .. n + 1 -> V]
    OBVIOUS
  <2>3. ASSUME NEW k \in 1 .. n + 1 PROVE h[k] = g[k][h[k - 1]]
    <3>1. CASE k <= n
      BY <2>1, <3>1
    <3>2. CASE k = n + 1
      BY <2>1, <3>2
    <3> QED
      BY <3>1, <3>2
  <2>4. Upto(h, n + 1)
    BY <2>1, <2>3
  <2>5. n + 1 \in 0 .. N
    OBVIOUS
  <2> HIDE DEF Upto, h
  <2> QED
    BY <2>2, <2>4, <2>5
<1>3. N \in G
  <2> HIDE DEF G
  <2>1. \A k \in 0 .. N - 1 : k \in G => k + 1 \in G
    BY <1>2
  <2>2. \A k \in 0 .. N : k \in G
    BY <1>1, <2>1, Induction
  <2> QED
    BY <2>2
<1> QED
  BY <1>3 DEF Loop

-----------------------------------------------------------------------------
(* Numbers in base Base.                                                   *)

(* Power(n) is what its recursion says.                                    *)
LEMMA PowerFunction ==
  ASSUME NEW n \in Nat
  PROVE  \E p \in [0 .. n -> Nat] :
           /\ Power(n) = p[n]
           /\ p[0] = 1 /\ \A k \in 1 .. n : p[k] = Base * p[k - 1]
<1> DEFINE g == [k \in 1 .. n |-> [v \in Nat |-> Base * v]]
           Is(p) == p = [k \in 0 .. n |-> IF k = 0 THEN 1 ELSE Base * p[k - 1]]
           power == CHOOSE p : Is(p)
<1>1. g \in [1 .. n -> [Nat -> Nat]]
  BY StreamAssumption
<1>2. PICK f : Loop(f, n, Nat, 1, g)
  <2> HIDE DEF g
  <2>1. 1 \in Nat
    OBVIOUS
  <2> QED
    BY <1>1, <2>1, Recursion, Zenon
<1>3. Is(f)
  <2>1. ASSUME NEW k \in 1 .. n PROVE f[k] = Base * f[k - 1]
    <3>1. k - 1 \in 0 .. n
      OBVIOUS
    <3>2. f[k - 1] \in Nat /\ f[k] = g[k][f[k - 1]]
      BY <1>2, <3>1 DEF Loop
    <3> QED
      BY <3>2
  <2> QED
    BY <1>2, <2>1 DEF Loop
<1>4. Is(power)
  <2> HIDE DEF Is
  <2> QED
    BY <1>3
<1>5. Power(n) = power[n]
  BY DEF Power
<1>6. power[0] = 1 /\ \A k \in 1 .. n : power[k] = Base * power[k - 1]
  <2> HIDE DEF power
  <2> QED
    BY <1>4
<1>7. DOMAIN power = 0 .. n /\ power = [k \in 0 .. n |-> power[k]]
  <2> HIDE DEF power
  <2> QED
    BY <1>4
<1>8. \A k \in 0 .. n : power[k] \in Nat
  <2> DEFINE G == {k \in 0 .. n : power[k] \in Nat}
  <2>1. 0 \in G
    BY <1>6
  <2>2. \A k \in 0 .. n - 1 : k \in G => k + 1 \in G
    <3> HIDE DEF power
    <3> QED
      BY <1>6, StreamAssumption
  <2>3. \A k \in 0 .. n : k \in G
    <3> HIDE DEF G
    <3> QED
      BY <2>1, <2>2, Induction
  <2> QED
    BY <2>3
<1>9. power \in [0 .. n -> Nat]
  <2> HIDE DEF power
  <2> QED
    BY <1>7, <1>8
<1> HIDE DEF power
<1> QED
  BY <1>5, <1>6, <1>9

(* Each power is Base times the one before.                                *)
LEMMA PowerStep ==
  ASSUME NEW n \in Nat
  PROVE  /\ Power(0) = 1 /\ Power(n) \in Nat /\ Power(n) > 0
         /\ Power(n + 1) = Base * Power(n)
<1>1. PICK z \in [0 .. 0 -> Nat] : Power(0) = z[0] /\ z[0] = 1
  BY PowerFunction
<1>2. PICK p \in [0 .. n -> Nat] :
        /\ Power(n) = p[n]
        /\ p[0] = 1 /\ \A k \in 1 .. n : p[k] = Base * p[k - 1]
  BY PowerFunction
<1>3. n + 1 \in Nat
  OBVIOUS
<1>4. PICK q \in [0 .. n + 1 -> Nat] :
        /\ Power(n + 1) = q[n + 1]
        /\ q[0] = 1 /\ \A k \in 1 .. n + 1 : q[k] = Base * q[k - 1]
  BY <1>3, PowerFunction
<1> DEFINE G == {k \in 0 .. n : p[k] = q[k] /\ p[k] > 0}
<1>5. 0 \in G
  BY <1>2, <1>4
<1>6. \A k \in 0 .. n - 1 : k \in G => k + 1 \in G
  <2> SUFFICES ASSUME NEW k \in 0 .. n - 1, k \in G PROVE k + 1 \in G
    OBVIOUS
  <2>1. k + 1 \in 1 .. n /\ k + 1 \in 1 .. n + 1 /\ (k + 1) - 1 = k
    OBVIOUS
  <2>2. p[k + 1] = Base * p[k] /\ q[k + 1] = Base * q[k]
    BY <1>2, <1>4, <2>1
  <2>3. p[k] \in Nat /\ p[k] > 0
    OBVIOUS
  <2>4. Base * p[k] > 0
    BY <2>3, StreamAssumption
  <2> QED
    BY <2>1, <2>2, <2>4
<1>7. \A k \in 0 .. n : k \in G
  <2> HIDE DEF G
  <2> QED
    BY <1>5, <1>6, Induction
<1>8. p[n] = q[n] /\ p[n] > 0
  BY <1>7
<1>9. q[n + 1] = Base * q[n]
  BY <1>4
<1> QED
  BY <1>1, <1>2, <1>4, <1>8, <1>9

(* Number(digits), too.                                                    *)
LEMMA NumberFunction ==
  ASSUME NEW d \in Seq(Nat)
  PROVE  \E p : /\ Number(d) = p[Len(d)]
                /\ p[0] = 0 /\ \A k \in 1 .. Len(d) : p[k] = Base * p[k - 1] + d[k]
<1> DEFINE n == Len(d)
           g == [k \in 1 .. n |-> [v \in Nat |-> Base * v + d[k]]]
           Is(p) == p = [k \in 0 .. n |-> IF k = 0 THEN 0 ELSE Base * p[k - 1] + d[k]]
           number == CHOOSE p : Is(p)
<1>1. g \in [1 .. n -> [Nat -> Nat]] /\ n \in Nat
  BY StreamAssumption
<1>2. PICK f : Loop(f, n, Nat, 0, g)
  <2> HIDE DEF g, n
  <2>1. 0 \in Nat
    OBVIOUS
  <2> QED
    BY <1>1, <2>1, Recursion, Zenon
<1>3. Is(f)
  <2>1. ASSUME NEW k \in 1 .. n PROVE f[k] = Base * f[k - 1] + d[k]
    <3>1. k - 1 \in 0 .. n
      OBVIOUS
    <3>2. f[k - 1] \in Nat /\ f[k] = g[k][f[k - 1]]
      BY <1>2, <3>1 DEF Loop
    <3> QED
      BY <3>2
  <2> QED
    BY <1>2, <2>1 DEF Loop
<1>4. Is(number)
  <2> HIDE DEF Is
  <2> QED
    BY <1>3
<1>5. Number(d) = number[n]
  BY DEF Number
<1> HIDE DEF number
<1>6. number[0] = 0 /\ \A k \in 1 .. n : number[k] = Base * number[k - 1] + d[k]
  <2>1. n \in Nat
    BY <1>1
  <2> HIDE DEF n
  <2>2. \A k \in 0 .. n : number[k] = IF k = 0 THEN 0 ELSE Base * number[k - 1] + d[k]
    BY <1>4, Zenon
  <2> QED
    BY <2>1, <2>2
<1> QED
  BY <1>5, <1>6

(* A number in m digits less is the number in m + 1 without the last.       *)
LEMMA DropDigit ==
  ASSUME NEW n \in Nat, NEW m \in Nat
  PROVE  LET q == n \div Power(m) IN
         /\ q \in Nat
         /\ n \div Power(m + 1) = q \div Base
         /\ Base * (n \div Power(m + 1)) + (q % Base) = q
<1> DEFINE P == Power(m)
           q == n \div P
<1>1. P \in Nat /\ P > 0 /\ Power(m + 1) = Base * P
  BY PowerStep
<1>2. q \in Nat
  <2> HIDE DEF P
  <2> QED
    BY <1>1
<1>3. n \div (Base * P) = q \div Base
  <2> HIDE DEF P
  <2> QED
    BY <1>1, StreamAssumption
<1>4. Base * (q \div Base) + (q % Base) = q
  <2> HIDE DEF q
  <2> QED
    BY <1>2, StreamAssumption
<1> QED
  BY <1>1, <1>2, <1>3, <1>4, Zenon

(* The digits of a number that fits are read as that number.               *)
LEMMA NumberOfDigits ==
  ASSUME NEW n \in Nat, NEW D \in Nat, n < Power(D)
  PROVE  /\ BigEndian(n, D) \in Seq(Nat) /\ Len(BigEndian(n, D)) = D
         /\ Number(BigEndian(n, D)) = n
<1> DEFINE d == BigEndian(n, D)
<1>1. \A i \in 1 .. D : d[i] = (n \div Power(D - i)) % Base /\ d[i] \in Nat
  <2> SUFFICES ASSUME NEW i \in 1 .. D
               PROVE  d[i] = (n \div Power(D - i)) % Base /\ d[i] \in Nat
    OBVIOUS
  <2>1. D - i \in Nat
    OBVIOUS
  <2>2. n \div Power(D - i) \in Nat
    BY <2>1, DropDigit
  <2>3. (n \div Power(D - i)) % Base \in Nat
    BY <2>2, StreamAssumption
  <2> QED
    BY <2>3 DEF BigEndian
<1>2. d \in Seq(Nat) /\ Len(d) = D
  <2>1. d \in [1 .. D -> Nat]
    BY <1>1 DEF BigEndian
  <2> HIDE DEF d
  <2> QED
    BY <2>1
<1> HIDE DEF d
<1>3. PICK p : /\ Number(d) = p[D]
               /\ p[0] = 0 /\ \A k \in 1 .. D : p[k] = Base * p[k - 1] + d[k]
  BY <1>2, NumberFunction
<1> DEFINE G == {k \in 0 .. D : p[k] = n \div Power(D - k)}
<1>4. 0 \in G
  <2>1. D - 0 = D /\ Power(D) \in Nat
    BY PowerStep
  <2>2. n \div Power(D) = 0
    BY <2>1
  <2> QED
    BY <1>3, <2>1, <2>2
<1>5. \A k \in 0 .. D - 1 : k \in G => k + 1 \in G
  <2> SUFFICES ASSUME NEW k \in 0 .. D - 1, k \in G PROVE k + 1 \in G
    OBVIOUS
  <2> DEFINE m == D - (k + 1)
  <2>1. m \in Nat /\ m + 1 = D - k /\ k + 1 \in 1 .. D /\ (k + 1) - 1 = k
    OBVIOUS
  <2>2. p[k + 1] = Base * p[k] + d[k + 1] /\ p[k] = n \div Power(m + 1)
    BY <1>3, <2>1
  <2>3. d[k + 1] = (n \div Power(m)) % Base
    BY <1>1, <2>1
  <2>4. p[k + 1] = n \div Power(m)
    BY <2>1, <2>2, <2>3, DropDigit
  <2> QED
    BY <2>1, <2>4
<1>6. \A k \in 0 .. D : k \in G
  <2> HIDE DEF G
  <2> QED
    BY <1>4, <1>5, Induction
<1>7. p[D] = n \div Power(D - D) /\ D - D = 0
  BY <1>6
<1>8. p[D] = n
  BY <1>7, PowerStep
<1> QED
  BY <1>2, <1>3, <1>8 DEF d

-----------------------------------------------------------------------------
(* Sequences joined to one.                                                *)

(* What has been joined after each of the sequences, FlattenSeq at last.   *)
Joins(p, S, ss) ==
  /\ p \in [1 .. Len(ss) -> Seq(S)]
  /\ FlattenSeq(ss) = p[Len(ss)]
  /\ p[1] = ss[1] /\ \A k \in 2 .. Len(ss) : p[k] = p[k - 1] \o ss[k]

(* FlattenSeq of the community modules is what its recursion says.         *)
LEMMA FlattenFunction ==
  ASSUME NEW S, NEW ss \in Seq(Seq(S)), Len(ss) # 0
  PROVE  \E p : Joins(p, S, ss)
<1> DEFINE n == Len(ss)
           V == Seq(S)
           N == n - 1
           g == [k \in 1 .. N |-> [v \in V |-> v \o ss[k + 1]]]
           Is(p) == p = [i \in 1 .. n |-> IF i = 1 THEN ss[i] ELSE p[i - 1] \o ss[i]]
           flatten == CHOOSE p : Is(p)
<1>1. n \in Nat /\ N \in Nat /\ n = N + 1
  OBVIOUS
<1>2. \A i \in 1 .. n : ss[i] \in V
  OBVIOUS
<1>3. g \in [1 .. N -> [V -> V]]
  <2>1. \A k \in 1 .. N : \A v \in V : v \o ss[k + 1] \in V
    <3> SUFFICES ASSUME NEW k \in 1 .. N, NEW v \in V PROVE v \o ss[k + 1] \in V
      OBVIOUS
    <3>1. ss[k + 1] \in V
      BY <1>1, <1>2
    <3> QED
      BY <3>1, ConcatProperties
  <2> HIDE DEF V, N
  <2> QED
    BY <2>1
<1>4. PICK f : Loop(f, N, V, ss[1], g)
  <2>1. ss[1] \in V
    BY <1>1, <1>2
  <2> HIDE DEF g, N, V
  <2> QED
    BY <1>1, <1>3, <2>1, Recursion, Zenon
<1> DEFINE h == [i \in 1 .. n |-> f[i - 1]]
<1>5. /\ h[1] = ss[1]
      /\ \A k \in 2 .. n : h[k] = h[k - 1] \o ss[k]
      /\ \A k \in 1 .. n : h[k] \in V
  <2>1. ASSUME NEW k \in 1 .. n PROVE h[k] \in V
    <3>1. k - 1 \in 0 .. N
      BY <1>1
    <3> HIDE DEF V, N, n
    <3> QED
      BY <1>4, <3>1 DEF Loop
  <2>2. h[1] = ss[1]
    <3>1. 1 \in 1 .. n /\ 1 - 1 = 0
      BY <1>1
    <3> HIDE DEF V, N, n, g
    <3> QED
      BY <1>4, <3>1 DEF Loop
  <2>3. ASSUME NEW k \in 2 .. n PROVE h[k] = h[k - 1] \o ss[k]
    <3>1. k - 1 \in 1 .. N /\ k \in 1 .. n /\ k - 1 \in 1 .. n /\ (k - 1) + 1 = k
      BY <1>1
    <3>2. f[(k - 1) - 1] \in V
      BY <2>1, <3>1
    <3>3. f[k - 1] = g[k - 1][f[(k - 1) - 1]]
      <4> HIDE DEF V, N, n, g
      <4> QED
        BY <1>4, <3>1 DEF Loop
    <3>4. f[k - 1] = f[(k - 1) - 1] \o ss[k]
      <4> HIDE DEF V, N, n
      <4> QED
        BY <3>1, <3>2, <3>3
    <3> HIDE DEF V, N, n
    <3> QED
      BY <3>1, <3>4
  <2> QED
    BY <2>1, <2>2, <2>3
<1>6. Is(h)
  <2>1. ASSUME NEW i \in 1 .. n PROVE h[i] = IF i = 1 THEN ss[i] ELSE h[i - 1] \o ss[i]
    <3>1. i = 1 \/ i \in 2 .. n
      BY <1>1
    <3> HIDE DEF n, h
    <3> QED
      BY <1>5, <3>1, Zenon
  <2>2. h = [i \in 1 .. n |-> h[i]]
    <3> HIDE DEF n
    <3> QED
      OBVIOUS
  <2> HIDE DEF n, h
  <2> QED
    BY <2>1, <2>2
<1>7. Is(flatten)
  <2> HIDE DEF Is
  <2> QED
    BY <1>6
<1>8. FlattenSeq(ss) = flatten[n]
  BY DEF FlattenSeq
<1> HIDE DEF flatten
<1>9. /\ flatten[1] = ss[1]
      /\ \A k \in 2 .. n : flatten[k] = flatten[k - 1] \o ss[k]
      /\ flatten = [k \in 1 .. n |-> flatten[k]]
  <2> HIDE DEF n
  <2>1. \A i \in 1 .. n : flatten[i] = IF i = 1 THEN ss[i] ELSE flatten[i - 1] \o ss[i]
    BY <1>7, Zenon
  <2>2. flatten = [k \in 1 .. n |-> flatten[k]]
    BY <1>7
  <2>3. 1 \in 1 .. n /\ \A k \in 2 .. n : k \in 1 .. n /\ k # 1
    BY <1>1
  <2> QED
    BY <2>1, <2>2, <2>3, Zenon
<1>10. \A k \in 1 .. n : flatten[k] \in V
  <2> DEFINE G == {k \in 0 .. N : flatten[k + 1] \in V}
  <2>1. 0 \in G
    BY <1>1, <1>2, <1>9
  <2>2. \A k \in 0 .. N - 1 : k \in G => k + 1 \in G
    <3> SUFFICES ASSUME NEW k \in 0 .. N - 1, k \in G PROVE k + 1 \in G
      OBVIOUS
    <3>1. (k + 1) + 1 \in 2 .. n /\ ((k + 1) + 1) - 1 = k + 1 /\ (k + 1) + 1 \in 1 .. n
      BY <1>1
    <3>2. flatten[(k + 1) + 1] = flatten[k + 1] \o ss[(k + 1) + 1] /\ ss[(k + 1) + 1] \in V
      BY <1>2, <1>9, <3>1
    <3>3. flatten[(k + 1) + 1] \in V
      BY <3>2, ConcatProperties
    <3> QED
      BY <1>1, <3>3
  <2>3. \A k \in 0 .. N : k \in G
    <3> HIDE DEF G, N
    <3> QED
      BY <1>1, <2>1, <2>2, Induction
  <2>4. ASSUME NEW k \in 1 .. n PROVE flatten[k] \in V
    <3>1. k - 1 \in 0 .. N /\ (k - 1) + 1 = k
      BY <1>1
    <3>2. flatten[(k - 1) + 1] \in V
      BY <2>3, <3>1
    <3> QED
      BY <3>1, <3>2
  <2> QED
    BY <2>4
<1>11. flatten \in [1 .. n -> V]
  <2> HIDE DEF n, V
  <2> QED
    BY <1>9, <1>10
<1> QED
  BY <1>8, <1>9, <1>11 DEF Joins

(* A sequence more is joined behind.                                       *)
LEMMA FlattenAppend ==
  ASSUME NEW S, NEW ss \in Seq(Seq(S)), NEW s \in Seq(S)
  PROVE  /\ FlattenSeq(ss) \in Seq(S)
         /\ FlattenSeq(Append(ss, s)) = FlattenSeq(ss) \o s
<1> DEFINE tt == Append(ss, s)
           n == Len(ss)
<1>1. /\ tt \in Seq(Seq(S)) /\ Len(tt) = n + 1 /\ n \in Nat
      /\ tt[n + 1] = s /\ \A i \in 1 .. n : tt[i] = ss[i]
  OBVIOUS
<1>2. PICK q \in [1 .. n + 1 -> Seq(S)] :
        /\ FlattenSeq(tt) = q[n + 1]
        /\ q[1] = tt[1] /\ \A k \in 2 .. n + 1 : q[k] = q[k - 1] \o tt[k]
  <2>1. Len(tt) # 0
    BY <1>1
  <2> HIDE DEF tt, n
  <2>2. \E q : Joins(q, S, tt)
    BY <1>1, <2>1, FlattenFunction, Zenon
  <2> QED
    BY <1>1, <2>2, Zenon DEF Joins
<1>3. CASE n = 0
  <2>1. ss = <<>> /\ FlattenSeq(ss) = <<>>
    BY <1>3 DEF FlattenSeq
  <2>2. FlattenSeq(tt) = s
    BY <1>1, <1>2, <1>3
  <2> HIDE DEF tt
  <2>3. <<>> \in Seq(S) /\ <<>> \o s = s
    BY ConcatEmptySeq, EmptySeq
  <2> QED
    BY <2>1, <2>2, <2>3 DEF tt
<1>4. CASE n # 0
  <2>1. PICK p \in [1 .. n -> Seq(S)] :
          /\ FlattenSeq(ss) = p[n]
          /\ p[1] = ss[1] /\ \A k \in 2 .. n : p[k] = p[k - 1] \o ss[k]
    BY <1>4, FlattenFunction, Zenon DEF Joins
  <2> DEFINE G == {k \in 0 .. n - 1 : p[k + 1] = q[k + 1]}
  <2> HIDE DEF tt, n
  <2>2. 0 \in G
    BY <1>1, <1>2, <1>4, <2>1
  <2>3. \A k \in 0 .. (n - 1) - 1 : k \in G => k + 1 \in G
    <3> SUFFICES ASSUME NEW k \in 0 .. (n - 1) - 1, k \in G PROVE k + 1 \in G
      OBVIOUS
    <3> DEFINE j == (k + 1) + 1
    <3>1. j \in 2 .. n /\ j \in 2 .. n + 1 /\ j - 1 = k + 1 /\ j \in 1 .. n /\ k + 1 \in 0 .. n - 1
      BY <1>1
    <3>2. p[j] = p[j - 1] \o ss[j] /\ q[j] = q[j - 1] \o tt[j] /\ tt[j] = ss[j]
      BY <1>1, <1>2, <2>1, <3>1
    <3>3. p[k + 1] = q[k + 1]
      OBVIOUS
    <3>4. p[j] = q[j]
      <4> HIDE DEF j
      <4> QED
        BY <3>1, <3>2, <3>3
    <3> QED
      BY <3>1, <3>4
  <2>4. \A k \in 0 .. n - 1 : k \in G
    <3>1. n - 1 \in Nat
      BY <1>1, <1>4
    <3> HIDE DEF G
    <3> QED
      BY <2>2, <2>3, <3>1, Induction
  <2>5. p[n] = q[n]
    <3>1. n - 1 \in 0 .. n - 1 /\ (n - 1) + 1 = n
      BY <1>1, <1>4
    <3>2. p[(n - 1) + 1] = q[(n - 1) + 1]
      BY <2>4, <3>1
    <3> QED
      BY <3>1, <3>2
  <2>6. q[n + 1] = q[n] \o tt[n + 1] /\ p[n] \in Seq(S)
    <3>1. n + 1 \in 2 .. n + 1 /\ (n + 1) - 1 = n /\ n \in 1 .. n
      BY <1>1, <1>4
    <3> QED
      BY <1>2, <2>1, <3>1
  <2> QED
    BY <1>1, <1>2, <2>1, <2>5, <2>6 DEF tt
<1> QED
  BY <1>3, <1>4

-----------------------------------------------------------------------------
(* The bytes of a frame.                                                   *)

Digits(f) == IF f.form = "short" THEN 0 ELSE IF f.form = "two" THEN Two ELSE Eight
Code(f) ==
  IF f.form = "short" THEN Len(f.payload) ELSE IF f.form = "two" THEN Short + 1 ELSE Short + 2
Bit(f) == IF f.mask = <<>> THEN 0 ELSE MaskBit
Hidden(f, i) ==
  IF f.mask = <<>> THEN f.payload[i] ELSE Xor(f.payload[i], f.mask[((i - 1) % KeyLen) + 1])

(* What the assumptions say of a frame, and of a key.                      *)
LEMMA FrameParts ==
  ASSUME NEW f, IsFrame(f)
  PROVE  /\ f.op \in Nat /\ Len(f.payload) \in Nat /\ Digits(f) \in Nat
         /\ \A i \in 1 .. Len(f.payload) : f.payload[i] \in Byte
         /\ f.mask \in Seq(Byte) /\ Len(f.mask) = IF f.mask = <<>> THEN 0 ELSE KeyLen
         /\ Code(f) \in 0 .. MaskBit - 1
         /\ f.form = "short" => Code(f) <= Short
         /\ f.form # "short" => Len(f.payload) < Power(Digits(f))
<1>1. f.payload \in Seq(Byte) /\ f.mask \in Key \union {<<>>} /\ f.form \in Forms /\ f.op \in Nat
  BY DEF IsFrame
<1>2. Len(f.payload) \in Nat /\ \A i \in 1 .. Len(f.payload) : f.payload[i] \in Byte
  BY <1>1
<1>3. Short \in Nat /\ Two \in Nat /\ Eight \in Nat /\ KeyLen \in Nat \ {0}
  BY StreamAssumption
<1>4. f.mask \in Seq(Byte) /\ Len(f.mask) = IF f.mask = <<>> THEN 0 ELSE KeyLen
  <2>1. CASE f.mask = <<>>
    BY <2>1
  <2>2. CASE f.mask \in Key
    BY <1>3, <2>2 DEF Key
  <2> QED
    BY <1>1, <2>1, <2>2
<1>5. Digits(f) \in Nat
  BY <1>3 DEF Digits
<1>6. Len(f.payload) < Room(f.form)
  BY DEF IsFrame
<1>7. CASE f.form = "short"
  BY <1>2, <1>3, <1>4, <1>1, <1>5, <1>6, <1>7 DEF Code, Room, MaskBit
<1>8. CASE f.form = "two"
  BY <1>2, <1>3, <1>4, <1>1, <1>5, <1>6, <1>8 DEF Code, Room, MaskBit, Digits
<1>9. CASE f.form = "eight"
  BY <1>2, <1>3, <1>4, <1>1, <1>5, <1>6, <1>9 DEF Code, Room, MaskBit, Digits
<1> QED
  BY <1>1, <1>7, <1>8, <1>9 DEF Forms

(* Where the parts of a sequence joined from two are, and from four.       *)
Parts(st, s, t) ==
  /\ st \in Seq(Nat) /\ Len(st) = Len(s) + Len(t)
  /\ \A i \in 1 .. Len(s) : st[i] = s[i]
  /\ \A i \in 1 .. Len(t) : st[Len(s) + i] = t[i]

LEMMA TwoParts ==
  ASSUME NEW s \in Seq(Nat), NEW t \in Seq(Nat)
  PROVE  Parts(s \o t, s, t)
<1> DEFINE st == s \o t
<1>1. /\ st \in Seq(Nat) /\ Len(st) = Len(s) + Len(t)
      /\ \A i \in 1 .. Len(s) + Len(t) : st[i] = IF i <= Len(s) THEN s[i] ELSE t[i - Len(s)]
  BY ConcatProperties
<1>2. Len(s) \in Nat /\ Len(t) \in Nat
  OBVIOUS
<1> HIDE DEF st
<1>3. ASSUME NEW i \in 1 .. Len(t) PROVE st[Len(s) + i] = t[i]
  <2>1. Len(s) + i \in 1 .. Len(s) + Len(t) /\ ~(Len(s) + i <= Len(s)) /\ (Len(s) + i) - Len(s) = i
    BY <1>2
  <2> QED
    BY <1>1, <2>1
<1>4. ASSUME NEW i \in 1 .. Len(s) PROVE st[i] = s[i]
  <2>1. i \in 1 .. Len(s) + Len(t) /\ i <= Len(s)
    BY <1>2
  <2> QED
    BY <1>1, <2>1
<1> QED
  BY <1>1, <1>3, <1>4 DEF st, Parts

Parts4(e, op, s, t, u) ==
  /\ e \in Seq(Nat) /\ Len(e) = 1 + Len(s) + Len(t) + Len(u)
  /\ e[1] = op
  /\ \A i \in 1 .. Len(s) : e[1 + i] = s[i]
  /\ \A i \in 1 .. Len(t) : e[1 + Len(s) + i] = t[i]
  /\ \A i \in 1 .. Len(u) : e[1 + Len(s) + Len(t) + i] = u[i]

LEMMA FourParts ==
  ASSUME NEW op \in Nat, NEW s \in Seq(Nat), NEW t \in Seq(Nat), NEW u \in Seq(Nat)
  PROVE  Parts4(<<op>> \o s \o t \o u, op, s, t, u)
<1> DEFINE o == <<op>>
           x == o \o s
           y == x \o t
           e == y \o u
<1>0. /\ Len(s) \in Nat /\ Len(t) \in Nat /\ Len(u) \in Nat
      /\ o \in Seq(Nat) /\ Len(o) = 1 /\ o[1] = op
  OBVIOUS
<1> HIDE DEF o
<1>1. /\ x \in Seq(Nat) /\ Len(x) = 1 + Len(s)
      /\ x[1] = op /\ \A i \in 1 .. Len(s) : x[1 + i] = s[i]
  <2>1. Parts(x, o, s)
    BY <1>0, TwoParts, Zenon
  <2>2. 1 \in 1 .. 1
    OBVIOUS
  <2> HIDE DEF x
  <2> QED
    BY <1>0, <2>1, <2>2 DEF Parts
<1> HIDE DEF x
<1>2. /\ y \in Seq(Nat) /\ Len(y) = Len(x) + Len(t)
      /\ \A i \in 1 .. Len(x) : y[i] = x[i]
      /\ \A i \in 1 .. Len(t) : y[Len(x) + i] = t[i]
  <2>1. Parts(y, x, t)
    BY <1>1, TwoParts, Zenon
  <2> QED
    BY <2>1, Zenon DEF Parts
<1> HIDE DEF y
<1>3. /\ e \in Seq(Nat) /\ Len(e) = Len(y) + Len(u)
      /\ \A i \in 1 .. Len(y) : e[i] = y[i]
      /\ \A i \in 1 .. Len(u) : e[Len(y) + i] = u[i]
  <2>1. Parts(e, y, u)
    BY <1>2, TwoParts, Zenon
  <2> QED
    BY <2>1, Zenon DEF Parts
<1> HIDE DEF e
<1>4. e[1] = op
  <2>1. Len(x) = 1 + Len(s) /\ Len(y) = Len(x) + Len(t)
    BY <1>1, <1>2
  <2>2. 1 \in 1 .. Len(x) /\ 1 \in 1 .. Len(y)
    BY <1>0, <2>1
  <2> QED
    BY <1>1, <1>2, <1>3, <2>2
<1>5. ASSUME NEW i \in 1 .. Len(s) PROVE e[1 + i] = s[i]
  <2>1. 1 + i \in 1 .. Len(x) /\ 1 + i \in 1 .. Len(y)
    BY <1>0, <1>1, <1>2
  <2> QED
    BY <1>1, <1>2, <1>3, <2>1
<1>6. ASSUME NEW i \in 1 .. Len(t) PROVE e[1 + Len(s) + i] = t[i]
  <2>1. Len(x) + i \in 1 .. Len(y)
    BY <1>0, <1>1, <1>2
  <2> QED
    BY <1>1, <1>2, <1>3, <2>1
<1>7. Len(y) = 1 + Len(s) + Len(t)
  BY <1>0, <1>1, <1>2
<1>8. \A i \in 1 .. Len(u) : e[1 + Len(s) + Len(t) + i] = u[i]
  BY <1>3, <1>7
<1> QED
  BY <1>3, <1>4, <1>5, <1>6, <1>7, <1>8 DEF Parts4, e, y, x, o

(* Where the parts of a frame are.                                         *)
LEMMA FrameBytes ==
  ASSUME NEW f, IsFrame(f)
  PROVE  LET e == Encoded(f)
             n == Len(f.payload)
             D == Digits(f)
             M == Len(f.mask) IN
         /\ e \in Seq(Nat) /\ Len(e) = 2 + D + M + n
         /\ e[1] = f.op /\ e[2] = Bit(f) + Code(f)
         /\ \A i \in 1 .. D : e[2 + i] = BigEndian(n, D)[i]
         /\ \A i \in 1 .. M : e[2 + D + i] = f.mask[i]
         /\ \A i \in 1 .. n : e[2 + D + M + i] = Hidden(f, i)
<1> DEFINE n == Len(f.payload)
           D == Digits(f)
           M == Len(f.mask)
           s == LengthBytes(Bit(f), f.form, n)
           u == [i \in DOMAIN f.payload |-> Hidden(f, i)]
<1>1. /\ n \in Nat /\ D \in Nat /\ M \in Nat /\ Bit(f) \in Nat /\ Code(f) \in Nat /\ f.op \in Nat
      /\ f.mask \in Seq(Nat)
  <2>1. Byte \subseteq Nat /\ MaskBit \in Nat
    BY StreamAssumption DEF Byte, MaskBit
  <2>2. f.mask \in Seq(Nat)
    BY <2>1, FrameParts, SeqMonotonic
  <2> QED
    BY <2>1, <2>2, FrameParts DEF Bit
<1>2. s \in Seq(Nat) /\ Len(s) = 1 + D /\ s[1] = Bit(f) + Code(f)
      /\ \A i \in 1 .. D : s[1 + i] = BigEndian(n, D)[i]
  <2>1. CASE f.form = "short"
    BY <1>1, <2>1 DEF LengthBytes, Code, Digits
  <2>2. CASE f.form # "short"
    <3> DEFINE d == BigEndian(n, D)
    <3>1. d \in Seq(Nat) /\ Len(d) = D
      BY <1>1, <2>2, FrameParts, NumberOfDigits
    <3>2. s = <<Bit(f) + Code(f)>> \o d
      <4>1. f.form = "two" \/ f.form = "eight"
        BY <2>2 DEF IsFrame, Forms
      <4>2. Bit(f) + (Short + 1) = Bit(f) + Short + 1 /\ Bit(f) + (Short + 2) = Bit(f) + Short + 2
        BY <1>1, StreamAssumption
      <4> HIDE DEF n
      <4> QED
        BY <4>1, <4>2 DEF LengthBytes, Code, Digits
    <3> DEFINE c == Bit(f) + Code(f)
               o == <<c>>
    <3> HIDE DEF d, s
    <3>3. o \in Seq(Nat) /\ Len(o) = 1 /\ o[1] = c
      BY <1>1
    <3> HIDE DEF o, c
    <3>4. Parts(s, o, d)
      BY <3>1, <3>2, <3>3, TwoParts DEF o, c
    <3>5. /\ s \in Seq(Nat) /\ Len(s) = 1 + D
          /\ \A i \in 1 .. 1 : s[i] = o[i]
          /\ \A i \in 1 .. D : s[1 + i] = d[i]
      BY <3>1, <3>3, <3>4, Zenon DEF Parts
    <3>6. s[1] = c
      BY <3>3, <3>5
    <3> QED
      BY <3>5, <3>6, Zenon DEF d, c
  <2> QED
    BY <2>1, <2>2
<1>3. u \in Seq(Nat) /\ Len(u) = n /\ \A i \in 1 .. n : u[i] = Hidden(f, i)
  <2>1. DOMAIN f.payload = 1 .. n
    BY DEF IsFrame
  <2>2. ASSUME NEW i \in 1 .. n PROVE Hidden(f, i) \in Nat
    <3>1. f.payload[i] \in Byte
      BY FrameParts
    <3>2. f.mask # <<>> => f.mask[((i - 1) % KeyLen) + 1] \in Byte
      <4> SUFFICES ASSUME f.mask # <<>> PROVE f.mask[((i - 1) % KeyLen) + 1] \in Byte
        OBVIOUS
      <4>1. M = KeyLen /\ f.mask \in Seq(Byte) /\ KeyLen \in Nat \ {0}
        BY FrameParts, StreamAssumption
      <4>2. ((i - 1) % KeyLen) + 1 \in 1 .. KeyLen
        BY <4>1
      <4> QED
        BY <4>1, <4>2
    <3>3. Byte \subseteq Nat
      BY StreamAssumption DEF Byte
    <3> QED
      BY <3>1, <3>2, <3>3, StreamAssumption DEF Hidden
  <2> HIDE DEF n
  <2> QED
    BY <1>1, <2>1, <2>2
<1>4. Encoded(f) = <<f.op>> \o s \o f.mask \o u
  BY DEF Encoded, Bit, Hidden
<1> DEFINE e == <<f.op>> \o s \o f.mask \o u
<1>5. /\ e \in Seq(Nat) /\ Len(e) = 1 + Len(s) + M + Len(u)
      /\ e[1] = f.op
      /\ \A i \in 1 .. Len(s) : e[1 + i] = s[i]
      /\ \A i \in 1 .. M : e[1 + Len(s) + i] = f.mask[i]
      /\ \A i \in 1 .. Len(u) : e[1 + Len(s) + M + i] = u[i]
  <2>1. Parts4(e, f.op, s, f.mask, u)
    <3> HIDE DEF s, u, n
    <3> QED
      BY <1>1, <1>2, <1>3, FourParts, Zenon
  <2> HIDE DEF e, s, u
  <2> QED
    BY <2>1, Zenon DEF Parts4
<1> HIDE DEF e, s, u, n, D, M
<1>6. e[2] = Bit(f) + Code(f) /\ \A i \in 1 .. D : e[2 + i] = BigEndian(n, D)[i]
  <2>1. D \in Nat /\ Len(s) = 1 + D
    BY <1>1, <1>2
  <2>2. 1 \in 1 .. Len(s) /\ \A i \in 1 .. D : 1 + i \in 1 .. Len(s) /\ 1 + (1 + i) = 2 + i
    BY <2>1
  <2> QED
    BY <1>2, <1>5, <2>2
<1>7. \A i \in 1 .. M : e[2 + D + i] = f.mask[i]
  <2>1. \A i \in 1 .. M : e[1 + Len(s) + i] = f.mask[i]
    BY <1>5
  <2>2. 1 + Len(s) = 2 + D
    BY <1>1, <1>2
  <2> QED
    BY <2>1, <2>2
<1>8. \A i \in 1 .. n : e[2 + D + M + i] = Hidden(f, i)
  <2>1. \A i \in 1 .. n : e[1 + Len(s) + M + i] = Hidden(f, i)
    BY <1>3, <1>5
  <2>2. 1 + Len(s) + M = 2 + D + M
    BY <1>1, <1>2
  <2> QED
    BY <2>1, <2>2
<1>9. Len(e) = 2 + D + M + n
  BY <1>1, <1>2, <1>3, <1>5
<1> QED
  BY <1>4, <1>5, <1>6, <1>7, <1>8, <1>9 DEF e, n, D, M

-----------------------------------------------------------------------------
(* The parser on one frame.                                                *)

LEMMA SmallModulus ==
  ASSUME NEW c \in Nat, NEW m \in Nat, c < m
  PROVE  c % m = c /\ (m + c) % m = c
OBVIOUS

(* The second byte tells the length of the header.                         *)
LEMMA HeaderIsRead ==
  ASSUME NEW f, IsFrame(f), NEW buf \in Seq(Nat), buf[2] = Bit(f) + Code(f)
  PROVE  /\ LengthCode(buf) = Code(f)
         /\ Masked(buf) <=> f.mask # <<>>
         /\ LengthDigits(buf) = Digits(f)
         /\ HeaderLen(buf) = 2 + Digits(f) + Len(f.mask)
<1>1. /\ MaskBit \in Nat /\ Code(f) \in Nat /\ Code(f) < MaskBit /\ MaskBit = Short + 3
      /\ Short \in Nat
      /\ Len(f.mask) = IF f.mask = <<>> THEN 0 ELSE KeyLen
  BY FrameParts, StreamAssumption DEF MaskBit
<1>2. LengthCode(buf) = Code(f) /\ (Masked(buf) <=> f.mask # <<>>)
  <2>1. CASE f.mask = <<>>
    <3>1. buf[2] = Code(f)
      BY <1>1, <2>1 DEF Bit
    <3> QED
      BY <1>1, <2>1, <3>1, SmallModulus DEF LengthCode, Masked
  <2>2. CASE f.mask # <<>>
    <3>1. buf[2] = MaskBit + Code(f)
      BY <1>1, <2>2 DEF Bit
    <3>2. MaskBit + Code(f) >= MaskBit
      BY <1>1
    <3> QED
      BY <1>1, <2>2, <3>1, <3>2, SmallModulus DEF LengthCode, Masked
  <2> QED
    BY <2>1, <2>2
<1>3. LengthDigits(buf) = Digits(f)
  <2>1. CASE f.form = "short"
    <3>1. Code(f) <= Short
      BY <2>1, FrameParts
    <3> QED
      BY <1>1, <1>2, <2>1, <3>1 DEF LengthDigits, Digits
  <2>2. CASE f.form = "two"
    BY <1>1, <1>2, <2>2 DEF LengthDigits, Digits, Code
  <2>3. CASE f.form = "eight"
    BY <1>1, <1>2, <2>3 DEF LengthDigits, Digits, Code
  <2> QED
    BY <2>1, <2>2, <2>3 DEF IsFrame, Forms
<1> QED
  BY <1>1, <1>2, <1>3 DEF HeaderLen

(* The header tells the length of the payload.                             *)
LEMMA LengthIsRead ==
  ASSUME NEW f, IsFrame(f), NEW buf \in Seq(Nat), Len(buf) >= 2 + Digits(f),
         \A i \in 1 .. 2 + Digits(f) : buf[i] = Encoded(f)[i]
  PROVE  PayloadLen(buf) = Len(f.payload)
<1> DEFINE n == Len(f.payload)
           D == Digits(f)
           e == Encoded(f)
<1>1. n \in Nat /\ D \in Nat
  BY FrameParts
<1>2. e[2] = Bit(f) + Code(f) /\ \A i \in 1 .. D : e[2 + i] = BigEndian(n, D)[i]
  BY FrameBytes
<1>3. buf[2] = Bit(f) + Code(f)
  <2>1. 2 \in 1 .. 2 + D
    BY <1>1
  <2> HIDE DEF D
  <2> QED
    BY <1>2, <2>1 DEF D
<1>4. LengthCode(buf) = Code(f) /\ LengthDigits(buf) = D
  BY <1>3, HeaderIsRead
<1>5. CASE f.form = "short"
  BY <1>4, <1>5 DEF PayloadLen, Digits, Code
<1>6. CASE f.form # "short"
  <2>1. D # 0
    BY <1>6, StreamAssumption DEF Digits
  <2>2. n < Power(D)
    BY <1>6, FrameParts
  <2> DEFINE d == BigEndian(n, D)
  <2>3. d \in Seq(Nat) /\ Len(d) = D /\ Number(d) = n
    BY <1>1, <2>2, NumberOfDigits
  <2>4. SubSeq(buf, 3, 2 + D) = d
    <3> DEFINE t == SubSeq(buf, 3, 2 + D)
    <3>1. \A i \in 1 .. D : buf[2 + i] = d[i]
      <4> SUFFICES ASSUME NEW i \in 1 .. D PROVE buf[2 + i] = d[i]
        OBVIOUS
      <4>1. 2 + i \in 1 .. 2 + D
        BY <1>1
      <4> QED
        BY <1>2, <4>1
    <3>2. t \in Seq(Nat) /\ Len(t) = D /\ \A i \in 1 .. D : t[i] = buf[2 + i]
      <4>1. Len(buf) \in Nat /\ Len(buf) >= 2 + D
        OBVIOUS
      <4> HIDE DEF D
      <4>2. t \in Seq(Nat) /\ Len(t) = D
        BY <1>1, <4>1
      <4>3. ASSUME NEW i \in 1 .. D PROVE t[i] = buf[2 + i]
        BY <1>1, <4>1
      <4> QED
        BY <4>2, <4>3
    <3> HIDE DEF t, d
    <3>3. t = d
      <4> HIDE DEF D
      <4> QED
        BY <1>1, <2>3, <3>1, <3>2, SeqEqual
    <3> QED
      BY <3>3 DEF t
  <2> HIDE DEF d, D, n
  <2> QED
    BY <1>4, <2>1, <2>3, <2>4 DEF PayloadLen, D, n
<1> QED
  BY <1>5, <1>6

(* A buffer that starts with a whole frame gives its opcode and its        *)
(* payload, and what is behind it.                                         *)
LEMMA WholeFrame ==
  ASSUME NEW f, IsFrame(f), NEW buf \in Seq(Nat), Len(buf) >= Len(Encoded(f)),
         \A i \in 1 .. Len(Encoded(f)) : buf[i] = Encoded(f)[i]
  PROVE  /\ Complete(buf)
         /\ buf[1] = f.op /\ Payload(buf) = f.payload
         /\ Rest(buf) = SubSeq(buf, Len(Encoded(f)) + 1, Len(buf))
<1> DEFINE n == Len(f.payload)
           D == Digits(f)
           M == Len(f.mask)
           e == Encoded(f)
<1>1. /\ n \in Nat /\ D \in Nat /\ M \in Nat /\ Len(buf) \in Nat
      /\ M = IF f.mask = <<>> THEN 0 ELSE KeyLen
      /\ KeyLen \in Nat \ {0}
      /\ \A i \in 1 .. n : f.payload[i] \in Byte
      /\ f.mask \in Seq(Byte)
      /\ f.payload = [i \in 1 .. n |-> f.payload[i]]
  <2>1. f.payload = [i \in 1 .. n |-> f.payload[i]]
    BY DEF IsFrame
  <2> QED
    BY <2>1, FrameParts, StreamAssumption
<1>2. /\ Len(e) = 2 + D + M + n
      /\ e[1] = f.op /\ e[2] = Bit(f) + Code(f)
      /\ \A i \in 1 .. M : e[2 + D + i] = f.mask[i]
      /\ \A i \in 1 .. n : e[2 + D + M + i] = Hidden(f, i)
  BY FrameBytes
<1>3. \A i \in 1 .. Len(e) : buf[i] = e[i]
  OBVIOUS
<1> HIDE DEF n, D, M, e
<1>4. buf[1] = f.op /\ buf[2] = Bit(f) + Code(f)
  <2>1. 1 \in 1 .. Len(e) /\ 2 \in 1 .. Len(e)
    BY <1>1, <1>2
  <2> QED
    BY <1>2, <1>3, <2>1
<1>5. (Masked(buf) <=> f.mask # <<>>) /\ HeaderLen(buf) = 2 + D + M
  BY <1>4, HeaderIsRead DEF D, M
<1>6. PayloadLen(buf) = n
  <2>1. 2 + D <= Len(e)
    BY <1>1, <1>2
  <2>2. Len(buf) >= Len(e)
    BY DEF e
  <2>3. Len(buf) >= 2 + D
    BY <1>1, <1>2, <2>1, <2>2
  <2>4. ASSUME NEW i \in 1 .. 2 + D PROVE buf[i] = e[i]
    <3>1. i \in 1 .. Len(e)
      BY <1>1, <1>2
    <3> QED
      BY <1>3, <3>1
  <2> QED
    BY <2>3, <2>4, LengthIsRead DEF n, D, e
<1>7. HeaderLen(buf) + PayloadLen(buf) = Len(e) /\ Len(buf) >= Len(e)
  <2>1. Len(buf) >= Len(e)
    BY DEF e
  <2>2. HeaderLen(buf) + PayloadLen(buf) = 2 + D + M + n
    BY <1>5, <1>6
  <2> QED
    BY <1>2, <2>1, <2>2
<1>8. Complete(buf)
  <2>1. Len(buf) >= 2 /\ Len(buf) >= 2 + D + M
    BY <1>1, <1>2, <1>7
  <2>2. Len(buf) >= HeaderLen(buf) + PayloadLen(buf)
    BY <1>7
  <2> QED
    BY <1>5, <2>1, <2>2 DEF Complete
<1>9. Rest(buf) = SubSeq(buf, Len(e) + 1, Len(buf))
  BY <1>7 DEF Rest
<1> DEFINE start == HeaderLen(buf)
           raw(i) == IF Masked(buf)
                     THEN Xor(buf[start + i], buf[start - KeyLen + 1 + ((i - 1) % KeyLen)])
                     ELSE buf[start + i]
<1>10. ASSUME NEW i \in 1 .. n PROVE f.payload[i] = raw(i)
  <2>1. 2 + D + M + i \in 1 .. Len(e)
    BY <1>1, <1>2
  <2>2. buf[2 + D + M + i] = Hidden(f, i)
    BY <1>2, <1>3, <2>1
  <2>3. CASE f.mask = <<>>
    BY <1>5, <2>2, <2>3 DEF Hidden
  <2>4. CASE f.mask # <<>>
    <3> DEFINE j == ((i - 1) % KeyLen) + 1
    <3>1. j \in 1 .. KeyLen /\ M = KeyLen
      BY <1>1, <2>4
    <3>2. start - KeyLen + 1 + ((i - 1) % KeyLen) = 2 + D + j /\ start + i = 2 + D + M + i
      BY <1>1, <1>5, <3>1
    <3>3. 2 + D + j \in 1 .. Len(e) /\ j \in 1 .. M
      <4> HIDE DEF j
      <4> QED
        BY <1>1, <1>2, <3>1
    <3>4. buf[2 + D + j] = f.mask[j]
      <4> HIDE DEF j
      <4> QED
        BY <1>2, <1>3, <3>3
    <3>5. f.mask[j] \in Byte /\ f.payload[i] \in Byte
      <4> HIDE DEF j
      <4> QED
        BY <1>1, <3>3 DEF M
    <3>6. buf[2 + D + M + i] = Xor(f.payload[i], f.mask[j])
      BY <2>2, <2>4 DEF Hidden
    <3>7. Xor(Xor(f.payload[i], f.mask[j]), f.mask[j]) = f.payload[i]
      BY <3>5, StreamAssumption
    <3>8. raw(i) = Xor(buf[2 + D + M + i], buf[2 + D + j])
      <4> HIDE DEF j, start
      <4> QED
        BY <1>5, <2>4, <3>2
    <3> HIDE DEF j, raw
    <3> QED
      BY <3>4, <3>6, <3>7, <3>8
  <2> QED
    BY <2>3, <2>4
<1>11. Payload(buf) = f.payload
  <2>1. Payload(buf) = [i \in 1 .. n |-> raw(i)]
    BY <1>6 DEF Payload
  <2> HIDE DEF raw
  <2> QED
    BY <1>1, <1>10, <2>1
<1> QED
  BY <1>4, <1>8, <1>9, <1>11 DEF e

(* A buffer that ends within its first frame is not complete.              *)
LEMMA PartOfFrame ==
  ASSUME NEW f, IsFrame(f), NEW buf \in Seq(Nat), Len(buf) < Len(Encoded(f)),
         \A i \in 1 .. Len(buf) : buf[i] = Encoded(f)[i]
  PROVE  ~Complete(buf)
<1> DEFINE n == Len(f.payload)
           D == Digits(f)
           M == Len(f.mask)
           e == Encoded(f)
<1>1. n \in Nat /\ D \in Nat /\ M \in Nat /\ Len(buf) \in Nat
  BY FrameParts
<1>2. Len(e) = 2 + D + M + n /\ e[2] = Bit(f) + Code(f)
  BY FrameBytes
<1>3. Len(buf) < Len(e) /\ \A i \in 1 .. Len(buf) : buf[i] = e[i]
  OBVIOUS
<1> HIDE DEF n, D, M, e
<1> SUFFICES ASSUME Complete(buf) PROVE FALSE
  OBVIOUS
<1>4. Len(buf) >= 2 /\ Len(buf) >= HeaderLen(buf) /\ Len(buf) >= HeaderLen(buf) + PayloadLen(buf)
  BY DEF Complete
<1>5. buf[2] = Bit(f) + Code(f)
  <2>1. 2 \in 1 .. Len(buf)
    BY <1>1, <1>4
  <2> QED
    BY <1>2, <1>3, <2>1
<1>6. HeaderLen(buf) = 2 + D + M
  BY <1>5, HeaderIsRead DEF D, M
<1>7. PayloadLen(buf) = n
  <2>1. Len(buf) >= 2 + D /\ \A i \in 1 .. 2 + D : buf[i] = e[i]
    BY <1>1, <1>3, <1>4, <1>6
  <2> QED
    BY <2>1, LengthIsRead DEF n, D, e
<1> QED
  BY <1>1, <1>2, <1>3, <1>4, <1>6, <1>7

-----------------------------------------------------------------------------
(* The frames of a connection, one behind the other.                       *)

(* What P makes of each frame, joined.                                     *)
Mapped(P, fs) == FlattenSeq([i \in DOMAIN fs |-> P[fs[i]]])

LEMMA MappedAppend ==
  ASSUME NEW S, NEW P \in [Frames -> Seq(S)], NEW fs \in Seq(Frames), NEW f \in Frames
  PROVE  /\ Mapped(P, fs) \in Seq(S)
         /\ Mapped(P, Append(fs, f)) = Mapped(P, fs) \o P[f]
<1> DEFINE ss == [i \in DOMAIN fs |-> P[fs[i]]]
           tt == [i \in DOMAIN Append(fs, f) |-> P[Append(fs, f)[i]]]
           n == Len(fs)
           V == Seq(S)
<1>1. /\ n \in Nat /\ DOMAIN fs = 1 .. n /\ DOMAIN Append(fs, f) = 1 .. n + 1
      /\ \A i \in 1 .. n : fs[i] \in Frames /\ Append(fs, f)[i] = fs[i]
      /\ Append(fs, f)[n + 1] = f
  OBVIOUS
<1>2. ss \in [1 .. n -> V] /\ P[f] \in V
  <2> HIDE DEF n, V
  <2> QED
    BY <1>1 DEF V
<1>3. ss \in Seq(V) /\ Len(ss) = n
  <2> HIDE DEF ss, n, V
  <2> QED
    BY <1>1, <1>2
<1>4. tt = Append(ss, P[f])
  <2>1. \A i \in 1 .. n + 1 : tt[i] = IF i = n + 1 THEN P[f] ELSE ss[i]
    <3> HIDE DEF n
    <3> QED
      BY <1>1
  <2>2. tt = [i \in 1 .. n + 1 |-> tt[i]]
    <3> HIDE DEF n
    <3> QED
      BY <1>1
  <2>3. Append(ss, P[f]) \in Seq(V) /\ Len(Append(ss, P[f])) = n + 1
        /\ \A i \in 1 .. n + 1 : Append(ss, P[f])[i] = IF i = n + 1 THEN P[f] ELSE ss[i]
    <3> HIDE DEF ss, n, V
    <3> QED
      BY <1>1, <1>2, <1>3
  <2> DEFINE a == Append(ss, P[f])
  <2>4. a = [i \in 1 .. n + 1 |-> a[i]]
    <3> HIDE DEF a, n, V
    <3> QED
      BY <1>1, <2>3 DEF a
  <2> HIDE DEF tt, a, n
  <2> QED
    BY <2>1, <2>2, <2>3, <2>4 DEF a
<1>5. FlattenSeq(ss) \in V /\ FlattenSeq(Append(ss, P[f])) = FlattenSeq(ss) \o P[f]
  <2> HIDE DEF ss
  <2> QED
    BY <1>2, <1>3, FlattenAppend, Zenon
<1> QED
  BY <1>4, <1>5 DEF Mapped

LEMMA MappedEmpty ==
  ASSUME NEW P PROVE Mapped(P, <<>>) = <<>>
<1>1. [i \in DOMAIN <<>> |-> P[<<>>[i]]] = <<>>
  OBVIOUS
<1> QED
  BY <1>1 DEF Mapped, FlattenSeq

(* The texts and the answers of frames that have arrived.                  *)
Texts(fs) == FlattenSeq([i \in DOMAIN fs |-> Heard(fs[i])])
Answers(fs) == FlattenSeq([i \in DOMAIN fs |-> Answered(fs[i])])

(* sendFrame() chooses the form a reply has.                               *)
LEMMA SendFrameReplies ==
  ASSUME NEW op \in Nat, NEW data \in Seq(Byte)
  PROVE  SendFrame(op, data) = Reply(op, data)
<1> DEFINE n == Len(data)
           form == IF n <= Short THEN "short" ELSE IF n < Power(Two) THEN "two" ELSE "eight"
           f == [op |-> op, mask |-> OwnMask, payload |-> data, form |-> form]
<1>1. f.op = op /\ f.mask = OwnMask /\ f.payload = data /\ f.form = form
  OBVIOUS
<1>2. OwnMask # <<>>
  <2>1. OwnMask \in [1 .. KeyLen -> Byte] /\ KeyLen \in Nat /\ KeyLen # 0
    BY StreamAssumption DEF Key
  <2>2. 1 \in DOMAIN OwnMask
    BY <2>1
  <2> QED
    BY <2>2
<1>3. Reply(op, data) = Encoded(f)
  BY DEF Reply
<1>4. LengthBytes(MaskBit, form, n) =
        IF n <= Short THEN <<MaskBit + n>>
        ELSE IF n < Power(Two) THEN <<MaskBit + Short + 1>> \o BigEndian(n, Two)
        ELSE <<MaskBit + Short + 2>> \o BigEndian(n, Eight)
  BY DEF LengthBytes
<1> HIDE DEF f, form
<1>5. Encoded(f) =
        <<op>> \o LengthBytes(MaskBit, form, n) \o OwnMask
        \o [i \in DOMAIN data |-> Xor(data[i], OwnMask[((i - 1) % KeyLen) + 1])]
  BY <1>1, <1>2 DEF Encoded
<1> QED
  BY <1>3, <1>4, <1>5 DEF SendFrame

LEMMA PieceTypes ==
  ASSUME NEW f \in Frames
  PROVE  /\ IsFrame(f) /\ Encoded(f) \in Seq(Nat) /\ Len(Encoded(f)) \in Nat /\ Len(Encoded(f)) >= 2
         /\ Heard(f) \in Seq(Seq(Byte)) /\ Answered(f) \in Seq(Nat)
<1>1. IsFrame(f)
  BY StreamAssumption
<1>2. Encoded(f) \in Seq(Nat) /\ Len(Encoded(f)) \in Nat /\ Len(Encoded(f)) >= 2
  <2>1. Encoded(f) \in Seq(Nat)
        /\ Len(Encoded(f)) = 2 + Digits(f) + Len(f.mask) + Len(f.payload)
    BY <1>1, FrameBytes
  <2>2. Digits(f) \in Nat /\ Len(f.mask) \in Nat /\ Len(f.payload) \in Nat
    BY <1>1, FrameParts
  <2> QED
    BY <2>1, <2>2
<1>3. Heard(f) \in Seq(Seq(Byte))
  BY <1>1 DEF Heard, IsFrame
<1>4. ASSUME NEW op \in Nat, NEW data \in Seq(Byte), Len(data) < Power(Two) \/ Len(data) < Power(Eight) \/ Len(data) <= Short
      PROVE  Reply(op, data) \in Seq(Nat)
  <2> DEFINE n == Len(data)
             form == IF n <= Short THEN "short" ELSE IF n < Power(Two) THEN "two" ELSE "eight"
             g == [op |-> op, mask |-> OwnMask, payload |-> data, form |-> form]
  <2>1. IsFrame(g)
    <3>1. g.op = op /\ g.mask = OwnMask /\ g.payload = data /\ g.form = form
      OBVIOUS
    <3>2. n \in Nat /\ Short \in Nat /\ OwnMask \in Key
      BY StreamAssumption
    <3>3. n < Room(form)
      BY <1>4, <3>2 DEF Room
    <3> HIDE DEF g
    <3> QED
      BY <3>1, <3>2, <3>3 DEF IsFrame, Forms
  <2> HIDE DEF g
  <2> QED
    BY <2>1, FrameBytes DEF Reply, g
<1>5. Answered(f) \in Seq(Nat)
  <2>1. CASE f.op = PingFrame
    <3>1. f.payload \in Seq(Byte) /\ Len(f.payload) < Room(f.form) /\ f.form \in Forms
      BY <1>1 DEF IsFrame
    <3>2. Len(f.payload) \in Nat /\ Short \in Nat
      BY <3>1, StreamAssumption
    <3>3. Len(f.payload) < Power(Two) \/ Len(f.payload) < Power(Eight) \/ Len(f.payload) <= Short
      BY <3>1, <3>2 DEF Room, Forms
    <3>4. Reply(PongFrame, f.payload) \in Seq(Nat)
      BY <1>4, <3>1, <3>3 DEF PongFrame
    <3> QED
      BY <2>1, <3>4 DEF Answered, PingFrame, CloseFrame
  <2>2. CASE f.op = CloseFrame
    <3>1. Len(<<>>) <= Short
      BY StreamAssumption
    <3>2. <<>> \in Seq(Byte) /\ CloseFrame \in Nat
      BY DEF CloseFrame
    <3>3. Reply(CloseFrame, <<>>) \in Seq(Nat)
      BY <1>4, <3>1, <3>2, Zenon
    <3> QED
      BY <2>2, <3>3 DEF Answered, PingFrame, CloseFrame
  <2>3. CASE f.op # PingFrame /\ f.op # CloseFrame
    BY <2>3 DEF Answered
  <2> QED
    BY <2>1, <2>2, <2>3
<1> QED
  BY <1>1, <1>2, <1>3, <1>5

(* A frame more is a frame's bytes, text and answer more.                  *)
LEMMA FrameMore ==
  ASSUME NEW fs \in Seq(Frames), NEW f \in Frames
  PROVE  /\ Stream(fs) \in Seq(Nat) /\ Texts(fs) \in Seq(Seq(Byte)) /\ Answers(fs) \in Seq(Nat)
         /\ Stream(Append(fs, f)) = Stream(fs) \o Encoded(f)
         /\ Texts(Append(fs, f)) = Texts(fs) \o Heard(f)
         /\ Answers(Append(fs, f)) = Answers(fs) \o Answered(f)
<1>1. Stream(fs) \in Seq(Nat) /\ Stream(Append(fs, f)) = Stream(fs) \o Encoded(f)
  <2> DEFINE P == [x \in Frames |-> Encoded(x)]
  <2>1. P \in [Frames -> Seq(Nat)] /\ P[f] = Encoded(f)
    BY PieceTypes
  <2>2. ASSUME NEW x \in Seq(Frames) PROVE Stream(x) = Mapped(P, x)
    <3>1. [i \in DOMAIN x |-> P[x[i]]] = [i \in DOMAIN x |-> Encoded(x[i])]
      OBVIOUS
    <3> HIDE DEF P
    <3> QED
      BY <3>1 DEF Stream, Mapped
  <2>3. Append(fs, f) \in Seq(Frames)
    OBVIOUS
  <2> HIDE DEF P
  <2>4. Mapped(P, fs) \in Seq(Nat) /\ Mapped(P, Append(fs, f)) = Mapped(P, fs) \o P[f]
    BY <2>1, MappedAppend
  <2> QED
    BY <2>1, <2>2, <2>3, <2>4
<1>2. Texts(fs) \in Seq(Seq(Byte)) /\ Texts(Append(fs, f)) = Texts(fs) \o Heard(f)
  <2> DEFINE P == [x \in Frames |-> Heard(x)]
  <2>1. P \in [Frames -> Seq(Seq(Byte))] /\ P[f] = Heard(f)
    BY PieceTypes
  <2>2. ASSUME NEW x \in Seq(Frames) PROVE Texts(x) = Mapped(P, x)
    <3>1. [i \in DOMAIN x |-> P[x[i]]] = [i \in DOMAIN x |-> Heard(x[i])]
      OBVIOUS
    <3> HIDE DEF P
    <3> QED
      BY <3>1 DEF Texts, Mapped
  <2>3. Append(fs, f) \in Seq(Frames)
    OBVIOUS
  <2> HIDE DEF P
  <2>4. Mapped(P, fs) \in Seq(Seq(Byte)) /\ Mapped(P, Append(fs, f)) = Mapped(P, fs) \o P[f]
    BY <2>1, MappedAppend
  <2> QED
    BY <2>1, <2>2, <2>3, <2>4
<1>3. Answers(fs) \in Seq(Nat) /\ Answers(Append(fs, f)) = Answers(fs) \o Answered(f)
  <2> DEFINE P == [x \in Frames |-> Answered(x)]
  <2>1. P \in [Frames -> Seq(Nat)] /\ P[f] = Answered(f)
    BY PieceTypes
  <2>2. ASSUME NEW x \in Seq(Frames) PROVE Answers(x) = Mapped(P, x)
    <3>1. [i \in DOMAIN x |-> P[x[i]]] = [i \in DOMAIN x |-> Answered(x[i])]
      OBVIOUS
    <3> HIDE DEF P
    <3> QED
      BY <3>1 DEF Answers, Mapped
  <2>3. Append(fs, f) \in Seq(Frames)
    OBVIOUS
  <2> HIDE DEF P
  <2>4. Mapped(P, fs) \in Seq(Nat) /\ Mapped(P, Append(fs, f)) = Mapped(P, fs) \o P[f]
    BY <2>1, MappedAppend
  <2> QED
    BY <2>1, <2>2, <2>3, <2>4
<1> QED
  BY <1>1, <1>2, <1>3

LEMMA NoFrames == Stream(<<>>) = <<>> /\ Texts(<<>>) = <<>> /\ Answers(<<>>) = <<>>
<1>1. /\ [i \in DOMAIN <<>> |-> Encoded(<<>>[i])] = <<>>
      /\ [i \in DOMAIN <<>> |-> Heard(<<>>[i])] = <<>>
      /\ [i \in DOMAIN <<>> |-> Answered(<<>>[i])] = <<>>
  OBVIOUS
<1> QED
  BY <1>1 DEF Stream, Texts, Answers, FlattenSeq

(* The first k frames.                                                     *)
First(fs, k) == SubSeq(fs, 1, k)

LEMMA Fronts ==
  ASSUME NEW fs \in Seq(Frames)
  PROVE  /\ First(fs, 0) = <<>> /\ First(fs, Len(fs)) = fs
         /\ \A k \in 0 .. Len(fs) : First(fs, k) \in Seq(Frames) /\ Len(First(fs, k)) = k
         /\ \A k \in 0 .. Len(fs) - 1 : First(fs, k + 1) = Append(First(fs, k), fs[k + 1])
         /\ \A f \in Frames, k \in 0 .. Len(fs) : First(Append(fs, f), k) = First(fs, k)
<1>1. Len(fs) \in Nat
  OBVIOUS
<1>2. First(fs, 0) = <<>> /\ First(fs, Len(fs)) = fs
  BY DEF First
<1>3. \A k \in 0 .. Len(fs) : First(fs, k) \in Seq(Frames) /\ Len(First(fs, k)) = k
  BY DEF First
<1>4. ASSUME NEW k \in 0 .. Len(fs) - 1
      PROVE  First(fs, k + 1) = Append(First(fs, k), fs[k + 1])
  BY <1>1 DEF First
<1>5. ASSUME NEW f \in Frames, NEW k \in 0 .. Len(fs)
      PROVE  First(Append(fs, f), k) = First(fs, k)
  BY <1>1 DEF First
<1> QED
  BY <1>2, <1>3, <1>4, <1>5

LEMMA Joined ==
  ASSUME NEW fs \in Seq(Frames)
  PROVE  Stream(fs) \in Seq(Nat) /\ Texts(fs) \in Seq(Seq(Byte)) /\ Answers(fs) \in Seq(Nat)
<1>1. CASE fs = <<>>
  <2>1. <<>> \in Seq(Nat) /\ <<>> \in Seq(Seq(Byte))
    OBVIOUS
  <2> QED
    BY <1>1, <2>1, NoFrames, Zenon
<1>2. CASE fs # <<>>
  <2>1. fs[1] \in Frames
    BY <1>2
  <2> QED
    BY <2>1, FrameMore
<1> QED
  BY <1>1, <1>2

(* What the next frame adds to the first k.                                *)
FrontStep(fs, k) ==
  /\ fs[k + 1] \in Frames
  /\ Stream(First(fs, k)) \in Seq(Nat)
  /\ Stream(First(fs, k + 1)) = Stream(First(fs, k)) \o Encoded(fs[k + 1])
  /\ Texts(First(fs, k + 1)) = Texts(First(fs, k)) \o Heard(fs[k + 1])
  /\ Answers(First(fs, k + 1)) = Answers(First(fs, k)) \o Answered(fs[k + 1])

LEMMA FrontGrows ==
  ASSUME NEW fs \in Seq(Frames), NEW k \in 0 .. Len(fs) - 1
  PROVE  FrontStep(fs, k)
<1>1. fs[k + 1] \in Frames /\ k \in 0 .. Len(fs)
  OBVIOUS
<1>2. First(fs, k) \in Seq(Frames) /\ First(fs, k + 1) = Append(First(fs, k), fs[k + 1])
  BY <1>1, Fronts
<1> QED
  BY <1>1, <1>2, FrameMore DEF FrontStep

LEMMA Regroup ==
  ASSUME NEW a \in Seq(Nat), NEW e \in Seq(Nat), NEW y \in Seq(Nat)
  PROVE  (a \o e) \o y = a \o (e \o y) /\ e \o y \in Seq(Nat)
<1>1. (a \o e) \o y = a \o (e \o y)
  OBVIOUS
<1>2. e \o y \in Seq(Nat)
  BY ConcatProperties
<1> QED
  BY <1>1, <1>2

LEMMA CancelFront ==
  ASSUME NEW a \in Seq(Nat), NEW x \in Seq(Nat), NEW y \in Seq(Nat), a \o x = a \o y
  PROVE  x = y
<1> DEFINE c == a \o x
<1>1. Parts(c, a, x) /\ Parts(c, a, y)
  BY TwoParts, Zenon
<1> HIDE DEF c
<1>2. Len(x) = Len(y) /\ \A i \in 1 .. Len(x) : x[i] = y[i]
  <2>1. Len(a) \in Nat /\ Len(x) \in Nat /\ Len(y) \in Nat
    OBVIOUS
  <2>2. Len(x) = Len(y)
    BY <1>1, <2>1 DEF Parts
  <2> QED
    BY <1>1, <2>1, <2>2 DEF Parts
<1> QED
  BY <1>2, SeqEqual

(* The bytes of all the frames start with those of the first k.            *)
Behind(fs, k, y) == y \in Seq(Nat) /\ Stream(fs) = Stream(First(fs, k)) \o y

LEMMA FrontIsFirst ==
  ASSUME NEW fs \in Seq(Frames), NEW k \in 0 .. Len(fs)
  PROVE  \E y : Behind(fs, k, y)
<1> DEFINE N == Len(fs)
           G == {j \in 0 .. N : \E y : Behind(fs, N - j, y)}
<1>1. N \in Nat
  OBVIOUS
<1>2. 0 \in G
  <2>1. First(fs, N - 0) = fs
    <3>1. N - 0 = N
      BY <1>1
    <3> QED
      BY <3>1, Fronts
  <2>2. Stream(fs) \o <<>> = Stream(fs) /\ <<>> \in Seq(Nat)
    BY Joined, ConcatEmptySeq, EmptySeq
  <2>3. Behind(fs, N - 0, <<>>)
    BY <2>1, <2>2 DEF Behind
  <2> HIDE DEF N
  <2> QED
    BY <1>1, <2>3
<1>3. \A j \in 0 .. N - 1 : j \in G => j + 1 \in G
  <2> SUFFICES ASSUME NEW j \in 0 .. N - 1, j \in G PROVE j + 1 \in G
    OBVIOUS
  <2> DEFINE m == N - (j + 1)
  <2>1. m \in 0 .. Len(fs) - 1 /\ m + 1 = N - j /\ j + 1 \in 0 .. N
    BY <1>1
  <2>2. PICK y : Behind(fs, m + 1, y)
    BY <2>1
  <2> HIDE DEF m, N
  <2>3. FrontStep(fs, m)
    BY <2>1, FrontGrows
  <2> DEFINE e == Encoded(fs[m + 1])
  <2>4. e \in Seq(Nat) /\ Stream(First(fs, m)) \in Seq(Nat) /\ y \in Seq(Nat)
        /\ Stream(fs) = (Stream(First(fs, m)) \o e) \o y
    BY <2>2, <2>3, PieceTypes DEF FrontStep, Behind
  <2> HIDE DEF e
  <2>5. Behind(fs, m, e \o y)
    <3> DEFINE a == Stream(First(fs, m))
    <3> HIDE DEF a
    <3>1. (a \o e) \o y = a \o (e \o y) /\ e \o y \in Seq(Nat)
      <4>1. e \in Seq(Nat) /\ a \in Seq(Nat) /\ y \in Seq(Nat)
        BY <2>4 DEF a
      <4> QED
        BY <4>1, Regroup, Zenon
    <3> QED
      BY <2>4, <3>1 DEF Behind, a
  <2> QED
    BY <2>1, <2>5 DEF m
<1>4. \A j \in 0 .. N : j \in G
  <2> HIDE DEF G, N
  <2> QED
    BY <1>1, <1>2, <1>3, Induction
<1>5. N - k \in G /\ N - (N - k) = k
  BY <1>1, <1>4
<1> QED
  BY <1>5

(* Behind the first k comes the next; behind all of them nothing.          *)
Splits(fs, k, x, y) == Behind(fs, k + 1, y) /\ x = Encoded(fs[k + 1]) \o y

LEMMA NextFrame ==
  ASSUME NEW fs \in Seq(Frames), NEW k \in 0 .. Len(fs), k < Len(fs), NEW x, Behind(fs, k, x)
  PROVE  \E y : Splits(fs, k, x, y)
<1>1. k \in 0 .. Len(fs) - 1 /\ k + 1 \in 0 .. Len(fs)
  OBVIOUS
<1>2. FrontStep(fs, k)
  BY <1>1, FrontGrows
<1>3. PICK y : Behind(fs, k + 1, y)
  BY <1>1, FrontIsFirst
<1> DEFINE e == Encoded(fs[k + 1])
           a == Stream(First(fs, k))
           z == e \o y
<1>4. x \in Seq(Nat) /\ e \in Seq(Nat) /\ a \in Seq(Nat) /\ y \in Seq(Nat) /\ a \o x = (a \o e) \o y
  BY <1>2, <1>3, PieceTypes DEF FrontStep, Behind
<1> HIDE DEF e, a, z
<1>5. (a \o e) \o y = a \o z /\ z \in Seq(Nat)
  BY <1>4, Regroup, Zenon DEF z
<1>6. a \o x = a \o z
  BY <1>4, <1>5
<1>7. x = z
  BY <1>4, <1>5, <1>6, CancelFront
<1>8. Splits(fs, k, x, y)
  BY <1>3, <1>7 DEF Splits, e, z
<1> QED
  BY <1>8

LEMMA NoFrameLeft ==
  ASSUME NEW fs \in Seq(Frames), NEW x, Behind(fs, Len(fs), x)
  PROVE  x = <<>>
<1>1. x \in Seq(Nat) /\ Stream(fs) = Stream(First(fs, Len(fs))) \o x
  BY DEF Behind
<1>2. Stream(fs) = Stream(fs) \o x /\ Stream(fs) \in Seq(Nat)
  BY <1>1, Fronts, Joined
<1> QED
  BY <1>1, <1>2, ConcatEqualIffEmpty

-----------------------------------------------------------------------------
(* processFrames() on the bytes that have come.                            *)

State == [bytes : Seq(Nat), received : Seq(Seq(Byte)), written : Seq(Nat), closing : BOOLEAN]

(* k frames of fs have been handled: the buffer and the wire hold the      *)
(* bytes behind them, and what was handed on and written is theirs.        *)
Good(fs, w, k, t) ==
  /\ k \in 0 .. Len(fs) /\ w \in Seq(Nat) /\ t \in State
  /\ Behind(fs, k, t.bytes \o w)
  /\ t.received = Texts(First(fs, k)) /\ t.written = Answers(First(fs, k))

(* The buffer holds a part of the next frame, and none when there is none. *)
Waits(fs, k, buf) ==
  \/ k = Len(fs) /\ buf = <<>>
  \/ k < Len(fs) /\ Len(buf) < Len(Encoded(fs[k + 1]))

(* The bytes that two ways of cutting a sequence have in common.           *)
Agree(b, e) == \A i \in 1 .. Len(b) : i <= Len(e) => b[i] = e[i]

LEMMA CommonBytes ==
  ASSUME NEW b \in Seq(Nat), NEW w \in Seq(Nat), NEW e \in Seq(Nat), NEW y \in Seq(Nat),
         b \o w = e \o y
  PROVE  Agree(b, e)
<1> DEFINE x == b \o w
<1>1. Parts(x, b, w) /\ Parts(x, e, y)
  BY TwoParts, Zenon
<1> HIDE DEF x
<1>2. Len(b) \in Nat /\ Len(e) \in Nat
  OBVIOUS
<1> QED
  BY <1>1, <1>2 DEF Parts, Agree

(* Without e, b and w give y.                                              *)
Cut(b, w, e, y) ==
  LET r == SubSeq(b, Len(e) + 1, Len(b))
  IN r \in Seq(Nat) /\ Len(r) = Len(b) - Len(e) /\ r \o w = y

LEMMA CutFront ==
  ASSUME NEW b \in Seq(Nat), NEW w \in Seq(Nat), NEW e \in Seq(Nat), NEW y \in Seq(Nat),
         b \o w = e \o y, Len(b) >= Len(e)
  PROVE  Cut(b, w, e, y)
<1> DEFINE r == SubSeq(b, Len(e) + 1, Len(b))
<1>1. /\ Len(b) \in Nat /\ Len(e) \in Nat
      /\ r \in Seq(Nat) /\ Len(r) = Len(b) - Len(e)
      /\ \A i \in 1 .. Len(r) : r[i] = b[Len(e) + i]
  <2>1. Len(b) \in Nat /\ Len(e) \in Nat
    OBVIOUS
  <2> DEFINE m == Len(e)
  <2> HIDE DEF m
  <2>2. SubSeq(b, m + 1, Len(b)) \in Seq(Nat) /\ Len(SubSeq(b, m + 1, Len(b))) = Len(b) - m
    BY <2>1 DEF m
  <2>3. ASSUME NEW i \in 1 .. Len(b) - m PROVE SubSeq(b, m + 1, Len(b))[i] = b[m + i]
    BY <2>1 DEF m
  <2> QED
    BY <2>1, <2>2, <2>3 DEF m
<1> HIDE DEF r
<1>2. b = e \o r
  <2> DEFINE z == e \o r
  <2>1. Parts(z, e, r)
    BY <1>1, TwoParts, Zenon
  <2> HIDE DEF z
  <2>2. ASSUME NEW i \in 1 .. Len(b) PROVE b[i] = z[i]
    <3>1. CASE i <= Len(e)
      <4>1. Agree(b, e)
        BY CommonBytes
      <4>2. i \in 1 .. Len(e)
        BY <1>1, <3>1
      <4>3. z[i] = e[i]
        BY <2>1, <4>2 DEF Parts
      <4>4. b[i] = e[i]
        BY <3>1, <4>1 DEF Agree
      <4> QED
        BY <4>3, <4>4
    <3>2. CASE i > Len(e)
      <4>1. i - Len(e) \in 1 .. Len(r) /\ Len(e) + (i - Len(e)) = i
        <5>1. Len(b) \in Nat /\ Len(e) \in Nat /\ Len(r) = Len(b) - Len(e)
          BY <1>1
        <5> QED
          BY <3>2, <5>1
      <4>2. z[Len(e) + (i - Len(e))] = r[i - Len(e)]
        BY <2>1, <4>1 DEF Parts
      <4>3. r[i - Len(e)] = b[Len(e) + (i - Len(e))]
        BY <1>1, <4>1
      <4> QED
        BY <4>1, <4>2, <4>3
    <3> QED
      BY <1>1, <3>1, <3>2
  <2>3. z \in Seq(Nat) /\ Len(z) = Len(b)
    BY <1>1, <2>1 DEF Parts
  <2>4. b = z
    BY <2>2, <2>3, SeqEqual
  <2> QED
    BY <2>4 DEF z
<1>3. e \o (r \o w) = e \o y /\ r \o w \in Seq(Nat)
  <2>1. (e \o r) \o w = e \o (r \o w) /\ r \o w \in Seq(Nat)
    BY <1>1, Regroup, Zenon
  <2> QED
    BY <1>2, <2>1
<1>4. r \o w = y
  BY <1>3, CancelFront
<1> QED
  BY <1>1, <1>4, Zenon DEF r, Cut

(* What a frame adds is what handling it adds.                             *)
LEMMA HandleAdds ==
  ASSUME NEW f \in Frames, NEW t \in State, t.bytes[1] = f.op, Payload(t.bytes) = f.payload
  PROVE  /\ Handle(t).bytes = Rest(t.bytes)
         /\ Handle(t).received = t.received \o Heard(f)
         /\ Handle(t).written = t.written \o Answered(f)
         /\ Handle(t).closing \in BOOLEAN
         /\ Handle(t) = [bytes |-> Handle(t).bytes, received |-> Handle(t).received,
                         written |-> Handle(t).written, closing |-> Handle(t).closing]
<1>1. f.op \in Nat /\ f.payload \in Seq(Byte)
  BY PieceTypes DEF IsFrame
<1>2. t.received \in Seq(Seq(Byte)) /\ t.closing \in BOOLEAN
  BY DEF State
<1> DEFINE more == IF f.op = TextFrame THEN Append(t.received, f.payload) ELSE t.received
           reply == IF f.op = PingFrame THEN SendFrame(PongFrame, f.payload)
                    ELSE IF f.op = CloseFrame THEN SendFrame(CloseFrame, <<>>) ELSE <<>>
<1>3. Handle(t) = [bytes |-> Rest(t.bytes), received |-> more, written |-> t.written \o reply,
                   closing |-> t.closing \/ f.op = CloseFrame]
  BY Zenon DEF Handle
<1>4. more = t.received \o Heard(f)
  <2>1. CASE f.op = TextFrame
    BY <1>1, <1>2, <2>1, AppendIsConcat DEF Heard
  <2>2. CASE f.op # TextFrame
    BY <1>2, <2>2, ConcatEmptySeq DEF Heard
  <2> QED
    BY <2>1, <2>2
<1>5. reply = Answered(f)
  <2>1. SendFrame(PongFrame, f.payload) = Reply(PongFrame, f.payload)
    BY <1>1, SendFrameReplies DEF PongFrame
  <2>2. SendFrame(CloseFrame, <<>>) = Reply(CloseFrame, <<>>)
    <3>1. <<>> \in Seq(Byte) /\ CloseFrame \in Nat
      BY DEF CloseFrame
    <3> QED
      BY <3>1, SendFrameReplies, Zenon
  <2> QED
    BY <2>1, <2>2 DEF Answered, PingFrame, CloseFrame
<1> HIDE DEF more, reply
<1>6. (t.closing \/ f.op = CloseFrame) \in BOOLEAN
  OBVIOUS
<1> QED
  BY <1>3, <1>4, <1>5, <1>6

(* One turn of the loop.                                                   *)
LEMMA Turn ==
  ASSUME NEW fs \in Seq(Frames), NEW w, NEW k, NEW t, Good(fs, w, k, t)
  PROVE  /\ Complete(t.bytes) => Good(fs, w, k + 1, Handle(t)) /\ Len(Handle(t).bytes) < Len(t.bytes)
         /\ ~Complete(t.bytes) => Waits(fs, k, t.bytes)
<1> DEFINE b == t.bytes
<1>1. /\ k \in 0 .. Len(fs) /\ w \in Seq(Nat) /\ t \in State /\ b \in Seq(Nat)
      /\ Behind(fs, k, b \o w) /\ Len(fs) \in Nat /\ Len(b) \in Nat
      /\ t.received = Texts(First(fs, k)) /\ t.written = Answers(First(fs, k))
  BY DEF Good, State
<1>2. CASE k = Len(fs)
  <2>1. b \o w = <<>>
    <3> DEFINE x == b \o w
    <3> HIDE DEF x, b
    <3>1. Behind(fs, Len(fs), x)
      BY <1>1, <1>2 DEF x
    <3>2. x = <<>>
      BY <3>1, NoFrameLeft
    <3> QED
      BY <3>2 DEF x
  <2>2. b = <<>>
    BY <1>1, <2>1, ConcatEqualIffEmpty
  <2>3. ~Complete(b)
    BY <2>2 DEF Complete
  <2> QED
    BY <1>2, <2>2, <2>3 DEF Waits
<1>3. CASE k < Len(fs)
  <2> DEFINE f == fs[k + 1]
             e == Encoded(f)
  <2>1. PICK y : Behind(fs, k + 1, y) /\ b \o w = e \o y
    <3> DEFINE x == b \o w
    <3> HIDE DEF x, f, b
    <3>1. \E y : Splits(fs, k, x, y)
      BY <1>1, <1>3, NextFrame DEF x
    <3> QED
      BY <3>1, Zenon DEF Splits, x, f
  <2>2. k \in 0 .. Len(fs) - 1
    BY <1>1, <1>3
  <2>3. FrontStep(fs, k)
    BY <2>2, FrontGrows
  <2>4. /\ f \in Frames /\ IsFrame(f) /\ e \in Seq(Nat) /\ Len(e) \in Nat /\ Len(e) >= 2
        /\ Heard(f) \in Seq(Seq(Byte)) /\ Answered(f) \in Seq(Nat)
    BY <2>3, PieceTypes DEF FrontStep
  <2>5. y \in Seq(Nat)
    BY <2>1 DEF Behind
  <2> HIDE DEF f, b
  <2>6. \A i \in 1 .. Len(b) : i <= Len(e) => b[i] = e[i]
    <3> HIDE DEF e
    <3>1. Agree(b, e)
      BY <1>1, <2>1, <2>4, <2>5, CommonBytes
    <3> QED
      BY <3>1, Zenon DEF Agree
  <2>7. CASE Len(b) < Len(e)
    <3>1. \A i \in 1 .. Len(b) : b[i] = e[i]
      <4> HIDE DEF e
      <4> SUFFICES ASSUME NEW i \in 1 .. Len(b) PROVE b[i] = e[i]
        OBVIOUS
      <4>1. i <= Len(e)
        BY <1>1, <2>4, <2>7
      <4> QED
        BY <2>6, <4>1
    <3>2. ~Complete(b)
      BY <1>1, <2>4, <2>7, <3>1, PartOfFrame
    <3>3. Waits(fs, k, b)
      BY <1>3, <2>7 DEF Waits, f
    <3> QED
      BY <3>2, <3>3 DEF b
  <2>8. CASE Len(b) >= Len(e)
    <3>1. \A i \in 1 .. Len(e) : b[i] = e[i]
      <4> HIDE DEF e
      <4> SUFFICES ASSUME NEW i \in 1 .. Len(e) PROVE b[i] = e[i]
        OBVIOUS
      <4>1. i \in 1 .. Len(b) /\ i <= Len(e)
        BY <1>1, <2>4, <2>8
      <4> QED
        BY <2>6, <4>1
    <3>2. /\ Complete(b) /\ b[1] = f.op /\ Payload(b) = f.payload
          /\ Rest(b) = SubSeq(b, Len(e) + 1, Len(b))
      BY <1>1, <2>4, <2>8, <3>1, WholeFrame
    <3> HIDE DEF e
    <3>3. Rest(b) \in Seq(Nat) /\ Len(Rest(b)) = Len(b) - Len(e) /\ Rest(b) \o w = y
      <4>1. b \in Seq(Nat) /\ w \in Seq(Nat) /\ e \in Seq(Nat) /\ b \o w = e \o y
        BY <1>1, <2>1, <2>4
      <4>2. Cut(b, w, e, y)
        BY <2>5, <2>8, <4>1, CutFront
      <4> QED
        BY <3>2, <4>2, Zenon DEF Cut
    <3> DEFINE h == Handle(t)
    <3>4. /\ h.bytes = Rest(b) /\ h.received = t.received \o Heard(f)
          /\ h.written = t.written \o Answered(f) /\ h.closing \in BOOLEAN
          /\ h = [bytes |-> h.bytes, received |-> h.received,
                  written |-> h.written, closing |-> h.closing]
      BY <1>1, <2>4, <3>2, HandleAdds DEF b
    <3> HIDE DEF h
    <3>5. h.received = Texts(First(fs, k + 1)) /\ h.written = Answers(First(fs, k + 1))
      BY <1>1, <2>3, <3>4 DEF FrontStep, f
    <3>6. h \in State
      <4>1. t.received \in Seq(Seq(Byte)) /\ t.written \in Seq(Nat)
        BY <1>1 DEF State
      <4>2. h.received \in Seq(Seq(Byte))
        BY <2>4, <3>4, <4>1, ConcatProperties
      <4>3. h.written \in Seq(Nat)
        BY <2>4, <3>4, <4>1, ConcatProperties
      <4>4. h.bytes \in Seq(Nat)
        BY <3>3, <3>4
      <4> QED
        BY <3>4, <4>2, <4>3, <4>4 DEF State
    <3>7. Behind(fs, k + 1, h.bytes \o w)
      BY <2>1, <3>3, <3>4
    <3>8. Good(fs, w, k + 1, h)
      <4>1. k + 1 \in 0 .. Len(fs)
        BY <2>2
      <4> QED
        BY <1>1, <3>5, <3>6, <3>7, <4>1 DEF Good
    <3>9. Len(h.bytes) < Len(b)
      BY <1>1, <2>4, <3>3, <3>4
    <3> QED
      BY <3>2, <3>8, <3>9 DEF h, b
  <2> QED
    BY <1>1, <2>4, <2>7, <2>8
<1> QED
  BY <1>1, <1>2, <1>3

(* What holds of the bytes, the texts and the answers before the loop      *)
(* holds behind it, where no whole frame is left.                          *)
Processed(fs, w, t) == \E k \in 0 .. Len(fs) : Good(fs, w, k, t) /\ Waits(fs, k, t.bytes)

LEMMA LoopIsDone ==
  ASSUME NEW fs \in Seq(Frames), NEW w, NEW m, NEW s, Good(fs, w, m, s)
  PROVE  Processed(fs, w, ProcessFrames(s))
<1> DEFINE N == Len(s.bytes)
           V == {t \in State : \E k : Good(fs, w, k, t)}
           step == [v \in V |-> IF Complete(v.bytes) THEN Handle(v) ELSE v]
           g == [j \in 1 .. N |-> step]
           Is(p) == p = [j \in 0 .. N |->
                           IF j = 0 THEN s
                           ELSE LET t == p[j - 1] IN IF Complete(t.bytes) THEN Handle(t) ELSE t]
           turn == CHOOSE p : Is(p)
<1>1. N \in Nat /\ s \in V
  <2>1. s \in State
    BY DEF Good
  <2>2. N \in Nat
    BY <2>1 DEF State
  <2> QED
    BY <2>1, <2>2
<1>2. step \in [V -> V]
  <2> SUFFICES ASSUME NEW v \in V, Complete(v.bytes) PROVE Handle(v) \in V
    OBVIOUS
  <2>1. PICK k : Good(fs, w, k, v)
    OBVIOUS
  <2>2. Good(fs, w, k + 1, Handle(v))
    BY <2>1, Turn
  <2> QED
    BY <2>2 DEF Good
<1>3. PICK f : Loop(f, N, V, s, g)
  <2>1. g \in [1 .. N -> [V -> V]]
    <3> HIDE DEF step, V, N
    <3> QED
      BY <1>2
  <2> HIDE DEF g, V, N
  <2> QED
    BY <1>1, <2>1, Recursion, Zenon
<1>4. /\ f \in [0 .. N -> V] /\ f[0] = s
      /\ \A j \in 1 .. N :
           f[j - 1] \in V /\ f[j] = IF Complete(f[j - 1].bytes) THEN Handle(f[j - 1]) ELSE f[j - 1]
  <2>1. f \in [0 .. N -> V] /\ f[0] = s /\ \A j \in 1 .. N : f[j] = g[j][f[j - 1]]
    <3> HIDE DEF g, V, N
    <3> QED
      BY <1>3, Zenon DEF Loop
  <2>2. ASSUME NEW j \in 1 .. N
        PROVE  f[j - 1] \in V
               /\ f[j] = IF Complete(f[j - 1].bytes) THEN Handle(f[j - 1]) ELSE f[j - 1]
    <3>1. j - 1 \in 0 .. N
      BY <1>1
    <3> HIDE DEF V, N
    <3>2. f[j - 1] \in V
      BY <2>1, <3>1
    <3>3. f[j] = step[f[j - 1]]
      <4> HIDE DEF step
      <4> QED
        BY <2>1
    <3> QED
      BY <3>2, <3>3
  <2> QED
    BY <2>1, <2>2
<1>5. Is(f)
  <2>1. f = [j \in 0 .. N |-> f[j]]
    <3> HIDE DEF V, N
    <3> QED
      BY <1>4
  <2>2. ASSUME NEW j \in 0 .. N
        PROVE  f[j] = IF j = 0 THEN s
                      ELSE LET t == f[j - 1] IN IF Complete(t.bytes) THEN Handle(t) ELSE t
    <3>1. j # 0 => j \in 1 .. N
      BY <1>1
    <3> HIDE DEF V, N
    <3> QED
      BY <1>4, <3>1
  <2> HIDE DEF V, N
  <2> QED
    BY <2>1, <2>2
<1>6. Is(turn)
  <2> HIDE DEF Is
  <2> QED
    BY <1>5
<1>7. ProcessFrames(s) = turn[N]
  BY DEF ProcessFrames
<1> HIDE DEF turn
<1>8. turn[0] = s /\ \A j \in 1 .. N : turn[j] = IF Complete(turn[j - 1].bytes)
                                                THEN Handle(turn[j - 1]) ELSE turn[j - 1]
  <2> HIDE DEF N
  <2>1. \A j \in 0 .. N : turn[j] = IF j = 0 THEN s
                                  ELSE IF Complete(turn[j - 1].bytes)
                                       THEN Handle(turn[j - 1]) ELSE turn[j - 1]
    BY <1>6, Zenon
  <2>2. \A j \in 1 .. N : j \in 0 .. N /\ j # 0
    BY <1>1
  <2>3. 0 \in 0 .. N
    BY <1>1
  <2> QED
    BY <2>1, <2>2, <2>3, Zenon
<1> DEFINE Left(j) == ~Complete(turn[j].bytes) \/ Len(turn[j].bytes) <= N - j
           G == {j \in 0 .. N : Left(j) /\ \E k : Good(fs, w, k, turn[j])}
<1>9. 0 \in G
  BY <1>1, <1>8
<1>10. \A j \in 0 .. N - 1 : j \in G => j + 1 \in G
  <2> SUFFICES ASSUME NEW j \in 0 .. N - 1, j \in G PROVE j + 1 \in G
    OBVIOUS
  <2> DEFINE t == turn[j]
             u == turn[j + 1]
  <2>1. PICK k : Good(fs, w, k, t)
    OBVIOUS
  <2>2. Left(j) /\ j + 1 \in 0 .. N /\ j \in Nat
    BY <1>1
  <2>3. u = IF Complete(t.bytes) THEN Handle(t) ELSE t
    <3>1. j + 1 \in 1 .. N /\ (j + 1) - 1 = j
      BY <1>1
    <3> HIDE DEF N
    <3> QED
      BY <1>8, <3>1
  <2>4. CASE Complete(t.bytes)
    <3>1. Good(fs, w, k + 1, u) /\ Len(u.bytes) < Len(t.bytes) /\ Len(t.bytes) <= N - j
      BY <2>1, <2>2, <2>3, <2>4, Turn
    <3> HIDE DEF t, u, N
    <3>2. Len(t.bytes) \in Nat /\ Len(u.bytes) \in Nat
      <4>1. t \in State /\ u \in State
        BY <2>1, <3>1, Zenon DEF Good
      <4> QED
        BY <4>1 DEF State
    <3>3. Len(u.bytes) <= N - (j + 1)
      BY <1>1, <2>2, <3>1, <3>2
    <3> QED
      BY <2>2, <3>1, <3>3 DEF u
  <2>5. CASE ~Complete(t.bytes)
    <3>1. u = t
      BY <2>3, <2>5
    <3> HIDE DEF N
    <3> QED
      BY <2>1, <2>2, <2>5, <3>1
  <2> QED
    BY <2>4, <2>5
<1>11. \A j \in 0 .. N : j \in G
  <2> HIDE DEF G, N
  <2> QED
    BY <1>1, <1>9, <1>10, Induction
<1>12. Left(N) /\ \E k : Good(fs, w, k, turn[N])
  <2>1. N \in 0 .. N
    BY <1>1
  <2> HIDE DEF N, Left
  <2> QED
    BY <1>11, <2>1
<1>13. PICK k : Good(fs, w, k, turn[N])
  BY <1>12
<1>14. ~Complete(turn[N].bytes)
  <2> SUFFICES ASSUME Complete(turn[N].bytes) PROVE FALSE
    OBVIOUS
  <2>1. Len(turn[N].bytes) <= N - N /\ Len(turn[N].bytes) >= 2
    BY <1>12 DEF Complete
  <2>2. Len(turn[N].bytes) \in Nat
    BY <1>13 DEF Good, State
  <2> HIDE DEF N
  <2> QED
    BY <1>1, <2>1, <2>2
<1>15. Waits(fs, k, turn[N].bytes)
  BY <1>13, <1>14, Turn
<1>16. k \in 0 .. Len(fs)
  BY <1>13 DEF Good
<1> HIDE DEF N
<1> QED
  BY <1>7, <1>13, <1>15, <1>16 DEF Processed

-----------------------------------------------------------------------------
(* The invariant: until the answer to the upgrade is whole, everything     *)
(* lies unread in the buffer and on the wire; from then on what has been   *)
(* handed on and written is that of some first frames, and the buffer      *)
(* holds less than the next of them.                                       *)
Buffer == [bytes |-> bytes, received |-> received, written |-> written, closing |-> closing]

StreamType ==
  /\ sent \in Seq(Frames) /\ wire \in Seq(Nat)
  /\ Buffer \in State /\ switched \in BOOLEAN

StreamInv ==
  /\ StreamType
  /\ ~switched => /\ Len(bytes) < Len(Header) /\ bytes \o wire = Header \o Stream(sent)
                  /\ received = <<>> /\ written = <<>>
  /\ switched => Processed(sent, wire, Buffer)

LEMMA BufferParts ==
  ASSUME StreamType
  PROVE  /\ bytes \in Seq(Nat) /\ received \in Seq(Seq(Byte)) /\ written \in Seq(Nat)
         /\ closing \in BOOLEAN
BY DEF StreamType, State, Buffer

LEMMA HeaderBytes == Header \in Seq(Nat) /\ Len(Header) = 2
BY DEF Header

LEMMA InitStream == StreamInit => StreamInv
<1> SUFFICES ASSUME StreamInit PROVE StreamInv
  OBVIOUS
<1>1. /\ wire = Header /\ bytes = <<>> /\ switched = FALSE /\ closing = FALSE
      /\ sent = <<>> /\ received = <<>> /\ written = <<>>
  BY DEF StreamInit
<1>2. <<>> \o Header = Header /\ Header \o <<>> = Header
  BY HeaderBytes, ConcatEmptySeq
<1>3. StreamType
  <2>1. <<>> \in Seq(Nat) /\ <<>> \in Seq(Seq(Byte)) /\ <<>> \in Seq(Frames)
    OBVIOUS
  <2>2. Buffer = [bytes |-> <<>>, received |-> <<>>, written |-> <<>>, closing |-> FALSE]
    BY <1>1 DEF Buffer
  <2>3. Buffer \in State
    BY <2>1, <2>2 DEF State
  <2> QED
    BY <1>1, <2>1, <2>3, HeaderBytes DEF StreamType
<1>4. Len(bytes) < Len(Header)
  BY <1>1, HeaderBytes
<1>5. bytes \o wire = Header \o Stream(sent)
  BY <1>1, <1>2, NoFrames
<1> QED
  BY <1>1, <1>3, <1>4, <1>5 DEF StreamInv

(* A frame sent lies behind all that is on its way.                        *)
LEMMA SendKeeps ==
  ASSUME StreamInv, NEW f \in Frames, Send(f)
  PROVE  StreamInv'
<1> DEFINE e == Encoded(f)
<1>1. /\ sent \in Seq(Frames) /\ wire \in Seq(Nat) /\ bytes \in Seq(Nat)
      /\ switched \in BOOLEAN /\ Buffer \in State
  BY BufferParts DEF StreamInv, StreamType
<1>2. /\ sent' = Append(sent, f) /\ wire' = wire \o e /\ bytes' = bytes /\ switched' = switched
      /\ received' = received /\ written' = written /\ Buffer' = Buffer
  BY DEF Send, Buffer
<1>3. e \in Seq(Nat) /\ Len(e) \in Nat /\ Len(e) >= 2
  BY PieceTypes
<1>4. /\ Stream(sent) \in Seq(Nat) /\ Stream(sent') = Stream(sent) \o e
      /\ sent' \in Seq(Frames) /\ Len(sent') = Len(sent) + 1 /\ Len(sent) \in Nat
  BY <1>1, <1>2, FrameMore
<1> HIDE DEF e
<1>5. wire' \in Seq(Nat) /\ bytes \o wire \in Seq(Nat) /\ bytes \o wire' = (bytes \o wire) \o e
  BY <1>1, <1>2, <1>3, Regroup
<1>6. StreamType'
  BY <1>1, <1>2, <1>4, <1>5 DEF StreamType
<1>7. CASE ~switched
  <2>1. /\ Len(bytes) < Len(Header) /\ bytes \o wire = Header \o Stream(sent)
        /\ received = <<>> /\ written = <<>>
    BY <1>7 DEF StreamInv
  <2>2. bytes' \o wire' = Header \o Stream(sent')
    <3>1. (Header \o Stream(sent)) \o e = Header \o (Stream(sent) \o e)
      BY <1>3, <1>4, Regroup, HeaderBytes, Zenon
    <3> QED
      BY <1>2, <1>4, <1>5, <2>1, <3>1, Zenon
  <2> QED
    BY <1>2, <1>6, <1>7, <2>1, <2>2, HeaderBytes DEF StreamInv
<1>8. CASE switched
  <2>1. PICK k \in 0 .. Len(sent) : Good(sent, wire, k, Buffer) /\ Waits(sent, k, bytes)
    BY <1>8 DEF StreamInv, Processed, Buffer
  <2>2. First(sent', k) = First(sent, k) /\ First(sent, k) \in Seq(Frames)
    BY <1>1, <1>2, Fronts
  <2>3. Buffer.bytes = bytes
    BY DEF Buffer
  <2> DEFINE a == Stream(First(sent, k))
             x == bytes \o wire
  <2>4. a \in Seq(Nat) /\ x \in Seq(Nat) /\ Stream(sent) = a \o x
    BY <2>1, <2>2, <2>3, Joined DEF Good, Behind
  <2> HIDE DEF x
  <2>5. Stream(sent') = a \o (x \o e) /\ x \o e \in Seq(Nat)
    <3> HIDE DEF a
    <3>1. Stream(sent') = (a \o x) \o e
      BY <1>4, <2>4
    <3>2. (a \o x) \o e = a \o (x \o e) /\ x \o e \in Seq(Nat)
      BY <1>3, <2>4, Regroup, Zenon
    <3> QED
      BY <3>1, <3>2
  <2>6. Behind(sent', k, bytes \o wire')
    BY <1>5, <2>2, <2>5 DEF Behind, x
  <2>7. Good(sent', wire', k, Buffer)
    <3>1. k \in 0 .. Len(sent')
      BY <1>4
    <3>2. Buffer.received = Texts(First(sent, k)) /\ Buffer.written = Answers(First(sent, k))
      BY <2>1, Zenon DEF Good
    <3> QED
      BY <1>1, <1>5, <2>2, <2>3, <2>6, <3>1, <3>2, Zenon DEF Good
  <2>8. Waits(sent', k, bytes)
    <3>1. CASE k = Len(sent) /\ bytes = <<>>
      <4>1. sent'[k + 1] = f /\ k < Len(sent') /\ Len(bytes) = 0
        BY <1>1, <1>2, <1>4, <3>1
      <4> QED
        BY <1>3, <4>1 DEF Waits, e
    <3>2. CASE k < Len(sent) /\ Len(bytes) < Len(Encoded(sent[k + 1]))
      <4>1. sent'[k + 1] = sent[k + 1] /\ k < Len(sent')
        BY <1>1, <1>2, <1>4, <3>2
      <4> QED
        BY <3>2, <4>1 DEF Waits
    <3> QED
      BY <2>1, <3>1, <3>2 DEF Waits
  <2>9. Processed(sent', wire', Buffer)
    <3>1. k \in 0 .. Len(sent')
      BY <1>4
    <3> QED
      BY <2>3, <2>7, <2>8, <3>1, Zenon DEF Processed
  <2>10. Processed(sent, wire, Buffer)'
    BY <1>2, <2>9
  <2> QED
    BY <1>2, <1>6, <1>8, <2>10 DEF StreamInv
<1> QED
  BY <1>1, <1>7, <1>8

(* Bytes that come go from the front of the wire to the end of the buffer. *)
LEMMA BytesCome ==
  ASSUME NEW b \in Seq(Nat), NEW w \in Seq(Nat), NEW n \in 1 .. Len(w)
  PROVE  LET x == SubSeq(w, 1, n)
             y == SubSeq(w, n + 1, Len(w))
         IN /\ x \in Seq(Nat) /\ y \in Seq(Nat) /\ b \o x \in Seq(Nat)
            /\ (b \o x) \o y = b \o w
<1> DEFINE x == SubSeq(w, 1, n)
           y == SubSeq(w, n + 1, Len(w))
<1>1. x \in Seq(Nat) /\ y \in Seq(Nat)
  OBVIOUS
<1>2. x \o y = w
  OBVIOUS
<1> HIDE DEF x, y
<1>3. b \o x \in Seq(Nat) /\ (b \o x) \o y = b \o (x \o y)
  BY <1>1, Regroup, Zenon
<1> QED
  BY <1>1, <1>2, <1>3 DEF x, y

LEMMA AfterHeader ==
  ASSUME NEW b \in Seq(Nat), NEW w \in Seq(Nat), NEW x \in Seq(Nat),
         b \o w = Header \o x, Len(b) >= Len(Header)
  PROVE  /\ SubSeq(b, Len(Header) + 1, Len(b)) \in Seq(Nat)
         /\ SubSeq(b, Len(Header) + 1, Len(b)) \o w = x
<1>1. Cut(b, w, Header, x)
  BY HeaderBytes, CutFront
<1> QED
  BY <1>1, Zenon DEF Cut

LEMMA ReadKeeps ==
  ASSUME StreamInv, NEW n \in 1 .. Len(wire), SocketReadyRead(n)
  PROVE  StreamInv'
<1> DEFINE buf == bytes \o SubSeq(wire, 1, n)
           up  == switched \/ Len(buf) >= Len(Header)
           new == IF up /\ ~switched THEN SubSeq(buf, Len(Header) + 1, Len(buf)) ELSE buf
           t   == [bytes |-> new, received |-> received, written |-> written, closing |-> closing]
           s   == ProcessFrames(t)
<1>1. /\ sent \in Seq(Frames) /\ wire \in Seq(Nat) /\ bytes \in Seq(Nat)
      /\ received \in Seq(Seq(Byte)) /\ written \in Seq(Nat) /\ closing \in BOOLEAN
      /\ switched \in BOOLEAN
  BY BufferParts DEF StreamInv, StreamType
<1>2. /\ wire' = SubSeq(wire, n + 1, Len(wire)) /\ sent' = sent /\ switched' = up
      /\ up => /\ bytes' = s.bytes /\ received' = s.received
               /\ written' = s.written /\ closing' = s.closing
      /\ ~up => /\ bytes' = buf /\ received' = received
                /\ written' = written /\ closing' = closing
  BY Zenon DEF SocketReadyRead
<1>3. wire' \in Seq(Nat) /\ buf \in Seq(Nat) /\ buf \o wire' = bytes \o wire
  BY <1>1, <1>2, BytesCome
<1>4. Stream(sent) \in Seq(Nat)
  BY <1>1, Joined
<1> HIDE DEF buf
<1>5. CASE ~up
  <2>1. ~switched /\ Len(buf) < Len(Header)
    BY <1>3, <1>5, HeaderBytes
  <2>2. /\ bytes \o wire = Header \o Stream(sent) /\ received = <<>> /\ written = <<>>
    BY <2>1 DEF StreamInv
  <2>3. Buffer' = [bytes |-> buf, received |-> received, written |-> written, closing |-> closing]
    BY <1>2, <1>5 DEF Buffer
  <2>4. StreamType'
    BY <1>1, <1>2, <1>3, <2>1, <2>3 DEF StreamType, State
  <2> QED
    BY <1>2, <1>3, <1>5, <2>1, <2>2, <2>4, HeaderBytes DEF StreamInv
<1>6. CASE up
  <2>1. \E m : Good(sent, wire', m, t)
    <3>1. CASE switched
      <4>1. new = buf
        BY <3>1
      <4>2. PICK k : Good(sent, wire, k, Buffer)
        BY <3>1 DEF StreamInv, Processed
      <4>3. /\ k \in 0 .. Len(sent) /\ Behind(sent, k, bytes \o wire)
            /\ received = Texts(First(sent, k)) /\ written = Answers(First(sent, k))
        BY <4>2 DEF Good, Buffer
      <4>4. t \in State
        BY <1>1, <1>3, <4>1 DEF State
      <4>5. Good(sent, wire', k, t)
        BY <1>3, <4>1, <4>3, <4>4 DEF Good
      <4> QED
        BY <4>5
    <3>2. CASE ~switched
      <4>1. /\ bytes \o wire = Header \o Stream(sent) /\ received = <<>> /\ written = <<>>
        BY <3>2 DEF StreamInv
      <4>2. new = SubSeq(buf, Len(Header) + 1, Len(buf)) /\ Len(buf) >= Len(Header)
        BY <1>6, <3>2
      <4>3. new \in Seq(Nat) /\ new \o wire' = Stream(sent)
        <5>1. buf \o wire' = Header \o Stream(sent)
          BY <1>3, <4>1
        <5> QED
          BY <1>3, <1>4, <4>2, <5>1, AfterHeader
      <4>4. t \in State
        BY <1>1, <4>3 DEF State
      <4>5. First(sent, 0) = <<>> /\ <<>> \o Stream(sent) = Stream(sent)
        BY <1>1, <1>4, Fronts, ConcatEmptySeq
      <4>6. Behind(sent, 0, new \o wire')
        BY <1>4, <4>3, <4>5, NoFrames DEF Behind
      <4>7. 0 \in 0 .. Len(sent)
        BY <1>1
      <4> HIDE DEF new
      <4>8. Good(sent, wire', 0, t)
        BY <1>3, <4>1, <4>4, <4>5, <4>6, <4>7, NoFrames DEF Good
      <4> QED
        BY <4>8
    <3> QED
      BY <1>1, <3>1, <3>2
  <2> HIDE DEF t
  <2>2. Processed(sent, wire', s)
    BY <1>1, <2>1, LoopIsDone
  <2>3. PICK k \in 0 .. Len(sent) : Good(sent, wire', k, s) /\ Waits(sent, k, s.bytes)
    BY <2>2, Zenon DEF Processed
  <2>4. s \in State
    BY <2>3, Zenon DEF Good
  <2> HIDE DEF s
  <2>5. Buffer' = s
    <3>1. s = [bytes |-> s.bytes, received |-> s.received, written |-> s.written, closing |-> s.closing]
      BY <2>4 DEF State
    <3> QED
      BY <1>2, <1>6, <3>1 DEF Buffer
  <2>6. StreamType'
    BY <1>1, <1>2, <1>3, <1>6, <2>4, <2>5 DEF StreamType
  <2>7. Processed(sent, wire, Buffer)'
    BY <1>2, <2>2, <2>5
  <2> HIDE DEF up
  <2> QED
    BY <1>2, <1>6, <2>6, <2>7 DEF StreamInv
<1> HIDE DEF up
<1> QED
  BY <1>5, <1>6

LEMMA IdleStream ==
  ASSUME StreamInv, UNCHANGED streamVars
  PROVE  StreamInv'
<1>1. /\ wire' = wire /\ bytes' = bytes /\ switched' = switched /\ sent' = sent
      /\ received' = received /\ written' = written /\ closing' = closing
  BY DEF streamVars
<1>2. Buffer' = Buffer
  BY <1>1 DEF Buffer
<1>3. StreamType'
  BY <1>1, <1>2 DEF StreamInv, StreamType
<1>4. switched => Processed(sent, wire, Buffer)'
  BY <1>1, <1>2 DEF StreamInv
<1> QED
  BY <1>1, <1>3, <1>4 DEF StreamInv

(* The buffer and the wire always hold the frames that have not been       *)
(* handled.                                                                *)
THEOREM StreamKept == StreamSpec => []StreamInv
<1>1. ASSUME StreamInv, [StreamNext]_streamVars PROVE StreamInv'
  <2>1. CASE \E f \in Frames : Send(f)
    BY <1>1, <2>1, SendKeeps
  <2>2. CASE \E n \in 1 .. Len(wire) : SocketReadyRead(n)
    BY <1>1, <2>2, ReadKeeps
  <2>3. CASE UNCHANGED streamVars
    BY <1>1, <2>3, IdleStream
  <2> QED
    BY <1>1, <2>1, <2>2, <2>3 DEF StreamNext
<1> QED
  BY <1>1, InitStream, PTL DEF StreamSpec

-----------------------------------------------------------------------------
(* What the invariant says of the frames that have arrived whole.          *)

(* The first frames have no more bytes than the first and some more.       *)
LEMMA FirstIsShorter ==
  ASSUME NEW fs \in Seq(Frames), NEW j \in 0 .. Len(fs), NEW i \in 0 .. j
  PROVE  /\ Len(Stream(First(fs, i))) \in Nat
         /\ Len(Stream(First(fs, i))) <= Len(Stream(First(fs, j)))
<1> DEFINE h == First(fs, j)
<1>1. i \in 0 .. Len(fs) /\ Len(fs) \in Nat
  OBVIOUS
<1>2. h \in Seq(Frames) /\ Len(h) = j
  BY Fronts
<1>3. First(h, i) = First(fs, i)
  BY DEF First
<1> HIDE DEF h
<1>4. PICK y : y \in Seq(Nat) /\ Stream(h) = Stream(First(fs, i)) \o y
  BY <1>2, <1>3, FrontIsFirst DEF Behind
<1>5. First(fs, i) \in Seq(Frames)
  BY <1>1, Fronts
<1>6. Stream(First(fs, i)) \in Seq(Nat)
  BY <1>5, Joined
<1> QED
  BY <1>4, <1>6, ConcatProperties DEF h

(* The frames that have arrived are those that have been handled.          *)
LEMMA ArrivedAreFirst ==
  ASSUME NEW k \in 0 .. Len(sent), sent \in Seq(Frames), NEW read \in Nat,
         read = Len(Header) + Len(Stream(sent)) - Len(wire),
         k > 0 => Len(Header) + Len(Stream(First(sent, k))) <= read,
         k < Len(sent) => read < Len(Header) + Len(Stream(First(sent, k + 1)))
  PROVE  Arrived = First(sent, k)
<1> DEFINE Size(i) == Len(Stream(First(sent, i)))
           whole == {i \in 1 .. Len(sent) : Len(Header) + Size(i) <= read}
<1>1. \A j \in 0 .. Len(sent) : \A i \in 0 .. j : Size(i) \in Nat /\ Size(i) <= Size(j)
  BY FirstIsShorter
<1>2. Len(sent) \in Nat /\ Len(Header) = 2
  BY HeaderBytes
<1> HIDE DEF Size
<1>3. ASSUME NEW i \in 1 .. Len(sent), i <= k PROVE Len(Header) + Size(i) <= read
  <2>1. Size(i) \in Nat /\ Size(k) \in Nat /\ Size(i) <= Size(k)
    BY <1>1, <1>2, <1>3
  <2>2. Len(Header) + Size(k) <= read
    BY <1>3 DEF Size
  <2> QED
    BY <1>2, <2>1, <2>2
<1>4. ASSUME NEW i \in 1 .. Len(sent), i > k PROVE ~(Len(Header) + Size(i) <= read)
  <2>1. k + 1 \in 0 .. i /\ i \in 0 .. i /\ i \in 0 .. Len(sent) /\ k < Len(sent)
    BY <1>2, <1>4
  <2>2. Size(k + 1) \in Nat /\ Size(i) \in Nat /\ Size(k + 1) <= Size(i)
    BY <1>1, <2>1
  <2>3. read < Len(Header) + Size(k + 1)
    BY <2>1 DEF Size
  <2> QED
    BY <1>2, <2>2, <2>3
<1>5. whole = 1 .. k
  <2>1. \A i \in 1 .. Len(sent) : i \in whole <=> i <= k
    BY <1>2, <1>3, <1>4
  <2> QED
    BY <1>2, <2>1
<1>6. Cardinality(1 .. k) = k
  BY <1>2, FS_Interval
<1>7. Arrived = SubSeq(sent, 1, Cardinality(whole))
  BY Zenon DEF Arrived, Size, First
<1> QED
  BY <1>5, <1>6, <1>7 DEF First

(* Texts and answers are those of the frames that have arrived.            *)
LEMMA AllHandled ==
  ASSUME StreamInv
  PROVE  received = Texts(Arrived) /\ written = Answers(Arrived)
<1>1. /\ sent \in Seq(Frames) /\ wire \in Seq(Nat) /\ bytes \in Seq(Nat)
      /\ switched \in BOOLEAN /\ Stream(sent) \in Seq(Nat)
      /\ Len(wire) \in Nat /\ Len(bytes) \in Nat /\ Len(sent) \in Nat
      /\ Len(Stream(sent)) \in Nat
  <2>1. sent \in Seq(Frames) /\ wire \in Seq(Nat) /\ bytes \in Seq(Nat) /\ switched \in BOOLEAN
    BY BufferParts DEF StreamInv, StreamType
  <2>2. Stream(sent) \in Seq(Nat)
    BY <2>1, Joined
  <2> QED
    BY <2>1, <2>2
<1> DEFINE read == Len(Header) + Len(Stream(sent)) - Len(wire)
<1>2. CASE ~switched
  <2>1. /\ Len(bytes) < Len(Header) /\ bytes \o wire = Header \o Stream(sent)
        /\ received = <<>> /\ written = <<>>
    BY <1>2 DEF StreamInv
  <2>2. Len(bytes) + Len(wire) = Len(Header) + Len(Stream(sent))
    <3>1. Len(bytes \o wire) = Len(bytes) + Len(wire)
      BY <1>1, ConcatProperties
    <3>2. Len(Header \o Stream(sent)) = Len(Header) + Len(Stream(sent))
      BY <1>1, HeaderBytes, ConcatProperties
    <3> QED
      BY <2>1, <3>1, <3>2
  <2>3. read = Len(bytes)
    BY <1>1, <2>2, HeaderBytes
  <2>4. ASSUME 0 < Len(sent) PROVE read < Len(Header) + Len(Stream(First(sent, 0 + 1)))
    <3>1. Len(Stream(First(sent, 1))) \in Nat
      BY <1>1, <2>4, FirstIsShorter
    <3> HIDE DEF read
    <3> QED
      BY <1>1, <2>1, <2>3, <3>1, HeaderBytes
  <2>5. read \in Nat /\ 0 \in 0 .. Len(sent) /\ ~(0 > 0)
    BY <1>1, <2>3
  <2>6. Arrived = First(sent, 0)
    BY <1>1, <2>4, <2>5, ArrivedAreFirst
  <2>7. First(sent, 0) = <<>>
    BY <1>1, Fronts
  <2> QED
    BY <2>1, <2>6, <2>7, NoFrames
<1>3. CASE switched
  <2>1. PICK k \in 0 .. Len(sent) : Good(sent, wire, k, Buffer) /\ Waits(sent, k, bytes)
    BY <1>3 DEF StreamInv, Processed, Buffer
  <2> DEFINE a == Stream(First(sent, k))
  <2>2. /\ Stream(sent) = a \o (bytes \o wire)
        /\ received = Texts(First(sent, k)) /\ written = Answers(First(sent, k))
    BY <2>1 DEF Good, Behind, Buffer
  <2>3. a \in Seq(Nat) /\ Len(a) \in Nat
    <3>1. First(sent, k) \in Seq(Frames)
      BY <1>1, Fronts
    <3>2. a \in Seq(Nat)
      BY <3>1, Joined
    <3> HIDE DEF a
    <3> QED
      BY <3>2
  <2> HIDE DEF a
  <2>4. Len(Stream(sent)) = Len(a) + Len(bytes) + Len(wire)
    <3>1. bytes \o wire \in Seq(Nat) /\ Len(bytes \o wire) = Len(bytes) + Len(wire)
      BY <1>1, ConcatProperties
    <3>2. Len(a \o (bytes \o wire)) = Len(a) + Len(bytes \o wire)
      BY <2>3, <3>1, ConcatProperties
    <3> QED
      BY <1>1, <2>2, <2>3, <3>1, <3>2
  <2>5. read = 2 + Len(a) + Len(bytes) /\ read \in Nat
    BY <1>1, <2>3, <2>4, HeaderBytes
  <2>6. ASSUME k > 0 PROVE Len(Header) + Len(Stream(First(sent, k))) <= read
    <3> HIDE DEF read
    <3> QED
      BY <1>1, <2>3, <2>5, HeaderBytes DEF a
  <2>7. ASSUME k < Len(sent) PROVE read < Len(Header) + Len(Stream(First(sent, k + 1)))
    <3> DEFINE e == Encoded(sent[k + 1])
    <3>1. k \in 0 .. Len(sent) - 1
      BY <1>1, <2>7
    <3>2. FrontStep(sent, k)
      BY <1>1, <3>1, FrontGrows
    <3>3. e \in Seq(Nat) /\ Len(e) \in Nat /\ Stream(First(sent, k + 1)) = a \o e
      BY <3>2, PieceTypes DEF FrontStep, a
    <3>4. Len(bytes) < Len(e)
      BY <1>1, <2>1, <2>7 DEF Waits
    <3> HIDE DEF e, read
    <3>5. Len(Stream(First(sent, k + 1))) = Len(a) + Len(e)
      BY <2>3, <3>3, ConcatProperties
    <3> QED
      BY <1>1, <2>3, <2>5, <3>3, <3>4, <3>5, HeaderBytes
  <2>8. Arrived = First(sent, k)
    <3> HIDE DEF a
    <3> QED
      BY <1>1, <2>5, <2>6, <2>7, ArrivedAreFirst
  <2> QED
    BY <2>2, <2>8
<1> QED
  BY <1>1, <1>2, <1>3

(* Whatever the server sends, however it is cut: every text that has       *)
(* arrived whole has been handed on, once, in order and to the letter.     *)
THEOREM TextsCorrect == StreamSpec => []TextsArriveWhole
<1>1. StreamInv => TextsArriveWhole
  BY AllHandled DEF TextsArriveWhole, Texts
<1> QED
  BY <1>1, StreamKept, PTL

(* And every ping and close frame has been answered by a frame the server  *)
(* decodes, with the ping's payload.                                       *)
THEOREM AnswersCorrect == StreamSpec => []PingsAreAnswered
<1>1. StreamInv => PingsAreAnswered
  BY AllHandled DEF PingsAreAnswered, Answers
<1> QED
  BY <1>1, StreamKept, PTL

==============================================================================
