----------------------------- MODULE CodecProofs -----------------------------
(***************************************************************************)
(* The receiving half of a connection, proofs about module Codec for every *)
(* script, every chunk configuration that SocketOptions::read_buffer       *)
(* accepts and every width of a word and of the length fields: what the    *)
(* encoder writes is read back (numbers, frames, greetings, commands with  *)
(* their properties), a buffer's length is never misjudged, and however    *)
(* the bytes are chopped the reader yields exactly the items that were     *)
(* sent.                                                                   *)
(*                                                                         *)
(* What a recursive definition computes is proved by the least             *)
(* counterexample: a set of numbers that is not empty has a least element  *)
(* (WFMin of WellFoundedInduction).                                        *)
(***************************************************************************)
EXTENDS Codec, FiniteSetTheorems, TLAPS

-----------------------------------------------------------------------------
(* Numbers and sequences *)

\* Induction: a set of numbers that is not empty has a least one.
LEMMA LeastNumber ==
  ASSUME NEW T, T \subseteq Nat, T # {}
  PROVE  \E x \in T : \A y \in T : x <= y
<1>1. PICK x \in T : \A y \in T : ~(<<y, x>> \in OpToRel(<, Nat))
  BY WFMin, NatLessThanWellFounded, Zenon
<1>2. ASSUME NEW y \in T PROVE x <= y
  <2>1. ~(<<y, x>> \in OpToRel(<, Nat))
    BY <1>1, Zenon
  <2>2. ~(y < x)
    BY <2>1 DEF OpToRel
  <2> QED BY <2>2
<1> QED BY <1>2

\* The sequence t is p followed by q.
Joins(t, p, q) ==
  /\ Len(p) \in Nat /\ Len(q) \in Nat /\ Len(t) = Len(p) + Len(q)
  /\ \A i \in 1..Len(p) : t[i] = p[i]
  /\ \A i \in 1..Len(q) : t[Len(p) + i] = q[i]

\* What a concatenation holds, and where.
LEMMA Concat ==
  ASSUME NEW S, NEW p \in Seq(S), NEW q \in Seq(S), NEW t, t = p \o q
  PROVE  t \in Seq(S) /\ Joins(t, p, q)
<1>1. t \in Seq(S) /\ Len(p) \in Nat /\ Len(q) \in Nat /\ Len(t) = Len(p) + Len(q)
  OBVIOUS
<1>2. \A i \in 1..Len(p) : t[i] = p[i]
  BY <1>1
<1>3. ASSUME NEW i \in 1..Len(q) PROVE t[Len(p) + i] = q[i]
  <2>1. Len(p) + i \in 1..(Len(p) + Len(q)) /\ Len(p) + i > Len(p) /\ (Len(p) + i) - Len(p) = i
    BY <1>1
  <2> QED BY <1>1, <2>1
<1> QED BY <1>1, <1>2, <1>3 DEF Joins

\* Sequences with the same elements are the same.
LEMMA SameSequence ==
  ASSUME NEW S, NEW p \in Seq(S), NEW q \in Seq(S), Len(p) = Len(q),
         \A i \in 1..Len(p) : p[i] = q[i]
  PROVE  p = q
OBVIOUS

\* A part of a sequence.
LEMMA PartIs ==
  ASSUME NEW S, NEW t \in Seq(S), NEW x \in Seq(S), NEW m \in Nat,
         m + Len(x) <= Len(t), \A i \in 1..Len(x) : t[m + i] = x[i]
  PROVE  SubSeq(t, m + 1, m + Len(x)) = x
<1>1. PICK u : u = SubSeq(t, m + 1, m + Len(x))
  OBVIOUS
<1>2. Len(x) \in Nat /\ Len(t) \in Nat
  OBVIOUS
<1>3. /\ u \in Seq(S) /\ Len(u) = Len(x)
      /\ \A i \in 1..Len(x) : u[i] = t[m + i]
  BY <1>1, <1>2
<1>4. u = x
  BY <1>2, <1>3
<1> QED BY <1>1, <1>4

\* The order in which three sequences are put together.
Associates(S) == \A a, b, c \in Seq(S) : (a \o b) \o c = a \o (b \o c)

\* The encoder may put the parts of a frame together in any order.
LEMMA ConcatAssociates ==
  ASSUME NEW S
  PROVE  Associates(S)
<1> SUFFICES ASSUME NEW a \in Seq(S), NEW b \in Seq(S), NEW c \in Seq(S)
             PROVE  (a \o b) \o c = a \o (b \o c)
  BY DEF Associates
<1>2. PICK u, v : u = a \o b /\ v = b \o c
  OBVIOUS
<1>1. PICK p, q : p = u \o c /\ q = a \o v
  OBVIOUS
<1>3. u \in Seq(S) /\ Joins(u, a, b) /\ v \in Seq(S) /\ Joins(v, b, c)
  BY <1>2, Concat, Zenon
<1>4. p \in Seq(S) /\ Joins(p, u, c) /\ q \in Seq(S) /\ Joins(q, a, v)
  BY <1>1, <1>3, Concat, Zenon
<1>5. Len(p) = Len(a) + Len(b) + Len(c) /\ Len(q) = Len(p)
  BY <1>3, <1>4 DEF Joins
<1>6. ASSUME NEW i \in 1..Len(p) PROVE p[i] = q[i]
  <2>1. CASE i <= Len(a)
    BY <1>3, <1>4, <1>5, <2>1 DEF Joins
  <2>2. CASE i > Len(a) /\ i <= Len(a) + Len(b)
    <3>1. PICK j : j = i - Len(a)
      OBVIOUS
    <3>2. j \in 1..Len(b) /\ i = Len(a) + j
      BY <1>3, <2>2, <3>1 DEF Joins
    <3>3. p[i] = b[j]
      <4>1. i \in 1..Len(u)
        BY <1>3, <2>2, <3>2 DEF Joins
      <4>2. p[i] = u[i]
        BY <1>4, <4>1 DEF Joins
      <4>3. u[i] = b[j]
        BY <1>3, <3>2 DEF Joins
      <4> QED BY <4>2, <4>3
    <3>4. q[i] = b[j]
      BY <1>3, <1>4, <3>2 DEF Joins
    <3> QED BY <3>3, <3>4
  <2>3. CASE i > Len(a) + Len(b)
    <3>1. PICK j : j = i - (Len(a) + Len(b))
      OBVIOUS
    <3>2. j \in 1..Len(c) /\ i = Len(u) + j /\ i = Len(a) + (Len(b) + j) /\ Len(b) + j \in 1..Len(v)
      BY <1>3, <1>4, <1>5, <2>3, <3>1 DEF Joins
    <3>3. p[i] = c[j]
      BY <1>4, <3>2 DEF Joins
    <3>4. q[i] = c[j]
      BY <1>3, <1>4, <3>2 DEF Joins
    <3> QED BY <3>3, <3>4
  <2> QED
    <3>1. i \in Nat /\ Len(a) \in Nat /\ Len(b) \in Nat
      BY <1>3 DEF Joins
    <3> QED BY <2>1, <2>2, <2>3, <3>1
<1>7. p = q
  BY <1>4, <1>5, <1>6, SameSequence
<1> QED BY <1>1, <1>2, <1>7

-----------------------------------------------------------------------------
(* What recursive definitions compute *)

\* The sequences of q, put together one by one.
LEMMA FlattenFolds ==
  ASSUME NEW S, NEW q \in Seq(Seq(S)), Len(q) >= 1
  PROVE  \E f \in [1..Len(q) -> Seq(S)] :
           /\ f[1] = q[1] /\ FlattenSeq(q) = f[Len(q)]
           /\ \A i \in 2..Len(q) : f[i] = f[i - 1] \o q[i]
<1> DEFINE G(f, m) == f = [i \in 1..m |-> IF i = 1 THEN q[i] ELSE f[i - 1] \o q[i]]
<1>1. Len(q) \in Nat
  OBVIOUS
<1>2. \A m \in 0..Len(q) : \E f : G(f, m)
  <2> HIDE DEF G
  <2> DEFINE T == {m \in 0..Len(q) : ~\E f : G(f, m)}
  <2> SUFFICES ASSUME T # {} PROVE FALSE
    OBVIOUS
  <2>1. PICK m \in T : \A y \in T : m <= y
    <3>1. T \subseteq Nat
      BY <1>1
    <3> HIDE DEF T
    <3> QED BY <3>1, LeastNumber
  <2>2. m # 0
    <3> DEFINE e == [i \in 1..0 |-> q[i]]
    <3>1. G(e, 0)
      BY DEF G
    <3> QED BY <3>1
  <2>3. m - 1 \in 0..Len(q) /\ m - 1 \notin T
    <3>1. m \in 0..Len(q)
      BY <2>1
    <3>2. m - 1 \in 0..Len(q) /\ ~(m <= m - 1)
      BY <1>1, <2>2, <3>1
    <3> QED BY <2>1, <3>2
  <2>4. PICK f : G(f, m - 1)
    BY <2>3
  <2> DEFINE g == [i \in 1..m |-> IF i < m THEN f[i]
                                  ELSE IF m = 1 THEN q[m] ELSE f[m - 1] \o q[m]]
  <2>5. G(g, m)
    <3>1. ASSUME NEW i \in 1..m PROVE g[i] = IF i = 1 THEN q[i] ELSE g[i - 1] \o q[i]
      <4>1. CASE i < m
        <5>1. i \in 1..(m - 1) /\ g[i] = f[i]
          BY <2>3, <4>1
        <5>2. f[i] = IF i = 1 THEN q[i] ELSE f[i - 1] \o q[i]
          BY <2>4, <5>1 DEF G
        <5>3. i # 1 => g[i - 1] = f[i - 1]
          BY <2>3, <4>1
        <5> QED BY <5>1, <5>2, <5>3
      <4>2. CASE i = m
        <5>1. i # 1 => g[i - 1] = f[i - 1]
          BY <2>3, <4>2
        <5> QED BY <4>2, <5>1
      <4> QED BY <2>3, <4>1, <4>2
    <3> QED BY <3>1 DEF G
  <2> QED BY <2>1, <2>5
<1> DEFINE fl == CHOOSE f : G(f, Len(q))
<1>3. G(fl, Len(q))
  <2> HIDE DEF G
  <2>1. \E f : G(f, Len(q))
    BY <1>1, <1>2
  <2> QED BY <2>1
<1>4. FlattenSeq(q) = fl[Len(q)]
  <2>1. Len(q) # 0
    BY <1>1
  <2> QED BY <2>1 DEF FlattenSeq
<1> HIDE DEF fl
<1>5. /\ DOMAIN fl = 1..Len(q) /\ fl[1] = q[1]
      /\ \A i \in 2..Len(q) : fl[i] = fl[i - 1] \o q[i]
  <2>1. DOMAIN fl = 1..Len(q)
    BY <1>3
  <2>2. ASSUME NEW i \in 1..Len(q) PROVE fl[i] = IF i = 1 THEN q[i] ELSE fl[i - 1] \o q[i]
    BY <1>3, <2>2
  <2>3. 1 \in 1..Len(q)
    BY <1>1
  <2>4. ASSUME NEW i \in 2..Len(q) PROVE fl[i] = fl[i - 1] \o q[i]
    <3>1. i \in 1..Len(q) /\ i # 1
      BY <1>1
    <3> QED BY <2>2, <3>1
  <2> QED BY <2>1, <2>2, <2>3, <2>4
<1>6. ASSUME NEW i \in 1..Len(q) PROVE fl[i] \in Seq(S)
  <2> DEFINE T == {m \in 1..Len(q) : fl[m] \notin Seq(S)}
  <2> SUFFICES ASSUME T # {} PROVE FALSE
    OBVIOUS
  <2>1. PICK m \in T : \A y \in T : m <= y
    <3>1. T \subseteq Nat
      BY <1>1
    <3> HIDE DEF T
    <3> QED BY <3>1, LeastNumber
  <2>2. m # 1
    BY <1>1, <1>5, <2>1
  <2>3. m - 1 \in 1..Len(q) /\ m - 1 \notin T /\ m \in 2..Len(q)
    BY <1>1, <2>1, <2>2
  <2>4. fl[m - 1] \in Seq(S) /\ q[m] \in Seq(S)
    BY <1>1, <2>3
  <2>5. fl[m] = fl[m - 1] \o q[m]
    BY <1>5, <2>3
  <2>6. fl[m] \in Seq(S)
    BY <2>4, <2>5
  <2> QED BY <2>1, <2>6
<1>7. fl = [i \in 1..Len(q) |-> fl[i]]
  BY <1>3
<1>8. fl \in [1..Len(q) -> Seq(S)]
  BY <1>6, <1>7
<1> QED BY <1>4, <1>5, <1>8

\* Sequences put together are a sequence (the bytes of a message's frames).
LEMMA FlattenType ==
  ASSUME NEW S, NEW q \in Seq(Seq(S))
  PROVE  FlattenSeq(q) \in Seq(S)
<1>1. CASE Len(q) = 0
  <2>1. FlattenSeq(q) = q
    BY <1>1 DEF FlattenSeq
  <2>2. q = <<>>
    BY <1>1
  <2> QED BY <2>1, <2>2
<1>2. CASE Len(q) >= 1
  <2>1. PICK f \in [1..Len(q) -> Seq(S)] : FlattenSeq(q) = f[Len(q)]
    BY <1>2, FlattenFolds
  <2> QED BY <1>2, <2>1
<1> QED BY <1>1, <1>2

\* The first of the sequences comes first.
LEMMA FlattenFirst ==
  ASSUME NEW S, NEW q \in Seq(Seq(S)), NEW p \in Seq(Seq(S)),
         Len(q) = Len(p) + 1, \A i \in 1..Len(p) : p[i] = q[i + 1]
  PROVE  FlattenSeq(q) = q[1] \o FlattenSeq(p)
<1>1. Len(q) \in Nat /\ Len(p) \in Nat /\ Len(q) >= 1 /\ q[1] \in Seq(S)
  OBVIOUS
<1>2. PICK f \in [1..Len(q) -> Seq(S)] :
        /\ f[1] = q[1] /\ FlattenSeq(q) = f[Len(q)]
        /\ \A i \in 2..Len(q) : f[i] = f[i - 1] \o q[i]
  BY <1>1, FlattenFolds
<1>3. CASE Len(p) = 0
  <2>1. FlattenSeq(p) = p /\ p = <<>> /\ Len(q) = 1
    BY <1>1, <1>3 DEF FlattenSeq
  <2>2. q[1] \o <<>> = q[1]
    BY <1>1
  <2> QED BY <1>2, <2>1, <2>2
<1>4. CASE Len(p) >= 1
  <2>1. PICK g \in [1..Len(p) -> Seq(S)] :
          /\ g[1] = p[1] /\ FlattenSeq(p) = g[Len(p)]
          /\ \A i \in 2..Len(p) : g[i] = g[i - 1] \o p[i]
    BY <1>4, FlattenFolds
  <2>2. \A i \in 1..Len(p) : f[i + 1] = q[1] \o g[i]
    <3> DEFINE T == {i \in 1..Len(p) : f[i + 1] # q[1] \o g[i]}
    <3> SUFFICES ASSUME T # {} PROVE FALSE
      OBVIOUS
    <3>1. PICK m \in T : \A y \in T : m <= y
      <4>1. T \subseteq Nat
        BY <1>1
      <4> HIDE DEF T
      <4> QED BY <4>1, LeastNumber
    <3>2. m \in 1..Len(p) /\ f[m + 1] # q[1] \o g[m]
      BY <3>1
    <3>3. m + 1 \in 2..Len(q) /\ (m + 1) - 1 = m /\ p[m] = q[m + 1] /\ p[m] \in Seq(S)
      BY <1>1, <3>2
    <3>4. f[m + 1] = f[m] \o p[m]
      BY <1>2, <3>3
    <3>5. m # 1
      BY <1>2, <2>1, <3>2, <3>4
    <3>6. m - 1 \in 1..Len(p) /\ ~(m <= m - 1) /\ m \in 2..Len(p) /\ (m - 1) + 1 = m
      <4>1. Len(p) \in Nat /\ m \in 1..Len(p)
        BY <1>1, <3>2
      <4> HIDE DEF T
      <4>2. ASSUME NEW n \in Nat, NEW k \in 1..n, k # 1
            PROVE  k - 1 \in 1..n /\ ~(k <= k - 1) /\ k \in 2..n /\ (k - 1) + 1 = k
        BY <4>2
      <4> QED BY <3>5, <4>1, <4>2, Zenon
    <3>7. f[m] = q[1] \o g[m - 1]
      BY <3>1, <3>6
    <3>8. g[m] = g[m - 1] \o p[m] /\ g[m - 1] \in Seq(S)
      BY <2>1, <3>6
    <3>9. f[m + 1] = q[1] \o g[m]
      <4> HIDE DEF T
      <4>1. q[1] \in Seq(S) /\ g[m - 1] \in Seq(S) /\ p[m] \in Seq(S)
        BY <1>1, <3>3, <3>8
      <4>2. Associates(S)
        BY ConcatAssociates, Zenon
      <4>3. (q[1] \o g[m - 1]) \o p[m] = q[1] \o (g[m - 1] \o p[m])
        BY <4>1, <4>2, Zenon DEF Associates
      <4> QED BY <3>4, <3>7, <3>8, <4>3, Zenon
    <3> QED BY <3>2, <3>9
  <2>3. f[Len(p) + 1] = q[1] \o g[Len(p)]
    <3>1. Len(p) \in 1..Len(p)
      BY <1>1, <1>4
    <3> QED BY <2>2, <3>1
  <2> QED BY <1>2, <2>1, <2>3, Zenon
<1> QED BY <1>1, <1>3, <1>4

\* A number is its quotient and its rest.
LEMMA DivisionWithRest ==
  ASSUME NEW x \in Nat, NEW y \in Nat, y > 0
  PROVE  (x \div y) * y + (x % y) = x
OBVIOUS

\* A byte has a value.
LEMMA BaseIsPositive == Base \in Nat /\ Base >= 8 /\ Base > 0
BY BaseAssumption

\* The quotients of a number by the powers of Base.
LEMMA ShiftedIs ==
  ASSUME NEW n \in Nat, NEW w \in Nat
  PROVE  /\ Shifted(n, w) \in [0..w -> Nat] /\ Shifted(n, w)[0] = n
         /\ \A m \in 1..w : Shifted(n, w)[m] = Shifted(n, w)[m - 1] \div Base
<1> DEFINE G(f, k) == f = [m \in 0..k |-> IF m = 0 THEN n ELSE f[m - 1] \div Base]
<1>1. \A k \in 0..w : \E f : G(f, k)
  <2> HIDE DEF G
  <2> DEFINE T == {k \in 0..w : ~\E f : G(f, k)}
  <2> SUFFICES ASSUME T # {} PROVE FALSE
    OBVIOUS
  <2>1. PICK k \in T : \A y \in T : k <= y
    <3>1. T \subseteq Nat
      OBVIOUS
    <3> HIDE DEF T
    <3> QED BY <3>1, LeastNumber
  <2>2. k # 0
    <3> DEFINE e == [m \in 0..0 |-> n]
    <3>1. G(e, 0)
      BY DEF G
    <3> QED BY <3>1
  <2>3. k - 1 \in 0..w /\ k - 1 \notin T /\ k \in 0..w
    <3>1. k \in 0..w
      BY <2>1
    <3>2. k - 1 \in 0..w /\ ~(k <= k - 1)
      BY <2>2, <3>1
    <3> QED BY <2>1, <3>1, <3>2
  <2>4. PICK f : G(f, k - 1)
    BY <2>3
  <2> DEFINE g == [m \in 0..k |-> IF m < k THEN f[m] ELSE f[k - 1] \div Base]
  <2>5. G(g, k)
    <3>1. ASSUME NEW m \in 0..k PROVE g[m] = IF m = 0 THEN n ELSE g[m - 1] \div Base
      <4>1. CASE m < k
        <5>1. m \in 0..(k - 1) /\ g[m] = f[m]
          BY <2>3, <4>1
        <5>2. f[m] = IF m = 0 THEN n ELSE f[m - 1] \div Base
          BY <2>4, <5>1 DEF G
        <5>3. m # 0 => g[m - 1] = f[m - 1]
          BY <2>3, <4>1
        <5> QED BY <5>1, <5>2, <5>3
      <4>2. CASE m = k
        <5>1. g[m - 1] = f[m - 1] /\ m # 0
          BY <2>2, <2>3, <4>2
        <5> QED BY <4>2, <5>1
      <4> QED BY <2>3, <4>1, <4>2
    <3> QED BY <3>1 DEF G
  <2> QED BY <2>1, <2>5
<1> DEFINE h == CHOOSE f : G(f, w)
<1>2. G(h, w)
  <2> HIDE DEF G
  <2>1. \E f : G(f, w)
    BY <1>1
  <2> QED BY <2>1
<1>3. Shifted(n, w) = h
  BY DEF Shifted
<1> HIDE DEF h
<1>4. /\ h = [m \in 0..w |-> h[m]] /\ h[0] = n
      /\ \A m \in 1..w : h[m] = h[m - 1] \div Base
  <2>1. h = [m \in 0..w |-> h[m]]
    BY <1>2
  <2>2. ASSUME NEW m \in 0..w PROVE h[m] = IF m = 0 THEN n ELSE h[m - 1] \div Base
    BY <1>2, <2>2
  <2>3. ASSUME NEW m \in 1..w PROVE h[m] = h[m - 1] \div Base
    <3>1. m \in 0..w /\ m # 0
      OBVIOUS
    <3> QED BY <2>2, <3>1
  <2>4. h[0] = n
    <3>1. 0 \in 0..w
      OBVIOUS
    <3> QED BY <2>2, <3>1
  <2> QED BY <2>1, <2>3, <2>4
<1>5. \A m \in 0..w : h[m] \in Nat
  <2> DEFINE T == {m \in 0..w : h[m] \notin Nat}
  <2> SUFFICES ASSUME T # {} PROVE FALSE
    OBVIOUS
  <2>1. PICK m \in T : \A y \in T : m <= y
    <3>1. T \subseteq Nat
      OBVIOUS
    <3> HIDE DEF T
    <3> QED BY <3>1, LeastNumber
  <2>2. m # 0 /\ m \in 0..w
    BY <1>4, <2>1
  <2>3. m - 1 \in 0..w /\ ~(m <= m - 1) /\ m \in 1..w
    BY <2>2
  <2>4. h[m - 1] \in Nat /\ h[m] = h[m - 1] \div Base
    BY <1>4, <2>1, <2>3
  <2>5. h[m] \in Nat
    BY <2>4, BaseIsPositive
  <2> QED BY <2>1, <2>5
<1> QED BY <1>3, <1>4, <1>5

\* The number that bytes stand for, byte by byte.
LEMMA ValueIs ==
  ASSUME NEW b \in Seq(Byte)
  PROVE  \E v \in [0..Len(b) -> Nat] :
           /\ v[0] = 0 /\ FromBigEndian(b) = v[Len(b)]
           /\ \A i \in 1..Len(b) : v[i] = v[i - 1] * Base + b[i]
<1> DEFINE G(f, k) == f = [i \in 0..k |-> IF i = 0 THEN 0 ELSE f[i - 1] * Base + b[i]]
<1>0. Len(b) \in Nat
  OBVIOUS
<1>1. \A k \in 0..Len(b) : \E f : G(f, k)
  <2> HIDE DEF G
  <2> DEFINE T == {k \in 0..Len(b) : ~\E f : G(f, k)}
  <2> SUFFICES ASSUME T # {} PROVE FALSE
    OBVIOUS
  <2>1. PICK k \in T : \A y \in T : k <= y
    <3>1. T \subseteq Nat
      BY <1>0
    <3> HIDE DEF T
    <3> QED BY <3>1, LeastNumber
  <2>2. k # 0
    <3> DEFINE e == [i \in 0..0 |-> 0]
    <3>1. G(e, 0)
      BY DEF G
    <3> QED BY <3>1
  <2>3. k - 1 \in 0..Len(b) /\ k - 1 \notin T /\ k \in 0..Len(b)
    <3>1. k \in 0..Len(b)
      BY <2>1
    <3>2. k - 1 \in 0..Len(b) /\ ~(k <= k - 1)
      BY <1>0, <2>2, <3>1
    <3> QED BY <2>1, <3>1, <3>2
  <2>4. PICK f : G(f, k - 1)
    BY <2>3
  <2> DEFINE g == [i \in 0..k |-> IF i < k THEN f[i] ELSE f[k - 1] * Base + b[k]]
  <2>5. G(g, k)
    <3>1. ASSUME NEW i \in 0..k PROVE g[i] = IF i = 0 THEN 0 ELSE g[i - 1] * Base + b[i]
      <4>1. CASE i < k
        <5>1. i \in 0..(k - 1) /\ g[i] = f[i]
          BY <1>0, <2>3, <4>1
        <5>2. f[i] = IF i = 0 THEN 0 ELSE f[i - 1] * Base + b[i]
          BY <2>4, <5>1 DEF G
        <5>3. i # 0 => g[i - 1] = f[i - 1]
          BY <1>0, <2>3, <4>1
        <5> QED BY <5>1, <5>2, <5>3
      <4>2. CASE i = k
        <5>1. g[i - 1] = f[i - 1] /\ i # 0
          BY <1>0, <2>2, <2>3, <4>2
        <5> QED BY <4>2, <5>1
      <4> QED BY <1>0, <2>3, <4>1, <4>2
    <3> QED BY <3>1 DEF G
  <2> QED BY <2>1, <2>5
<1> DEFINE v == CHOOSE f : G(f, Len(b))
<1>2. G(v, Len(b))
  <2> HIDE DEF G
  <2>1. \E f : G(f, Len(b))
    BY <1>0, <1>1
  <2> QED BY <2>1
<1>3. FromBigEndian(b) = v[Len(b)]
  BY DEF FromBigEndian
<1> HIDE DEF v
<1>4. /\ v = [i \in 0..Len(b) |-> v[i]] /\ v[0] = 0
      /\ \A i \in 1..Len(b) : v[i] = v[i - 1] * Base + b[i]
  <2>1. v = [i \in 0..Len(b) |-> v[i]]
    BY <1>2
  <2>2. ASSUME NEW i \in 0..Len(b) PROVE v[i] = IF i = 0 THEN 0 ELSE v[i - 1] * Base + b[i]
    BY <1>2, <2>2
  <2>3. ASSUME NEW i \in 1..Len(b) PROVE v[i] = v[i - 1] * Base + b[i]
    <3>1. i \in 0..Len(b) /\ i # 0
      BY <1>0
    <3> QED BY <2>2, <3>1
  <2>4. v[0] = 0
    <3>1. 0 \in 0..Len(b)
      BY <1>0
    <3> QED BY <2>2, <3>1
  <2> QED BY <2>1, <2>3, <2>4
<1>5. \A i \in 0..Len(b) : v[i] \in Nat
  <2> DEFINE T == {i \in 0..Len(b) : v[i] \notin Nat}
  <2> SUFFICES ASSUME T # {} PROVE FALSE
    OBVIOUS
  <2>1. PICK i \in T : \A y \in T : i <= y
    <3>1. T \subseteq Nat
      BY <1>0
    <3> HIDE DEF T
    <3> QED BY <3>1, LeastNumber
  <2>2. i # 0 /\ i \in 0..Len(b)
    BY <1>4, <2>1
  <2>3. i - 1 \in 0..Len(b) /\ ~(i <= i - 1) /\ i \in 1..Len(b)
    BY <1>0, <2>2
  <2>4. v[i - 1] \in Nat /\ v[i] = v[i - 1] * Base + b[i] /\ b[i] \in Nat
    <3>1. b[i] \in Byte
      BY <2>3
    <3>2. b[i] \in Nat
      BY <3>1, BaseIsPositive DEF Byte
    <3>3. v[i - 1] \in Nat
      BY <2>1, <2>3
    <3> QED BY <1>4, <2>3, <3>2, <3>3
  <2>5. v[i] \in Nat
    BY <2>4, BaseIsPositive
  <2> QED BY <2>1, <2>5
<1> QED BY <1>3, <1>4, <1>5

\* A length that is read from bytes is a number.
LEMMA FromBigEndianType ==
  ASSUME NEW b \in Seq(Byte)
  PROVE  FromBigEndian(b) \in Nat
BY ValueIs

\* Bytes of a number are bytes, and reading them gives the number if it fits.
LEMMA BigEndianType ==
  ASSUME NEW n \in Nat, NEW w \in Nat
  PROVE  /\ BigEndian(n, w) \in Seq(Byte) /\ Len(BigEndian(n, w)) = w
         /\ \A i \in 1..w : BigEndian(n, w)[i] = Shifted(n, w)[w - i] % Base
<1>1. ASSUME NEW i \in 1..w PROVE Shifted(n, w)[w - i] % Base \in Byte
  <2>1. w - i \in 0..w
    OBVIOUS
  <2>2. Shifted(n, w)[w - i] \in Nat
    BY <2>1, ShiftedIs
  <2> QED BY <2>2, BaseIsPositive DEF Byte
<1>2. BigEndian(n, w) = [i \in 1..w |-> Shifted(n, w)[w - i] % Base]
  BY DEF BigEndian
<1>3. \A i \in 1..w : BigEndian(n, w)[i] = Shifted(n, w)[w - i] % Base
  BY <1>2
<1>4. BigEndian(n, w) \in [1..w -> Byte]
  BY <1>1, <1>2
<1> HIDE DEF BigEndian
<1> QED BY <1>3, <1>4

\* get_u64 and get_u32 return the number that put_u64 and put_u32 wrote.
LEMMA BigEndianRoundTrip ==
  ASSUME NEW n \in Nat, NEW w \in Nat, Fits(n, w)
  PROVE  FromBigEndian(BigEndian(n, w)) = n
<1>1. PICK b : b = BigEndian(n, w)
  OBVIOUS
<1>2. PICK s : s = Shifted(n, w)
  OBVIOUS
<1>3. /\ b \in Seq(Byte) /\ Len(b) = w
      /\ \A i \in 1..w : b[i] = s[w - i] % Base
  BY <1>1, <1>2, BigEndianType
<1>4. /\ s \in [0..w -> Nat] /\ s[0] = n /\ s[w] = 0
      /\ \A m \in 1..w : s[m] = s[m - 1] \div Base
  <2>1. /\ s \in [0..w -> Nat] /\ s[0] = n
        /\ \A m \in 1..w : s[m] = s[m - 1] \div Base
    BY <1>2, ShiftedIs, Zenon
  <2>2. s[w] = 0
    BY <1>2, Zenon DEF Fits
  <2> QED BY <2>1, <2>2
<1>5. PICK v \in [0..w -> Nat] :
        /\ v[0] = 0 /\ FromBigEndian(b) = v[w]
        /\ \A i \in 1..w : v[i] = v[i - 1] * Base + b[i]
  BY <1>3, ValueIs
<1>6. \A i \in 0..w : v[i] = s[w - i]
  <2> DEFINE T == {i \in 0..w : v[i] # s[w - i]}
  <2> SUFFICES ASSUME T # {} PROVE FALSE
    OBVIOUS
  <2>1. PICK i \in T : \A y \in T : i <= y
    <3>1. T \subseteq Nat
      OBVIOUS
    <3> HIDE DEF T
    <3> QED BY <3>1, LeastNumber
  <2>2. i # 0 /\ i \in 0..w
    BY <1>4, <1>5, <2>1
  <2>3. /\ i - 1 \in 0..w /\ ~(i <= i - 1) /\ i \in 1..w
        /\ w - i \in 0..w /\ w - (i - 1) \in 1..w /\ (w - (i - 1)) - 1 = w - i
    BY <2>2
  <2>4. v[i - 1] = s[w - (i - 1)]
    BY <2>1, <2>3
  <2>5. v[i] = v[i - 1] * Base + b[i] /\ b[i] = s[w - i] % Base
    BY <1>3, <1>5, <2>3
  <2>6. s[w - (i - 1)] = s[w - i] \div Base /\ s[w - i] \in Nat
    BY <1>4, <2>3
  <2>7. (s[w - i] \div Base) * Base + (s[w - i] % Base) = s[w - i]
    BY <2>6, BaseIsPositive, DivisionWithRest, Zenon
  <2>8. v[i] = s[w - i]
    BY <2>4, <2>5, <2>6, <2>7, Zenon
  <2> QED BY <2>1, <2>8
<1> QED BY <1>1, <1>4, <1>5, <1>6

-----------------------------------------------------------------------------
(* Frames on the wire *)

\* L begins with a frame that has this body, and goes on with after.
FrameAt(L, body, after, command, more) ==
  /\ L \in Seq(Byte) /\ LenWidth(L) \in Nat \ {0}
  /\ (HeaderOf(L).command <=> command) /\ (HeaderOf(L).more <=> more)
  /\ LenOf(L) = Len(body)
  /\ Len(L) = 1 + LenWidth(L) + Len(body) + Len(after)
  /\ \A i \in 1..Len(body) : L[1 + LenWidth(L) + i] = body[i]
  /\ \A i \in 1..Len(after) : L[1 + LenWidth(L) + Len(body) + i] = after[i]

\* One byte or two.
LEMMA SingleByte ==
  ASSUME NEW a \in Byte, NEW p, p = <<a>>
  PROVE  p \in Seq(Byte) /\ Len(p) = 1 /\ p[1] = a
OBVIOUS

\* The flags and the length of a short frame are two bytes.
LEMMA TwoBytes ==
  ASSUME NEW a \in Byte, NEW b \in Byte, NEW p, p = <<a, b>>
  PROVE  p \in Seq(Byte) /\ Len(p) = 2 /\ p[1] = a /\ p[2] = b
OBVIOUS

\* The limits that SocketOptions::read_buffer asserts, as numbers.
LEMMA LimitsAreNumbers ==
  /\ MaxLen \in Nat /\ U64 \in Nat /\ U64 >= 1 /\ Base - 1 <= MaxLen /\ MaxLen <= IsizeMax
  /\ IsizeMax \in Nat /\ max_size \in Nat /\ greeting_len <= MaxLen /\ U64 <= MaxLen
<1>1. U64 \in Nat /\ U64 >= 1 /\ IsizeMax \in Nat /\ max_size \in Nat /\ Base \in Nat
  BY OptionsAssumption, FieldsAssumption, BaseAssumption
<1>2. \A n \in {greeting_len, U64, Base - 1} : n + max_size <= IsizeMax
  BY OptionsAssumption
<1>3. /\ greeting_len + max_size <= IsizeMax /\ U64 + max_size <= IsizeMax
      /\ (Base - 1) + max_size <= IsizeMax /\ greeting_len \in Nat
  BY <1>2 DEF greeting_len
<1> QED BY <1>1, <1>3 DEF MaxLen

\* Each flag of a frame is its bit of the flags byte.
LEMMA FlagsFields ==
  ASSUME NEW b
  PROVE  /\ Flags(b).command <=> (b \div 4) % 2 = 1
         /\ Flags(b).long <=> (b \div 2) % 2 = 1
         /\ Flags(b).more <=> b % 2 = 1
BY Zenon DEF Flags

\* What a frame's flags, 0, 1 or 4, say, with LONG and without.
LEMMA FlagsBoth ==
  ASSUME NEW flags \in {0, 1, 4}
  PROVE  /\ (Flags(flags).command <=> flags = 4) /\ (Flags(flags).more <=> flags = 1)
         /\ ~Flags(flags).long
         /\ (Flags(flags + 2).command <=> flags = 4) /\ (Flags(flags + 2).more <=> flags = 1)
         /\ Flags(flags + 2).long
         /\ flags \in Byte /\ flags + 2 \in Byte
<1>1. flags \in Byte /\ flags + 2 \in Byte
  BY BaseIsPositive DEF Byte
<1>2. /\ (flags \div 4) % 2 = 1 <=> flags = 4
      /\ ((flags + 2) \div 4) % 2 = 1 <=> flags = 4
      /\ (flags \div 2) % 2 # 1
      /\ ((flags + 2) \div 2) % 2 = 1
      /\ flags % 2 = 1 <=> flags = 1
      /\ (flags + 2) % 2 = 1 <=> flags = 1
  OBVIOUS
<1> QED BY <1>1, <1>2, FlagsFields, Zenon

\* The encoder writes a frame as bytes.
LEMMA FrameType ==
  ASSUME NEW body \in Seq(Byte), NEW flags \in {0, 1, 4}
  PROVE  FrameOf(body, flags) \in Seq(Byte)
<1>1. flags \in Byte /\ flags + 2 \in Byte /\ Len(body) \in Nat /\ U64 \in Nat
  BY FlagsBoth, FieldsAssumption
<1>2. CASE Len(body) > Base - 1
  <2>1. BigEndian(Len(body), U64) \in Seq(Byte)
    BY <1>1, BigEndianType
  <2> QED BY <1>1, <1>2, <2>1 DEF FrameOf
<1>3. CASE ~(Len(body) > Base - 1)
  <2>1. Len(body) \in Byte
    BY <1>1, <1>3, BaseIsPositive DEF Byte
  <2> QED BY <1>1, <1>3, <2>1 DEF FrameOf
<1> QED BY <1>2, <1>3

\* The sequence t is a, followed by b, followed by c.
ThreeJoin(t, a, b, c) ==
  /\ Len(a) \in Nat /\ Len(b) \in Nat /\ Len(c) \in Nat
  /\ Len(t) = Len(a) + Len(b) + Len(c)
  /\ \A i \in 1..Len(a) : t[i] = a[i]
  /\ \A i \in 1..Len(b) : t[Len(a) + i] = b[i]
  /\ \A i \in 1..Len(c) : t[Len(a) + Len(b) + i] = c[i]

\* What three sequences put together hold, and where.
LEMMA ThreeJoined ==
  ASSUME NEW S, NEW a \in Seq(S), NEW b \in Seq(S), NEW c \in Seq(S), NEW t, t = (a \o b) \o c
  PROVE  t \in Seq(S) /\ ThreeJoin(t, a, b, c)
<1>1. PICK u : u = a \o b
  OBVIOUS
<1>2. u \in Seq(S) /\ Joins(u, a, b)
  BY <1>1, Concat, Zenon
<1>3. t \in Seq(S) /\ Joins(t, u, c)
  BY <1>1, <1>2, Concat, Zenon
<1>4. /\ Len(a) \in Nat /\ Len(b) \in Nat /\ Len(c) \in Nat
      /\ Len(u) = Len(a) + Len(b) /\ Len(t) = Len(a) + Len(b) + Len(c)
  BY <1>2, <1>3 DEF Joins
<1>5. ASSUME NEW i \in 1..Len(a) PROVE t[i] = a[i]
  <2>1. i \in 1..Len(u)
    BY <1>4
  <2> QED BY <1>2, <1>3, <2>1 DEF Joins
<1>6. ASSUME NEW i \in 1..Len(b) PROVE t[Len(a) + i] = b[i]
  <2>1. Len(a) + i \in 1..Len(u)
    BY <1>4
  <2> QED BY <1>2, <1>3, <2>1 DEF Joins
<1>7. ASSUME NEW i \in 1..Len(c) PROVE t[Len(a) + Len(b) + i] = c[i]
  BY <1>3, <1>4 DEF Joins
<1> QED BY <1>3, <1>4, <1>5, <1>6, <1>7 DEF ThreeJoin

\* The decoder's view of what FrameOf writes.
LEMMA LongFrameAt ==
  ASSUME NEW body \in Seq(Byte), NEW flags \in {0, 1, 4}, NEW after \in Seq(Byte),
         Len(body) > Base - 1, Len(body) <= MaxLen, NEW L, L = FrameOf(body, flags) \o after
  PROVE  FrameAt(L, body, after, flags = 4, flags = 1)
<1>1. PICK h, be, n : h = <<flags + 2>> /\ n = Len(body) /\ be = BigEndian(n, U64)
  OBVIOUS
<1>2. h \in Seq(Byte) /\ Len(h) = 1 /\ h[1] = flags + 2
  BY <1>1, FlagsBoth, SingleByte
<1>3. n \in Nat /\ U64 \in Nat /\ U64 >= 1 /\ n \in 0..IsizeMax
  BY <1>1, LimitsAreNumbers
<1>4. be \in Seq(Byte) /\ Len(be) = U64 /\ FromBigEndian(be) = n
  <2>1. Fits(n, U64)
    BY <1>3, WidthAssumption
  <2> QED BY <1>1, <1>3, <2>1, BigEndianType, BigEndianRoundTrip
<1>5. PICK f : f = (h \o be) \o body
  OBVIOUS
<1>6. FrameOf(body, flags) = f
  BY <1>1, <1>5 DEF FrameOf
<1>7. /\ f \in Seq(Byte) /\ Len(f) = 1 + U64 + n /\ f[1] = flags + 2
      /\ \A i \in 1..U64 : f[1 + i] = be[i]
      /\ \A i \in 1..n : f[1 + U64 + i] = body[i]
  <2>1. f \in Seq(Byte) /\ ThreeJoin(f, h, be, body)
    BY <1>2, <1>4, <1>5, ThreeJoined, Zenon
  <2> QED BY <1>1, <1>2, <1>3, <1>4, <2>1 DEF ThreeJoin
<1>8. L \in Seq(Byte) /\ Joins(L, f, after)
  BY <1>6, <1>7, Concat, Zenon
<1>9. /\ Len(L) = 1 + U64 + n + Len(after) /\ L[1] = flags + 2 /\ Len(after) \in Nat
      /\ \A i \in 1..U64 : L[1 + i] = be[i]
      /\ \A i \in 1..n : L[1 + U64 + i] = body[i]
      /\ \A i \in 1..Len(after) : L[1 + U64 + n + i] = after[i]
  <2>1. /\ Len(f) = 1 + U64 + n /\ Len(L) = Len(f) + Len(after) /\ Len(after) \in Nat
        /\ \A i \in 1..(1 + U64 + n) : L[i] = f[i]
        /\ \A i \in 1..Len(after) : L[1 + U64 + n + i] = after[i]
    BY <1>7, <1>8 DEF Joins
  <2>2. L[1] = flags + 2
    BY <1>3, <1>7, <2>1
  <2>3. ASSUME NEW i \in 1..U64 PROVE L[1 + i] = be[i]
    <3>1. 1 + i \in 1..(1 + U64 + n)
      BY <1>3
    <3> QED BY <1>7, <2>1, <3>1
  <2>4. ASSUME NEW i \in 1..n PROVE L[1 + U64 + i] = body[i]
    <3>1. 1 + U64 + i \in 1..(1 + U64 + n)
      BY <1>3
    <3> QED BY <1>7, <2>1, <3>1
  <2> QED BY <2>1, <2>2, <2>3, <2>4
<1>10. /\ (HeaderOf(L).command <=> flags = 4) /\ (HeaderOf(L).more <=> flags = 1)
       /\ HeaderOf(L).long /\ LenWidth(L) = U64
  BY <1>9, FlagsBoth DEF HeaderOf, LenWidth
<1>11. LenOf(L) = n
  <2>1. SubSeq(L, 1 + 1, 1 + Len(be)) = be
    BY <1>3, <1>4, <1>8, <1>9, PartIs
  <2>2. SubSeq(L, 2, 1 + U64) = be
    <3>1. 1 + 1 = 2
      OBVIOUS
    <3> QED BY <1>4, <2>1, <3>1, Zenon
  <2> QED BY <1>4, <1>10, <2>2 DEF LenOf
<1> QED BY <1>1, <1>3, <1>8, <1>9, <1>10, <1>11 DEF FrameAt

\* A short frame at the front of L reads as itself.
LEMMA ShortFrameAt ==
  ASSUME NEW body \in Seq(Byte), NEW flags \in {0, 1, 4}, NEW after \in Seq(Byte),
         ~(Len(body) > Base - 1), NEW L, L = FrameOf(body, flags) \o after
  PROVE  FrameAt(L, body, after, flags = 4, flags = 1)
<1>1. PICK h, n : n = Len(body) /\ h = <<flags, n>>
  OBVIOUS
<1>2. h \in Seq(Byte) /\ Len(h) = 2 /\ h[1] = flags /\ h[2] = n /\ n \in Nat
  <2>1. n \in Byte /\ n \in Nat
    BY <1>1, BaseIsPositive DEF Byte
  <2> QED BY <1>1, <2>1, FlagsBoth, TwoBytes
<1>3. FrameOf(body, flags) = h \o body
  BY <1>1 DEF FrameOf
<1>4. /\ L \in Seq(Byte) /\ Len(L) = 2 + n + Len(after) /\ Len(after) \in Nat
      /\ L[1] = flags /\ L[2] = n
      /\ \A i \in 1..n : L[2 + i] = body[i]
      /\ \A i \in 1..Len(after) : L[2 + n + i] = after[i]
  <2>1. L \in Seq(Byte) /\ ThreeJoin(L, h, body, after)
    BY <1>2, <1>3, ThreeJoined, Zenon
  <2> QED BY <1>1, <1>2, <2>1 DEF ThreeJoin
<1>5. /\ (HeaderOf(L).command <=> flags = 4) /\ (HeaderOf(L).more <=> flags = 1)
      /\ ~HeaderOf(L).long /\ LenWidth(L) = 1
  BY <1>4, FlagsBoth DEF HeaderOf, LenWidth
<1>6. LenOf(L) = n
  BY <1>4, <1>5 DEF LenOf
<1> QED BY <1>1, <1>2, <1>4, <1>5, <1>6 DEF FrameAt

\* A frame that the encoder wrote, short or long, reads as itself.
LEMMA WrittenFrameAt ==
  ASSUME NEW body \in Seq(Byte), NEW flags \in {0, 1, 4}, NEW after \in Seq(Byte),
         Len(body) <= MaxLen, NEW L, L = FrameOf(body, flags) \o after
  PROVE  FrameAt(L, body, after, flags = 4, flags = 1)
BY LongFrameAt, ShortFrameAt

-----------------------------------------------------------------------------
(* Encodings put together *)

\* The sequences of e after the first j, put together.
From(e, j) == FlattenSeq([i \in 1..(Len(e) - j) |-> e[j + i]])

\* What is left of the encodings is bytes.
LEMMA FromType ==
  ASSUME NEW S, NEW e \in Seq(Seq(S)), NEW j \in 0..Len(e)
  PROVE  From(e, j) \in Seq(S)
<1>1. PICK q : q = [i \in 1..(Len(e) - j) |-> e[j + i]]
  OBVIOUS
<1>2. Len(e) - j \in Nat /\ \A i \in 1..(Len(e) - j) : e[j + i] \in Seq(S)
  OBVIOUS
<1>3. q \in Seq(Seq(S))
  BY <1>1, <1>2
<1> QED BY <1>1, <1>3, FlattenType DEF From

\* What is left starts with the next encoding.
LEMMA FromFirst ==
  ASSUME NEW S, NEW e \in Seq(Seq(S)), NEW j \in 0..(Len(e) - 1)
  PROVE  From(e, j) = e[j + 1] \o From(e, j + 1)
<1>1. PICK q, p : /\ q = [i \in 1..(Len(e) - j) |-> e[j + i]]
                  /\ p = [i \in 1..(Len(e) - (j + 1)) |-> e[(j + 1) + i]]
  OBVIOUS
<1>2. Len(e) \in Nat /\ j \in Nat /\ j < Len(e)
  OBVIOUS
<1>3. /\ \A i \in 1..(Len(e) - j) : e[j + i] \in Seq(S)
      /\ \A i \in 1..(Len(e) - (j + 1)) : e[(j + 1) + i] \in Seq(S)
  BY <1>2
<1>4. q \in Seq(Seq(S)) /\ Len(q) = Len(e) - j
  BY <1>1, <1>2, <1>3
<1>5. p \in Seq(Seq(S)) /\ Len(p) = Len(e) - (j + 1)
  BY <1>1, <1>2, <1>3
<1>6. ASSUME NEW i \in 1..Len(p) PROVE p[i] = q[i + 1]
  <2>1. i + 1 \in 1..(Len(e) - j) /\ i \in 1..(Len(e) - (j + 1)) /\ (j + 1) + i = j + (i + 1)
    BY <1>2, <1>5
  <2>2. p[i] = e[(j + 1) + i] /\ q[i + 1] = e[j + (i + 1)]
    BY <1>1, <2>1
  <2> QED BY <2>1, <2>2
<1>7. q[1] = e[j + 1]
  <2>1. 1 \in 1..(Len(e) - j)
    BY <1>2
  <2> QED BY <1>1, <2>1
<1>8. Len(q) = Len(p) + 1
  BY <1>2, <1>4, <1>5
<1>9. FlattenSeq(q) = q[1] \o FlattenSeq(p)
  BY <1>4, <1>5, <1>6, <1>8, FlattenFirst
<1> QED BY <1>1, <1>7, <1>9 DEF From

\* At first everything is left, and nothing in the end.
LEMMA FromEnds ==
  ASSUME NEW S, NEW e \in Seq(Seq(S))
  PROVE  From(e, 0) = FlattenSeq(e) /\ From(e, Len(e)) = <<>>
<1>1. PICK q, p : /\ q = [i \in 1..(Len(e) - 0) |-> e[0 + i]]
                  /\ p = [i \in 1..(Len(e) - Len(e)) |-> e[Len(e) + i]]
  OBVIOUS
<1>2. Len(e) \in Nat
  OBVIOUS
<1>3. q = e
  <2>1. Len(e) - 0 = Len(e) /\ \A i \in 1..Len(e) : e[0 + i] = e[i] /\ e[i] \in Seq(S)
    BY <1>2
  <2>2. /\ q = [i \in 1..Len(e) |-> e[0 + i]]
    BY <1>1, <2>1
  <2>3. q \in Seq(Seq(S)) /\ Len(q) = Len(e) /\ \A i \in 1..Len(e) : q[i] = e[i]
    BY <1>2, <2>1, <2>2
  <2> QED BY <2>3, SameSequence
<1>4. p = <<>> /\ Len(p) = 0
  <2>1. Len(e) - Len(e) = 0
    BY <1>2
  <2> QED BY <1>1, <2>1
<1>5. From(e, 0) = FlattenSeq(q) /\ From(e, Len(e)) = FlattenSeq(p)
  BY <1>1 DEF From
<1>6. FlattenSeq(p) = p
  BY <1>4, Zenon DEF FlattenSeq
<1> QED BY <1>3, <1>4, <1>5, <1>6, Zenon

\* Bytes in the middle.
LEMMA MiddleIs ==
  ASSUME NEW S, NEW b \in Seq(S), NEW m \in Nat, NEW n \in Nat, m + n <= Len(b),
         NEW x, x = SubSeq(b, m + 1, m + n)
  PROVE  x \in Seq(S) /\ Len(x) = n /\ \A i \in 1..n : x[i] = b[m + i]
<1>1. Len(b) \in Nat
  OBVIOUS
<1>2. x \in Seq(S) /\ Len(x) = n
  BY <1>1
<1>3. ASSUME NEW i \in 1..n PROVE x[i] = b[m + i]
  <2>1. x[i] = b[(m + 1) + i - 1] /\ (m + 1) + i - 1 = m + i
    BY <1>1
  <2> QED BY <2>1, Zenon
<1> QED BY <1>2, <1>3

-----------------------------------------------------------------------------
(* Commands *)

\* What is parsed from place i of b on, if f holds what is parsed from later places on.
ParsedFrom(b, f, i) ==
  IF i = Len(b) + 1 THEN [ok |-> TRUE, props |-> NoProperties]
  ELSE IF Malformed(b, i) THEN [ok |-> FALSE, props |-> NoProperties]
  ELSE [ok |-> f[ValueEnd(b, i) + 1].ok,
        props |-> InsertBefore(f[ValueEnd(b, i) + 1].props, NameAt(b, i), ValueAt(b, i))]

\* A property that is well formed takes bytes, and no more than there are.
LEMMA PropertyAdvances ==
  ASSUME NEW b \in Seq(Byte), NEW i \in 1..Len(b), ~Malformed(b, i)
  PROVE  ValueEnd(b, i) \in Nat /\ ValueEnd(b, i) > i /\ ValueEnd(b, i) <= Len(b)
<1>1. PICK m, v : m = NameEnd(b, i) /\ v = SubSeq(b, m + 1, m + U32)
  OBVIOUS
<1>2. Len(b) \in Nat /\ i \in Nat /\ U32 \in Nat /\ U32 >= 1
  BY FieldsAssumption
<1>3. m \in Nat /\ m >= i
  <2>1. PICK x : x = b[i]
    OBVIOUS
  <2>2. x \in Byte
    BY <2>1
  <2>3. x \in Nat
    BY <2>2, BaseIsPositive DEF Byte
  <2>4. m = i + x
    BY <1>1, <2>1, Zenon DEF NameEnd
  <2> QED BY <1>2, <2>3, <2>4
<1>4. ~(Len(b) < ValueEnd(b, i))
  BY DEF Malformed
<1>5. m + U32 <= Len(b)
  <2>1. ~(Len(b) < m + U32)
    BY <1>1 DEF Malformed
  <2> QED BY <1>2, <1>3, <2>1
<1>6. v \in Seq(Byte)
  BY <1>1, <1>2, <1>3, <1>5, MiddleIs
<1>7. FromBigEndian(v) \in Nat /\ ValueEnd(b, i) = m + U32 + FromBigEndian(v)
  BY <1>1, <1>6, FromBigEndianType DEF ValueEnd
<1> QED BY <1>2, <1>3, <1>4, <1>5, <1>7

\* What a command's parser finds from place i on depends on what it finds later only.
LEMMA ParsedFromLater ==
  ASSUME NEW b \in Seq(Byte), NEW i \in 1..(Len(b) + 1), NEW f, NEW g,
         \A x \in (i + 1)..(Len(b) + 1) : f[x] = g[x]
  PROVE  ParsedFrom(b, f, i) = ParsedFrom(b, g, i)
<1>1. CASE i = Len(b) + 1 \/ Malformed(b, i)
  BY <1>1 DEF ParsedFrom
<1>2. CASE ~(i = Len(b) + 1) /\ ~Malformed(b, i)
  <2>1. i \in 1..Len(b) /\ Len(b) \in Nat
    BY <1>2
  <2>2. PICK e : e = ValueEnd(b, i) + 1
    OBVIOUS
  <2>3. e \in (i + 1)..(Len(b) + 1)
    <3>1. ValueEnd(b, i) \in Nat /\ ValueEnd(b, i) > i /\ ValueEnd(b, i) <= Len(b)
      BY <1>2, <2>1, PropertyAdvances
    <3> QED BY <2>1, <2>2, <3>1
  <2>4. f[e] = g[e]
    BY <2>3
  <2> QED BY <1>2, <2>2, <2>4, Zenon DEF ParsedFrom
<1> QED BY <1>1, <1>2

\* The recursive definition of PropertiesFrom has a solution.
LEMMA PropertiesFromIs ==
  ASSUME NEW b \in Seq(Byte), NEW p, p = PropertiesFrom(b)
  PROVE  \A i \in 1..(Len(b) + 1) : p[i] = ParsedFrom(b, p, i)
<1> DEFINE G(f, m) == f = [i \in m..(Len(b) + 1) |-> ParsedFrom(b, f, i)]
<1>0. Len(b) \in Nat
  OBVIOUS
<1>1. \A d \in 0..(Len(b) + 1) : \E f : G(f, Len(b) + 2 - d)
  <2> HIDE DEF G
  <2> DEFINE T == {d \in 0..(Len(b) + 1) : ~\E f : G(f, Len(b) + 2 - d)}
  <2> SUFFICES ASSUME T # {} PROVE FALSE
    OBVIOUS
  <2>1. PICK d \in T : \A y \in T : d <= y
    <3>1. T \subseteq Nat
      BY <1>0
    <3> HIDE DEF T
    <3> QED BY <3>1, LeastNumber
  <2>2. d # 0
    <3> DEFINE e == [i \in (Len(b) + 2 - 0)..(Len(b) + 1) |-> 0]
    <3>1. (Len(b) + 2 - 0)..(Len(b) + 1) = {}
      BY <1>0
    <3>2. G(e, Len(b) + 2 - 0)
      BY <3>1 DEF G
    <3> QED BY <3>2
  <2>3. d - 1 \in 0..(Len(b) + 1) /\ d - 1 \notin T /\ d \in 0..(Len(b) + 1)
    <3>1. d \in 0..(Len(b) + 1)
      BY <2>1
    <3>2. d - 1 \in 0..(Len(b) + 1) /\ ~(d <= d - 1)
      BY <1>0, <2>2, <3>1
    <3> QED BY <2>1, <3>1, <3>2
  <2>4. PICK m : m = Len(b) + 2 - d
    OBVIOUS
  <2>5. m \in 1..(Len(b) + 1) /\ Len(b) + 2 - (d - 1) = m + 1
    BY <1>0, <2>2, <2>3, <2>4
  <2>6. PICK f : G(f, m + 1)
    <3>1. \E f : G(f, Len(b) + 2 - (d - 1))
      BY <2>3
    <3> QED BY <2>5, <3>1, Zenon
  <2> DEFINE g == [i \in m..(Len(b) + 1) |-> IF i > m THEN f[i] ELSE ParsedFrom(b, f, m)]
  <2>7. \A x \in (m + 1)..(Len(b) + 1) : f[x] = g[x]
    BY <1>0, <2>5
  <2>8. G(g, m)
    <3>1. ASSUME NEW i \in m..(Len(b) + 1) PROVE g[i] = ParsedFrom(b, g, i)
      <4>1. i \in 1..(Len(b) + 1) /\ \A x \in (i + 1)..(Len(b) + 1) : x \in (m + 1)..(Len(b) + 1)
        BY <1>0, <2>5
      <4>2. \A x \in (i + 1)..(Len(b) + 1) : f[x] = g[x]
        BY <2>7, <4>1, Zenon
      <4>3. ParsedFrom(b, f, i) = ParsedFrom(b, g, i)
        <5> HIDE DEF g
        <5> QED BY <4>1, <4>2, ParsedFromLater
      <4>4. CASE i > m
        <5>1. i \in (m + 1)..(Len(b) + 1) /\ g[i] = f[i]
          BY <1>0, <2>5, <4>4
        <5>2. f[i] = ParsedFrom(b, f, i)
          BY <2>6, <5>1 DEF G
        <5> QED BY <4>3, <5>1, <5>2
      <4>5. CASE i = m
        <5>1. g[m] = ParsedFrom(b, f, m)
          BY <1>0, <2>5
        <5> QED BY <4>3, <4>5, <5>1, Zenon
      <4> QED BY <2>5, <4>4, <4>5
    <3> QED BY <3>1 DEF G
  <2> QED BY <2>1, <2>4, <2>8
<1>2. \E f : G(f, 1)
  <2> HIDE DEF G
  <2>1. Len(b) + 1 \in 0..(Len(b) + 1) /\ Len(b) + 2 - (Len(b) + 1) = 1
    BY <1>0
  <2>2. \E f : G(f, Len(b) + 2 - (Len(b) + 1))
    BY <1>1, <2>1
  <2> QED BY <2>1, <2>2, Zenon
<1> DEFINE v == CHOOSE f : G(f, 1)
<1>3. G(v, 1)
  <2> HIDE DEF G
  <2> QED BY <1>2
<1>4. p = v
  BY DEF PropertiesFrom, ParsedFrom
<1> HIDE DEF v
<1>5. ASSUME NEW i \in 1..(Len(b) + 1) PROVE v[i] = ParsedFrom(b, v, i)
  BY <1>3
<1> QED BY <1>4, <1>5

\* The bytes of a property.
PropertyIs(e, name, value) ==
  /\ Len(e) = 1 + Len(name) + U32 + Len(value) /\ e[1] = Len(name)
  /\ \A i \in 1..Len(name) : e[1 + i] = name[i]
  /\ \A i \in 1..U32 : e[1 + Len(name) + i] = BigEndian(Len(value), U32)[i]
  /\ \A i \in 1..Len(value) : e[1 + Len(name) + U32 + i] = value[i]

\* The bytes of one property, and their places.
LEMMA PropertyBytes ==
  ASSUME NEW name \in Seq(Byte), NEW value \in Seq(Byte), Len(name) < Base,
         NEW e, e = EncodeProperty(name, value)
  PROVE  e \in Seq(Byte) /\ PropertyIs(e, name, value)
<1>1. PICK h, n, be, t : /\ n = Len(name) /\ h = <<n>> /\ be = BigEndian(Len(value), U32)
                         /\ t = (h \o name) \o be
  OBVIOUS
<1>2. n \in Nat /\ n \in Byte /\ Len(value) \in Nat /\ U32 \in Nat /\ U32 >= 1
  BY <1>1, BaseIsPositive, FieldsAssumption DEF Byte
<1>3. h \in Seq(Byte) /\ Len(h) = 1 /\ h[1] = n
  BY <1>1, <1>2, SingleByte
<1>4. be \in Seq(Byte) /\ Len(be) = U32
  BY <1>1, <1>2, BigEndianType
<1>5. t \in Seq(Byte) /\ ThreeJoin(t, h, name, be)
  BY <1>1, <1>3, <1>4, ThreeJoined, Zenon
<1>6. e = t \o value
  BY <1>1 DEF EncodeProperty
<1>7. e \in Seq(Byte) /\ Joins(e, t, value)
  BY <1>5, <1>6, Concat, Zenon
<1>8. /\ Len(t) = 1 + n + U32 /\ t[1] = n
      /\ \A i \in 1..n : t[1 + i] = name[i]
      /\ \A i \in 1..U32 : t[1 + n + i] = be[i]
  BY <1>1, <1>2, <1>3, <1>4, <1>5 DEF ThreeJoin
<1>9. /\ Len(e) = 1 + n + U32 + Len(value) /\ \A i \in 1..(1 + n + U32) : e[i] = t[i]
      /\ \A i \in 1..Len(value) : e[1 + n + U32 + i] = value[i]
  BY <1>7, <1>8 DEF Joins
<1>10. e[1] = n
  BY <1>2, <1>8, <1>9
<1>11. ASSUME NEW i \in 1..n PROVE e[1 + i] = name[i]
  <2>1. 1 + i \in 1..(1 + n + U32)
    BY <1>2
  <2> QED BY <1>8, <1>9, <2>1
<1>12. ASSUME NEW i \in 1..U32 PROVE e[1 + n + i] = be[i]
  <2>1. 1 + n + i \in 1..(1 + n + U32)
    BY <1>2
  <2> QED BY <1>8, <1>9, <2>1
<1> QED BY <1>1, <1>7, <1>9, <1>10, <1>11, <1>12 DEF PropertyIs

\* After m bytes, b has e.
Holds(b, m, e) == m \in Nat /\ m + Len(e) <= Len(b) /\ \A i \in 1..Len(e) : b[m + i] = e[i]

\* A property is read back.
LEMMA PropertyAt ==
  ASSUME NEW name \in Seq(Byte), NEW value \in Seq(Byte), Len(name) < Base, IsUtf8(name),
         Fits(Len(value), U32), NEW e, e = EncodeProperty(name, value),
         NEW b \in Seq(Byte), NEW m, Holds(b, m, e)
  PROVE  /\ m + 1 \in 1..Len(b) /\ ~Malformed(b, m + 1) /\ ValueEnd(b, m + 1) = m + Len(e)
         /\ NameAt(b, m + 1) = name /\ ValueAt(b, m + 1) = value
<1>0. m \in Nat /\ m + Len(e) <= Len(b) /\ \A i \in 1..Len(e) : b[m + i] = e[i]
  BY DEF Holds
<1>1. PICK n, be, u : n = Len(name) /\ be = BigEndian(Len(value), U32) /\ u = Len(value)
  OBVIOUS
<1>2. /\ e \in Seq(Byte) /\ Len(e) = 1 + n + U32 + u /\ e[1] = n
      /\ \A i \in 1..n : e[1 + i] = name[i]
      /\ \A i \in 1..U32 : e[1 + n + i] = be[i]
      /\ \A i \in 1..u : e[1 + n + U32 + i] = value[i]
  <2>1. e \in Seq(Byte) /\ PropertyIs(e, name, value)
    BY PropertyBytes, Zenon
  <2> QED BY <1>1, <2>1 DEF PropertyIs
<1>3. n \in Nat /\ u \in Nat /\ U32 \in Nat /\ U32 >= 1 /\ Len(b) \in Nat
  BY <1>1, FieldsAssumption
<1>4. be \in Seq(Byte) /\ Len(be) = U32 /\ FromBigEndian(be) = u
  BY <1>1, <1>3, BigEndianType, BigEndianRoundTrip
<1>5. m + 1 \in 1..Len(b) /\ 1 \in 1..Len(e)
  BY <1>0, <1>2, <1>3
<1>6. NameEnd(b, m + 1) = m + 1 + n
  <2>1. b[m + 1] = n
    BY <1>0, <1>2, <1>5
  <2> QED BY <1>0, <2>1 DEF NameEnd
<1>7. NameAt(b, m + 1) = name
  <2>1. ASSUME NEW i \in 1..n PROVE b[(m + 1) + i] = name[i]
    <3>1. 1 + i \in 1..Len(e) /\ m + (1 + i) = (m + 1) + i
      BY <1>0, <1>2, <1>3
    <3>2. b[m + (1 + i)] = e[1 + i]
      BY <1>0, <3>1
    <3> QED BY <1>2, <3>1, <3>2
  <2>2. (m + 1) + Len(name) <= Len(b) /\ m + 1 \in Nat
    BY <1>0, <1>1, <1>2, <1>3
  <2>3. SubSeq(b, (m + 1) + 1, (m + 1) + Len(name)) = name
    BY <1>1, <2>1, <2>2, PartIs
  <2> QED BY <1>1, <1>6, <2>3 DEF NameAt
<1>8. PICK q : q = m + 1 + n
  OBVIOUS
<1>9. q \in Nat /\ q + U32 + u = m + Len(e) /\ q + U32 <= Len(b) /\ q + U32 \in Nat
  BY <1>0, <1>2, <1>3, <1>8
<1>10. SubSeq(b, q + 1, q + U32) = be
  <2>1. ASSUME NEW i \in 1..U32 PROVE b[q + i] = be[i]
    <3>1. 1 + n + i \in 1..Len(e) /\ m + (1 + n + i) = q + i
      BY <1>0, <1>2, <1>3, <1>8
    <3>2. b[m + (1 + n + i)] = e[1 + n + i]
      BY <1>0, <3>1
    <3> QED BY <1>2, <3>1, <3>2
  <2>2. SubSeq(b, q + 1, q + Len(be)) = be
    BY <1>4, <1>9, <2>1, PartIs
  <2> QED BY <1>4, <2>2
<1>11. ValueEnd(b, m + 1) = q + U32 + u
  BY <1>4, <1>6, <1>8, <1>10, Zenon DEF ValueEnd
<1>12. ValueAt(b, m + 1) = value
  <2>1. ASSUME NEW i \in 1..u PROVE b[(q + U32) + i] = value[i]
    <3>1. 1 + n + U32 + i \in 1..Len(e) /\ m + (1 + n + U32 + i) = (q + U32) + i
      BY <1>0, <1>2, <1>3, <1>8
    <3>2. b[m + (1 + n + U32 + i)] = e[1 + n + U32 + i]
      BY <1>0, <3>1
    <3> QED BY <1>2, <3>1, <3>2
  <2>2. (q + U32) + Len(value) <= Len(b)
    BY <1>0, <1>1, <1>9
  <2>3. SubSeq(b, (q + U32) + 1, (q + U32) + Len(value)) = value
    BY <1>1, <1>9, <2>1, <2>2, PartIs
  <2> QED BY <1>1, <1>6, <1>8, <1>11, <2>3, Zenon DEF ValueAt
<1>13. ~Malformed(b, m + 1)
  <2>1. ~(Len(b) < q + U32) /\ ~(Len(b) < q + U32 + u)
    BY <1>0, <1>3, <1>9
  <2> QED BY <1>6, <1>7, <1>8, <1>11, <2>1, Zenon DEF Malformed
<1> QED BY <1>5, <1>7, <1>9, <1>11, <1>12, <1>13

\* A finite set as a sequence has every element.
LEMMA SetToSeqIs ==
  ASSUME NEW S, IsFiniteSet(S), NEW q, q = SetToSeq(S)
  PROVE  q \in Seq(S) /\ \A x \in S : \E i \in 1..Len(q) : q[i] = x
<1>1. PICK n : n = Cardinality(S)
  OBVIOUS
<1>2. n \in Nat /\ ExistsBijection(1..n, S)
  BY <1>1, FS_CardinalityType
<1>3. \E f \in [1..n -> S] : IsInjective(f)
  BY <1>2 DEF ExistsBijection, Bijection, Injection
<1>4. q \in [1..n -> S] /\ IsInjective(q)
  BY <1>1, <1>3 DEF SetToSeq
<1>5. q \in Injection(1..n, S)
  BY <1>4 DEF Injection
<1>6. Cardinality(1..n) = n
  <2>1. Cardinality(1..n) = IF 1 > n THEN 0 ELSE n - 1 + 1
    BY <1>2, FS_Interval
  <2> QED BY <1>2, <2>1
<1>7. q \in Surjection(1..n, S)
  BY <1>1, <1>5, <1>6, FS_Injection
<1>8. \A x \in S : \E i \in 1..n : q[i] = x
  BY <1>7 DEF Surjection
<1>9. q \in Seq(S) /\ Len(q) = n
  BY <1>2, <1>4
<1> QED BY <1>8, <1>9

\* What r is the end of.
Ends(b, r) == Len(r) <= Len(b) /\ \A i \in 1..Len(r) : b[(Len(b) - Len(r)) + i] = r[i]

\* The end t of b is e followed by r.
EndsIn(b, t, e, r) ==
  /\ Ends(b, r) /\ Holds(b, Len(b) - Len(t), e)
  /\ Len(b) - Len(r) = (Len(b) - Len(t)) + Len(e)

\* A body that ends in a property and the rest ends in the rest.
LEMMA EndsOfEnds ==
  ASSUME NEW b \in Seq(Byte), NEW e \in Seq(Byte), NEW r \in Seq(Byte), NEW t,
         t = e \o r, Ends(b, t)
  PROVE  EndsIn(b, t, e, r)
<1>1. t \in Seq(Byte) /\ Joins(t, e, r)
  BY Concat, Zenon
<1>2. PICK m : m = Len(b) - Len(t)
  OBVIOUS
<1>3. /\ Len(b) \in Nat /\ Len(e) \in Nat /\ Len(r) \in Nat /\ Len(t) = Len(e) + Len(r)
      /\ Len(t) <= Len(b)
  BY <1>1 DEF Joins, Ends
<1>4. m \in Nat /\ Len(b) - Len(r) = m + Len(e) /\ m + Len(e) <= Len(b) /\ Len(r) <= Len(b)
  BY <1>2, <1>3
<1>5. \A i \in 1..Len(t) : b[m + i] = t[i]
  BY <1>2 DEF Ends
<1>6. ASSUME NEW i \in 1..Len(e) PROVE b[m + i] = e[i]
  <2>1. i \in 1..Len(t)
    BY <1>3
  <2> QED BY <1>1, <1>5, <2>1 DEF Joins
<1>7. ASSUME NEW i \in 1..Len(r) PROVE b[(m + Len(e)) + i] = r[i]
  <2>1. Len(e) + i \in 1..Len(t) /\ m + (Len(e) + i) = (m + Len(e)) + i
    BY <1>3, <1>4
  <2>2. b[m + (Len(e) + i)] = t[Len(e) + i]
    BY <1>5, <2>1
  <2>3. t[Len(e) + i] = r[i]
    BY <1>1 DEF Joins
  <2> QED BY <2>1, <2>2, <2>3, Zenon
<1>8. Ends(b, r)
  BY <1>4, <1>7 DEF Ends
<1>9. Holds(b, m, e)
  BY <1>4, <1>6 DEF Holds
<1> QED BY <1>2, <1>4, <1>8, <1>9, Zenon DEF EndsIn

\* The properties after the first k, in the order they are written.
LaterProperties(props, names, k) == [n \in {names[i] : i \in (k + 1)..Len(names)} |-> props[n]]

\* Inserting the next property before the later ones gives the properties from it on.
LEMMA LaterOne ==
  ASSUME NEW S, NEW names \in Seq(S), NEW k \in 0..(Len(names) - 1), NEW props
  PROVE  InsertBefore(LaterProperties(props, names, k + 1), names[k + 1], props[names[k + 1]])
           = LaterProperties(props, names, k)
<1>1. PICK A, B, x : /\ A = {names[i] : i \in (k + 1)..Len(names)}
                     /\ B = {names[i] : i \in ((k + 1) + 1)..Len(names)} /\ x = names[k + 1]
  OBVIOUS
<1>2. A = B \cup {x}
  <2>1. \A i : i \in (k + 1)..Len(names) <=> (i = k + 1 \/ i \in ((k + 1) + 1)..Len(names))
    OBVIOUS
  <2> QED BY <1>1, <2>1
<1>3. LaterProperties(props, names, k + 1) = [n \in B |-> props[n]]
  BY <1>1 DEF LaterProperties
<1>4. LaterProperties(props, names, k) = [n \in A |-> props[n]]
  BY <1>1 DEF LaterProperties
<1>5. PICK f : f = [n \in B |-> props[n]]
  OBVIOUS
<1>6. DOMAIN f = B /\ \A n \in B : f[n] = props[n]
  BY <1>5
<1>7. InsertBefore(f, x, props[x]) = [n \in A |-> props[n]]
  <2>1. InsertBefore(f, x, props[x]) = [n \in A |-> IF n \in B THEN f[n] ELSE props[x]]
    BY <1>2, <1>6 DEF InsertBefore
  <2>2. \A n \in A : (IF n \in B THEN f[n] ELSE props[x]) = props[n]
    BY <1>2, <1>6
  <2> QED BY <2>1, <2>2
<1> QED BY <1>1, <1>3, <1>4, <1>5, <1>7, Zenon

\* The properties that were written are parsed.
LEMMA PropertiesRoundTrip ==
  ASSUME NEW props, IsProperties(props), NEW names \in Seq(DOMAIN props),
         NEW e, e = [i \in 1..Len(names) |-> EncodeProperty(names[i], props[names[i]])],
         NEW b \in Seq(Byte), Ends(b, FlattenSeq(e))
  PROVE  /\ FlattenSeq(e) \in Seq(Byte) /\ e \in Seq(Seq(Byte))
         /\ PropertiesFrom(b)[(Len(b) - Len(FlattenSeq(e))) + 1]
              = [ok |-> TRUE, props |-> LaterProperties(props, names, 0)]
<1>1. PICK N : N = Len(names)
  OBVIOUS
<1>2. N \in Nat /\ Len(b) \in Nat
  BY <1>1
<1>3. ASSUME NEW i \in 1..N
      PROVE  /\ names[i] \in Seq(Byte) /\ Len(names[i]) < Base /\ IsUtf8(names[i])
             /\ props[names[i]] \in Seq(Byte) /\ Fits(Len(props[names[i]]), U32)
  <2>1. names[i] \in DOMAIN props
    BY <1>1
  <2> QED BY <2>1 DEF IsProperties
<1>4. \A i \in 1..N : EncodeProperty(names[i], props[names[i]]) \in Seq(Byte)
  BY <1>3, PropertyBytes
<1>5. /\ e \in Seq(Seq(Byte)) /\ Len(e) = N
      /\ \A i \in 1..N : e[i] = EncodeProperty(names[i], props[names[i]])
  <2>1. e \in [1..N -> Seq(Byte)] /\ \A i \in 1..N : e[i] = EncodeProperty(names[i], props[names[i]])
    BY <1>1, <1>4
  <2> QED BY <1>2, <2>1
<1>6. From(e, 0) = FlattenSeq(e) /\ From(e, N) = <<>> /\ FlattenSeq(e) \in Seq(Byte)
  BY <1>5, FromEnds, FlattenType
<1>7. \A k \in 0..N : Ends(b, From(e, k))
  <2> DEFINE T == {k \in 0..N : ~Ends(b, From(e, k))}
  <2> SUFFICES ASSUME T # {} PROVE FALSE
    OBVIOUS
  <2>1. PICK k \in T : \A y \in T : k <= y
    <3>1. T \subseteq Nat
      BY <1>2
    <3> HIDE DEF T
    <3> QED BY <3>1, LeastNumber
  <2>2. k # 0 /\ k \in 0..N
    BY <1>6, <2>1
  <2>3. PICK m : m = k - 1
    OBVIOUS
  <2>4. m \in 0..N /\ ~(k <= m) /\ m \in 0..(Len(e) - 1) /\ m + 1 = k /\ k \in 1..N /\ k \in 0..Len(e)
    BY <1>2, <1>5, <2>2, <2>3
  <2>5. Ends(b, From(e, m))
    BY <2>1, <2>4
  <2>6. From(e, m) = e[k] \o From(e, k)
    <3>1. From(e, m) = e[m + 1] \o From(e, m + 1)
      BY <1>5, <2>4, FromFirst
    <3> QED BY <2>4, <3>1, Zenon
  <2>7. e[k] \in Seq(Byte) /\ From(e, k) \in Seq(Byte)
    BY <1>4, <1>5, <2>4, FromType
  <2>8. Ends(b, From(e, k))
    BY <2>5, <2>6, <2>7, EndsOfEnds, Zenon DEF EndsIn
  <2> QED BY <2>1, <2>8
<1>8. PICK p : p = PropertiesFrom(b)
  OBVIOUS
<1>9. \A i \in 1..(Len(b) + 1) : p[i] = ParsedFrom(b, p, i)
  BY <1>8, PropertiesFromIs
<1> DEFINE At(k) == p[(Len(b) - Len(From(e, k))) + 1]
           Ok(k) == [ok |-> TRUE, props |-> LaterProperties(props, names, k)]
<1>10. \A d \in 0..N : At(N - d) = Ok(N - d)
  <2> DEFINE T == {d \in 0..N : At(N - d) # Ok(N - d)}
  <2> HIDE DEF At, Ok
  <2> SUFFICES ASSUME T # {} PROVE FALSE
    OBVIOUS
  <2>1. PICK d \in T : \A y \in T : d <= y
    <3>1. T \subseteq Nat
      BY <1>2
    <3> HIDE DEF T
    <3> QED BY <3>1, LeastNumber
  <2>2. d \in 0..N /\ At(N - d) # Ok(N - d)
    BY <2>1
  <2>3. d # 0
    <3>1. At(N) = ParsedFrom(b, p, Len(b) + 1)
      <4>1. Len(From(e, N)) = 0
        BY <1>6
      <4>2. (Len(b) - 0) + 1 = Len(b) + 1 /\ Len(b) + 1 \in 1..(Len(b) + 1)
        BY <1>2
      <4> QED BY <1>9, <4>1, <4>2, Zenon DEF At
    <3>2. ParsedFrom(b, p, Len(b) + 1) = [ok |-> TRUE, props |-> NoProperties]
      BY Zenon DEF ParsedFrom
    <3>3. LaterProperties(props, names, N) = NoProperties
      <4>1. {names[i] : i \in (N + 1)..Len(names)} = {}
        BY <1>1, <1>2
      <4> QED BY <4>1 DEF LaterProperties, NoProperties
    <3>4. At(N) = Ok(N)
      BY <3>1, <3>2, <3>3, Zenon DEF Ok
    <3>5. N - 0 = N
      BY <1>2
    <3> QED BY <2>2, <3>4, <3>5, Zenon
  <2>4. PICK k : k = N - d
    OBVIOUS
  <2>5. /\ k \in 0..(N - 1) /\ k \in 0..N /\ k + 1 = N - (d - 1) /\ d - 1 \in 0..N /\ ~(d <= d - 1)
        /\ k + 1 \in 1..N /\ k + 1 \in 0..Len(e) /\ k \in 0..(Len(e) - 1) /\ k \in 0..(Len(names) - 1)
    BY <1>1, <1>2, <1>5, <2>2, <2>3, <2>4
  <2>6. At(k + 1) = Ok(k + 1)
    <3>1. d - 1 \notin T
      BY <2>1, <2>5
    <3>2. At(N - (d - 1)) = Ok(N - (d - 1))
      BY <2>5, <3>1
    <3> QED BY <2>5, <3>2, Zenon
  <2>7. PICK name, value, ep, t, r, m : /\ name = names[k + 1] /\ value = props[name]
          /\ ep = EncodeProperty(name, value)
          /\ t = From(e, k) /\ r = From(e, k + 1) /\ m = Len(b) - Len(t)
    OBVIOUS
  <2>8. t = ep \o r /\ ep \in Seq(Byte) /\ r \in Seq(Byte) /\ Ends(b, t)
    <3>1. t = e[k + 1] \o r
      BY <1>5, <2>5, <2>7, FromFirst
    <3>2. e[k + 1] = ep
      BY <1>5, <2>5, <2>7
    <3>3. ep \in Seq(Byte) /\ r \in Seq(Byte)
      BY <1>4, <1>5, <2>5, <2>7, FromType
    <3>4. Ends(b, t)
      BY <1>7, <2>5, <2>7
    <3> QED BY <3>1, <3>2, <3>3, <3>4
  <2>9. Holds(b, m, ep) /\ Len(b) - Len(r) = m + Len(ep)
    <3>1. EndsIn(b, t, ep, r)
      BY <2>8, EndsOfEnds, Zenon
    <3> QED BY <2>7, <3>1, Zenon DEF EndsIn
  <2>10. /\ name \in Seq(Byte) /\ Len(name) < Base /\ IsUtf8(name)
         /\ value \in Seq(Byte) /\ Fits(Len(value), U32)
    BY <1>3, <2>5, <2>7
  <2>11. /\ m + 1 \in 1..Len(b) /\ ~Malformed(b, m + 1) /\ ValueEnd(b, m + 1) = m + Len(ep)
         /\ NameAt(b, m + 1) = name /\ ValueAt(b, m + 1) = value
    BY <2>7, <2>9, <2>10, PropertyAt
  <2>12. m + 1 \in 1..(Len(b) + 1) /\ m + 1 # Len(b) + 1
    BY <1>2, <2>11
  <2>13. At(k) = ParsedFrom(b, p, m + 1)
    BY <1>9, <2>7, <2>12, Zenon DEF At
  <2>14. p[ValueEnd(b, m + 1) + 1] = Ok(k + 1)
    BY <2>6, <2>7, <2>9, <2>11, Zenon DEF At
  <2>15. Ok(k + 1).ok = TRUE /\ Ok(k + 1).props = LaterProperties(props, names, k + 1)
    BY DEF Ok
  <2>16. ParsedFrom(b, p, m + 1)
           = [ok |-> TRUE, props |-> InsertBefore(LaterProperties(props, names, k + 1), name, value)]
    BY <2>11, <2>12, <2>14, <2>15, Zenon DEF ParsedFrom
  <2>17. InsertBefore(LaterProperties(props, names, k + 1), name, value) = LaterProperties(props, names, k)
    BY <2>5, <2>7, LaterOne
  <2>18. At(k) = Ok(k)
    BY <2>13, <2>16, <2>17, Zenon DEF Ok
  <2> QED BY <2>2, <2>4, <2>18, Zenon
<1>11. At(0) = Ok(0)
  <2> HIDE DEF At, Ok
  <2>1. N \in 0..N /\ N - N = 0
    BY <1>2
  <2>2. At(N - N) = Ok(N - N)
    BY <1>10, <2>1
  <2> QED BY <2>1, <2>2, Zenon
<1> QED BY <1>5, <1>6, <1>8, <1>11, Zenon

\* A command that was written is read back.
LEMMA CommandRoundTrip ==
  ASSUME NEW item, IsCommand(item), NEW b, b = CommandBody(item.props)
  PROVE  b \in Seq(Byte) /\ ParseCommand(b) = item
<1>1. PICK props, names, e, f : /\ props = item.props /\ names = SetToSeq(DOMAIN props)
        /\ e = [i \in 1..Len(names) |-> EncodeProperty(names[i], props[names[i]])]
        /\ f = FlattenSeq(e)
  OBVIOUS
<1>2. /\ IsProperties(props) /\ item = [kind |-> "command", props |-> props]
      /\ props = [n \in DOMAIN props |-> props[n]] /\ IsFiniteSet(DOMAIN props)
  BY <1>1 DEF IsCommand, IsProperties
<1>3. names \in Seq(DOMAIN props) /\ \A x \in DOMAIN props : \E i \in 1..Len(names) : names[i] = x
  BY <1>1, <1>2, SetToSeqIs
<1>4. DOMAIN names = 1..Len(names) /\ Len(names) \in Nat
  BY <1>3
<1>5. PICK h, n : n = Len(ReadyName) /\ h = <<n>>
  OBVIOUS
<1>6. b = (h \o ReadyName) \o f
  BY <1>1, <1>4, <1>5, Zenon DEF CommandBody
<1>7. n \in Nat /\ ReadyName \in Seq(Byte) /\ h \in Seq(Byte) /\ Len(h) = 1 /\ h[1] = n
  <2>1. n \in Nat /\ n \in Byte /\ ReadyName \in Seq(Byte)
    BY <1>5, NamesAssumption, BaseIsPositive DEF Byte
  <2> QED BY <1>5, <2>1, SingleByte
<1>8. f \in Seq(Byte)
  <2>1. ASSUME NEW i \in 1..Len(names) PROVE EncodeProperty(names[i], props[names[i]]) \in Seq(Byte)
    <3>1. names[i] \in DOMAIN props
      BY <1>3
    <3>2. names[i] \in Seq(Byte) /\ Len(names[i]) < Base /\ props[names[i]] \in Seq(Byte)
      BY <1>2, <3>1 DEF IsProperties
    <3> QED BY <3>2, PropertyBytes
  <2>2. e \in [1..Len(names) -> Seq(Byte)]
    BY <1>1, <2>1
  <2>3. e \in Seq(Seq(Byte))
    BY <1>4, <2>2
  <2> QED BY <1>1, <2>3, FlattenType
<1>9. b \in Seq(Byte) /\ ThreeJoin(b, h, ReadyName, f)
  BY <1>6, <1>7, <1>8, ThreeJoined, Zenon
<1>10. /\ Len(b) = 1 + n + Len(f) /\ Len(f) \in Nat /\ b[1] = n
       /\ \A i \in 1..Len(ReadyName) : b[1 + i] = ReadyName[i]
       /\ \A i \in 1..Len(f) : b[(1 + n) + i] = f[i]
  BY <1>5, <1>7, <1>9 DEF ThreeJoin
<1>11. Ends(b, f)
  <2>1. Len(f) <= Len(b) /\ Len(b) - Len(f) = 1 + n
    BY <1>7, <1>10
  <2> QED BY <1>10, <2>1 DEF Ends
<1>12. PropertiesFrom(b)[(Len(b) - Len(f)) + 1] = [ok |-> TRUE, props |-> LaterProperties(props, names, 0)]
  <2>1. Ends(b, FlattenSeq(e)) /\ IsProperties(props) /\ names \in Seq(DOMAIN props) /\ b \in Seq(Byte)
    BY <1>1, <1>2, <1>3, <1>9, <1>11, Zenon
  <2>2. PropertiesFrom(b)[(Len(b) - Len(FlattenSeq(e))) + 1]
          = [ok |-> TRUE, props |-> LaterProperties(props, names, 0)]
    BY <1>1, <2>1, PropertiesRoundTrip, Zenon
  <2> QED BY <1>1, <2>2, Zenon
<1>13. LaterProperties(props, names, 0) = props
  <2>1. 0 + 1 = 1
    OBVIOUS
  <2>2. {names[i] : i \in 1..Len(names)} = DOMAIN props
    <3>1. \A i \in 1..Len(names) : names[i] \in DOMAIN props
      BY <1>3
    <3> QED BY <1>3, <3>1, Zenon
  <2> QED BY <1>2, <2>1, <2>2, Zenon DEF LaterProperties
<1>14. SubSeq(b, 2, 1 + b[1]) = ReadyName /\ ~(Len(b) < 1 + b[1]) /\ b # <<>>
  <2>1. 1 + Len(ReadyName) <= Len(b)
    BY <1>5, <1>7, <1>10
  <2>2. SubSeq(b, 1 + 1, 1 + Len(ReadyName)) = ReadyName
    BY <1>7, <1>9, <1>10, <2>1, PartIs
  <2>3. 1 + 1 = 2
    OBVIOUS
  <2>4. SubSeq(b, 2, 1 + b[1]) = ReadyName
    BY <1>5, <1>10, <2>2, <2>3, Zenon
  <2>5. ~(Len(b) < 1 + b[1]) /\ b # <<>>
    BY <1>7, <1>9, <1>10
  <2> QED BY <2>4, <2>5
<1>15. PropertiesFrom(b)[2 + b[1]] = [ok |-> TRUE, props |-> props]
  <2>1. 2 + b[1] = (Len(b) - Len(f)) + 1
    BY <1>7, <1>10
  <2> QED BY <1>12, <1>13, <2>1, Zenon
<1>16. ParseCommand(b) = [kind |-> "command", props |-> props]
  <2>1. PICK v : v = PropertiesFrom(b)[2 + b[1]]
    OBVIOUS
  <2>2. v.ok = TRUE /\ v.props = props
    BY <1>15, <2>1
  <2> QED BY <1>14, <2>1, <2>2, Zenon DEF ParseCommand
<1> QED BY <1>2, <1>9, <1>16

\* The encodings of the items of a script, and those of the frames of a message.
Encodings(s) == [i \in DOMAIN s |-> Encode(s[i])]
FrameEncodings(frames) ==
  [i \in DOMAIN frames |-> encode_frame(frames[i], i # Len(frames))]

\* What the peer writes after k items of which the next has j frames written.
Ahead(s, k, j) ==
  IF k = Len(s) THEN <<>>
  ELSE (IF s[k + 1].kind = "message" THEN From(FrameEncodings(s[k + 1].frames), j)
                                     ELSE Encode(s[k + 1]))
       \o From(Encodings(s), k + 1)

\* A message is encoded frame by frame.
LEMMA FrameEncodingType ==
  ASSUME NEW frames \in Seq(Seq(Byte))
  PROVE  FrameEncodings(frames) \in Seq(Seq(Byte)) /\ Len(FrameEncodings(frames)) = Len(frames)
<1>1. ASSUME NEW i \in 1..Len(frames) PROVE encode_frame(frames[i], i # Len(frames)) \in Seq(Byte)
  <2>1. frames[i] \in Seq(Byte)
    OBVIOUS
  <2> QED BY <2>1, FrameType DEF encode_frame
<1>2. DOMAIN frames = 1..Len(frames) /\ Len(frames) \in Nat
  OBVIOUS
<1>3. PICK e : e = FrameEncodings(frames)
  OBVIOUS
<1>4. e \in [1..Len(frames) -> Seq(Byte)]
  BY <1>1, <1>2, <1>3 DEF FrameEncodings
<1>5. e \in Seq(Seq(Byte)) /\ Len(e) = Len(frames)
  BY <1>2, <1>4
<1> QED BY <1>3, <1>5

\* A greeting's bytes.
LEMMA GreetingBytes ==
  ASSUME NEW item, IsGreeting(item), NEW b, b = EncodeGreeting(item)
  PROVE  /\ b \in Seq(Byte) /\ Len(b) = greeting_len
         /\ b[1] = Base - 1 /\ b[2] = Base - 2 /\ b[3] = item.version
         /\ b[4] = item.mechanism /\ b[5] = IF item.as_server THEN 1 ELSE 0
<1>1. /\ item.version \in Byte /\ item.mechanism \in Byte
      /\ (IF item.as_server THEN 1 ELSE 0) \in Byte
      /\ Base - 1 \in Byte /\ Base - 2 \in Byte
  <2>1. item.version \in Byte /\ item.mechanism \in Mechanisms
    BY DEF IsGreeting
  <2>2. 0 \in Byte /\ 1 \in Byte /\ Base - 1 \in Byte /\ Base - 2 \in Byte
    BY BaseIsPositive DEF Byte
  <2> QED BY <2>1, <2>2, NamesAssumption
<1>2. PICK v, m, a : /\ v = item.version /\ m = item.mechanism
                     /\ a = IF item.as_server THEN 1 ELSE 0
  OBVIOUS
<1>3. PICK p, q : p = <<Base - 1, Base - 2>> /\ q = <<v, m, a>>
  OBVIOUS
<1>4. b = p \o q
  BY <1>2, <1>3 DEF EncodeGreeting, SignatureBytes
<1>5. p \in Seq(Byte) /\ Len(p) = 2 /\ p[1] = Base - 1 /\ p[2] = Base - 2
  BY <1>1, <1>3, TwoBytes
<1>6. q \in Seq(Byte) /\ Len(q) = 3 /\ q[1] = v /\ q[2] = m /\ q[3] = a
  BY <1>1, <1>2, <1>3
<1>7. b \in Seq(Byte) /\ Joins(b, p, q)
  BY <1>4, <1>5, <1>6, Concat, Zenon
<1>8. /\ Len(b) = 5 /\ b[1] = p[1] /\ b[2] = p[2]
      /\ b[2 + 1] = q[1] /\ b[2 + 2] = q[2] /\ b[2 + 3] = q[3]
  BY <1>5, <1>6, <1>7 DEF Joins
<1> QED BY <1>2, <1>5, <1>6, <1>7, <1>8 DEF greeting_len

\* ZmqGreeting::try_from returns the greeting that was encoded.
LEMMA GreetingRoundTrip ==
  ASSUME NEW item, IsGreeting(item)
  PROVE  ParseGreeting(EncodeGreeting(item)) = item
<1>1. PICK b : b = EncodeGreeting(item)
  OBVIOUS
<1>2. PICK v, m, a : /\ v = item.version /\ m = item.mechanism
                     /\ a = IF item.as_server THEN 1 ELSE 0
  OBVIOUS
<1>3. b \in Seq(Byte) /\ Len(b) = 5 /\ b[1] = Base - 1 /\ b[2] = Base - 2
  BY <1>1, GreetingBytes DEF greeting_len
<1>4. b[3] = v /\ b[4] = m /\ b[5] = a
  BY <1>1, <1>2, GreetingBytes
<1>5. SubSeq(b, 1, 2) = SignatureBytes
  <2>1. PICK p : p = SignatureBytes
    OBVIOUS
  <2>2. p \in Seq(Byte) /\ Len(p) = 2 /\ p[1] = Base - 1 /\ p[2] = Base - 2
    <3>1. Base - 1 \in Byte /\ Base - 2 \in Byte
      BY BaseIsPositive DEF Byte
    <3> QED BY <2>1, <3>1, TwoBytes DEF SignatureBytes
  <2>3. 0 + Len(p) <= Len(b) /\ \A i \in 1..Len(p) : b[0 + i] = p[i]
    BY <1>3, <2>2
  <2>4. SubSeq(b, 0 + 1, 0 + Len(p)) = p
    BY <1>3, <2>2, <2>3, PartIs
  <2>5. 0 + 1 = 1 /\ 0 + Len(p) = 2
    BY <2>2
  <2> QED BY <2>1, <2>4, <2>5, Zenon
<1>6. /\ item.mechanism \in Mechanisms /\ item.as_server \in BOOLEAN
      /\ item = [kind |-> "greeting", version |-> v, mechanism |-> m,
                 as_server |-> item.as_server]
  BY <1>2 DEF IsGreeting
<1>7. (b[5] = 1) = item.as_server
  BY <1>2, <1>4, <1>6
<1> QED BY <1>1, <1>2, <1>3, <1>4, <1>5, <1>6, <1>7 DEF ParseGreeting, greeting_len

\* The kinds of items are encoded as bytes.
LEMMA EncodedItemType ==
  ASSUME NEW item, IsGreeting(item) \/ IsMessage(item) \/ IsCommand(item) \/ IsRaw(item)
  PROVE  Encode(item) \in Seq(Byte)
<1>1. CASE IsGreeting(item)
  <2>1. item.kind = "greeting"
    BY <1>1 DEF IsGreeting
  <2>2. Encode(item) = EncodeGreeting(item)
    BY <2>1 DEF Encode
  <2> QED BY <1>1, <2>2, GreetingBytes
<1>2. CASE IsMessage(item)
  <2>1. item.kind = "message" /\ item.frames \in Seq(Seq(Byte))
    BY <1>2 DEF IsMessage
  <2>2. Encode(item) = FlattenSeq(FrameEncodings(item.frames))
    BY <2>1 DEF Encode, EncodeMessage, FrameEncodings
  <2>3. FrameEncodings(item.frames) \in Seq(Seq(Byte))
    BY <2>1, FrameEncodingType
  <2> QED BY <2>2, <2>3, FlattenType
<1>3. CASE IsCommand(item)
  <2>1. item.kind = "command" /\ CommandBody(item.props) \in Seq(Byte)
    BY <1>3, CommandRoundTrip DEF IsCommand
  <2>2. Encode(item) = FrameOf(CommandBody(item.props), 4)
    BY <2>1 DEF Encode, EncodeCommand
  <2> QED BY <2>1, <2>2, FrameType
<1>4. CASE IsRaw(item)
  <2>1. item.kind = "raw" /\ item.bytes \in Seq(Byte)
    BY <1>4 DEF IsRaw
  <2> QED BY <2>1 DEF Encode
<1> QED BY <1>1, <1>2, <1>3, <1>4

\* A script is encoded item by item.
LEMMA EncodingsType ==
  ASSUME NEW s \in Scripts
  PROVE  /\ Len(s) \in Nat /\ s \in Seq(Range(s))
         /\ Encodings(s) \in Seq(Seq(Byte)) /\ Len(Encodings(s)) = Len(s)
         /\ \A i \in 1..Len(s) : Encodings(s)[i] = Encode(s[i])
<1>1. s \in Seq(Range(s)) /\ Len(s) \in Nat /\ DOMAIN s = 1..Len(s)
  BY ScriptsAssumption
<1>2. ASSUME NEW i \in 1..Len(s) PROVE Encode(s[i]) \in Seq(Byte)
  <2>1. CASE i = 1
    <3>1. s # <<>>
      BY <1>1
    <3> QED BY <2>1, <3>1, ScriptsAssumption, EncodedItemType
  <2>2. CASE i # 1
    <3>1. i \in 2..Len(s)
      BY <1>1, <2>2
    <3> QED BY <3>1, ScriptsAssumption, EncodedItemType
  <2> QED BY <2>1, <2>2
<1>3. PICK e : e = Encodings(s)
  OBVIOUS
<1>4. e = [i \in 1..Len(s) |-> Encode(s[i])]
  BY <1>1, <1>3 DEF Encodings
<1>5. e \in [1..Len(s) -> Seq(Byte)] /\ \A i \in 1..Len(s) : e[i] = Encode(s[i])
  BY <1>2, <1>4
<1>6. e \in Seq(Seq(Byte)) /\ Len(e) = Len(s)
  BY <1>1, <1>5
<1> QED BY <1>1, <1>3, <1>5, <1>6

\* A script is encoded as bytes.
LEMMA EncodedType ==
  ASSUME NEW s \in Scripts
  PROVE  Encoded(s) \in Seq(Byte) /\ Encoded(s) = From(Encodings(s), 0)
<1>1. Encodings(s) \in Seq(Seq(Byte))
  BY EncodingsType
<1>2. Encoded(s) = FlattenSeq(Encodings(s))
  BY DEF Encoded, Encodings
<1> QED BY <1>1, <1>2, FlattenType, FromEnds

-----------------------------------------------------------------------------
(* Buffers and lengths *)

\* What the decoder waits for in each of its states.  A frame's length was
\* checked together with the chunk that may follow it (zmq_codec.rs:117).
WaitingInv ==
  /\ state = "Greeting" => waiting_for = greeting_len
  /\ state = "FrameHeader" => waiting_for = 1
  /\ state = "FrameLen" => waiting_for = IF frame.long THEN U64 ELSE 1
  /\ waiting_for + max_size <= IsizeMax

\* The transport is read only when the buffer cannot be decoded further.
ReadingInv == poll = "read" => Len(buffer) < waiting_for

IInv == TypeOK /\ WaitingInv /\ ReadingInv

\* What is left of the bytes after some of them were used.
LEMMA DropType ==
  ASSUME NEW S, NEW b \in Seq(S), NEW n \in Nat
  PROVE  Drop(b, n) \in Seq(S)
BY DEF Drop

\* The first bytes of a buffer are bytes.
LEMMA FirstType ==
  ASSUME NEW S, NEW b \in Seq(S), NEW n \in Nat, n <= Len(b)
  PROVE  SubSeq(b, 1, n) \in Seq(S)
OBVIOUS

\* The three flags of a header byte.
LEMMA FlagsType ==
  ASSUME NEW b
  PROVE  Flags(b) \in [command : BOOLEAN, long : BOOLEAN, more : BOOLEAN]
BY DEF Flags

\* The smallest power of two that holds a read is a number below twice the read.
LEMMA PowerType ==
  ASSUME NEW n \in 1..max_size
  PROVE  next_power_of_two(n) \in Nat /\ n <= next_power_of_two(n)
BY PowersAssumption, OptionsAssumption DEF next_power_of_two

\* A chunk stays between the initial and the maximum size (framed.rs:73-92).
LEMMA ChunkType ==
  ASSUME NEW n \in 1..max_size, read_chunk_size \in initial_size..max_size
  PROVE  /\ Grown(n) \in initial_size..max_size
         /\ Shrunk(n) \in initial_size..max_size
<1>1. Grown(n) \in initial_size..max_size
  BY OptionsAssumption DEF Grown, AtMost
<1>2. Shrunk(n) \in initial_size..max_size
  BY <1>1, PowerType, OptionsAssumption DEF Shrunk, AtMost, AtLeast
<1> QED BY <1>1, <1>2

\* A transport that was offered read_size bytes fills at most the unread ones.
LEMMA ReadBound ==
  ASSUME TypeOK, NEW n \in 1..max_size, Read(n)
  PROVE  n \in Nat /\ n <= Len(wire) /\ wire \in Seq(Byte) /\ buffer \in Seq(Byte)
<1>1. /\ read_chunk_size \in Nat /\ waiting_for \in Nat
      /\ Len(buffer) \in Nat /\ Len(wire) \in Nat /\ max_size \in Nat
  BY OptionsAssumption DEF TypeOK
<1>2. read_size \in Int
  BY <1>1 DEF read_size, bytes_needed, AtMost, AtLeast
<1>3. n <= Len(wire)
  BY <1>1, <1>2 DEF Read, AtMost
<1> QED BY <1>1, <1>3 DEF TypeOK

\* Codec starts in the invariant.
LEMMA InitInv == Init => IInv
<1> SUFFICES ASSUME Init PROVE IInv OBVIOUS
<1>1. NoFrame \in [command : BOOLEAN, long : BOOLEAN, more : BOOLEAN]
  BY FlagsType DEF NoFrame
<1>2. Encoded(script) \in Seq(Byte)
  BY EncodedType DEF Init
<1>3. <<>> \in Seq(Byte) /\ <<>> \in Seq(Seq(Byte))
  OBVIOUS
<1>4. initial_size \in initial_size..max_size /\ 0 \in 0..(short_limit - 1)
  BY OptionsAssumption
<1>5. TypeOK
  BY <1>1, <1>2, <1>3, <1>4 DEF Init, TypeOK, Polls, greeting_len
<1>6. WaitingInv /\ ReadingInv
  BY OptionsAssumption DEF Init, WaitingInv, ReadingInv, greeting_len
<1> QED BY <1>5, <1>6 DEF IInv

\* Every step of poll_next, of the transport and of the peer keeps it.
LEMMA NextInv == IInv /\ [Next]_vars => IInv'
<1> SUFFICES ASSUME IInv, [Next]_vars PROVE IInv' OBVIOUS
<1> USE DEF IInv
<1>1. CASE Poll
  BY <1>1 DEF Poll, TypeOK, WaitingInv, ReadingInv, Polls, decoder, reader, connection
<1>2. CASE DecodeGreeting
  <2>1. Drop(buffer, greeting_len) \in Seq(Byte)
    BY DropType DEF TypeOK, greeting_len
  <2>2. TypeOK'
    BY <1>2, <2>1 DEF DecodeGreeting, HasBytes, Yield, Advance, TypeOK, Polls, decoder, reader, connection
  <2>3. WaitingInv' /\ ReadingInv'
    BY <1>2, OptionsAssumption, FieldsAssumption
       DEF DecodeGreeting, HasBytes, Yield, Advance, WaitingInv, ReadingInv, TypeOK, decoder, greeting_len
  <2> QED BY <2>2, <2>3
<1>3. CASE DecodeHeader
  <2>1. Drop(buffer, 1) \in Seq(Byte)
    BY DropType DEF TypeOK
  <2>2. frame' \in [command : BOOLEAN, long : BOOLEAN, more : BOOLEAN]
    BY <1>3, FlagsType DEF DecodeHeader
  <2>3. TypeOK'
    BY <1>3, <2>1, <2>2, FieldsAssumption
       DEF DecodeHeader, HasBytes, GoOn, Advance, TypeOK, Polls, reader, connection
  <2>4. WaitingInv' /\ ReadingInv'
    BY <1>3, OptionsAssumption, FieldsAssumption
       DEF DecodeHeader, HasBytes, Decoding, GoOn, Advance, WaitingInv, ReadingInv, TypeOK
  <2> QED BY <2>3, <2>4
<1>4. CASE DecodeLen
  <2> DEFINE len == IF frame.long THEN FromBigEndian(SubSeq(buffer, 1, U64)) ELSE Head(buffer)
  <2>1. Drop(buffer, U64) \in Seq(Byte) /\ Drop(buffer, waiting_for) \in Seq(Byte)
    BY DropType, FieldsAssumption DEF TypeOK
  <2>2. CASE frame.long /\ ~Representable(len)
    <3>1. /\ buffer' = Drop(buffer, U64)
          /\ UNCHANGED <<state, waiting_for, frame, buffered_message, reader, connection, yielded>>
          /\ poll' = "idle" /\ outcome' = "error"
      BY <1>4, <2>2 DEF DecodeLen, Yield
    <3> QED
      BY <3>1, <2>1 DEF TypeOK, WaitingInv, ReadingInv, Polls, reader, connection
  <2>3. CASE ~(frame.long /\ ~Representable(len))
    <3>1. /\ state' = "Frame" /\ waiting_for' = len /\ buffer' = Drop(buffer, waiting_for)
          /\ UNCHANGED <<frame, buffered_message, reader, connection, yielded, poll, outcome>>
          /\ Decoding /\ Len(buffer) >= waiting_for /\ state = "FrameLen"
      BY <1>4, <2>3 DEF DecodeLen, Advance, GoOn, HasBytes
    <3>2. len \in Nat /\ len + max_size <= IsizeMax
      <4>1. CASE frame.long
        BY <4>1, <2>3, OptionsAssumption DEF Representable
      <4>2. CASE ~frame.long
        <5>1. Len(buffer) >= 1
          BY <3>1, <4>2 DEF WaitingInv
        <5>2. Head(buffer) \in Byte
          BY <5>1 DEF TypeOK
        <5> QED BY <5>2, <4>2, OptionsAssumption, BaseAssumption DEF Byte
      <4> QED BY <4>1, <4>2
    <3> HIDE DEF len
    <3> QED
      BY <3>1, <3>2, <2>1 DEF TypeOK, WaitingInv, ReadingInv, Decoding, Polls, reader, connection
  <2> QED BY <2>2, <2>3
<1>5. CASE DecodeFrame
  <2>1. Drop(buffer, waiting_for) \in Seq(Byte)
    BY DropType DEF TypeOK
  <2>2. SubSeq(buffer, 1, waiting_for) \in Seq(Byte)
    BY <1>5, FirstType DEF DecodeFrame, HasBytes, TypeOK
  <2>3. buffered_message' \in Seq(Seq(Byte))
    <3>1. /\ <<>> \in Seq(Seq(Byte)) /\ buffered_message \in Seq(Seq(Byte))
          /\ Append(buffered_message, SubSeq(buffer, 1, waiting_for)) \in Seq(Seq(Byte))
      BY <2>2 DEF TypeOK
    <3>2. \/ buffered_message' = <<>> \/ buffered_message' = buffered_message
          \/ buffered_message' = Append(buffered_message, SubSeq(buffer, 1, waiting_for))
      BY <1>5 DEF DecodeFrame
    <3> QED BY <3>1, <3>2
  <2>4. poll' \in Polls /\ outcome' \in {"open", "clean", "error"} /\ poll' # "read"
    BY <1>5 DEF DecodeFrame, HasBytes, Decoding, Yield, GoOn, TypeOK, Polls
  <2>5. /\ state' = "FrameHeader" /\ waiting_for' = 1 /\ buffer' = Drop(buffer, waiting_for)
        /\ UNCHANGED <<frame, reader, connection>>
    BY <1>5 DEF DecodeFrame, Advance
  <2> QED
    BY <2>1, <2>3, <2>4, <2>5, OptionsAssumption DEF TypeOK, WaitingInv, ReadingInv, reader, connection
<1>6. CASE NeedMore
  BY <1>6 DEF NeedMore, TypeOK, WaitingInv, ReadingInv, Polls, decoder, reader, connection
<1>7. CASE ReadSome
  <2>1. PICK n \in 1..max_size : Read(n)
    BY <1>7 DEF ReadSome
  <2>2. n <= Len(wire) /\ n \in Nat
    BY <2>1, ReadBound
  <2>3. SubSeq(wire, 1, n) \in Seq(Byte) /\ Drop(wire, n) \in Seq(Byte)
    BY <2>2, FirstType, DropType DEF TypeOK
  <2>4. buffer' \in Seq(Byte) /\ wire' \in Seq(Byte)
    BY <2>1, <2>3 DEF Read, TypeOK
  <2>5. read_chunk_size' \in initial_size..max_size /\ short_reads' \in 0..(short_limit - 1)
    <3>1. Grown(n) \in initial_size..max_size /\ Shrunk(n) \in initial_size..max_size
      BY ChunkType DEF TypeOK
    <3>2. Adapt(n)
      BY <2>1 DEF Read
    <3> HIDE DEF IInv
    <3>3. short_reads \in 0..(short_limit - 1) /\ short_limit \in Nat \ {0}
      BY OptionsAssumption DEF IInv, TypeOK
    <3> QED BY <3>1, <3>2, <3>3 DEF Adapt
  <2> QED
    BY <2>1, <2>4, <2>5 DEF Read, TypeOK, WaitingInv, ReadingInv, Polls, decoder
<1>8. CASE ReadEnd \/ ReadPending \/ ReadFails
  BY <1>8 DEF ReadEnd, ReadPending, ReadFails, TypeOK, WaitingInv, ReadingInv, Polls, decoder, reader, connection
<1>9. CASE Cut
  <2>1. PICK n \in 0..(Len(wire) - 1) : wire' = SubSeq(wire, 1, n)
    BY <1>9 DEF Cut
  <2>2. wire' \in Seq(Byte)
    BY <2>1, FirstType DEF TypeOK
  <2> QED
    BY <1>9, <2>2 DEF Cut, TypeOK, WaitingInv, ReadingInv, decoder, reader
<1>10. CASE UNCHANGED vars
  BY <1>10 DEF vars, TypeOK, WaitingInv, ReadingInv, decoder, reader, connection
<1> QED
  BY <1>1, <1>2, <1>3, <1>4, <1>5, <1>6, <1>7, <1>8, <1>9, <1>10 DEF Next, Decode, Ended

\* The invariant holds in every reachable state.
THEOREM Invariance == Spec => []IInv
BY InitInv, NextInv, PTL DEF Spec

\* The decoder's and the reader's state keep their types; in particular the
\* adaptive chunk stays between the two configured sizes (framed.rs:73-92).
THEOREM TypeCorrect == Spec => []TypeOK
<1>1. IInv => TypeOK BY DEF IInv
<1> QED BY Invariance, <1>1, PTL

\* A chunk is never empty, and a frame's length leaves room for one.
LEMMA RangeInv == IInv => ReadsInRange
BY OptionsAssumption
   DEF IInv, TypeOK, WaitingInv, ReadingInv, ReadsInRange, read_size, bytes_needed, reserve_to, AtMost, AtLeast

\* A read always offers space, and neither the space prepared for a read nor
\* the capacity that decode reserves exceeds isize::MAX, for every chunk
\* configuration that read_buffer accepts and whatever lengths the peer writes
\* (framed.rs:58-68, zmq_codec.rs:71-85 and 112-122).
THEOREM ReadsStayInRange == Spec => []ReadsInRange
BY Invariance, RangeInv, PTL

\* Recovery from a burst never leaves less room than twice the initial chunk,
\* nor less than what was just read (framed.rs:79-92).
THEOREM ShrinksSafely == Spec => ShrinksOnlyAfterShortReads
<1> DEFINE A == read_chunk_size' < read_chunk_size =>
                  /\ short_reads = short_limit - 1
                  /\ read_chunk_size' >= 2 * initial_size
                  /\ Len(buffer') - Len(buffer) < read_chunk_size'
<1>1. IInv /\ [Next]_vars => A
  <2> SUFFICES ASSUME IInv, [Next]_vars, read_chunk_size' < read_chunk_size
               PROVE  A
    OBVIOUS
  <2>1. PICK n \in 1..max_size : Read(n)
    BY DEF Next, Decode, Ended, Poll, DecodeGreeting, DecodeHeader, DecodeLen, DecodeFrame, NeedMore,
           ReadSome, ReadEnd, ReadPending, ReadFails, Cut, vars, reader, IInv, TypeOK
  <2>2. n <= Len(wire) /\ n \in Nat /\ wire \in Seq(Byte) /\ buffer \in Seq(Byte)
    BY <2>1, ReadBound DEF IInv
  <2>3. Len(buffer') - Len(buffer) = n
    BY <2>1, <2>2 DEF Read
  <2>4. Grown(n) >= read_chunk_size /\ Grown(n) \in initial_size..max_size
    BY ChunkType, OptionsAssumption DEF Grown, AtMost, IInv, TypeOK
  <2>5. /\ n < Grown(n) \div 2
        /\ short_reads + 1 = short_limit
        /\ read_chunk_size' = Shrunk(n)
    BY <2>1, <2>4, OptionsAssumption DEF Read, Adapt, IInv, TypeOK
  <2>6. next_power_of_two(n) \in Nat /\ n <= next_power_of_two(n)
    BY PowerType
  <2>7. /\ initial_size \in Nat /\ read_chunk_size \in Nat /\ Grown(n) \in Nat
        /\ short_limit \in Nat /\ short_reads \in Nat
    BY <2>4, OptionsAssumption DEF IInv, TypeOK
  <2>8. Shrunk(n) = AtLeast(2 * next_power_of_two(n), 2 * initial_size)
    BY <2>4, <2>5, <2>6, <2>7 DEF Shrunk, AtMost, AtLeast
  <2>9. Shrunk(n) >= 2 * initial_size /\ n < Shrunk(n)
    BY <2>6, <2>7, <2>8 DEF AtLeast
  <2> QED
    BY <2>3, <2>5, <2>7, <2>9
<1> QED BY Invariance, <1>1, PTL DEF Spec, ShrinksOnlyAfterShortReads

\* The buffer and then the wire hold what L has after its first u bytes, up to the
\* place where the connection was cut.
View(L, u, buf, w, c) ==
  /\ u + Len(buf) + Len(w) <= Len(L)
  /\ ~c => u + Len(buf) + Len(w) = Len(L)
  /\ \A i \in 1..Len(buf) : buf[i] = L[u + i]
  /\ \A i \in 1..Len(w) : w[i] = L[u + Len(buf) + i]

\* The last bytes of a buffer.
LEMMA DropIs ==
  ASSUME NEW S, NEW b \in Seq(S), NEW n \in Nat, n <= Len(b), NEW d, d = Drop(b, n)
  PROVE  /\ d \in Seq(S) /\ Len(d) = Len(b) - n /\ Len(d) \in Nat
         /\ \A i \in 1..Len(d) : d[i] = b[n + i]
<1>1. Len(b) \in Nat
  OBVIOUS
<1>2. d = SubSeq(b, n + 1, Len(b))
  BY DEF Drop
<1>3. d \in Seq(S) /\ Len(d) = Len(b) - n
  BY <1>1, <1>2
<1>4. ASSUME NEW i \in 1..Len(d) PROVE d[i] = b[n + i]
  <2>1. i \in 1..(Len(b) - n)
    BY <1>3
  <2>2. d[i] = b[(n + 1) + i - 1] /\ (n + 1) + i - 1 = n + i
    BY <1>1, <1>2, <2>1
  <2> QED BY <2>2, Zenon
<1> QED BY <1>1, <1>3, <1>4

\* The first bytes of a buffer.
LEMMA TakeIs ==
  ASSUME NEW S, NEW b \in Seq(S), NEW n \in Nat, n <= Len(b), NEW d, d = SubSeq(b, 1, n)
  PROVE  d \in Seq(S) /\ Len(d) = n /\ \A i \in 1..n : d[i] = b[i]
<1>1. Len(b) \in Nat
  OBVIOUS
<1>2. d \in Seq(S) /\ Len(d) = n
  BY <1>1
<1>3. ASSUME NEW i \in 1..n PROVE d[i] = b[i]
  BY <1>1
<1> QED BY <1>2, <1>3

\* The decoder uses bytes of the buffer.
LEMMA ViewDrop ==
  ASSUME NEW L \in Seq(Byte), NEW u \in Nat, NEW buf \in Seq(Byte), NEW w \in Seq(Byte), NEW c,
         View(L, u, buf, w, c), NEW n \in Nat, n <= Len(buf), NEW d, d = Drop(buf, n)
  PROVE  View(L, u + n, d, w, c)
<1>1. /\ d \in Seq(Byte) /\ Len(d) = Len(buf) - n /\ Len(d) \in Nat
      /\ \A i \in 1..Len(d) : d[i] = buf[n + i]
  BY DropIs
<1>2. Len(L) \in Nat /\ Len(buf) \in Nat /\ Len(w) \in Nat
  OBVIOUS
<1>3. (u + n) + Len(d) = u + Len(buf)
  BY <1>1, <1>2
<1>4. ASSUME NEW i \in 1..Len(d) PROVE d[i] = L[(u + n) + i]
  <2>1. n + i \in 1..Len(buf) /\ u + (n + i) = (u + n) + i /\ d[i] = buf[n + i]
    BY <1>1, <1>2
  <2>2. buf[n + i] = L[u + (n + i)]
    BY <2>1 DEF View
  <2> QED BY <2>1, <2>2, Zenon
<1> QED BY <1>3, <1>4 DEF View

\* What was used is left behind.
LEMMA ViewAfter ==
  ASSUME NEW L \in Seq(Byte), NEW u \in Nat, NEW buf \in Seq(Byte), NEW w \in Seq(Byte), NEW c,
         View(L, u, buf, w, c), NEW a \in Seq(Byte), Len(L) = u + Len(a),
         \A i \in 1..Len(a) : L[u + i] = a[i]
  PROVE  View(a, 0, buf, w, c)
<1>1. Len(a) \in Nat /\ Len(buf) \in Nat /\ Len(w) \in Nat
  OBVIOUS
<1>2. Len(buf) + Len(w) <= Len(a) /\ (~c => Len(buf) + Len(w) = Len(a))
  BY <1>1 DEF View
<1>3. ASSUME NEW i \in 1..Len(buf) PROVE buf[i] = a[0 + i]
  <2>1. i \in 1..Len(a) /\ 0 + i = i
    BY <1>1, <1>2
  <2> QED BY <2>1 DEF View
<1>4. ASSUME NEW i \in 1..Len(w) PROVE w[i] = a[0 + Len(buf) + i]
  <2>1. /\ Len(buf) + i \in 1..Len(a) /\ 0 + Len(buf) + i = Len(buf) + i
        /\ u + (Len(buf) + i) = u + Len(buf) + i
    BY <1>1, <1>2
  <2>2. w[i] = L[u + Len(buf) + i]
    BY DEF View
  <2>3. L[u + (Len(buf) + i)] = a[Len(buf) + i]
    BY <2>1
  <2> QED BY <2>1, <2>2, <2>3, Zenon
<1> QED BY <1>1, <1>2, <1>3, <1>4 DEF View

\* The transport moves bytes from the wire to the buffer.
LEMMA ViewRead ==
  ASSUME NEW L \in Seq(Byte), NEW u \in Nat, NEW buf \in Seq(Byte), NEW w \in Seq(Byte), NEW c,
         View(L, u, buf, w, c), NEW n \in Nat, n <= Len(w)
  PROVE  View(L, u, buf \o SubSeq(w, 1, n), Drop(w, n), c)
<1>1. PICK x, y, z : x = SubSeq(w, 1, n) /\ y = Drop(w, n) /\ z = buf \o x
  OBVIOUS
<1>2. x \in Seq(Byte) /\ Len(x) = n /\ \A i \in 1..n : x[i] = w[i]
  BY <1>1, TakeIs
<1>3. /\ y \in Seq(Byte) /\ Len(y) = Len(w) - n /\ Len(y) \in Nat
      /\ \A i \in 1..Len(y) : y[i] = w[n + i]
  BY <1>1, DropIs
<1>4. Joins(z, buf, x)
  BY <1>1, <1>2, Concat, Zenon
<1>5. Len(L) \in Nat /\ Len(buf) \in Nat /\ Len(w) \in Nat /\ Len(z) = Len(buf) + n
  BY <1>2, <1>4 DEF Joins
<1>6. u + Len(z) + Len(y) = u + Len(buf) + Len(w)
  BY <1>3, <1>5
<1>7. ASSUME NEW i \in 1..Len(z) PROVE z[i] = L[u + i]
  <2>1. CASE i <= Len(buf)
    <3>1. i \in 1..Len(buf)
      BY <1>5, <2>1
    <3> QED BY <1>4, <3>1 DEF Joins, View
  <2>2. CASE i > Len(buf)
    <3>1. PICK m : m = i - Len(buf)
      OBVIOUS
    <3>2. m \in 1..n /\ m \in 1..Len(w) /\ i = Len(buf) + m /\ u + Len(buf) + m = u + i
      BY <1>5, <2>2, <3>1
    <3>3. z[i] = w[m]
      BY <1>2, <1>4, <3>2 DEF Joins
    <3>4. w[m] = L[u + Len(buf) + m]
      BY <3>2 DEF View
    <3> QED BY <3>2, <3>3, <3>4, Zenon
  <2> QED BY <1>5, <2>1, <2>2
<1>8. ASSUME NEW i \in 1..Len(y) PROVE y[i] = L[u + Len(z) + i]
  <2>1. n + i \in 1..Len(w) /\ u + Len(buf) + (n + i) = u + Len(z) + i
    BY <1>3, <1>5
  <2>2. y[i] = w[n + i]
    BY <1>3
  <2>3. w[n + i] = L[u + Len(buf) + (n + i)]
    BY <2>1 DEF View
  <2> QED BY <2>1, <2>2, <2>3, Zenon
<1>9. View(L, u, z, y, c)
  BY <1>6, <1>7, <1>8 DEF View
<1> QED BY <1>1, <1>9

\* The connection breaks.
LEMMA ViewCut ==
  ASSUME NEW L \in Seq(Byte), NEW u \in Nat, NEW buf \in Seq(Byte), NEW w \in Seq(Byte), NEW c,
         View(L, u, buf, w, c), NEW n \in Nat, n <= Len(w)
  PROVE  View(L, u, buf, SubSeq(w, 1, n), TRUE)
<1>1. PICK x : x = SubSeq(w, 1, n)
  OBVIOUS
<1>2. x \in Seq(Byte) /\ Len(x) = n /\ \A i \in 1..n : x[i] = w[i]
  BY <1>1, TakeIs
<1>3. Len(L) \in Nat /\ Len(buf) \in Nat /\ Len(w) \in Nat
  OBVIOUS
<1>4. u + Len(buf) + Len(x) <= Len(L)
  BY <1>2, <1>3 DEF View
<1>5. ASSUME NEW i \in 1..Len(x) PROVE x[i] = L[u + Len(buf) + i]
  <2>1. i \in 1..Len(w) /\ x[i] = w[i]
    BY <1>2, <1>3
  <2> QED BY <2>1 DEF View
<1>6. View(L, u, buf, x, TRUE)
  BY <1>4, <1>5 DEF View
<1> QED BY <1>1, <1>6

\* Everything is still to be read.
LEMMA ViewStart ==
  ASSUME NEW L \in Seq(Byte)
  PROVE  View(L, 0, <<>>, L, FALSE)
<1>1. Len(L) \in Nat /\ Len(<<>>) = 0
  OBVIOUS
<1>2. \A i \in 1..Len(L) : 0 + 0 + i = i
  OBVIOUS
<1> QED BY <1>1, <1>2 DEF View

\* A buffer that begins with x is decoded as x.
LEMMA ViewPart ==
  ASSUME NEW L \in Seq(Byte), NEW u \in Nat, NEW buf \in Seq(Byte), NEW w \in Seq(Byte), NEW c,
         View(L, u, buf, w, c), NEW x \in Seq(Byte), Len(x) <= Len(buf),
         \A i \in 1..Len(x) : L[u + i] = x[i]
  PROVE  SubSeq(buf, 1, Len(x)) = x
<1>1. PICK d : d = SubSeq(buf, 1, Len(x))
  OBVIOUS
<1>2. Len(x) \in Nat /\ Len(buf) \in Nat
  OBVIOUS
<1>3. d \in Seq(Byte) /\ Len(d) = Len(x) /\ \A i \in 1..Len(x) : d[i] = buf[i]
  BY <1>1, <1>2, TakeIs
<1>4. ASSUME NEW i \in 1..Len(d) PROVE d[i] = x[i]
  <2>1. i \in 1..Len(x) /\ i \in 1..Len(buf)
    BY <1>2, <1>3
  <2> QED BY <1>3, <2>1 DEF View
<1> QED BY <1>1, <1>3, <1>4, SameSequence

\* What an item of a script is.
LEMMA ItemKinds ==
  ASSUME NEW s \in Scripts, NEW i \in 1..Len(s), NEW item, item = s[i]
  PROVE  /\ i = 1 => \/ item.kind = "greeting" /\ IsGreeting(item)
                     \/ item.kind = "raw" /\ IsRaw(item) /\ RefusedGreeting(item.bytes)
         /\ i # 1 => \/ item.kind = "message" /\ IsMessage(item)
                     \/ item.kind = "command" /\ IsCommand(item)
                     \/ item.kind = "raw" /\ IsRaw(item) /\ RefusedFrame(item.bytes)
<1>1. /\ IsGreeting(item) => item.kind = "greeting"
      /\ IsRaw(item) => item.kind = "raw"
      /\ IsMessage(item) => item.kind = "message"
      /\ IsCommand(item) => item.kind = "command"
  BY DEF IsGreeting, IsRaw, IsMessage, IsCommand
<1>2. CASE i = 1
  <2>1. s # <<>>
    BY EncodingsType
  <2>2. IsGreeting(item) \/ (IsRaw(item) /\ RefusedGreeting(item.bytes))
    BY <1>2, <2>1, ScriptsAssumption
  <2> QED BY <1>1, <1>2, <2>2
<1>3. CASE i # 1
  <2>1. i \in 2..Len(s)
    BY <1>3, EncodingsType
  <2>2. \/ IsMessage(item) \/ IsCommand(item)
        \/ IsRaw(item) /\ RefusedFrame(item.bytes)
    BY <2>1, ScriptsAssumption
  <2> QED BY <1>1, <1>3, <2>2
<1> QED BY <1>2, <1>3

\* Between items, what is ahead is what the peer writes from the next item on.
LEMMA AheadStart ==
  ASSUME NEW s \in Scripts, NEW k \in 0..Len(s)
  PROVE  /\ Ahead(s, k, 0) = From(Encodings(s), k)
         /\ Ahead(s, k, 0) \in Seq(Byte)
<1>1. PICK e : e = Encodings(s)
  OBVIOUS
<1>2. /\ Len(s) \in Nat /\ e \in Seq(Seq(Byte)) /\ Len(e) = Len(s)
      /\ \A i \in 1..Len(s) : e[i] = Encode(s[i])
  BY <1>1, EncodingsType
<1>3. From(e, k) \in Seq(Byte)
  BY <1>2, FromType
<1>4. Ahead(s, k, 0) = From(e, k)
  <2>1. CASE k = Len(s)
    <3>1. From(e, k) = <<>>
      BY <1>2, <2>1, FromEnds
    <3> QED BY <2>1, <3>1 DEF Ahead
  <2>2. CASE k # Len(s)
    <3>1. k \in 0..(Len(e) - 1) /\ k + 1 \in 1..Len(s)
      BY <1>2, <2>2
    <3>2. From(e, k) = e[k + 1] \o From(e, k + 1)
      BY <1>2, <3>1, FromFirst
    <3>3. e[k + 1] = Encode(s[k + 1])
      BY <1>2, <3>1
    <3>4. CASE s[k + 1].kind = "message"
      <4>1. PICK item : item = s[k + 1]
        OBVIOUS
      <4>2. item.kind = "message" /\ IsMessage(item)
        BY <3>1, <3>4, <4>1, ItemKinds
      <4>3. item.frames \in Seq(Seq(Byte))
        BY <4>2 DEF IsMessage
      <4>4. Encode(item) = FlattenSeq(FrameEncodings(item.frames))
        BY <4>2 DEF Encode, EncodeMessage, FrameEncodings
      <4>5. From(FrameEncodings(item.frames), 0) = FlattenSeq(FrameEncodings(item.frames))
        BY <4>3, FrameEncodingType, FromEnds
      <4>6. Ahead(s, k, 0) = From(FrameEncodings(item.frames), 0) \o From(e, k + 1)
        BY <1>1, <2>2, <3>4, <4>1, Zenon DEF Ahead
      <4> QED BY <3>2, <3>3, <4>1, <4>4, <4>5, <4>6, Zenon
    <3>5. CASE s[k + 1].kind # "message"
      <4>1. Ahead(s, k, 0) = Encode(s[k + 1]) \o From(e, k + 1)
        BY <1>1, <2>2, <3>5, Zenon DEF Ahead
      <4> QED BY <3>2, <3>3, <4>1, Zenon
    <3> QED BY <3>4, <3>5
  <2> QED BY <2>1, <2>2
<1> QED BY <1>1, <1>3, <1>4

\* The next frame of a message.
LEMMA AheadMessage ==
  ASSUME NEW s \in Scripts, NEW k \in 0..(Len(s) - 1), NEW item, item = s[k + 1],
         item.kind = "message", NEW j \in 0..(Len(item.frames) - 1)
  PROVE  /\ IsMessage(item)
         /\ FrameAt(Ahead(s, k, j), item.frames[j + 1],
                    IF j + 1 = Len(item.frames) THEN Ahead(s, k + 1, 0) ELSE Ahead(s, k, j + 1),
                    FALSE, j + 1 # Len(item.frames))
         /\ (IF j + 1 = Len(item.frames) THEN Ahead(s, k + 1, 0) ELSE Ahead(s, k, j + 1)) \in Seq(Byte)
<1>1. Len(s) \in Nat /\ k + 1 \in 1..Len(s) /\ k + 1 \in 0..Len(s) /\ k # Len(s)
  BY EncodingsType
<1>2. IsMessage(item)
  BY <1>1, ItemKinds
<1>3. PICK frames : frames = item.frames
  OBVIOUS
<1>4. /\ frames \in Seq(Seq(Byte)) /\ Len(frames) \in Nat
      /\ \A i \in 1..Len(frames) : Len(frames[i]) <= MaxLen
  <2>1. frames \in Seq(Seq(Byte)) /\ \A i \in DOMAIN frames : Len(frames[i]) <= MaxLen
    BY <1>2, <1>3 DEF IsMessage
  <2>2. DOMAIN frames = 1..Len(frames) /\ Len(frames) \in Nat
    BY <2>1
  <2> QED BY <2>1, <2>2
<1>5. PICK f, r, t : f = FrameEncodings(frames) /\ r = Ahead(s, k + 1, 0) /\ t = From(f, j + 1)
  OBVIOUS
<1>6. f \in Seq(Seq(Byte)) /\ Len(f) = Len(frames)
  BY <1>4, <1>5, FrameEncodingType
<1>7. r = From(Encodings(s), k + 1) /\ r \in Seq(Byte)
  BY <1>1, <1>5, AheadStart
<1>8. j + 1 \in 0..Len(f) /\ j \in 0..(Len(f) - 1) /\ j + 1 \in 1..Len(frames)
  BY <1>3, <1>4, <1>6
<1>9. t \in Seq(Byte) /\ From(f, j) = f[j + 1] \o t
  BY <1>5, <1>6, <1>8, FromType, FromFirst
<1>10. PICK flags : flags = IF j + 1 # Len(frames) THEN 1 ELSE 0
  OBVIOUS
<1>11. PICK body : body = frames[j + 1]
  OBVIOUS
<1>12. body \in Seq(Byte) /\ Len(body) <= MaxLen
  BY <1>4, <1>8, <1>11
<1>13. f[j + 1] = FrameOf(body, flags)
  <2>1. DOMAIN frames = 1..Len(frames)
    BY <1>4
  <2>2. f[j + 1] = encode_frame(body, j + 1 # Len(frames))
    BY <1>5, <1>8, <1>11, <2>1 DEF FrameEncodings
  <2> QED BY <1>10, <2>2 DEF encode_frame
<1>14. FrameOf(body, flags) \in Seq(Byte)
  BY <1>10, <1>12, FrameType
<1>15. PICK a : a = t \o r
  OBVIOUS
<1>16. a \in Seq(Byte)
  BY <1>7, <1>9, <1>15, Concat, Zenon
<1>17. PICK L : L = Ahead(s, k, j)
  OBVIOUS
<1>18. L = FrameOf(body, flags) \o a
  <2>1. L = From(f, j) \o r
    BY <1>1, <1>3, <1>5, <1>7, <1>17, Zenon DEF Ahead
  <2>2. (FrameOf(body, flags) \o t) \o r = FrameOf(body, flags) \o (t \o r)
    <3>1. Associates(Byte)
      BY ConcatAssociates, Zenon
    <3> QED BY <1>7, <1>9, <1>14, <3>1, Zenon DEF Associates
  <2> QED BY <1>9, <1>13, <1>15, <2>1, <2>2, Zenon
<1>19. FrameAt(L, body, a, flags = 4, flags = 1)
  <2>1. flags \in {0, 1, 4}
    BY <1>10
  <2> QED BY <1>12, <1>16, <1>18, <2>1, WrittenFrameAt
<1>20. FrameAt(L, body, a, FALSE, j + 1 # Len(frames))
  <2>1. (flags = 4 <=> FALSE) /\ (flags = 1 <=> j + 1 # Len(frames))
    BY <1>10
  <2> QED BY <1>19, <2>1, Zenon DEF FrameAt
<1>21. a = IF j + 1 = Len(frames) THEN Ahead(s, k + 1, 0) ELSE Ahead(s, k, j + 1)
  <2>1. CASE j + 1 = Len(frames)
    <3>1. t = <<>>
      BY <1>5, <1>6, <2>1, FromEnds
    <3>2. <<>> \o r = r
      BY <1>7
    <3> QED BY <1>5, <1>15, <2>1, <3>1, <3>2, Zenon
  <2>2. CASE j + 1 # Len(frames)
    <3>1. Ahead(s, k, j + 1) = t \o r
      BY <1>1, <1>3, <1>5, <1>7, Zenon DEF Ahead
    <3> QED BY <1>15, <2>2, <3>1, Zenon
  <2> QED BY <2>1, <2>2
<1> QED BY <1>2, <1>3, <1>11, <1>16, <1>17, <1>20, <1>21, Zenon

\* A command.
LEMMA AheadCommand ==
  ASSUME NEW s \in Scripts, NEW k \in 0..(Len(s) - 1), NEW item, item = s[k + 1],
         item.kind = "command", NEW j
  PROVE  /\ IsCommand(item) /\ Ahead(s, k + 1, 0) \in Seq(Byte)
         /\ FrameAt(Ahead(s, k, j), CommandBody(item.props), Ahead(s, k + 1, 0), TRUE, FALSE)
<1>1. Len(s) \in Nat /\ k + 1 \in 1..Len(s) /\ k + 1 \in 0..Len(s) /\ k # Len(s)
  BY EncodingsType
<1>2. IsCommand(item)
  BY <1>1, ItemKinds
<1>3. PICK body, r, L : body = CommandBody(item.props) /\ r = Ahead(s, k + 1, 0) /\ L = Ahead(s, k, j)
  OBVIOUS
<1>4. body \in Seq(Byte) /\ Len(body) <= MaxLen
  BY <1>2, <1>3, CommandRoundTrip DEF IsCommand
<1>5. r = From(Encodings(s), k + 1) /\ r \in Seq(Byte)
  BY <1>1, <1>3, AheadStart
<1>6. Encode(item) = FrameOf(body, 4)
  BY <1>3 DEF Encode, EncodeCommand
<1>7. L = FrameOf(body, 4) \o r
  <2>1. item.kind # "message"
    OBVIOUS
  <2>2. L = Encode(item) \o r
    BY <1>1, <1>3, <1>5, <2>1, Zenon DEF Ahead
  <2> QED BY <1>6, <2>2, Zenon
<1>8. FrameAt(L, body, r, 4 = 4, 4 = 1)
  BY <1>4, <1>5, <1>7, WrittenFrameAt
<1>9. FrameAt(L, body, r, TRUE, FALSE)
  <2>1. (4 = 4 <=> TRUE) /\ (4 = 1 <=> FALSE)
    OBVIOUS
  <2> QED BY <1>8, <2>1, Zenon DEF FrameAt
<1> QED BY <1>2, <1>3, <1>5, <1>9

\* A frame that is refused is refused whatever follows it.
LEMMA StillRefused ==
  ASSUME NEW b \in Seq(Byte), NEW r \in Seq(Byte), RefusedFrame(b), NEW L, L = b \o r
  PROVE  L \in Seq(Byte) /\ LenOf(L) \in Nat /\ RefusedFrame(L)
<1>1. L \in Seq(Byte) /\ Joins(L, b, r)
  BY Concat, Zenon
<1>2. /\ Len(b) \in Nat /\ Len(L) \in Nat /\ Len(L) >= Len(b) /\ Len(b) >= 1 /\ Len(b) >= 1 + LenWidth(b)
      /\ \A i \in 1..Len(b) : L[i] = b[i]
  BY <1>1 DEF Joins, RefusedFrame
<1>3. HeaderOf(L) = HeaderOf(b) /\ LenWidth(L) = LenWidth(b)
  BY <1>2 DEF HeaderOf, LenWidth
<1>4. LenWidth(b) \in Nat \ {0} /\ U64 \in Nat
  BY FieldsAssumption DEF LenWidth
<1>5. \A n \in Nat, m \in Nat : m + n <= Len(b) => SubSeq(L, m + 1, m + n) = SubSeq(b, m + 1, m + n)
  <2> SUFFICES ASSUME NEW n \in Nat, NEW m \in Nat, m + n <= Len(b)
               PROVE  SubSeq(L, m + 1, m + n) = SubSeq(b, m + 1, m + n)
    OBVIOUS
  <2>1. PICK x : x = SubSeq(b, m + 1, m + n)
    OBVIOUS
  <2>2. x \in Seq(Byte) /\ Len(x) = n /\ \A i \in 1..n : x[i] = b[m + i]
    BY <1>2, <2>1, MiddleIs
  <2>3. ASSUME NEW i \in 1..Len(x) PROVE L[m + i] = x[i]
    <3>1. m + i \in 1..Len(b) /\ i \in 1..n
      BY <1>2, <2>2
    <3> QED BY <1>2, <2>2, <3>1
  <2>4. m + Len(x) <= Len(L)
    BY <1>2, <2>2
  <2>5. SubSeq(L, m + 1, m + Len(x)) = x
    BY <1>1, <2>2, <2>3, <2>4, PartIs
  <2> QED BY <2>1, <2>2, <2>5, Zenon
<1>6. LenOf(L) = LenOf(b) /\ LenOf(L) \in Nat
  <2>1. CASE HeaderOf(b).long
    <3>1. LenWidth(b) = U64
      BY <2>1 DEF LenWidth
    <3>2. SubSeq(L, 1 + 1, 1 + U64) = SubSeq(b, 1 + 1, 1 + U64)
      BY <1>2, <1>4, <1>5, <3>1
    <3>3. SubSeq(b, 2, 1 + U64) \in Seq(Byte)
      BY <1>2, <1>4, <3>1
    <3>4. 1 + 1 = 2
      OBVIOUS
    <3>5. SubSeq(L, 2, 1 + U64) = SubSeq(b, 2, 1 + U64)
      BY <3>2, <3>4, Zenon
    <3>6. FromBigEndian(SubSeq(b, 2, 1 + U64)) \in Nat
      BY <3>3, FromBigEndianType
    <3> QED BY <1>3, <2>1, <3>5, <3>6 DEF LenOf
  <2>2. CASE ~HeaderOf(b).long
    <3>1. LenWidth(b) = 1
      BY <2>2 DEF LenWidth
    <3>2. L[2] = b[2] /\ b[2] \in Byte
      BY <1>2, <3>1
    <3> QED BY <1>3, <2>2, <3>2, BaseIsPositive DEF LenOf, Byte
  <2> QED BY <2>1, <2>2
<1>7. CASE HeaderOf(b).long /\ LenOf(b) > MaxLen
  BY <1>1, <1>2, <1>3, <1>4, <1>6, <1>7 DEF RefusedFrame
<1>8. CASE /\ HeaderOf(b).command /\ Len(b) >= 1 + LenWidth(b) + LenOf(b)
           /\ ParseCommand(BodyOf(b)) = NoCommand
  <2>1. PICK m, n : m = 1 + LenWidth(b) /\ n = LenOf(b)
    OBVIOUS
  <2>2. m \in Nat /\ n \in Nat /\ m + n <= Len(b) /\ 2 + LenWidth(b) = m + 1
    BY <1>2, <1>4, <1>6, <1>8, <2>1
  <2>3. SubSeq(L, m + 1, m + n) = SubSeq(b, m + 1, m + n)
    BY <1>5, <2>2
  <2>4. BodyOf(L) = BodyOf(b)
    BY <1>3, <1>6, <2>1, <2>2, <2>3, Zenon DEF BodyOf
  <2>5. Len(L) >= 1 + LenWidth(L) + LenOf(L) /\ Len(L) >= 1 /\ Len(L) >= 1 + LenWidth(L)
    BY <1>2, <1>3, <1>4, <1>6, <1>8
  <2> QED BY <1>1, <1>3, <1>6, <1>8, <2>4, <2>5, Zenon DEF RefusedFrame
<1> QED BY <1>7, <1>8 DEF RefusedFrame

\* Refused bytes are refused whatever follows them: as a frame,
LEMMA AheadRaw ==
  ASSUME NEW s \in Scripts, NEW k \in 1..(Len(s) - 1), s[k + 1].kind = "raw", NEW j,
         NEW L, L = Ahead(s, k, j)
  PROVE  L \in Seq(Byte) /\ LenOf(L) \in Nat /\ RefusedFrame(L)
<1>1. PICK item : item = s[k + 1]
  OBVIOUS
<1>2. Len(s) \in Nat /\ k + 1 \in 1..Len(s) /\ k + 1 # 1 /\ k + 1 \in 0..Len(s) /\ k # Len(s)
  BY EncodingsType
<1>3. IsRaw(item) /\ RefusedFrame(item.bytes)
  BY <1>1, <1>2, ItemKinds
<1>4. PICK b, r : b = item.bytes /\ r = Ahead(s, k + 1, 0)
  OBVIOUS
<1>5. b \in Seq(Byte) /\ Encode(item) = b
  BY <1>1, <1>3, <1>4 DEF IsRaw, Encode
<1>6. r = From(Encodings(s), k + 1) /\ r \in Seq(Byte)
  BY <1>2, <1>4, AheadStart
<1>7. L = b \o r
  <2>1. item.kind # "message"
    BY <1>1
  <2> QED BY <1>1, <1>2, <1>5, <1>6, <2>1, Zenon DEF Ahead
<1> QED BY <1>3, <1>4, <1>5, <1>6, <1>7, StillRefused, Zenon

\* The first item.
LEMMA AheadGreeting ==
  ASSUME NEW s \in Scripts, Len(s) >= 1, s[1].kind = "greeting", NEW L, L = Ahead(s, 0, 0)
  PROVE  /\ IsGreeting(s[1]) /\ L \in Seq(Byte) /\ Ahead(s, 1, 0) \in Seq(Byte)
         /\ Len(EncodeGreeting(s[1])) = greeting_len
         /\ EncodeGreeting(s[1]) \in Seq(Byte) /\ EncodeGreeting(s[1])[1] = Base - 1
         /\ Joins(L, EncodeGreeting(s[1]), Ahead(s, 1, 0))
<1>1. PICK item, b, r : item = s[1] /\ b = EncodeGreeting(item) /\ r = Ahead(s, 1, 0)
  OBVIOUS
<1>2. /\ Len(s) \in Nat /\ 1 \in 1..Len(s) /\ 1 \in 0..Len(s) /\ 0 \in 0..Len(s)
      /\ 0 # Len(s) /\ 0 + 1 = 1
  BY EncodingsType
<1>3. IsGreeting(item)
  BY <1>1, <1>2, ItemKinds
<1>4. b \in Seq(Byte) /\ Len(b) = greeting_len /\ b[1] = Base - 1
  BY <1>1, <1>3, GreetingBytes
<1>5. r = From(Encodings(s), 1) /\ r \in Seq(Byte)
  BY <1>1, <1>2, AheadStart
<1>6. Encode(item) = b /\ item.kind # "message"
  BY <1>1 DEF Encode
<1>7. L = b \o r
  BY <1>1, <1>2, <1>5, <1>6, Zenon DEF Ahead
<1>8. L \in Seq(Byte) /\ Joins(L, b, r)
  BY <1>4, <1>5, <1>7, Concat, Zenon
<1> QED BY <1>1, <1>3, <1>4, <1>5, <1>8, Zenon

\* and as a greeting.
LEMMA AheadRawGreeting ==
  ASSUME NEW s \in Scripts, Len(s) >= 1, s[1].kind = "raw", NEW L, L = Ahead(s, 0, 0)
  PROVE  L \in Seq(Byte) /\ RefusedGreeting(L)
<1>1. PICK item, b, r : item = s[1] /\ b = item.bytes /\ r = Ahead(s, 1, 0)
  OBVIOUS
<1>2. /\ Len(s) \in Nat /\ 1 \in 1..Len(s) /\ 1 \in 0..Len(s) /\ 0 \in 0..Len(s)
      /\ 0 # Len(s) /\ 0 + 1 = 1
  BY EncodingsType
<1>3. IsRaw(item) /\ RefusedGreeting(b)
  BY <1>1, <1>2, ItemKinds
<1>4. b \in Seq(Byte) /\ Encode(item) = b /\ item.kind # "message"
  BY <1>1, <1>3 DEF IsRaw, Encode
<1>5. r = From(Encodings(s), 1) /\ r \in Seq(Byte)
  BY <1>1, <1>2, AheadStart
<1>6. L = b \o r
  BY <1>1, <1>2, <1>4, <1>5, Zenon DEF Ahead
<1>7. L \in Seq(Byte) /\ Joins(L, b, r)
  BY <1>4, <1>5, <1>6, Concat, Zenon
<1>8. PICK x, n : n = greeting_len /\ x = SubSeq(b, 1, n)
  OBVIOUS
<1>9. n \in Nat /\ n <= Len(b) /\ Len(b) \in Nat /\ Len(b) <= Len(L) /\ Len(L) \in Nat
  BY <1>3, <1>4, <1>7, <1>8 DEF RefusedGreeting, greeting_len, Joins
<1>10. x \in Seq(Byte) /\ Len(x) = n /\ \A i \in 1..n : x[i] = b[i]
  BY <1>4, <1>8, <1>9, TakeIs
<1>11. SubSeq(L, 1, n) = x
  <2>1. PICK y : y = SubSeq(L, 1, n)
    OBVIOUS
  <2>2. y \in Seq(Byte) /\ Len(y) = n /\ \A i \in 1..n : y[i] = L[i]
    BY <1>7, <1>9, <2>1, TakeIs
  <2>3. ASSUME NEW i \in 1..Len(y) PROVE y[i] = x[i]
    <3>1. i \in 1..n /\ i \in 1..Len(b)
      BY <1>9, <2>2
    <3> QED BY <1>7, <1>10, <2>2, <3>1 DEF Joins
  <2> QED BY <1>10, <2>1, <2>2, <2>3, SameSequence
<1>12. Len(L) >= greeting_len
  BY <1>3, <1>8, <1>9
<1> QED BY <1>3, <1>7, <1>8, <1>11, <1>12, Zenon DEF RefusedGreeting

-----------------------------------------------------------------------------
(* The stream *)

\* What is ahead from the frame being decoded on, and how much of it is used.
Left == Ahead(script, Len(yielded), Len(buffered_message))
Used == IF state = "FrameLen" THEN 1 ELSE IF state = "Frame" THEN 1 + LenWidth(Left) ELSE 0

\* The items yielded are the first ones of the script.
YieldedInv ==
  /\ yielded \in Seq(Range(script)) /\ Len(yielded) <= Len(script)
  /\ \A i \in 1..Len(yielded) : yielded[i] = script[i]

\* The frames of an unfinished message are its first ones, not all of them.
PartsInv ==
  buffered_message # <<>> =>
    /\ Len(yielded) < Len(script) /\ script[Len(yielded) + 1].kind = "message"
    /\ Len(buffered_message) < Len(script[Len(yielded) + 1].frames)
    /\ \A i \in 1..Len(buffered_message) :
         buffered_message[i] = script[Len(yielded) + 1].frames[i]

\* The decoder's state is about the frame that was begun.
StageInv ==
  /\ state = "Greeting" => yielded = <<>> /\ buffered_message = <<>>
  /\ state # "Greeting" => yielded # <<>>
  /\ state \in {"FrameLen", "Frame"} => Len(yielded) < Len(script) /\ frame = HeaderOf(Left)
  /\ state = "Frame" => waiting_for = LenOf(Left) /\ LenOf(Left) <= MaxLen

\* The buffer and the wire hold what is ahead.
BytesInv == View(Left, Used, buffer, wire, cut)

StreamInv ==
  /\ YieldedInv
  /\ outcome = "open" => PartsInv /\ StageInv /\ BytesInv
  /\ outcome # "open" => poll = "idle"
  /\ poll = "decode_end" => wire = <<>>
  /\ outcome = "clean" /\ ~cut => yielded = script
  /\ ErrorsAreReal

\* A frame is ahead after the greeting, one that is accepted or one that is refused.
LEMMA NextFrame ==
  ASSUME TypeOK, YieldedInv, PartsInv, StageInv, state # "Greeting", Len(yielded) < Len(script),
         NEW k, k = Len(yielded), NEW j, j = Len(buffered_message),
         NEW item, item = script[k + 1], NEW L, L = Left
  PROVE  /\ k \in 0..(Len(script) - 1) /\ k \in 1..(Len(script) - 1) /\ j \in Nat
         /\ L \in Seq(Byte) /\ LenWidth(L) \in Nat \ {0} /\ LenOf(L) \in Nat
         /\ Len(L) >= 1 + LenWidth(L)
         /\ LenOf(L) <= MaxLen => Len(L) >= 1 + LenWidth(L) + LenOf(L)
         /\ \/ item.kind = "message" /\ j \in 0..(Len(item.frames) - 1) /\ LenOf(L) <= MaxLen
            \/ item.kind = "command" /\ j = 0 /\ LenOf(L) <= MaxLen
            \/ item.kind = "raw" /\ RefusedFrame(L)
<1>1. script \in Scripts /\ Len(script) \in Nat
  BY EncodingsType DEF TypeOK
<1>2. k \in Nat /\ j \in Nat /\ k # 0 /\ (j = 0 <=> buffered_message = <<>>)
  <2>1. yielded \in Seq(Range(script)) /\ yielded # <<>> /\ buffered_message \in Seq(Seq(Byte))
    BY DEF StageInv, YieldedInv, TypeOK
  <2> QED BY <2>1
<1>3. k \in 0..(Len(script) - 1) /\ k \in 1..(Len(script) - 1) /\ k + 1 \in 1..Len(script) /\ k + 1 # 1
  BY <1>1, <1>2
<1>4. L = Ahead(script, k, j)
  BY DEF Left
<1>5. \/ item.kind = "message" /\ IsMessage(item)
      \/ item.kind = "command" /\ IsCommand(item)
      \/ item.kind = "raw" /\ IsRaw(item) /\ RefusedFrame(item.bytes)
  BY <1>1, <1>3, ItemKinds
<1>6. item.kind # "message" => j = 0
  BY <1>2 DEF PartsInv
<1>7. CASE item.kind = "message"
  <2>1. item.frames \in Seq(Seq(Byte)) /\ item.frames # <<>>
        /\ \A i \in DOMAIN item.frames : Len(item.frames[i]) <= MaxLen
    BY <1>5, <1>7 DEF IsMessage
  <2>2. Len(item.frames) \in Nat /\ Len(item.frames) >= 1 /\ DOMAIN item.frames = 1..Len(item.frames)
    BY <2>1
  <2>3. j < Len(item.frames)
    BY <1>2, <2>2 DEF PartsInv
  <2>4. j \in 0..(Len(item.frames) - 1) /\ j + 1 \in 1..Len(item.frames)
    BY <1>2, <2>2, <2>3
  <2>0. PICK a, body : /\ a = IF j + 1 = Len(item.frames) THEN Ahead(script, k + 1, 0)
                                                        ELSE Ahead(script, k, j + 1)
                       /\ body = item.frames[j + 1]
    OBVIOUS
  <2>5. /\ FrameAt(L, body, a, FALSE, j + 1 # Len(item.frames)) /\ body = item.frames[j + 1]
        /\ a \in Seq(Byte)
    BY <1>1, <1>3, <1>4, <1>7, <2>0, <2>4, AheadMessage
  <2>6. Len(body) \in Nat /\ Len(a) \in Nat /\ Len(body) <= MaxLen
    BY <2>1, <2>2, <2>4, <2>5
  <2>7. /\ L \in Seq(Byte) /\ LenWidth(L) \in Nat \ {0} /\ LenOf(L) = Len(body)
        /\ Len(L) = 1 + LenWidth(L) + Len(body) + Len(a)
    BY <2>5 DEF FrameAt
  <2>8. Len(L) >= 1 + LenWidth(L) /\ Len(L) >= 1 + LenWidth(L) + LenOf(L)
    BY <2>6, <2>7
  <2> QED BY <1>2, <1>3, <1>7, <2>4, <2>6, <2>7, <2>8
<1>8. CASE item.kind = "command"
  <2>1. PICK a, body : /\ FrameAt(L, body, a, TRUE, FALSE) /\ a \in Seq(Byte)
                       /\ body = CommandBody(item.props)
    BY <1>1, <1>3, <1>4, <1>8, AheadCommand
  <2>2. Len(body) \in Nat /\ Len(a) \in Nat /\ Len(body) <= MaxLen
    BY <1>5, <1>8, <2>1, CommandRoundTrip DEF IsCommand
  <2>3. /\ L \in Seq(Byte) /\ LenWidth(L) \in Nat \ {0} /\ LenOf(L) = Len(body)
        /\ Len(L) = 1 + LenWidth(L) + Len(body) + Len(a)
    BY <2>1 DEF FrameAt
  <2>4. Len(L) >= 1 + LenWidth(L) /\ Len(L) >= 1 + LenWidth(L) + LenOf(L)
    BY <2>2, <2>3
  <2> QED BY <1>2, <1>3, <1>6, <1>8, <2>2, <2>3, <2>4
<1>9. CASE item.kind = "raw"
  <2>1. L \in Seq(Byte) /\ LenOf(L) \in Nat /\ RefusedFrame(L)
    BY <1>1, <1>3, <1>4, <1>9, AheadRaw
  <2>2. LenWidth(L) \in Nat \ {0}
    BY FieldsAssumption DEF LenWidth
  <2>3. Len(L) >= 1 + LenWidth(L)
    BY <2>1 DEF RefusedFrame
  <2>4. LenOf(L) <= MaxLen => Len(L) >= 1 + LenWidth(L) + LenOf(L)
    <3>1. LenOf(L) > MaxLen \/ Len(L) >= 1 + LenWidth(L) + LenOf(L)
      BY <2>1 DEF RefusedFrame
    <3> QED BY <2>1, <3>1, LimitsAreNumbers
  <2> QED BY <1>2, <1>3, <1>9, <2>1, <2>2, <2>3, <2>4
<1> QED BY <1>5, <1>7, <1>8, <1>9

\* The decoder never waits for more than the peer still has to write.
LEMMA NeededIsAhead ==
  ASSUME TypeOK, WaitingInv, YieldedInv, PartsInv, StageInv, NEW L, L = Left, NEW u, u = Used
  PROVE  /\ L \in Seq(Byte) /\ u \in Nat
         /\ IF Len(yielded) < Len(script)
            THEN u + waiting_for <= Len(L)
            ELSE Len(L) = 0 /\ u = 0 /\ waiting_for >= 1 /\ Len(yielded) = Len(script)
<1>1. script \in Scripts /\ Len(script) \in Nat /\ Len(yielded) \in Nat /\ Len(yielded) <= Len(script)
  <2>1. script \in Scripts /\ Len(script) \in Nat
    BY EncodingsType DEF TypeOK
  <2>2. yielded \in Seq(Range(script)) /\ Len(yielded) <= Len(script)
    BY DEF YieldedInv
  <2> QED BY <2>1, <2>2
<1>2. CASE ~(Len(yielded) < Len(script))
  <2>1. Len(yielded) = Len(script)
    BY <1>1, <1>2
  <2>2. L = <<>>
    BY <2>1 DEF Left, Ahead
  <2>3. state = "Greeting" \/ state = "FrameHeader"
    BY <1>2 DEF StageInv, TypeOK
  <2>4. u = 0 /\ waiting_for >= 1
    BY <2>3 DEF Used, WaitingInv, greeting_len
  <2>5. <<>> \in Seq(Byte) /\ Len(<<>>) = 0
    OBVIOUS
  <2> QED BY <1>2, <2>1, <2>2, <2>4, <2>5
<1>3. CASE Len(yielded) < Len(script) /\ state = "Greeting"
  <2>1. Len(yielded) = 0 /\ Len(buffered_message) = 0 /\ Len(script) >= 1
    BY <1>1, <1>3 DEF StageInv
  <2>2. L = Ahead(script, 0, 0) /\ u = 0 /\ waiting_for = greeting_len
    BY <1>3, <2>1 DEF Left, Used, WaitingInv
  <2>3. 1 \in 1..Len(script)
    BY <1>1, <2>1
  <2>4. script[1].kind = "greeting" \/ script[1].kind = "raw"
    BY <1>1, <2>3, ItemKinds
  <2>5. CASE script[1].kind = "greeting"
    <3>1. PICK b, r : /\ L \in Seq(Byte) /\ r \in Seq(Byte) /\ Len(b) = greeting_len /\ Joins(L, b, r)
      BY <1>1, <2>1, <2>2, <2>5, AheadGreeting
    <3>2. Len(L) >= greeting_len
      BY <3>1 DEF Joins
    <3> QED BY <1>3, <2>2, <3>1, <3>2 DEF greeting_len
  <2>6. CASE script[1].kind = "raw"
    <3>1. L \in Seq(Byte) /\ RefusedGreeting(L)
      BY <1>1, <2>1, <2>2, <2>6, AheadRawGreeting
    <3> QED BY <1>3, <2>2, <3>1 DEF RefusedGreeting, greeting_len
  <2> QED BY <2>4, <2>5, <2>6
<1>4. CASE Len(yielded) < Len(script) /\ state # "Greeting"
  <2>1. /\ L \in Seq(Byte) /\ LenWidth(L) \in Nat \ {0} /\ LenOf(L) \in Nat
        /\ Len(L) >= 1 + LenWidth(L) /\ Len(L) \in Nat
        /\ LenOf(L) <= MaxLen => Len(L) >= 1 + LenWidth(L) + LenOf(L)
    <3>1. PICK k, j, item : /\ k = Len(yielded) /\ j = Len(buffered_message)
                            /\ item = script[k + 1]
      OBVIOUS
    <3>2. /\ L \in Seq(Byte) /\ LenWidth(L) \in Nat \ {0} /\ LenOf(L) \in Nat
          /\ Len(L) >= 1 + LenWidth(L)
          /\ LenOf(L) <= MaxLen => Len(L) >= 1 + LenWidth(L) + LenOf(L)
      BY <1>4, <3>1, NextFrame, Zenon
    <3> QED BY <3>2
  <2>2. CASE state = "FrameHeader"
    <3>1. u = 0 /\ waiting_for = 1
      BY <2>2 DEF Used, WaitingInv
    <3> QED BY <1>4, <2>1, <3>1
  <2>3. CASE state = "FrameLen"
    <3>1. u = 1 /\ waiting_for = LenWidth(L)
      BY <2>3 DEF Used, WaitingInv, StageInv, LenWidth
    <3> QED BY <1>4, <2>1, <3>1
  <2>4. CASE state = "Frame"
    <3>1. u = 1 + LenWidth(L) /\ waiting_for = LenOf(L) /\ LenOf(L) <= MaxLen
      BY <2>4 DEF Used, StageInv
    <3> QED BY <1>4, <2>1, <3>1
  <2> QED BY <1>4, <2>2, <2>3, <2>4 DEF TypeOK
<1> QED BY <1>2, <1>3, <1>4

\* An item is yielded in its turn.
LEMMA YieldsNext ==
  ASSUME YieldedInv, script \in Scripts, Len(yielded) < Len(script), script' = script,
         yielded' = Append(yielded, script[Len(yielded) + 1])
  PROVE  YieldedInv' /\ Len(yielded') = Len(yielded) + 1 /\ yielded' # <<>>
<1>1. PICK y, s, k : y = yielded /\ s = script /\ k = Len(y)
  OBVIOUS
<1>2. /\ y \in Seq(Range(s)) /\ k \in Nat /\ Len(s) \in Nat /\ k < Len(s)
      /\ \A i \in 1..k : y[i] = s[i]
  BY <1>1, EncodingsType DEF YieldedInv
<1>3. s \in Seq(Range(s)) /\ k + 1 \in 1..Len(s)
  BY <1>1, <1>2, EncodingsType
<1>4. s[k + 1] \in Range(s)
  BY <1>3
<1>5. PICK z : z = Append(y, s[k + 1])
  OBVIOUS
<1>6. z \in Seq(Range(s)) /\ Len(z) = k + 1 /\ z[k + 1] = s[k + 1] /\ \A i \in 1..k : z[i] = y[i]
  BY <1>1, <1>2, <1>4, <1>5
<1>7. \A i \in 1..Len(z) : z[i] = s[i]
  BY <1>2, <1>6
<1>8. Len(z) <= Len(s) /\ z # <<>>
  BY <1>2, <1>6
<1> QED BY <1>1, <1>5, <1>6, <1>7, <1>8 DEF YieldedInv

\* What holds while the decoder has enough bytes.
LEMMA WithBytes ==
  ASSUME IInv, StreamInv, HasBytes, NEW L, L = Left, NEW u, u = Used
  PROVE  /\ outcome = "open" /\ YieldedInv /\ PartsInv /\ StageInv /\ TypeOK /\ WaitingInv
         /\ Len(yielded) < Len(script) /\ script \in Scripts /\ Len(script) \in Nat
         /\ L \in Seq(Byte) /\ u \in Nat /\ u + waiting_for <= Len(L)
         /\ View(L, u, buffer, wire, cut) /\ waiting_for \in Nat /\ waiting_for <= Len(buffer)
         /\ buffer \in Seq(Byte) /\ wire \in Seq(Byte) /\ Len(buffer) \in Nat
<1>1. outcome = "open"
  BY DEF HasBytes, Decoding, StreamInv
<1>2. YieldedInv /\ PartsInv /\ StageInv /\ BytesInv /\ TypeOK /\ WaitingInv
  BY <1>1 DEF StreamInv, IInv
<1>3. /\ waiting_for \in Nat /\ buffer \in Seq(Byte) /\ wire \in Seq(Byte) /\ script \in Scripts
      /\ Len(buffer) \in Nat /\ Len(wire) \in Nat
  BY <1>2 DEF TypeOK
<1>4. View(L, u, buffer, wire, cut)
  BY <1>2 DEF BytesInv
<1>5. /\ L \in Seq(Byte) /\ u \in Nat
      /\ IF Len(yielded) < Len(script)
         THEN u + waiting_for <= Len(L)
         ELSE Len(L) = 0 /\ u = 0 /\ waiting_for >= 1 /\ Len(yielded) = Len(script)
  BY <1>2, NeededIsAhead
<1>6. waiting_for <= Len(buffer)
  BY <1>3 DEF HasBytes
<1>7. Len(yielded) < Len(script)
  BY <1>3, <1>4, <1>5, <1>6 DEF View
<1>8. Len(script) \in Nat
  BY <1>3, EncodingsType
<1> QED BY <1>1, <1>2, <1>3, <1>4, <1>5, <1>6, <1>7, <1>8

\* The buffer's first byte is the first one ahead.
LEMMA FirstByte ==
  ASSUME NEW L \in Seq(Byte), NEW u \in Nat, NEW buf \in Seq(Byte), NEW w \in Seq(Byte), NEW c,
         View(L, u, buf, w, c), Len(buf) >= 1
  PROVE  Head(buf) = L[u + 1]
<1>1. 1 \in 1..Len(buf)
  OBVIOUS
<1>2. buf[1] = L[u + 1]
  BY <1>1 DEF View
<1>3. Head(buf) = buf[1]
  OBVIOUS
<1> QED BY <1>2, <1>3

\* A refused item ends the stream with an error.
LEMMA EndsWithRaw ==
  ASSUME StreamInv, script[Len(yielded) + 1].kind = "raw",
         outcome' = "error", poll' = "idle", UNCHANGED <<yielded, script>>
  PROVE  StreamInv'
BY DEF StreamInv, YieldedInv, ErrorsAreReal

\* The decoder's greeting state yields the greeting that is ahead, or fails on a refused one.
LEMMA StreamGreeting ==
  ASSUME IInv, StreamInv, DecodeGreeting
  PROVE  StreamInv'
<1>1. PICK L, u : L = Left /\ u = Used
  OBVIOUS
<1>2. HasBytes /\ state = "Greeting"
  BY DEF DecodeGreeting
<1>3. /\ outcome = "open" /\ YieldedInv /\ PartsInv /\ StageInv /\ TypeOK /\ WaitingInv
      /\ Len(yielded) < Len(script) /\ script \in Scripts /\ Len(script) \in Nat
      /\ L \in Seq(Byte) /\ u \in Nat
      /\ View(L, u, buffer, wire, cut) /\ waiting_for <= Len(buffer)
      /\ buffer \in Seq(Byte) /\ wire \in Seq(Byte) /\ Len(buffer) \in Nat
  BY <1>1, <1>2, WithBytes, Zenon
<1>4. /\ u = 0 /\ yielded = <<>> /\ buffered_message = <<>> /\ waiting_for = greeting_len
      /\ Len(yielded) = 0 /\ Len(buffered_message) = 0 /\ Len(yielded) + 1 = 1
  BY <1>1, <1>2, <1>3 DEF Used, StageInv, WaitingInv
<1>5. L = Ahead(script, 0, 0)
  BY <1>1, <1>4 DEF Left
<1>6. Len(script) >= 1 /\ 1 \in 1..Len(script) /\ greeting_len \in Nat /\ 0 + greeting_len = greeting_len
      /\ 1 <= greeting_len
  BY <1>3, <1>4 DEF greeting_len
<1>7. Head(buffer) = L[0 + 1]
  BY <1>3, <1>4, <1>6, FirstByte DEF greeting_len
<1>8. CASE script[1].kind = "greeting"
  <2>1. PICK item, b, r : /\ item = script[1] /\ b = EncodeGreeting(item)
                          /\ r = Ahead(script, 1, 0)
    OBVIOUS
  <2>2. /\ IsGreeting(item) /\ r \in Seq(Byte) /\ Len(b) = greeting_len
        /\ b \in Seq(Byte) /\ b[1] = Base - 1 /\ Joins(L, b, r)
    BY <1>3, <1>5, <1>6, <1>8, <2>1, AheadGreeting, Zenon
  <2>3. /\ Len(L) = greeting_len + Len(r)
        /\ \A i \in 1..Len(b) : L[0 + i] = b[i]
        /\ \A i \in 1..Len(r) : L[greeting_len + i] = r[i]
    BY <1>6, <2>2 DEF Joins
  <2>4. Head(buffer) = Base - 1
    BY <1>6, <1>7, <2>2, <2>3
  <2>5. SubSeq(buffer, 1, greeting_len) = b
    <3>1. Len(b) <= Len(buffer)
      BY <1>3, <1>4, <2>2
    <3>2. SubSeq(buffer, 1, Len(b)) = b
      BY <1>3, <1>4, <2>2, <2>3, <3>1, ViewPart
    <3> QED BY <2>2, <3>2
  <2>6. ParseGreeting(b) = item /\ item.kind # "error"
    BY <1>8, <2>1, <2>2, GreetingRoundTrip
  <2>7. /\ state' = "FrameHeader" /\ waiting_for' = 1 /\ buffer' = Drop(buffer, greeting_len)
        /\ yielded' = Append(yielded, item) /\ poll' = "idle"
        /\ UNCHANGED <<outcome, frame, buffered_message, wire, cut, script>>
    BY <2>4, <2>5, <2>6 DEF DecodeGreeting, Advance, Yield, connection
  <2>8. YieldedInv' /\ Len(yielded') = 1 /\ yielded' # <<>>
    BY <1>3, <1>4, <2>1, <2>7, YieldsNext
  <2>9. Left' = r /\ Used' = 0
    BY <1>4, <2>1, <2>7, <2>8 DEF Left, Used
  <2>10. BytesInv'
    <3>1. View(L, 0 + greeting_len, buffer', wire, cut)
      BY <1>3, <1>4, <1>6, <2>7, ViewDrop
    <3>2. buffer' \in Seq(Byte)
      BY <1>3, <1>6, <2>7, DropType
    <3>3. View(r, 0, buffer', wire, cut)
      BY <1>3, <1>6, <2>2, <2>3, <3>1, <3>2, ViewAfter
    <3> QED BY <2>7, <2>9, <3>3 DEF BytesInv
  <2>11. PartsInv' /\ StageInv'
    BY <1>4, <2>7, <2>8 DEF PartsInv, StageInv
  <2> QED BY <1>3, <2>7, <2>8, <2>10, <2>11 DEF StreamInv, ErrorsAreReal
<1>9. CASE script[1].kind = "raw"
  <2>1. RefusedGreeting(L)
    BY <1>3, <1>5, <1>6, <1>9, AheadRawGreeting
  <2>2. Len(L) >= greeting_len /\ ParseGreeting(SubSeq(L, 1, greeting_len)) = NoGreeting
    BY <2>1 DEF RefusedGreeting
  <2>3. PICK x : x = SubSeq(L, 1, greeting_len)
    OBVIOUS
  <2>4. x \in Seq(Byte) /\ Len(x) = greeting_len /\ \A i \in 1..greeting_len : x[i] = L[i]
    <3>1. greeting_len <= Len(L)
      BY <1>3, <1>6, <2>2
    <3> QED BY <1>3, <1>6, <2>3, <3>1, TakeIs
  <2>5. SubSeq(buffer, 1, greeting_len) = x
    <3>1. Len(x) <= Len(buffer) /\ \A i \in 1..Len(x) : L[0 + i] = x[i]
      BY <1>3, <1>4, <1>6, <2>4
    <3>2. SubSeq(buffer, 1, Len(x)) = x
      BY <1>3, <1>4, <2>4, <3>1, ViewPart
    <3> QED BY <2>4, <3>2
  <2>6. ParseGreeting(SubSeq(buffer, 1, greeting_len)).kind = "error" /\ NoGreeting.kind = "error"
    <3>1. ParseGreeting(SubSeq(buffer, 1, greeting_len)) = NoGreeting
      BY <2>2, <2>3, <2>5, Zenon
    <3>2. NoGreeting.kind = "error"
      BY DEF NoGreeting
    <3> QED BY <3>1, <3>2, Zenon
  <2>7. outcome' = "error" /\ poll' = "idle" /\ UNCHANGED <<yielded, script>>
    BY <2>6 DEF DecodeGreeting, Yield, connection
  <2> QED BY <1>4, <1>9, <2>7, EndsWithRaw
<1> QED BY <1>3, <1>6, <1>8, <1>9, ItemKinds

\* The flags that are read are those of the frame ahead.
LEMMA StreamHeader ==
  ASSUME IInv, StreamInv, DecodeHeader
  PROVE  StreamInv'
<1>1. PICK L, u : L = Left /\ u = Used
  OBVIOUS
<1>2. HasBytes /\ state = "FrameHeader"
  BY DEF DecodeHeader
<1>3. /\ outcome = "open" /\ YieldedInv /\ PartsInv /\ StageInv /\ TypeOK /\ WaitingInv
      /\ Len(yielded) < Len(script)
      /\ L \in Seq(Byte) /\ u \in Nat
      /\ View(L, u, buffer, wire, cut) /\ waiting_for <= Len(buffer)
      /\ buffer \in Seq(Byte) /\ wire \in Seq(Byte) /\ Len(buffer) \in Nat
  BY <1>1, <1>2, WithBytes, Zenon
<1>4. u = 0 /\ waiting_for = 1
  BY <1>1, <1>2, <1>3 DEF Used, WaitingInv
<1>5. Head(buffer) = L[1]
  <2>1. Head(buffer) = L[0 + 1]
    BY <1>3, <1>4, FirstByte
  <2> QED BY <2>1
<1>6. /\ state' = "FrameLen" /\ buffer' = Drop(buffer, 1) /\ frame' = HeaderOf(L)
      /\ UNCHANGED <<poll, yielded, outcome, buffered_message, wire, cut, script>>
  BY <1>5 DEF DecodeHeader, Advance, GoOn, connection, HeaderOf
<1>7. Left' = L /\ Used' = 1
  BY <1>1, <1>6 DEF Left, Used
<1>8. BytesInv'
  <2>1. View(L, 0 + 1, buffer', wire, cut)
    BY <1>3, <1>4, <1>6, ViewDrop
  <2>2. 0 + 1 = 1
    OBVIOUS
  <2> QED BY <1>6, <1>7, <2>1, <2>2, Zenon DEF BytesInv
<1>9. StageInv'
  BY <1>2, <1>3, <1>6, <1>7 DEF StageInv
<1>10. YieldedInv' /\ PartsInv'
  BY <1>3, <1>6 DEF YieldedInv, PartsInv
<1> QED BY <1>3, <1>6, <1>8, <1>9, <1>10 DEF StreamInv, ErrorsAreReal

\* The length that is read is that of the frame ahead, or one no buffer can hold.
LEMMA StreamLen ==
  ASSUME IInv, StreamInv, DecodeLen
  PROVE  StreamInv'
<1>1. PICK L, u : L = Left /\ u = Used
  OBVIOUS
<1>2. HasBytes /\ state = "FrameLen"
  BY DEF DecodeLen
<1>3. /\ outcome = "open" /\ YieldedInv /\ PartsInv /\ StageInv /\ TypeOK /\ WaitingInv
      /\ Len(yielded) < Len(script)
      /\ L \in Seq(Byte) /\ u \in Nat
      /\ View(L, u, buffer, wire, cut) /\ waiting_for <= Len(buffer) /\ waiting_for \in Nat
      /\ buffer \in Seq(Byte) /\ wire \in Seq(Byte) /\ Len(buffer) \in Nat
  BY <1>1, <1>2, WithBytes, Zenon
<1>4. u = 1 /\ frame = HeaderOf(L) /\ waiting_for = LenWidth(L)
  BY <1>1, <1>2, <1>3 DEF Used, WaitingInv, StageInv, LenWidth
<1>5. PICK k, j, item : k = Len(yielded) /\ j = Len(buffered_message) /\ item = script[k + 1]
  OBVIOUS
<1>6. /\ LenWidth(L) \in Nat \ {0} /\ LenOf(L) \in Nat /\ Len(L) >= 1 + LenWidth(L)
      /\ \/ item.kind = "message" /\ j \in 0..(Len(item.frames) - 1) /\ LenOf(L) <= MaxLen
         \/ item.kind = "command" /\ j = 0 /\ LenOf(L) <= MaxLen
         \/ item.kind = "raw" /\ RefusedFrame(L)
  <2>1. state # "Greeting"
    BY <1>2
  <2> QED BY <1>1, <1>3, <1>5, <2>1, NextFrame, Zenon
<1>7. PICK len : len = IF frame.long THEN FromBigEndian(SubSeq(buffer, 1, U64)) ELSE Head(buffer)
  OBVIOUS
<1>8. len = LenOf(L)
  <2>1. CASE frame.long
    <3>1. LenWidth(L) = U64 /\ U64 \in Nat /\ U64 <= Len(buffer) /\ 1 + U64 <= Len(L)
      BY <1>3, <1>4, <1>6, <2>1 DEF LenWidth
    <3>2. PICK x : x = SubSeq(L, 2, 1 + U64)
      OBVIOUS
    <3>3. x \in Seq(Byte) /\ Len(x) = U64
      BY <1>3, <3>1, <3>2
    <3>4. ASSUME NEW i \in 1..Len(x) PROVE L[1 + i] = x[i]
      <4>1. x[i] = L[2 + i - 1] /\ 2 + i - 1 = 1 + i
        BY <1>3, <3>1, <3>2, <3>3
      <4> QED BY <4>1, Zenon
    <3>5. SubSeq(buffer, 1, Len(x)) = x
      <4>1. Len(x) <= Len(buffer) /\ 1 \in Nat /\ View(L, 1, buffer, wire, cut)
        BY <1>3, <1>4, <3>1, <3>3
      <4> QED BY <1>3, <3>3, <3>4, <4>1, ViewPart, Zenon
    <3>6. SubSeq(buffer, 1, U64) = x
      BY <3>3, <3>5
    <3> QED BY <1>4, <1>7, <2>1, <3>2, <3>6 DEF LenOf
  <2>2. CASE ~frame.long
    <3>1. Len(buffer) >= 1
      BY <1>3, <1>4, <1>6
    <3>2. Head(buffer) = L[1 + 1]
      BY <1>3, <1>4, <3>1, FirstByte
    <3> QED BY <1>4, <1>7, <2>2, <3>2 DEF LenOf
  <2> QED BY <2>1, <2>2
<1>9. CASE frame.long /\ ~Representable(len)
  <2>1. LenOf(L) > MaxLen
    BY <1>6, <1>8, <1>9, LimitsAreNumbers DEF Representable, MaxLen
  <2>2. item.kind = "raw"
    BY <1>6, <2>1, LimitsAreNumbers
  <2>3. outcome' = "error" /\ poll' = "idle" /\ UNCHANGED <<yielded, script>>
    BY <1>7, <1>9 DEF DecodeLen, Yield, connection
  <2> QED BY <1>5, <2>2, <2>3, EndsWithRaw
<1>10. CASE ~(frame.long /\ ~Representable(len))
  <2>1. /\ state' = "Frame" /\ waiting_for' = LenOf(L) /\ buffer' = Drop(buffer, LenWidth(L))
        /\ UNCHANGED <<poll, yielded, outcome, frame, buffered_message, wire, cut, script>>
    BY <1>4, <1>7, <1>8, <1>10 DEF DecodeLen, Advance, GoOn, connection
  <2>2. LenOf(L) <= MaxLen
    <3>1. CASE frame.long
      BY <1>8, <1>10, <3>1 DEF Representable, MaxLen
    <3>2. CASE ~frame.long
      <4>1. Len(buffer) >= 1
        BY <1>3, <1>4, <1>6
      <4>2. len \in Byte
        BY <1>3, <1>7, <3>2, <4>1
      <4> QED BY <1>8, <4>2, LimitsAreNumbers, BaseIsPositive DEF Byte
    <3> QED BY <3>1, <3>2
  <2>3. Left' = L /\ Used' = 1 + LenWidth(L)
    BY <1>1, <2>1 DEF Left, Used
  <2>4. BytesInv'
    <3>1. View(L, 1 + LenWidth(L), buffer', wire, cut)
      BY <1>3, <1>4, <1>6, <2>1, ViewDrop
    <3> QED BY <2>1, <2>3, <3>1, Zenon DEF BytesInv
  <2>5. StageInv'
    BY <1>2, <1>3, <1>4, <2>1, <2>2, <2>3 DEF StageInv
  <2>6. YieldedInv' /\ PartsInv'
    BY <1>3, <2>1 DEF YieldedInv, PartsInv
  <2> QED BY <1>3, <2>1, <2>4, <2>5, <2>6 DEF StreamInv, ErrorsAreReal
<1> QED BY <1>9, <1>10

\* A frame's body is in the buffer, and the bytes after it are what is ahead next.
LEMMA FrameTaken ==
  ASSUME NEW L \in Seq(Byte), NEW body \in Seq(Byte), NEW a \in Seq(Byte), NEW command, NEW more,
         FrameAt(L, body, a, command, more), NEW buf \in Seq(Byte), NEW w \in Seq(Byte), NEW c,
         View(L, 1 + LenWidth(L), buf, w, c), Len(body) <= Len(buf)
  PROVE  /\ SubSeq(buf, 1, Len(body)) = body
         /\ View(a, 0, Drop(buf, Len(body)), w, c)
<1>1. PICK u, n : u = 1 + LenWidth(L) /\ n = Len(body)
  OBVIOUS
<1>2. /\ u \in Nat /\ n \in Nat /\ u + n \in Nat /\ Len(a) \in Nat
      /\ Len(L) = (u + n) + Len(a)
      /\ \A i \in 1..n : L[u + i] = body[i]
      /\ \A i \in 1..Len(a) : L[(u + n) + i] = a[i]
  <2>1. LenWidth(L) \in Nat
    BY DEF FrameAt
  <2>2. u \in Nat /\ n \in Nat /\ Len(a) \in Nat
    BY <1>1, <2>1
  <2>3. Len(L) = (u + n) + Len(a)
    BY <1>1, Zenon DEF FrameAt
  <2>4. \A i \in 1..n : L[u + i] = body[i]
    BY <1>1, Zenon DEF FrameAt
  <2>5. \A i \in 1..Len(a) : L[(u + n) + i] = a[i]
    BY <1>1, Zenon DEF FrameAt
  <2> QED BY <2>2, <2>3, <2>4, <2>5
<1>3. View(L, u, buf, w, c)
  BY <1>1
<1>4. SubSeq(buf, 1, n) = body
  BY <1>1, <1>2, <1>3, ViewPart
<1>5. PICK d : d = Drop(buf, n)
  OBVIOUS
<1>6. View(L, u + n, d, w, c) /\ d \in Seq(Byte)
  BY <1>1, <1>2, <1>3, <1>5, ViewDrop, DropType
<1>7. View(a, 0, d, w, c)
  BY <1>2, <1>6, ViewAfter
<1> QED BY <1>1, <1>4, <1>5, <1>7

\* The frames collected so far, and one more.
LEMMA CollectsNext ==
  ASSUME NEW bm \in Seq(Seq(Byte)), NEW frames \in Seq(Seq(Byte)), NEW j, j = Len(bm),
         j < Len(frames), \A i \in 1..j : bm[i] = frames[i],
         NEW z, z = Append(bm, frames[j + 1])
  PROVE  /\ z \in Seq(Seq(Byte)) /\ Len(z) = j + 1 /\ z # <<>>
         /\ \A i \in 1..Len(z) : z[i] = frames[i]
         /\ j + 1 = Len(frames) => z = frames
<1>1. j \in Nat /\ Len(frames) \in Nat /\ j + 1 \in 1..Len(frames)
  OBVIOUS
<1>2. frames[j + 1] \in Seq(Byte)
  BY <1>1
<1>3. z \in Seq(Seq(Byte)) /\ Len(z) = j + 1 /\ z[j + 1] = frames[j + 1] /\ \A i \in 1..j : z[i] = bm[i]
  BY <1>1, <1>2
<1>4. \A i \in 1..Len(z) : z[i] = frames[i]
  BY <1>1, <1>3
<1>5. z # <<>>
  BY <1>1, <1>3
<1>6. j + 1 = Len(frames) => z = frames
  BY <1>3, <1>4, SameSequence
<1> QED BY <1>3, <1>4, <1>5, <1>6

\* A whole frame joins its message, or is parsed as the command ahead.
LEMMA StreamFrame ==
  ASSUME IInv, StreamInv, DecodeFrame
  PROVE  StreamInv'
<1>1. PICK L, u : L = Left /\ u = Used
  OBVIOUS
<1>2. HasBytes /\ state = "Frame"
  BY DEF DecodeFrame
<1>3. /\ outcome = "open" /\ YieldedInv /\ PartsInv /\ StageInv /\ TypeOK /\ WaitingInv
      /\ Len(yielded) < Len(script) /\ script \in Scripts /\ Len(script) \in Nat
      /\ L \in Seq(Byte) /\ u \in Nat
      /\ View(L, u, buffer, wire, cut) /\ waiting_for <= Len(buffer) /\ waiting_for \in Nat
      /\ buffer \in Seq(Byte) /\ wire \in Seq(Byte) /\ Len(buffer) \in Nat
  BY <1>1, <1>2, WithBytes, Zenon
<1>4. /\ u = 1 + LenWidth(L) /\ frame = HeaderOf(L) /\ waiting_for = LenOf(L) /\ LenOf(L) <= MaxLen
  BY <1>1, <1>2, <1>3 DEF Used, StageInv
<1>5. PICK k, j, item : k = Len(yielded) /\ j = Len(buffered_message) /\ item = script[k + 1]
  OBVIOUS
<1>6. /\ k \in 0..(Len(script) - 1) /\ j \in Nat /\ LenWidth(L) \in Nat \ {0} /\ LenOf(L) \in Nat
      /\ \/ item.kind = "message" /\ j \in 0..(Len(item.frames) - 1)
         \/ item.kind = "command" /\ j = 0
         \/ item.kind = "raw" /\ RefusedFrame(L)
  <2>1. state # "Greeting"
    BY <1>2
  <2> QED BY <1>1, <1>3, <1>5, <2>1, NextFrame, Zenon
<1>7. L = Ahead(script, k, j)
  BY <1>1, <1>5 DEF Left
<1>8. PICK data : data = SubSeq(buffer, 1, waiting_for)
  OBVIOUS
<1>9. /\ state' = "FrameHeader" /\ waiting_for' = 1 /\ buffer' = Drop(buffer, waiting_for)
      /\ UNCHANGED <<frame, wire, cut, script>>
  BY DEF DecodeFrame, Advance, connection
<1>10. CASE item.kind = "command"
  <2>1. PICK body, r : body = CommandBody(item.props) /\ r = Ahead(script, k + 1, 0)
    OBVIOUS
  <2>2. IsCommand(item) /\ r \in Seq(Byte) /\ FrameAt(L, body, r, TRUE, FALSE)
    BY <1>3, <1>5, <1>6, <1>7, <1>10, <2>1, AheadCommand
  <2>3. body \in Seq(Byte) /\ ParseCommand(body) = item /\ j = 0
    BY <1>6, <1>10, <2>1, <2>2, CommandRoundTrip
  <2>4. frame.command /\ Len(body) = waiting_for
    BY <1>4, <2>2 DEF FrameAt
  <2>5. data = body /\ View(r, 0, buffer', wire, cut)
    <3>1. Len(body) <= Len(buffer)
      BY <1>3, <2>4
    <3>2. View(L, 1 + LenWidth(L), buffer, wire, cut)
      BY <1>3, <1>4
    <3>3. SubSeq(buffer, 1, Len(body)) = body /\ View(r, 0, Drop(buffer, Len(body)), wire, cut)
      BY <1>3, <2>2, <2>3, <3>1, <3>2, FrameTaken
    <3> QED BY <1>8, <1>9, <2>4, <3>3
  <2>6. /\ yielded' = Append(yielded, item) /\ poll' = "idle" /\ UNCHANGED <<outcome, buffered_message>>
    BY <1>8, <1>10, <2>3, <2>4, <2>5 DEF DecodeFrame, Yield
  <2>7. YieldedInv' /\ Len(yielded') = k + 1 /\ yielded' # <<>>
    BY <1>3, <1>5, <1>9, <2>6, YieldsNext
  <2>8. Left' = r /\ Used' = 0
    BY <1>5, <1>9, <2>1, <2>3, <2>6, <2>7 DEF Left, Used
  <2>9. BytesInv'
    BY <1>9, <2>5, <2>8 DEF BytesInv
  <2>10. buffered_message' = <<>>
    <3>1. buffered_message \in Seq(Seq(Byte)) /\ Len(buffered_message) = 0
      BY <1>3, <1>5, <2>3 DEF TypeOK
    <3>2. buffered_message = <<>>
      BY <3>1
    <3> QED BY <2>6, <3>2
  <2>11. PartsInv' /\ StageInv'
    BY <1>9, <2>7, <2>10 DEF PartsInv, StageInv
  <2> QED BY <1>3, <2>6, <2>7, <2>9, <2>11 DEF StreamInv, ErrorsAreReal
<1>11. CASE item.kind = "message"
  <2>1. PICK frames, body, a, m : /\ frames = item.frames /\ body = frames[j + 1]
          /\ m = (j + 1 # Len(frames))
          /\ a = IF j + 1 = Len(frames) THEN Ahead(script, k + 1, 0) ELSE Ahead(script, k, j + 1)
    OBVIOUS
  <2>2. j \in 0..(Len(frames) - 1)
    BY <1>6, <1>11, <2>1
  <2>3. IsMessage(item) /\ a \in Seq(Byte) /\ FrameAt(L, body, a, FALSE, j + 1 # Len(frames))
    BY <1>3, <1>5, <1>6, <1>7, <1>11, <2>1, <2>2, AheadMessage
  <2>4. /\ frames \in Seq(Seq(Byte)) /\ Len(frames) \in Nat
        /\ item = [kind |-> "message", frames |-> frames]
    BY <1>11, <2>1, <2>3 DEF IsMessage
  <2>5. body \in Seq(Byte) /\ j < Len(frames)
    BY <2>1, <2>2, <2>4
  <2>6. ~frame.command /\ (frame.more <=> j + 1 # Len(frames)) /\ Len(body) = waiting_for
    BY <1>4, <2>3 DEF FrameAt
  <2>7. data = body /\ View(a, 0, buffer', wire, cut)
    <3>1. Len(body) <= Len(buffer)
      BY <1>3, <2>6
    <3>2. View(L, 1 + LenWidth(L), buffer, wire, cut)
      BY <1>3, <1>4
    <3>3. SubSeq(buffer, 1, Len(body)) = body /\ View(a, 0, Drop(buffer, Len(body)), wire, cut)
      BY <1>3, <2>3, <2>5, <3>1, <3>2, FrameTaken
    <3> QED BY <1>8, <1>9, <2>6, <3>3
  <2>8. PICK z : z = Append(buffered_message, body)
    OBVIOUS
  <2>9. /\ z \in Seq(Seq(Byte)) /\ Len(z) = j + 1 /\ z # <<>>
        /\ \A i \in 1..Len(z) : z[i] = frames[i]
        /\ j + 1 = Len(frames) => z = frames
    <3>1. buffered_message \in Seq(Seq(Byte))
      BY <1>3 DEF TypeOK
    <3>2. \A i \in 1..j : buffered_message[i] = frames[i]
      <4>1. CASE buffered_message = <<>>
        BY <1>5, <4>1
      <4>2. CASE buffered_message # <<>>
        BY <1>3, <1>5, <2>1, <4>2 DEF PartsInv
      <4> QED BY <4>1, <4>2
    <3>3. z = Append(buffered_message, frames[j + 1])
      BY <2>1, <2>8, Zenon
    <3>4. j = Len(buffered_message) /\ frames \in Seq(Seq(Byte)) /\ j < Len(frames)
      BY <1>5, <2>4, <2>5, Zenon
    <3> QED BY <3>1, <3>2, <3>3, <3>4, CollectsNext
  <2>10. CASE j + 1 = Len(frames)
    <3>1. ~frame.more /\ z = frames
      BY <2>6, <2>9, <2>10
    <3>2. /\ yielded' = Append(yielded, item) /\ poll' = "idle"
          /\ UNCHANGED outcome /\ buffered_message' = <<>>
      BY <1>8, <2>4, <2>6, <2>7, <2>8, <3>1 DEF DecodeFrame, Yield
    <3>3. YieldedInv' /\ Len(yielded') = k + 1 /\ yielded' # <<>>
      BY <1>3, <1>5, <1>9, <3>2, YieldsNext
    <3>4. Left' = a /\ Used' = 0
      BY <1>9, <2>1, <2>10, <3>2, <3>3 DEF Left, Used
    <3>5. BytesInv'
      BY <1>9, <2>7, <3>4 DEF BytesInv
    <3>6. PartsInv' /\ StageInv'
      BY <1>9, <3>2, <3>3 DEF PartsInv, StageInv
    <3> QED BY <1>3, <3>2, <3>3, <3>5, <3>6 DEF StreamInv, ErrorsAreReal
  <2>11. CASE j + 1 # Len(frames)
    <3>1. frame.more
      BY <2>6, <2>11
    <3>2. buffered_message' = z /\ UNCHANGED <<poll, yielded, outcome>>
      BY <1>8, <2>6, <2>7, <2>8, <3>1 DEF DecodeFrame, GoOn
    <3>3. YieldedInv' /\ Len(yielded') = k
      BY <1>3, <1>5, <1>9, <3>2 DEF YieldedInv
    <3>4. Left' = a /\ Used' = 0
      BY <1>9, <2>1, <2>9, <2>11, <3>2, <3>3 DEF Left, Used
    <3>5. BytesInv'
      BY <1>9, <2>7, <3>4 DEF BytesInv
    <3>6. StageInv'
      BY <1>2, <1>3, <1>9, <3>2 DEF StageInv
    <3>7. PartsInv'
      <4>1. Len(z) < Len(frames)
        BY <2>2, <2>4, <2>9, <2>11
      <4> QED BY <1>3, <1>5, <1>9, <1>11, <2>1, <2>9, <3>2, <4>1 DEF PartsInv
    <3> QED BY <1>3, <1>9, <3>2, <3>3, <3>5, <3>6, <3>7 DEF StreamInv, ErrorsAreReal
  <2> QED BY <2>10, <2>11
<1>12. CASE item.kind = "raw"
  <2>1. RefusedFrame(L)
    BY <1>6, <1>12
  <2>2. /\ HeaderOf(L).command /\ Len(L) >= 1 + LenWidth(L) + LenOf(L)
        /\ ParseCommand(BodyOf(L)) = NoCommand
    <3>1. ~(LenOf(L) > MaxLen)
      BY <1>4, <1>6, LimitsAreNumbers
    <3> QED BY <2>1, <3>1 DEF RefusedFrame
  <2>3. PICK x, n : x = BodyOf(L) /\ n = LenOf(L)
    OBVIOUS
  <2>4. /\ n \in Nat /\ 2 + LenWidth(L) = u + 1 /\ 1 + LenWidth(L) + n = u + n
        /\ Len(L) \in Nat /\ u + n <= Len(L)
    <3>1. PICK v : v = LenWidth(L)
      OBVIOUS
    <3>2. L \in Seq(Byte) /\ u = 1 + v /\ v \in Nat /\ n \in Nat /\ Len(L) >= 1 + v + n
      BY <1>3, <1>4, <1>6, <2>2, <2>3, <3>1
    <3>3. Len(L) \in Nat /\ 2 + v = u + 1 /\ 1 + v + n = u + n /\ u + n <= Len(L)
      BY <3>2
    <3> QED BY <3>1, <3>2, <3>3, Zenon
  <2>5. x = SubSeq(L, u + 1, u + n)
    BY <2>3, <2>4, Zenon DEF BodyOf
  <2>6. x \in Seq(Byte) /\ Len(x) = n /\ \A i \in 1..n : x[i] = L[u + i]
    <3>1. L \in Seq(Byte) /\ u \in Nat /\ n \in Nat /\ u + n <= Len(L)
      BY <1>3, <2>4, Zenon
    <3> QED BY <2>5, <3>1, MiddleIs
  <2>7. ASSUME NEW i \in 1..Len(x) PROVE L[u + i] = x[i]
    BY <2>6
  <2>8. SubSeq(buffer, 1, Len(x)) = x
    <3>1. Len(x) <= Len(buffer)
      BY <1>3, <1>4, <2>3, <2>6
    <3> QED BY <1>3, <2>6, <2>7, <3>1, ViewPart, Zenon
  <2>9. ParseCommand(data) = NoCommand
    BY <1>4, <1>8, <2>2, <2>3, <2>6, <2>8, Zenon
  <2>10. NoCommand.kind = "error"
    BY DEF NoCommand
  <2>11. frame.command
    BY <1>4, <2>2
  <2>12. Yield(ParseCommand(data))
    BY <1>8, <2>11 DEF DecodeFrame
  <2>13. outcome' = "error" /\ poll' = "idle" /\ UNCHANGED <<yielded, script>>
    BY <1>9, <2>9, <2>10, <2>12 DEF Yield
  <2> QED BY <1>5, <1>12, <2>13, EndsWithRaw
<1> QED BY <1>6, <1>10, <1>11, <1>12

\* The decoder needs more: the stream ends only where the peer stopped.
LEMMA StreamNeedMore ==
  ASSUME IInv, StreamInv, NeedMore
  PROVE  StreamInv'
<1>1. outcome = "open" /\ TypeOK /\ WaitingInv /\ YieldedInv /\ PartsInv /\ StageInv /\ BytesInv
  BY DEF NeedMore, Decoding, StreamInv, IInv
<1>2. UNCHANGED <<state, frame, waiting_for, buffered_message, buffer, wire, cut, script, yielded>>
  BY DEF NeedMore, decoder, connection
<1>3. YieldedInv' /\ PartsInv' /\ StageInv' /\ BytesInv'
  BY <1>1, <1>2 DEF YieldedInv, PartsInv, StageInv, BytesInv, Left, Used
<1>4. CASE poll # "decode_end"
  <2>1. poll' = "read" /\ outcome' = "open"
    BY <1>1, <1>4 DEF NeedMore
  <2> QED BY <1>3, <2>1 DEF StreamInv, ErrorsAreReal
<1>5. CASE poll = "decode_end"
  <2>1. poll' = "idle" /\ outcome' = IF buffer = <<>> THEN "clean" ELSE "error"
    BY <1>5 DEF NeedMore
  <2>2. wire = <<>> /\ Len(wire) = 0 /\ Len(buffer) < waiting_for
        /\ Len(buffer) \in Nat /\ waiting_for \in Nat /\ buffer \in Seq(Byte)
    BY <1>1, <1>5 DEF StreamInv, NeedMore, TypeOK
  <2>3. ~cut => buffer = <<>> /\ yielded = script
    <3> SUFFICES ASSUME ~cut PROVE buffer = <<>> /\ yielded = script
      OBVIOUS
    <3>1. PICK L, u : L = Left /\ u = Used
      OBVIOUS
    <3>2. /\ L \in Seq(Byte) /\ u \in Nat
          /\ IF Len(yielded) < Len(script)
             THEN u + waiting_for <= Len(L)
             ELSE Len(L) = 0 /\ u = 0 /\ waiting_for >= 1 /\ Len(yielded) = Len(script)
      BY <1>1, <3>1, NeededIsAhead
    <3>3. u + Len(buffer) + 0 = Len(L)
      BY <1>1, <2>2, <3>1 DEF BytesInv, View
    <3>4. ~(Len(yielded) < Len(script))
      BY <2>2, <3>2, <3>3
    <3>5. Len(buffer) = 0 /\ Len(yielded) = Len(script)
      <4>1. Len(L) = 0 /\ u = 0 /\ Len(yielded) = Len(script)
        BY <3>2, <3>4, Zenon
      <4> QED BY <2>2, <3>3, <4>1
    <3>6. yielded = script
      <4>1. script \in Seq(Range(script))
        BY <1>1, EncodingsType DEF TypeOK
      <4>2. yielded \in Seq(Range(script)) /\ \A i \in 1..Len(yielded) : yielded[i] = script[i]
        BY <1>1 DEF YieldedInv
      <4> QED BY <3>5, <4>1, <4>2, SameSequence
    <3> QED BY <2>2, <3>5, <3>6
  <2>4. CASE cut
    BY <1>2, <1>3, <2>1, <2>4 DEF StreamInv, ErrorsAreReal
  <2>5. CASE ~cut
    <3>1. outcome' = "clean"
      BY <2>1, <2>3, <2>5
    <3> QED BY <1>2, <1>3, <2>1, <2>3, <2>5, <3>1 DEF StreamInv, ErrorsAreReal
  <2> QED BY <2>4, <2>5
<1> QED BY <1>4, <1>5

\* The transport and the peer.
LEMMA StreamTransport ==
  ASSUME IInv, StreamInv, ReadSome \/ ReadEnd \/ ReadPending \/ ReadFails \/ Cut
  PROVE  StreamInv'
<1>1. outcome = "open"
  BY DEF ReadSome, Read, ReadEnd, ReadPending, ReadFails, Cut, StreamInv
<1>2. TypeOK /\ WaitingInv /\ YieldedInv /\ PartsInv /\ StageInv /\ BytesInv
  BY <1>1 DEF StreamInv, IInv
<1>3. UNCHANGED <<state, frame, waiting_for, buffered_message, script, yielded>>
  BY DEF ReadSome, Read, ReadEnd, ReadPending, ReadFails, Cut, decoder, connection
<1>4. YieldedInv' /\ PartsInv' /\ StageInv' /\ Left' = Left /\ Used' = Used
  BY <1>2, <1>3 DEF YieldedInv, PartsInv, StageInv, Left, Used
<1>5. PICK L, u : L = Left /\ u = Used
  OBVIOUS
<1>6. L \in Seq(Byte) /\ u \in Nat
  BY <1>2, <1>5, NeededIsAhead, Zenon
<1>7. View(L, u, buffer, wire, cut) /\ buffer \in Seq(Byte) /\ wire \in Seq(Byte)
  BY <1>2, <1>5 DEF BytesInv, TypeOK
<1>8. CASE ReadSome
  <2>1. PICK n \in 1..max_size : Read(n)
    BY <1>8 DEF ReadSome
  <2>2. n \in Nat /\ n <= Len(wire)
    BY <1>2, <2>1, ReadBound
  <2>3. /\ buffer' = buffer \o SubSeq(wire, 1, n) /\ wire' = Drop(wire, n)
        /\ poll' = "decode_read" /\ UNCHANGED <<cut, outcome>>
    BY <2>1 DEF Read
  <2>4. View(L, u, buffer', wire', cut)
    BY <1>6, <1>7, <2>2, <2>3, ViewRead
  <2>5. BytesInv'
    BY <1>4, <1>5, <2>3, <2>4 DEF BytesInv
  <2> QED BY <1>1, <1>4, <2>3, <2>5 DEF StreamInv, ErrorsAreReal
<1>9. CASE ReadEnd
  <2>1. read_size > 0
    <3>1. poll = "read"
      BY <1>9 DEF ReadEnd
    <3> QED BY <3>1, RangeInv DEF ReadsInRange
  <2>2. wire = <<>> /\ poll' = "decode_end" /\ UNCHANGED <<wire, cut, outcome, buffer>>
    <3>1. read_size # 0
      BY <2>1
    <3> QED BY <1>9, <3>1 DEF ReadEnd, connection
  <2>3. BytesInv'
    BY <1>2, <1>4, <2>2 DEF BytesInv
  <2> QED BY <1>1, <1>4, <2>2, <2>3 DEF StreamInv, ErrorsAreReal
<1>10. CASE ReadPending
  <2>1. poll' = "idle" /\ UNCHANGED <<wire, cut, outcome, buffer>>
    BY <1>10 DEF ReadPending, connection
  <2>2. BytesInv'
    BY <1>2, <1>4, <2>1 DEF BytesInv
  <2> QED BY <1>1, <1>4, <2>1, <2>2 DEF StreamInv, ErrorsAreReal
<1>11. CASE ReadFails
  <2>1. poll' = "idle" /\ outcome' = "error" /\ cut'
    BY <1>11 DEF ReadFails, connection
  <2> QED BY <1>4, <2>1 DEF StreamInv, ErrorsAreReal
<1>12. CASE Cut
  <2>1. PICK n \in 0..(Len(wire) - 1) : wire' = SubSeq(wire, 1, n)
    BY <1>12 DEF Cut
  <2>2. n \in Nat /\ n <= Len(wire) /\ wire # <<>>
    BY <1>7, <2>1
  <2>3. cut' = TRUE /\ UNCHANGED <<poll, outcome, buffer>>
    BY <1>12 DEF Cut
  <2>4. View(L, u, buffer', wire', cut')
    <3>1. View(L, u, buffer, SubSeq(wire, 1, n), TRUE)
      BY <1>6, <1>7, <2>2, ViewCut
    <3> QED BY <2>1, <2>3, <3>1, Zenon
  <2>5. BytesInv'
    BY <1>4, <1>5, <2>4 DEF BytesInv
  <2>6. poll # "decode_end"
    BY <2>2 DEF StreamInv
  <2> QED BY <1>1, <1>4, <2>3, <2>5, <2>6 DEF StreamInv, ErrorsAreReal
<1> QED BY <1>8, <1>9, <1>10, <1>11, <1>12

\* Nothing is read or yielded at the start.
LEMMA StreamInit ==
  ASSUME Init
  PROVE  StreamInv
<1>1. script \in Scripts /\ Len(script) \in Nat /\ 0 \in 0..Len(script)
  BY EncodingsType DEF Init
<1>2. yielded = <<>> /\ Len(yielded) = 0 /\ buffered_message = <<>> /\ Len(buffered_message) = 0
  BY DEF Init
<1>3. Left = Ahead(script, 0, 0) /\ Used = 0
  BY <1>2 DEF Left, Used, Init
<1>4. Left = wire /\ Left \in Seq(Byte)
  BY <1>1, <1>3, AheadStart, EncodedType DEF Init
<1>5. BytesInv
  <2>1. View(Left, 0, <<>>, Left, FALSE)
    BY <1>4, ViewStart
  <2>2. buffer = <<>> /\ cut = FALSE
    BY DEF Init
  <2> QED BY <1>3, <1>4, <2>1, <2>2, Zenon DEF BytesInv
<1>6. YieldedInv
  BY <1>1, <1>2 DEF YieldedInv
<1>7. PartsInv /\ StageInv
  BY <1>2 DEF PartsInv, StageInv, Init
<1> QED BY <1>5, <1>6, <1>7 DEF StreamInv, ErrorsAreReal, Init

\* Every step keeps the stream in order.
LEMMA StreamNext ==
  ASSUME IInv, StreamInv, [Next]_vars
  PROVE  StreamInv'
<1>1. CASE Poll
  BY <1>1 DEF Poll, StreamInv, YieldedInv, PartsInv, StageInv, BytesInv, Left, Used, ErrorsAreReal,
              decoder, reader, connection
<1>2. CASE UNCHANGED vars
  BY <1>2 DEF vars, StreamInv, YieldedInv, PartsInv, StageInv, BytesInv, Left, Used, ErrorsAreReal,
              decoder, reader, connection
<1>3. CASE Decode
  BY <1>3, StreamGreeting, StreamHeader, StreamLen, StreamFrame, StreamNeedMore DEF Decode
<1>4. CASE ReadSome \/ ReadEnd \/ ReadPending \/ ReadFails \/ Cut
  BY <1>4, StreamTransport
<1> QED BY <1>1, <1>2, <1>3, <1>4 DEF Next, Ended

\* The bytes ahead, the decoder's state and the items yielded agree at every step.
THEOREM StreamInvariant == Spec => [](IInv /\ StreamInv)
<1>1. Init => IInv /\ StreamInv
  BY InitInv, StreamInit
<1>2. (IInv /\ StreamInv) /\ [Next]_vars => (IInv /\ StreamInv)'
  BY NextInv, StreamNext
<1> QED BY <1>1, <1>2, PTL DEF Spec

\* However the transport chops the bytes and wherever poll_next is interrupted, the
\* reader yields the items that were sent, in order and whole, and a connection that was
\* not cut ends cleanly only after the last of them (zmq_codec.rs:70-160, framed.rs:96-151).
THEOREM YieldsExactly == Spec => []YieldsWhatWasSent
<1>1. IInv /\ StreamInv => YieldsWhatWasSent
  <2> SUFFICES ASSUME IInv, StreamInv PROVE IsPrefix(yielded, script)
    BY DEF StreamInv, YieldsWhatWasSent
  <2>1. script \in Seq(Range(script)) /\ Len(script) \in Nat
    BY EncodingsType DEF IInv, TypeOK
  <2>2. /\ yielded \in Seq(Range(script)) /\ Len(yielded) <= Len(script)
        /\ \A i \in 1..Len(yielded) : yielded[i] = script[i]
    BY DEF StreamInv, YieldedInv
  <2>3. PICK d : d = SubSeq(script, 1, Len(yielded))
    OBVIOUS
  <2>4. d = yielded
    <3>1. d \in Seq(Range(script)) /\ Len(d) = Len(yielded) /\ \A i \in 1..Len(yielded) : d[i] = script[i]
      BY <2>1, <2>2, <2>3, TakeIs
    <3> QED BY <2>2, <3>1, SameSequence
  <2> QED BY <2>1, <2>2, <2>3, <2>4 DEF IsPrefix
<1> QED BY StreamInvariant, <1>1, PTL

\* A stream ends with an error only after the connection was cut or at an item that this
\* library refuses: a length that was written is never misread, nor a frame cut in the
\* wrong place (zmq_codec.rs:86-160).
THEOREM ErrorsOnlyReal == Spec => []ErrorsAreReal
<1>1. StreamInv => ErrorsAreReal
  BY DEF StreamInv
<1> QED BY StreamInvariant, <1>1, PTL
=============================================================================
