---------------------------- MODULE SequenceLemmas ----------------------------
(***************************************************************************)
(* Facts about numbers and sequences that proofs about several modules     *)
(* need.  A JavaScript Set, which keeps the order of insertion, is a       *)
(* sequence with no element twice.                                         *)
(***************************************************************************)
EXTENDS SequencesExt, SequenceTheorems, FiniteSetTheorems, TLAPS

(* A set of natural numbers has a least element.                           *)
LEMMA Least ==
  ASSUME NEW T \in SUBSET Nat, T # {} PROVE \E x \in T : \A y \in T : x <= y
<1> DEFINE R == OpToRel(<, Nat)
<1>1. IsWellFoundedOn(R, Nat)
  BY NatLessThanWellFounded
<1>2. \A x, y \in Nat : y < x => <<y, x>> \in R
  BY DEF OpToRel
<1> HIDE DEF R
<1>3. PICK x \in T : \A y \in T : <<y, x>> \notin R
  BY <1>1, WFMin
<1>4. ASSUME NEW y \in T PROVE x <= y
  <2>1. ~(y < x)
    BY <1>2, <1>3
  <2> QED BY <2>1
<1> QED BY <1>4

(* A set of numbers up to n has a greatest one.                            *)
LEMMA Greatest ==
  ASSUME NEW n \in Nat, NEW T \in SUBSET (1 .. n), T # {}
  PROVE  \E x \in T : \A y \in T : y <= x
<1> DEFINE D == {k \in Nat : n - k \in T}
<1>1. D # {}
  <2>1. PICK y \in T : TRUE
    OBVIOUS
  <2>2. n - y \in Nat /\ n - (n - y) = y
    OBVIOUS
  <2> QED BY <2>2
<1>2. PICK k \in D : \A m \in D : k <= m
  BY <1>1, Least
<1>3. ASSUME NEW y \in T PROVE y <= n - k
  <2>1. n - y \in Nat /\ n - (n - y) = y
    OBVIOUS
  <2>2. k <= n - y
    BY <1>2, <2>1
  <2> QED BY <2>2
<1> QED BY <1>3

(* The least number of a set.                                              *)
LEMMA MinLeast ==
  ASSUME NEW T \in SUBSET Nat, NEW m \in T, \A y \in T : m <= y
  PROVE  Min(T) = m
<1>1. \A x \in T : (\A y \in T : x <= y) => x = m
  OBVIOUS
<1> QED BY <1>1 DEF Min

(* Min picks one that is in it.                                            *)
LEMMA MinIn ==
  ASSUME NEW T \in SUBSET Nat, T # {} PROVE Min(T) \in T /\ \A y \in T : Min(T) <= y
<1>1. \E x \in T : \A y \in T : x <= y
  BY Least
<1> QED BY <1>1 DEF Min

LEMMA MaxGreatest ==
  ASSUME NEW T \in SUBSET Nat, NEW m \in T, \A y \in T : y <= m
  PROVE  Max(T) = m
<1>1. \A x \in T : (\A y \in T : x >= y) => x = m
  OBVIOUS
<1>2. \A y \in T : m >= y
  OBVIOUS
<1> QED BY <1>1, <1>2 DEF Max

LEMMA MaxIn ==
  ASSUME NEW n \in Nat, NEW T \in SUBSET (1 .. n), T # {}
  PROVE  Max(T) \in T /\ \A y \in T : y <= Max(T)
<1>1. PICK m \in T : \A y \in T : y <= m
  BY Greatest
<1>2. T \in SUBSET Nat
  OBVIOUS
<1>3. Max(T) = m
  BY <1>1, <1>2, MaxGreatest
<1> QED BY <1>1, <1>3

(* What is left of a sequence from which one element is taken.             *)
LEMMA Removed ==
  ASSUME NEW S, NEW s \in Seq(S), NEW i \in 1 .. Len(s)
  PROVE  /\ RemoveAt(s, i) \in Seq(S)
         /\ Len(RemoveAt(s, i)) = Len(s) - 1
         /\ \A j \in 1 .. Len(s) - 1 :
              RemoveAt(s, i)[j] = IF j < i THEN s[j] ELSE s[j + 1]
<1> DEFINE front == SubSeq(s, 1, i - 1)
           rest == SubSeq(s, i + 1, Len(s))
<1>1. /\ front \in Seq(S) /\ Len(front) = i - 1
      /\ \A j \in 1 .. i - 1 : front[j] = s[j]
  OBVIOUS
<1>2. /\ rest \in Seq(S) /\ Len(rest) = Len(s) - i
      /\ \A j \in 1 .. Len(s) - i : rest[j] = s[i + j]
  OBVIOUS
<1>3. RemoveAt(s, i) = front \o rest
  BY DEF RemoveAt
<1> HIDE DEF front, rest
<1>4. /\ front \o rest \in Seq(S) /\ Len(front \o rest) = Len(front) + Len(rest)
      /\ \A j \in 1 .. Len(front) + Len(rest) :
           (front \o rest)[j] = IF j <= Len(front) THEN front[j] ELSE rest[j - Len(front)]
  BY <1>1, <1>2, ConcatProperties
<1>5. Len(RemoveAt(s, i)) = Len(s) - 1
  BY <1>1, <1>2, <1>3, <1>4
<1>6. ASSUME NEW j \in 1 .. Len(s) - 1
      PROVE  RemoveAt(s, i)[j] = IF j < i THEN s[j] ELSE s[j + 1]
  <2>1. CASE j < i
    BY <1>1, <1>2, <1>3, <1>4, <2>1
  <2>2. CASE j >= i
    <3>1. j \in 1 .. Len(front) + Len(rest) /\ ~(j <= Len(front))
          /\ j - Len(front) \in 1 .. Len(s) - i /\ i + (j - Len(front)) = j + 1
      BY <1>1, <1>2, <2>2
    <3>2. RemoveAt(s, i)[j] = rest[j - Len(front)]
      BY <1>3, <1>4, <3>1
    <3> QED BY <1>2, <2>2, <3>1, <3>2
  <2> QED BY <2>1, <2>2
<1> QED BY <1>3, <1>4, <1>5, <1>6

(* A set in the order of insertion stays one when it loses an element,     *)
LEMMA Deleted ==
  ASSUME NEW S, NEW q \in Seq(S), IsInjective(q), NEW i \in DOMAIN q
  PROVE  /\ RemoveAt(q, i) \in Seq(S) /\ IsInjective(RemoveAt(q, i))
         /\ Range(RemoveAt(q, i)) \subseteq Range(q)
<1> DEFINE r == RemoveAt(q, i)
<1>1. /\ r \in Seq(S) /\ Len(r) = Len(q) - 1
      /\ \A j \in 1 .. Len(q) - 1 : r[j] = IF j < i THEN q[j] ELSE q[j + 1]
  BY Removed
<1> HIDE DEF r
<1>2. ASSUME NEW a \in DOMAIN r, NEW b \in DOMAIN r, r[a] = r[b] PROVE a = b
  <2> DEFINE at(k) == IF k < i THEN k ELSE k + 1
  <2>1. at(a) \in DOMAIN q /\ at(b) \in DOMAIN q /\ q[at(a)] = r[a] /\ q[at(b)] = r[b]
    BY <1>1
  <2>2. at(a) = at(b)
    BY <1>2, <2>1 DEF IsInjective
  <2> QED BY <1>1, <2>2
<1>3. ASSUME NEW a \in DOMAIN r PROVE r[a] \in Range(q)
  <2>1. (IF a < i THEN a ELSE a + 1) \in DOMAIN q
    BY <1>1
  <2> QED BY <1>1, <2>1 DEF Range
<1>4. Range(r) \subseteq Range(q)
  BY <1>3 DEF Range
<1> QED BY <1>1, <1>2, <1>4 DEF IsInjective, r

(* and when it gets one that was not there.                                *)
LEMMA Added ==
  ASSUME NEW S, NEW q \in Seq(S), IsInjective(q), NEW l \in S, ~Contains(q, l)
  PROVE  /\ Append(q, l) \in Seq(S) /\ IsInjective(Append(q, l))
         /\ Range(Append(q, l)) = Range(q) \cup {l}
<1> DEFINE r == Append(q, l)
<1>1. /\ r \in Seq(S) /\ Len(r) = Len(q) + 1
      /\ \A j \in 1 .. Len(q) : r[j] = q[j]
      /\ r[Len(q) + 1] = l
  BY AppendProperties
<1> HIDE DEF r
<1>2. \A j \in 1 .. Len(q) : q[j] # l
  BY DEF Contains
<1>3. IsInjective(r)
  BY <1>1, <1>2 DEF IsInjective
<1>4. Range(r) = Range(q) \cup {l}
  BY <1>1 DEF Range
<1> QED BY <1>1, <1>3, <1>4 DEF r

(* A set of one element.                                                   *)
LEMMA Single ==
  ASSUME NEW S, NEW l \in S
  PROVE  <<l>> \in Seq(S) /\ IsInjective(<<l>>) /\ Range(<<l>>) = {l}
<1> DEFINE q == <<l>>
<1>1. q \in Seq(S) /\ Len(q) = 1 /\ q[1] = l
  OBVIOUS
<1> HIDE DEF q
<1>2. \A i \in DOMAIN q : i = 1
  BY <1>1
<1>3. 1 \in DOMAIN q
  BY <1>1
<1>4. IsInjective(q) /\ Range(q) = {l}
  BY <1>1, <1>2, <1>3 DEF IsInjective, Range
<1> QED BY <1>1, <1>4 DEF q

(* An element put in front of a sequence.                                  *)
LEMMA Pushed ==
  ASSUME NEW S, NEW q \in S, NEW s \in Seq(S)
  PROVE  /\ <<q>> \o s \in Seq(S) /\ Len(<<q>> \o s) = Len(s) + 1
         /\ (<<q>> \o s)[1] = q /\ 1 \in DOMAIN (<<q>> \o s)
         /\ \A i \in DOMAIN s : i + 1 \in DOMAIN (<<q>> \o s) /\ (<<q>> \o s)[i + 1] = s[i]
         /\ \A i \in DOMAIN (<<q>> \o s) :
              i # 1 => i - 1 \in DOMAIN s /\ (<<q>> \o s)[i] = s[i - 1]
  OBVIOUS

(* A finite set, listed in some order.                                     *)
LEMMA Listed ==
  ASSUME NEW S, IsFiniteSet(S)
  PROVE  SetToSeq(S) \in Seq(S) /\ IsInjective(SetToSeq(S)) /\ Range(SetToSeq(S)) = S
<1> DEFINE n == Cardinality(S)
           f == SetToSeq(S)
<1>1. n \in Nat /\ ExistsBijection(1 .. n, S)
  BY FS_CardinalityType
<1>2. \E g \in [1 .. n -> S] : IsInjective(g)
  BY <1>1 DEF ExistsBijection, Bijection, Injection
<1>3. f \in [1 .. n -> S] /\ IsInjective(f)
  BY <1>2 DEF SetToSeq
<1> HIDE DEF f
<1>4. f \in Injection(1 .. n, S)
  BY <1>3 DEF Injection
<1>5. Cardinality(1 .. n) = n
  BY <1>1, FS_Interval
<1> HIDE DEF n
<1>6. f \in Surjection(1 .. n, S)
  BY <1>4, <1>5, FS_Injection DEF n
<1>7. f \in Seq(S)
  BY <1>1, <1>3
<1>8. Range(f) = S
  BY <1>3, <1>6 DEF Range, Surjection
<1> QED BY <1>3, <1>7, <1>8 DEF f

(* A set in the order of insertion that gets new elements, all different.  *)
LEMMA Joined ==
  ASSUME NEW S, NEW q \in Seq(S), NEW r \in Seq(S), IsInjective(q), IsInjective(r),
         Range(q) \cap Range(r) = {}
  PROVE  q \o r \in Seq(S) /\ IsInjective(q \o r) /\ Range(q \o r) = Range(q) \cup Range(r)
<1> DEFINE t == q \o r
<1>1. /\ t \in Seq(S) /\ Len(t) = Len(q) + Len(r)
      /\ \A i \in 1 .. Len(q) + Len(r) : t[i] = IF i <= Len(q) THEN q[i] ELSE r[i - Len(q)]
  BY ConcatProperties
<1> HIDE DEF t
<1>2. /\ \A i \in DOMAIN q : i \in DOMAIN t /\ t[i] = q[i] /\ q[i] \in Range(q)
      /\ \A i \in DOMAIN r : Len(q) + i \in DOMAIN t /\ t[Len(q) + i] = r[i] /\ r[i] \in Range(r)
  <2>1. ASSUME NEW i \in DOMAIN r
        PROVE  Len(q) + i \in DOMAIN t /\ t[Len(q) + i] = r[i]
    <3>1. /\ Len(q) + i \in 1 .. Len(q) + Len(r) /\ ~(Len(q) + i <= Len(q))
          /\ (Len(q) + i) - Len(q) = i
      OBVIOUS
    <3> QED BY <1>1, <3>1
  <2> QED BY <1>1, <2>1 DEF Range
<1>3. \A i \in DOMAIN t : \/ i \in DOMAIN q /\ t[i] = q[i]
                          \/ i - Len(q) \in DOMAIN r /\ t[i] = r[i - Len(q)]
  BY <1>1
<1>4. ASSUME NEW i \in DOMAIN t, NEW j \in DOMAIN t, t[i] = t[j] PROVE i = j
  <2>1. CASE i \in DOMAIN q /\ t[i] = q[i] /\ j \in DOMAIN q /\ t[j] = q[j]
    BY <1>4, <2>1 DEF IsInjective
  <2>2. CASE /\ i - Len(q) \in DOMAIN r /\ t[i] = r[i - Len(q)]
             /\ j - Len(q) \in DOMAIN r /\ t[j] = r[j - Len(q)]
    <3>1. i - Len(q) = j - Len(q)
      BY <1>4, <2>2 DEF IsInjective
    <3> QED BY <1>1, <3>1
  <2> QED BY <1>2, <1>3, <1>4, <2>1, <2>2
<1>5. Range(t) \subseteq Range(q) \cup Range(r)
  BY <1>2, <1>3 DEF Range
<1>6. Range(q) \cup Range(r) \subseteq Range(t)
  BY <1>2 DEF Range
<1> QED BY <1>1, <1>4, <1>5, <1>6 DEF IsInjective, t

-----------------------------------------------------------------------------
(* Induction, over numbers and over sequences, as facts about sets.        *)
LEMMA NatsAll ==
  ASSUME NEW T \in SUBSET Nat, 0 \in T, \A n \in T : n + 1 \in T
  PROVE  T = Nat
<1> SUFFICES ASSUME Nat \ T # {} PROVE FALSE
  OBVIOUS
<1>1. PICK n \in Nat \ T : \A m \in Nat \ T : n <= m
  BY Least
<1>2. n - 1 \in Nat /\ ~(n <= n - 1) /\ (n - 1) + 1 = n
  BY <1>1
<1>3. n - 1 \in T
  BY <1>1, <1>2
<1> QED BY <1>1, <1>2, <1>3

LEMMA SequencesByLast ==
  ASSUME NEW C, NEW T, <<>> \in T, \A s \in T \cap Seq(C), c \in C : Append(s, c) \in T
  PROVE  Seq(C) \subseteq T
<1> DEFINE N == {n \in Nat : \A s \in Seq(C) : Len(s) = n => s \in T}
<1>1. 0 \in N
  <2>1. \A s \in Seq(C) : Len(s) = 0 => s = <<>>
    OBVIOUS
  <2> QED BY <2>1
<1>2. ASSUME NEW n \in N PROVE n + 1 \in N
  <2> SUFFICES ASSUME NEW s \in Seq(C), Len(s) = n + 1 PROVE s \in T
    OBVIOUS
  <2> DEFINE f == SubSeq(s, 1, n)
             c == s[n + 1]
  <2>1. f \in Seq(C) /\ Len(f) = n /\ c \in C /\ \A i \in 1 .. n : f[i] = s[i]
    OBVIOUS
  <2>2. Append(f, c) = s
    <3> HIDE DEF f, c
    <3>1. /\ Append(f, c) \in Seq(C) /\ Len(Append(f, c)) = n + 1
          /\ \A i \in 1 .. n : Append(f, c)[i] = f[i]
          /\ Append(f, c)[n + 1] = c
      BY <2>1, AppendProperties
    <3>2. \A i \in 1 .. n + 1 : Append(f, c)[i] = s[i]
      <4> TAKE i \in 1 .. n + 1
      <4>1. i = n + 1 \/ i \in 1 .. n
        OBVIOUS
      <4> QED BY <2>1, <3>1, <4>1 DEF c
    <3> QED BY <3>1, <3>2, SeqEqual
  <2>3. f \in T
    BY <2>1
  <2> HIDE DEF f, c
  <2> QED BY <2>1, <2>2, <2>3
<1>3. N = Nat
  <2>1. N \in SUBSET Nat
    OBVIOUS
  <2> HIDE DEF N
  <2> QED BY <1>1, <1>2, <2>1, NatsAll
<1> QED BY <1>3

LEMMA SequencesByFirst ==
  ASSUME NEW C, NEW T, <<>> \in T, \A s \in T \cap Seq(C), c \in C : <<c>> \o s \in T
  PROVE  Seq(C) \subseteq T
<1> DEFINE N == {n \in Nat : \A s \in Seq(C) : Len(s) = n => s \in T}
<1>1. 0 \in N
  <2>1. \A s \in Seq(C) : Len(s) = 0 => s = <<>>
    OBVIOUS
  <2> QED BY <2>1
<1>2. ASSUME NEW n \in N PROVE n + 1 \in N
  <2> SUFFICES ASSUME NEW s \in Seq(C), Len(s) = n + 1 PROVE s \in T
    OBVIOUS
  <2> DEFINE t == Tail(s)
             c == s[1]
  <2>1. t \in Seq(C) /\ Len(t) = n /\ c \in C /\ \A i \in 1 .. n : t[i] = s[i + 1]
    <3>1. s # <<>>
      OBVIOUS
    <3> QED BY <3>1, HeadTailProperties
  <2>2. <<c>> \o t = s
    <3> HIDE DEF t, c
    <3>1. /\ <<c>> \o t \in Seq(C) /\ Len(<<c>> \o t) = n + 1 /\ (<<c>> \o t)[1] = c
          /\ \A i \in DOMAIN t : (<<c>> \o t)[i + 1] = t[i]
      BY <2>1, Pushed
    <3>2. \A i \in 1 .. n + 1 : (<<c>> \o t)[i] = s[i]
      <4> TAKE i \in 1 .. n + 1
      <4>1. CASE i = 1
        BY <3>1, <4>1 DEF c
      <4>2. CASE i # 1
        <5>1. i - 1 \in 1 .. n /\ i - 1 \in DOMAIN t /\ (i - 1) + 1 = i
          BY <2>1, <4>2
        <5> QED BY <2>1, <3>1, <5>1
      <4> QED BY <4>1, <4>2
    <3> QED BY <3>1, <3>2, SeqEqual
  <2>3. t \in T
    BY <2>1
  <2> HIDE DEF t, c
  <2> QED BY <2>1, <2>2, <2>3
<1>3. N = Nat
  <2>1. N \in SUBSET Nat
    OBVIOUS
  <2> HIDE DEF N
  <2> QED BY <1>1, <1>2, <2>1, NatsAll
<1> QED BY <1>3

(* What step makes of every state in S and every element of C.             *)
Steps(S, C) == [S -> [C -> S]]

Iteration(f, S, base, step) ==
  f \in [Nat -> S] /\ f[0] = base /\ \A k \in Nat : f[k + 1] = step[f[k]][k]

(* What is computed from 0 on step by step is a function: step is one, and *)
(* not an operator.                                                        *)
LEMMA Iterated ==
  ASSUME NEW S, NEW base \in S, NEW step \in Steps(S, Nat)
  PROVE  \E f : Iteration(f, S, base, step)
<1>0. step \in [S -> [Nat -> S]]
  BY DEF Steps
<1> DEFINE To(n, g) == /\ g \in [0 .. n -> S] /\ g[0] = base
                       /\ \A k \in 0 .. n : k < n => g[k + 1] = step[g[k]][k]
           N == {n \in Nat : \E g : To(n, g)}
<1> HIDE DEF To
<1>1. 0 \in N
  <2> DEFINE g == [i \in 0 .. 0 |-> base]
  <2>1. To(0, g)
    BY DEF To
  <2> HIDE DEF g
  <2> QED BY <2>1
<1>2. ASSUME NEW n \in N PROVE n + 1 \in N
  <2>1. n \in Nat /\ \E g : To(n, g)
    OBVIOUS
  <2>2. PICK g : To(n, g)
    BY <2>1
  <2>3. /\ g \in [0 .. n -> S] /\ g[0] = base
        /\ \A k \in 0 .. n : k < n => g[k + 1] = step[g[k]][k]
    BY <2>2 DEF To
  <2> HIDE DEF N
  <2> DEFINE h == [i \in 0 .. n + 1 |-> IF i = n + 1 THEN step[g[n]][n] ELSE g[i]]
  <2>4. h \in [0 .. n + 1 -> S]
    <3>1. \A i \in 0 .. n + 1 : i = n + 1 \/ i \in 0 .. n
      BY <2>1
    <3>2. g[n] \in S
      <4>1. n \in 0 .. n
        BY <2>1
      <4> QED BY <2>3, <4>1
    <3>3. step[g[n]][n] \in S
      BY <1>0, <2>1, <3>2
    <3> QED BY <2>1, <2>3, <3>1, <3>3
  <2>5. h[n + 1] = step[g[n]][n] /\ \A i \in 0 .. n : h[i] = g[i]
    <3>1. n + 1 \in 0 .. n + 1 /\ \A i \in 0 .. n : i \in 0 .. n + 1 /\ i # n + 1
      BY <2>1
    <3> QED BY <3>1
  <2> HIDE DEF h
  <2>6. ASSUME NEW k \in 0 .. n + 1, k < n + 1 PROVE h[k + 1] = step[h[k]][k]
    <3>1. CASE k = n
      <4>1. k \in 0 .. n
        BY <2>1, <3>1
      <4> QED BY <2>5, <3>1, <4>1
    <3>2. CASE k # n
      <4>1. k \in 0 .. n /\ k < n /\ k + 1 \in 0 .. n
        BY <2>1, <2>6, <3>2
      <4> QED BY <2>3, <2>5, <4>1
    <3> QED BY <3>1, <3>2
  <2>7. 0 \in 0 .. n
    BY <2>1
  <2>8. To(n + 1, h)
    BY <2>3, <2>4, <2>5, <2>6, <2>7 DEF To
  <2> QED BY <2>1, <2>8 DEF N
<1>3. N = Nat
  <2>1. N \in SUBSET Nat
    OBVIOUS
  <2> HIDE DEF N
  <2> QED BY <1>1, <1>2, <2>1, NatsAll
<1>4. ASSUME NEW n \in Nat, NEW m \in Nat, n <= m, NEW g, NEW h, To(n, g), To(m, h)
      PROVE  g[n] = h[n]
  <2> DEFINE E == {i \in Nat : i <= n => g[i] = h[i]}
  <2>1. 0 \in E
    BY <1>4 DEF To
  <2>2. ASSUME NEW i \in E PROVE i + 1 \in E
    <3>1. i \in Nat /\ (i <= n => g[i] = h[i])
      OBVIOUS
    <3> HIDE DEF E
    <3>2. ASSUME i + 1 <= n PROVE g[i + 1] = h[i + 1]
      <4>1. i \in 0 .. n /\ i < n /\ i \in 0 .. m /\ i < m /\ g[i] = h[i]
        BY <1>4, <3>1, <3>2
      <4>2. g[i + 1] = step[g[i]][i]
        BY <1>4, <4>1 DEF To
      <4>3. h[i + 1] = step[h[i]][i]
        BY <1>4, <4>1 DEF To
      <4> QED BY <4>1, <4>2, <4>3
    <3> QED BY <3>1, <3>2 DEF E
  <2>3. \A i \in Nat : i \in E
    <3>1. E \in SUBSET Nat
      OBVIOUS
    <3> HIDE DEF E
    <3> QED BY <2>1, <2>2, <3>1, NatsAll
  <2>4. n <= n
    OBVIOUS
  <2> QED BY <2>3, <2>4
<1> DEFINE at(n) == CHOOSE g : To(n, g)
           f == [n \in Nat |-> at(n)[n]]
<1>5. ASSUME NEW n \in Nat PROVE To(n, at(n))
  <2>1. \E g : To(n, g)
    BY <1>3
  <2> QED BY <2>1
<1> HIDE DEF at
<1>6. ASSUME NEW n \in Nat PROVE at(n)[n] \in S /\ at(n)[0] = base
  <2>1. To(n, at(n))
    BY <1>5
  <2>2. n \in 0 .. n
    OBVIOUS
  <2> QED BY <2>1, <2>2 DEF To
<1>7. f \in [Nat -> S] /\ f[0] = base
  BY <1>6
<1>8. ASSUME NEW k \in Nat PROVE f[k + 1] = step[f[k]][k]
  <2>1. k + 1 \in Nat /\ k <= k + 1 /\ k \in 0 .. k + 1 /\ k < k + 1
    OBVIOUS
  <2>2. To(k, at(k)) /\ To(k + 1, at(k + 1))
    BY <1>5, <2>1
  <2>3. at(k)[k] = at(k + 1)[k]
    BY <1>4, <2>1, <2>2
  <2>4. at(k + 1)[k + 1] = step[at(k + 1)[k]][k]
    BY <2>1, <2>2 DEF To
  <2>5. f[k] = at(k)[k] /\ f[k + 1] = at(k + 1)[k + 1]
    BY <2>1
  <2> QED BY <2>3, <2>4, <2>5
<1> HIDE DEF f
<1> QED BY <1>7, <1>8 DEF Iteration
=============================================================================
