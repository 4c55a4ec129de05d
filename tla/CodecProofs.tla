----------------------------- MODULE CodecProofs -----------------------------
(***************************************************************************)
(* What one program writes and another reads is the same text: proofs      *)
(* about every text, by induction over what has been typed.                *)
(***************************************************************************)
EXTENDS Codec, SequenceLemmas

(* The states that a reader goes through.                                  *)
Run(at, S, step, start, s) ==
  /\ at \in [Nat -> S] /\ at[0] = start
  /\ \A i \in Nat : i + 1 <= Len(s) => at[i + 1] = step[at[i]][s[i + 1]]

(* There are such states, and it ends in the last of them.                 *)
LEMMA ReadsMeans ==
  ASSUME NEW S, NEW C, NEW step \in Steps(S, C), NEW start \in S, NEW s \in Seq(C)
  PROVE  \E at : Run(at, S, step, start, s) /\ Reads(step, start, s) = at[Len(s)]
<1> DEFINE n == Len(s)
           Body(at) == [i \in 0 .. n |-> IF i = 0 THEN start ELSE step[at[i - 1]][s[i]]]
           move == [x \in S |-> [k \in Nat |-> IF k + 1 <= n THEN step[x][s[k + 1]] ELSE x]]
           A == CHOOSE at : at = Body(at)
<1>0. step \in [S -> [C -> S]]
  BY DEF Steps
<1>1. Reads(step, start, s) = A[n]
  BY DEF Reads
<1>2. n \in Nat /\ s \in [1 .. n -> C]
  OBVIOUS
<1> HIDE DEF n
<1>3. \A x \in S, k \in Nat : move[x][k] = IF k + 1 <= n THEN step[x][s[k + 1]] ELSE x
  OBVIOUS
<1>4. move \in Steps(S, Nat)
  <2> USE DEF Steps
  <2> SUFFICES ASSUME NEW x \in S, NEW k \in Nat
               PROVE  (IF k + 1 <= n THEN step[x][s[k + 1]] ELSE x) \in S
    OBVIOUS
  <2>1. k + 1 <= n => s[k + 1] \in C
    BY <1>2
  <2> QED BY <1>0, <2>1
<1> HIDE DEF move
<1>5. PICK f : Iteration(f, S, start, move)
  <2> HIDE DEF Body, A
  <2> QED BY <1>4, Iterated
<1>6. \A k \in Nat : k + 1 <= n => f[k + 1] = step[f[k]][s[k + 1]]
  BY <1>3, <1>5 DEF Iteration
<1> DEFINE g == [i \in 0 .. n |-> f[i]]
<1>7. g = Body(g)
  <2>1. ASSUME NEW i \in 0 .. n PROVE f[i] = IF i = 0 THEN start ELSE step[g[i - 1]][s[i]]
    <3>1. CASE i = 0
      BY <1>5, <3>1 DEF Iteration
    <3>2. CASE i # 0
      <4>1. i - 1 \in Nat /\ (i - 1) + 1 = i /\ (i - 1) + 1 <= n /\ i - 1 \in 0 .. n
        BY <1>2, <3>2
      <4>2. f[(i - 1) + 1] = step[f[i - 1]][s[(i - 1) + 1]]
        BY <1>6, <4>1
      <4> QED BY <3>2, <4>1, <4>2
    <3> QED BY <3>1, <3>2
  <2> QED BY <2>1
<1>8. A = Body(A)
  <2> HIDE DEF Body, g
  <2> QED BY <1>7
<1> HIDE DEF A, g
<1>9. A[0] = start /\ \A i \in 0 .. n : i # 0 => A[i] = step[A[i - 1]][s[i]]
  <2>1. 0 \in 0 .. n
    BY <1>2
  <2> QED BY <1>8, <2>1
<1>10. A[n] = f[n]
  <2> DEFINE E == {i \in Nat : i <= n => A[i] = f[i]}
  <2>1. 0 \in E
    BY <1>5, <1>9 DEF Iteration
  <2>2. ASSUME NEW i \in E PROVE i + 1 \in E
    <3>1. i \in Nat /\ (i <= n => A[i] = f[i])
      OBVIOUS
    <3> HIDE DEF E
    <3>2. ASSUME i + 1 <= n PROVE A[i + 1] = f[i + 1]
      <4>0. n \in Nat /\ i \in Nat
        BY <1>2, <3>1
      <4>1. i + 1 \in 0 .. n /\ i + 1 # 0 /\ (i + 1) - 1 = i /\ i <= n
        BY <3>2, <4>0
      <4>2. A[i + 1] = step[A[i]][s[i + 1]]
        BY <1>9, <4>1
      <4>3. f[i + 1] = step[f[i]][s[i + 1]]
        BY <1>6, <3>1, <3>2
      <4> QED BY <3>1, <4>1, <4>2, <4>3
    <3> QED BY <3>1, <3>2 DEF E
  <2>3. \A i \in Nat : i \in E
    <3>1. E \in SUBSET Nat
      OBVIOUS
    <3> HIDE DEF E
    <3> QED BY <2>1, <2>2, <3>1, NatsAll
  <2> QED BY <1>2, <2>3
<1>11. Reads(step, start, s) = f[Len(s)]
  BY <1>1, <1>10 DEF n
<1>12. Run(f, S, step, start, s)
  BY <1>5, <1>6 DEF n, Run, Iteration
<1> QED BY <1>11, <1>12

(* Whatever has their start and their steps has them all.                  *)
LEMMA ReadsIs ==
  ASSUME NEW S, NEW C, NEW step \in Steps(S, C), NEW start \in S, NEW s \in Seq(C),
         NEW g, Run(g, S, step, start, s)
  PROVE  Reads(step, start, s) = g[Len(s)]
<1>1. PICK f : Run(f, S, step, start, s) /\ Reads(step, start, s) = f[Len(s)]
  BY ReadsMeans
<1> DEFINE n == Len(s)
           E == {i \in Nat : i <= n => g[i] = f[i]}
<1>2. n \in Nat
  OBVIOUS
<1>3. \A i \in Nat : i + 1 <= n => /\ f[i + 1] = step[f[i]][s[i + 1]]
                                   /\ g[i + 1] = step[g[i]][s[i + 1]]
  BY <1>1 DEF Run
<1> HIDE DEF n
<1>4. 0 \in E
  BY <1>1 DEF Run
<1>5. ASSUME NEW i \in E PROVE i + 1 \in E
  <2>1. i \in Nat /\ (i <= n => g[i] = f[i])
    OBVIOUS
  <2> HIDE DEF E
  <2>2. ASSUME i + 1 <= n PROVE g[i + 1] = f[i + 1]
    <3>1. i <= n
      BY <1>2, <2>1, <2>2
    <3> QED BY <1>3, <2>1, <2>2, <3>1
  <2> QED BY <2>1, <2>2 DEF E
<1>6. \A i \in Nat : i \in E
  <2>1. E \in SUBSET Nat
    OBVIOUS
  <2> HIDE DEF E
  <2> QED BY <1>4, <1>5, <2>1, NatsAll
<1>7. g[n] = f[n]
  <2>1. n <= n
    BY <1>2
  <2> QED BY <1>2, <1>6, <2>1
<1> QED BY <1>1, <1>7 DEF n

LEMMA ReadsType ==
  ASSUME NEW S, NEW C, NEW step \in Steps(S, C), NEW start \in S, NEW s \in Seq(C)
  PROVE  Reads(step, start, s) \in S
<1>1. PICK f : Run(f, S, step, start, s) /\ Reads(step, start, s) = f[Len(s)]
  BY ReadsMeans
<1>2. Len(s) \in Nat
  OBVIOUS
<1> QED BY <1>1, <1>2 DEF Run

(* One text after another is read from where the first has led to.         *)
LEMMA ReadsOn ==
  ASSUME NEW S, NEW C, NEW step \in Steps(S, C), NEW start \in S,
         NEW s \in Seq(C), NEW t \in Seq(C)
  PROVE  Reads(step, start, s \o t) = Reads(step, Reads(step, start, s), t)
<1> DEFINE m == Len(s)
           n == Len(t)
           mid == Reads(step, start, s)
<1>1. PICK f : Run(f, S, step, start, s) /\ mid = f[m]
  BY ReadsMeans
<1>2. mid \in S
  BY ReadsType
<1> HIDE DEF mid
<1>3. PICK g : Run(g, S, step, mid, t) /\ Reads(step, mid, t) = g[n]
  BY <1>2, ReadsMeans
<1> DEFINE u == s \o t
           h == [i \in Nat |-> IF i <= m THEN f[i] ELSE g[i - m]]
<1>4. m \in Nat /\ n \in Nat
  OBVIOUS
<1>5. /\ u \in Seq(C) /\ Len(u) = m + n
      /\ \A i \in 1 .. m + n : u[i] = IF i <= m THEN s[i] ELSE t[i - m]
  BY ConcatProperties
<1>6. /\ f \in [Nat -> S] /\ f[0] = start
      /\ \A i \in Nat : i + 1 <= m => f[i + 1] = step[f[i]][s[i + 1]]
  BY <1>1 DEF Run
<1>7. /\ g \in [Nat -> S] /\ g[0] = mid
      /\ \A i \in Nat : i + 1 <= n => g[i + 1] = step[g[i]][t[i + 1]]
  BY <1>3 DEF Run
<1> HIDE DEF m, n, u
<1>8. h \in [Nat -> S]
  <2> SUFFICES ASSUME NEW i \in Nat PROVE (IF i <= m THEN f[i] ELSE g[i - m]) \in S
    OBVIOUS
  <2>1. CASE i <= m
    BY <1>6, <2>1
  <2>2. CASE ~(i <= m)
    <3>1. i - m \in Nat
      BY <1>4, <2>2
    <3> QED BY <1>7, <2>2, <3>1
  <2> QED BY <2>1, <2>2
<1>9. \A i \in Nat : h[i] = IF i <= m THEN f[i] ELSE g[i - m]
  OBVIOUS
<1> HIDE DEF h
<1>10. h[0] = start
  BY <1>4, <1>6, <1>9
<1>11. ASSUME NEW i \in Nat, i + 1 <= Len(u) PROVE h[i + 1] = step[h[i]][u[i + 1]]
  <2>1. i + 1 <= m + n
    BY <1>5, <1>11
  <2>2. i + 1 \in 1 .. m + n /\ i + 1 \in Nat
    BY <1>4, <2>1
  <2>3. CASE i + 1 <= m
    <3>1. i <= m
      BY <1>4, <2>3
    <3>2. u[i + 1] = s[i + 1]
      BY <1>5, <2>2, <2>3
    <3>3. h[i] = f[i] /\ h[i + 1] = f[i + 1]
      BY <1>9, <2>2, <2>3, <3>1
    <3> QED BY <1>6, <2>3, <3>2, <3>3
  <2>4. CASE ~(i + 1 <= m)
    <3>1. i - m \in Nat /\ (i - m) + 1 <= n /\ (i + 1) - m = (i - m) + 1
      BY <1>4, <2>1, <2>4
    <3>2. u[i + 1] = t[(i - m) + 1]
      BY <1>5, <2>2, <2>4, <3>1
    <3>3. h[i + 1] = g[(i - m) + 1]
      BY <1>9, <2>2, <2>4, <3>1
    <3>4. h[i] = g[i - m]
      <4>1. CASE i <= m
        <5>1. i = m /\ i - m = 0
          BY <1>4, <2>4, <4>1
        <5>2. h[i] = f[m]
          BY <1>9, <4>1, <5>1
        <5> QED BY <1>1, <1>7, <5>1, <5>2
      <4>2. CASE ~(i <= m)
        BY <1>9, <4>2
      <4> QED BY <4>1, <4>2
    <3> QED BY <1>7, <3>1, <3>2, <3>3, <3>4
  <2> QED BY <2>3, <2>4
<1>12. Run(h, S, step, start, u)
  BY <1>8, <1>10, <1>11 DEF Run
<1>13. Reads(step, start, u) = h[Len(u)]
  BY <1>5, <1>12, ReadsIs
<1>14. h[m + n] = g[n]
  <2>1. CASE n = 0
    <3>1. m + n = m /\ m <= m
      BY <1>4, <2>1
    <3>2. h[m] = f[m]
      BY <1>4, <1>9, <3>1
    <3> QED BY <1>1, <1>7, <2>1, <3>1, <3>2
  <2>2. CASE n # 0
    <3>1. m + n \in Nat /\ ~(m + n <= m) /\ (m + n) - m = n
      BY <1>4, <2>2
    <3> QED BY <1>9, <3>1
  <2> QED BY <2>1, <2>2
<1>15. Reads(step, start, u) = Reads(step, mid, t)
  BY <1>3, <1>5, <1>13, <1>14
<1> QED BY <1>15 DEF mid, u

LEMMA ReadsNone ==
  ASSUME NEW S, NEW C, NEW step \in Steps(S, C), NEW start \in S
  PROVE  Reads(step, start, <<>>) = start
<1> DEFINE s == <<>>
<1>1. s \in Seq(C) /\ Len(s) = 0
  OBVIOUS
<1> HIDE DEF s
<1>2. PICK f : Run(f, S, step, start, s) /\ Reads(step, start, s) = f[Len(s)]
  BY <1>1, ReadsMeans
<1>3. Reads(step, start, s) = start
  BY <1>1, <1>2 DEF Run
<1> QED BY <1>3 DEF s

LEMMA ReadsOne ==
  ASSUME NEW S, NEW C, NEW step \in Steps(S, C), NEW start \in S, NEW c \in C
  PROVE  Reads(step, start, <<c>>) = step[start][c]
<1> DEFINE s == <<c>>
<1>1. s \in Seq(C) /\ Len(s) = 1 /\ s[1] = c
  OBVIOUS
<1> HIDE DEF s
<1>2. PICK f : Run(f, S, step, start, s) /\ Reads(step, start, s) = f[Len(s)]
  BY <1>1, ReadsMeans
<1>3. f[0 + 1] = step[f[0]][s[0 + 1]]
  BY <1>1, <1>2 DEF Run
<1>4. Reads(step, start, s) = step[start][c]
  BY <1>1, <1>2, <1>3 DEF Run
<1> QED BY <1>4 DEF s

(* The next element makes one more step.                                   *)
LEMMA ReadsNext ==
  ASSUME NEW S, NEW C, NEW step \in Steps(S, C), NEW start \in S, NEW s \in Seq(C), NEW c \in C
  PROVE  Reads(step, start, Append(s, c)) = step[Reads(step, start, s)][c]
<1> DEFINE t == <<c>>
           mid == Reads(step, start, s)
<1>1. Append(s, c) = s \o t /\ t \in Seq(C)
  BY AppendIsConcat
<1>2. mid \in S
  BY ReadsType
<1>3. Reads(step, mid, t) = step[mid][c]
  <2> HIDE DEF mid
  <2> QED BY <1>2, ReadsOne
<1> HIDE DEF t
<1>4. Reads(step, start, s \o t) = Reads(step, mid, t)
  BY <1>1, ReadsOn
<1> QED BY <1>1, <1>3, <1>4

-----------------------------------------------------------------------------
(* What a scan writes from each position on.                               *)
Written(from, B, out, width) ==
  /\ from \in [Nat -> Seq(B)]
  /\ \A i \in Nat : from[i] = IF i \in DOMAIN out THEN out[i] \o from[i + width[i]] ELSE <<>>

(* A scan goes on at every position.                                       *)
Scannable(B, out, width) == out \in Seq(Seq(B)) /\ \A i \in DOMAIN out : width[i] \in Nat \ {0}

(* Two that agree on what each position writes and leads to are the same,  *)
(* from the end on.                                                        *)
LEMMA WrittenOnce ==
  ASSUME NEW B, NEW out, NEW width, Scannable(B, out, width), NEW f, NEW g,
         \A i \in Nat : f[i] = IF i \in DOMAIN out THEN out[i] \o f[i + width[i]] ELSE <<>>,
         \A i \in Nat : g[i] = IF i \in DOMAIN out THEN out[i] \o g[i + width[i]] ELSE <<>>
  PROVE  \A i \in Nat : f[i] = g[i]
<1> DEFINE n == Len(out)
           E == {k \in Nat : \A i \in Nat : i + k > n => f[i] = g[i]}
<1>1. n \in Nat /\ DOMAIN out = 1 .. n /\ \A i \in DOMAIN out : width[i] \in Nat \ {0}
  BY DEF Scannable
<1> HIDE DEF n
<1>2. 0 \in E
  <2> SUFFICES ASSUME NEW i \in Nat, i + 0 > n PROVE f[i] = g[i]
    OBVIOUS
  <2>1. i \notin DOMAIN out
    BY <1>1
  <2> QED BY <2>1
<1>3. ASSUME NEW k \in E PROVE k + 1 \in E
  <2>1. k \in Nat /\ \A i \in Nat : i + k > n => f[i] = g[i]
    OBVIOUS
  <2> HIDE DEF E
  <2>2. ASSUME NEW i \in Nat, i + (k + 1) > n PROVE f[i] = g[i]
    <3>1. CASE i \in DOMAIN out
      <4>1. width[i] \in Nat \ {0}
        BY <1>1, <3>1
      <4> DEFINE j == i + width[i]
      <4>2. j \in Nat /\ j + k > n
        BY <1>1, <2>1, <2>2, <4>1
      <4>3. f[j] = g[j]
        <5> HIDE DEF j
        <5> QED BY <2>1, <4>2
      <4> QED BY <3>1, <4>3
    <3>2. CASE i \notin DOMAIN out
      BY <3>2
    <3> QED BY <3>1, <3>2
  <2>3. k + 1 \in Nat
    BY <2>1
  <2> QED BY <2>2, <2>3 DEF E
<1>4. \A k \in Nat : k \in E
  <2>1. E \in SUBSET Nat
    OBVIOUS
  <2> HIDE DEF E
  <2> QED BY <1>2, <1>3, <2>1, NatsAll
<1>5. n + 1 \in E
  <2>1. n + 1 \in Nat
    BY <1>1
  <2> HIDE DEF E
  <2> QED BY <1>4, <2>1
<1>6. ASSUME NEW i \in Nat PROVE i + (n + 1) > n
  BY <1>1
<1> QED BY <1>5, <1>6

(* There is such a function, and the scan is what it has at 1.             *)
LEMMA ScanMeans ==
  ASSUME NEW B, NEW out, NEW width, Scannable(B, out, width)
  PROVE  \E from : Written(from, B, out, width) /\ Scan(out, width) = from[1]
<1> DEFINE n == Len(out)
           S == [Nat -> Seq(B)]
           Body(from) == [i \in Nat |-> IF i \in DOMAIN out THEN out[i] \o from[i + width[i]] ELSE <<>>]
           move == [g \in S |-> [k \in Nat |-> Body(g)]]
           none == [i \in Nat |-> <<>>]
           A == CHOOSE from : from = Body(from)
<1>1. Scan(out, width) = A[1]
  BY Zenon DEF Scan
<1>2. /\ n \in Nat /\ DOMAIN out = 1 .. n
      /\ \A i \in DOMAIN out : width[i] \in Nat \ {0} /\ out[i] \in Seq(B)
  BY DEF Scannable
<1> HIDE DEF n
<1>3. ASSUME NEW g \in S PROVE Body(g) \in S
  <2> SUFFICES ASSUME NEW i \in Nat
               PROVE  (IF i \in DOMAIN out THEN out[i] \o g[i + width[i]] ELSE <<>>) \in Seq(B)
    OBVIOUS
  <2>1. CASE i \in DOMAIN out
    <3>1. width[i] \in Nat /\ out[i] \in Seq(B)
      BY <1>2, <2>1
    <3> DEFINE w == width[i]
    <3>2. i + w \in Nat
      <4> HIDE DEF w
      <4>1. w \in Nat
        BY <3>1 DEF w
      <4> QED BY <4>1
    <3>3. g[i + width[i]] \in Seq(B)
      BY <1>3, <3>2
    <3> QED BY <2>1, <3>1, <3>3
  <2>2. CASE i \notin DOMAIN out
    BY <2>2
  <2> QED BY <2>1, <2>2
<1>4. \A g, i : i \in Nat => Body(g)[i] = IF i \in DOMAIN out THEN out[i] \o g[i + width[i]] ELSE <<>>
  OBVIOUS
<1>5. none \in S /\ \A i \in Nat : none[i] = <<>>
  OBVIOUS
<1> HIDE DEF Body, none, A
<1>6. move \in Steps(S, Nat) /\ \A g \in S, k \in Nat : move[g][k] = Body(g)
  <2> HIDE DEF S
  <2> QED BY <1>3 DEF Steps
<1> HIDE DEF move
<1>7. PICK f : Iteration(f, S, none, move)
  <2> HIDE DEF S
  <2> QED BY <1>5, <1>6, Iterated
<1>8. f[0] = none /\ \A k \in Nat : f[k] \in S /\ f[k + 1] = Body(f[k])
  <2> HIDE DEF S
  <2> QED BY <1>6, <1>7 DEF Iteration
<1> DEFINE E == {k \in Nat : \A i \in Nat : i + k > n => f[k + 1][i] = f[k][i]}
<1>9. 0 \in E
  <2> SUFFICES ASSUME NEW i \in Nat, i + 0 > n PROVE f[0 + 1][i] = f[0][i]
    OBVIOUS
  <2>1. i \notin DOMAIN out
    BY <1>2
  <2>2. f[0 + 1] = Body(f[0])
    BY <1>8
  <2>3. f[0 + 1][i] = <<>>
    BY <1>4, <2>1, <2>2
  <2> QED BY <1>5, <1>8, <2>3
<1>10. ASSUME NEW k \in E PROVE k + 1 \in E
  <2>1. k \in Nat /\ \A i \in Nat : i + k > n => f[k + 1][i] = f[k][i]
    OBVIOUS
  <2> HIDE DEF E
  <2>2. k + 1 \in Nat /\ f[k + 1] = Body(f[k]) /\ f[(k + 1) + 1] = Body(f[k + 1])
    BY <1>8, <2>1
  <2>3. ASSUME NEW i \in Nat, i + (k + 1) > n PROVE f[(k + 1) + 1][i] = f[k + 1][i]
    <3>1. /\ f[k + 1][i] = IF i \in DOMAIN out THEN out[i] \o f[k][i + width[i]] ELSE <<>>
          /\ f[(k + 1) + 1][i] = IF i \in DOMAIN out THEN out[i] \o f[k + 1][i + width[i]] ELSE <<>>
      BY <1>4, <2>2
    <3>2. CASE i \in DOMAIN out
      <4>1. width[i] \in Nat \ {0}
        BY <1>2, <3>2
      <4> DEFINE j == i + width[i]
      <4>2. j \in Nat /\ j + k > n
        BY <1>2, <2>1, <2>3, <4>1
      <4>3. f[k + 1][j] = f[k][j]
        <5> HIDE DEF j
        <5> QED BY <2>1, <4>2
      <4> QED BY <3>1, <3>2, <4>3
    <3>3. CASE i \notin DOMAIN out
      BY <3>1, <3>3
    <3> QED BY <3>2, <3>3
  <2> QED BY <2>2, <2>3 DEF E
<1>11. \A k \in Nat : k \in E
  <2>1. E \in SUBSET Nat
    OBVIOUS
  <2> HIDE DEF E
  <2> QED BY <1>9, <1>10, <2>1, NatsAll
<1>12. \A i \in Nat : f[(n + 1) + 1][i] = f[n + 1][i]
  <2>1. n + 1 \in Nat /\ \A i \in Nat : i + (n + 1) > n
    BY <1>2
  <2>2. n + 1 \in E
    <3> HIDE DEF E
    <3> QED BY <1>11, <2>1
  <2> QED BY <2>1, <2>2
<1> DEFINE from == f[n + 1]
<1>13. from \in S /\ f[(n + 1) + 1] = Body(from)
  <2>1. n + 1 \in Nat
    BY <1>2
  <2> HIDE DEF S
  <2> QED BY <1>8, <2>1
<1> HIDE DEF from
<1>14. \A i \in Nat : from[i] = IF i \in DOMAIN out THEN out[i] \o from[i + width[i]] ELSE <<>>
  BY <1>4, <1>12, <1>13 DEF from
<1>15. from = Body(from)
  BY <1>14, <1>13 DEF Body
<1>16. A = Body(A)
  BY <1>15 DEF A
<1>17. \A i \in Nat : A[i] = IF i \in DOMAIN out THEN out[i] \o A[i + width[i]] ELSE <<>>
  BY <1>4, <1>16
<1>18. A[1] = from[1]
  BY <1>14, <1>17, WrittenOnce
<1>19. Written(from, B, out, width)
  BY <1>13, <1>14 DEF Written
<1> QED BY <1>1, <1>18, <1>19

LEMMA ScanType ==
  ASSUME NEW B, NEW out, NEW width, Scannable(B, out, width)
  PROVE  Scan(out, width) \in Seq(B)
<1>1. PICK from : Written(from, B, out, width) /\ Scan(out, width) = from[1]
  BY ScanMeans
<1> QED BY <1>1 DEF Written

(* Of nothing, nothing is written.                                         *)
LEMMA ScanNone ==
  ASSUME NEW B, NEW out, NEW width, Scannable(B, out, width), Len(out) = 0
  PROVE  Scan(out, width) = <<>>
<1>1. PICK from : Written(from, B, out, width) /\ Scan(out, width) = from[1]
  BY ScanMeans
<1>2. 1 \notin DOMAIN out
  BY DEF Scannable
<1> QED BY <1>1, <1>2 DEF Written

(* What comes after the first step is written as if it stood alone.        *)
LEMMA ScanFirst ==
  ASSUME NEW B, NEW out, NEW width, Scannable(B, out, width),
         NEW out2, NEW width2, Scannable(B, out2, width2),
         NEW k \in Nat \ {0}, width[1] = k, Len(out) = Len(out2) + k,
         \A i \in DOMAIN out2 : out[i + k] = out2[i] /\ width[i + k] = width2[i]
  PROVE  Scan(out, width) = out[1] \o Scan(out2, width2)
<1>1. PICK f : Written(f, B, out, width) /\ Scan(out, width) = f[1]
  BY ScanMeans
<1>2. PICK g : Written(g, B, out2, width2) /\ Scan(out2, width2) = g[1]
  BY ScanMeans
<1> DEFINE n == Len(out2)
           h == [i \in Nat |-> IF i = 0 THEN <<>> ELSE f[i + k]]
<1>3. n \in Nat /\ DOMAIN out2 = 1 .. n /\ DOMAIN out = 1 .. n + k
  BY DEF Scannable
<1>4. \A i \in DOMAIN out2 : width2[i] \in Nat \ {0}
  BY DEF Scannable
<1> HIDE DEF n
<1>5. \A i \in Nat : h[i] = IF i = 0 THEN <<>> ELSE f[i + k]
  OBVIOUS
<1> HIDE DEF h
<1>6. ASSUME NEW i \in Nat
      PROVE  h[i] = IF i \in DOMAIN out2 THEN out2[i] \o h[i + width2[i]] ELSE <<>>
  <2>1. CASE i \in DOMAIN out2
    <3>1. /\ i # 0 /\ i + k \in Nat /\ i + k \in DOMAIN out
          /\ out[i + k] = out2[i] /\ width[i + k] = width2[i] /\ width2[i] \in Nat \ {0}
      BY <1>3, <1>4, <2>1
    <3> DEFINE w == width2[i]
    <3>2. w \in Nat /\ i + w \in Nat /\ i + w # 0 /\ (i + w) + k = (i + k) + w
      BY <3>1
    <3>3. f[i + k] = out2[i] \o f[(i + k) + w]
      BY <1>1, <3>1 DEF Written
    <3> HIDE DEF w
    <3>4. h[i + w] = f[(i + k) + w]
      BY <1>5, <3>2
    <3>5. h[i] = out2[i] \o h[i + w]
      BY <1>5, <3>1, <3>3, <3>4
    <3> QED BY <2>1, <3>5 DEF w
  <2>2. CASE i \notin DOMAIN out2 /\ i # 0
    <3>1. i + k \in Nat /\ i + k \notin DOMAIN out
      BY <1>3, <2>2
    <3>2. f[i + k] = <<>>
      BY <1>1, <3>1 DEF Written
    <3> QED BY <1>5, <2>2, <3>2
  <2>3. CASE i \notin DOMAIN out2 /\ i = 0
    BY <1>5, <2>3
  <2>4. 0 \notin DOMAIN out2
    BY <1>3
  <2> QED BY <2>1, <2>2, <2>3, <2>4
<1>7. \A i \in Nat : g[i] = IF i \in DOMAIN out2 THEN out2[i] \o g[i + width2[i]] ELSE <<>>
  BY <1>2 DEF Written
<1>8. \A i \in Nat : h[i] = g[i]
  BY <1>6, <1>7, WrittenOnce, SMTT(20)
<1>9. 1 + k \in Nat /\ h[1] = f[1 + k] /\ 1 \in DOMAIN out
  BY <1>3, <1>5
<1>10. f[1] = out[1] \o f[1 + k]
  BY <1>1, <1>9 DEF Written
<1> QED BY <1>1, <1>2, <1>8, <1>9, <1>10

-----------------------------------------------------------------------------
(* Sequences written one after another: FlattenSeq reads them in order.    *)
LEMMA FlattenReads ==
  ASSUME NEW B, NEW ss \in Seq(Seq(B))
  PROVE  FlattenSeq(ss) = Reads([x \in Seq(B) |-> [y \in Seq(B) |-> x \o y]], <<>>, ss)
<1> DEFINE S == Seq(B)
           n == Len(ss)
           step == [x \in S |-> [y \in S |-> x \o y]]
           Body(f) == [i \in 1 .. n |-> IF i = 1 THEN ss[i] ELSE f[i - 1] \o ss[i]]
           A == CHOOSE f : f = Body(f)
<1>1. FlattenSeq(ss) = IF n = 0 THEN ss ELSE A[n]
  BY Zenon DEF FlattenSeq
<1>2. n \in Nat /\ ss \in [1 .. n -> S]
  OBVIOUS
<1>3. <<>> \in S /\ \A x \in S : <<>> \o x = x
  OBVIOUS
<1>4. \A x \in S, y \in S : x \o y \in S
  OBVIOUS
<1> HIDE DEF S
<1>5. /\ step \in Steps(S, S)
      /\ \A x \in S, y \in S : step[x][y] = x \o y
  BY <1>4 DEF Steps
<1> HIDE DEF step
<1>6. ss \in Seq(S)
  BY DEF S
<1>7. PICK f : Run(f, S, step, <<>>, ss) /\ Reads(step, <<>>, ss) = f[n]
  <2> HIDE DEF Body, A
  <2> QED BY <1>3, <1>5, <1>6, ReadsMeans
<1>8. /\ f \in [Nat -> S] /\ f[0] = <<>>
      /\ \A i \in Nat : i + 1 <= n => f[i + 1] = step[f[i]][ss[i + 1]]
  BY <1>7 DEF Run
<1> HIDE DEF n
<1>9. ASSUME NEW i \in Nat, i + 1 <= n PROVE f[i + 1] = f[i] \o ss[i + 1]
  <2>1. ss[i + 1] \in S /\ f[i] \in S
    BY <1>2, <1>8, <1>9
  <2> QED BY <1>5, <1>8, <1>9, <2>1
<1> DEFINE g == [i \in 1 .. n |-> f[i]]
<1>10. ASSUME NEW i \in 1 .. n PROVE f[i] = IF i = 1 THEN ss[i] ELSE g[i - 1] \o ss[i]
  <2>1. i - 1 \in Nat /\ (i - 1) + 1 = i /\ (i - 1) + 1 <= n
    BY <1>2
  <2>2. f[i] = f[i - 1] \o ss[i]
    BY <1>9, <2>1
  <2>3. CASE i = 1
    <3>1. i - 1 = 0 /\ ss[i] \in S
      BY <1>2, <2>3
    <3> QED BY <1>3, <1>8, <2>2, <2>3, <3>1
  <2>4. CASE i # 1
    <3>1. i - 1 \in 1 .. n
      BY <1>2, <2>4
    <3> QED BY <2>2, <2>4, <3>1
  <2> QED BY <2>3, <2>4
<1>11. g = Body(g)
  BY <1>10
<1>12. A = Body(A)
  <2> HIDE DEF Body, g
  <2> QED BY <1>11
<1> HIDE DEF A, g
<1>13. \A i \in 1 .. n : A[i] = IF i = 1 THEN ss[i] ELSE A[i - 1] \o ss[i]
  BY <1>12
<1> DEFINE E == {i \in Nat : i + 1 <= n => A[i + 1] = f[i + 1]}
<1>14. 0 \in E
  <2> SUFFICES ASSUME 0 + 1 <= n PROVE A[0 + 1] = f[0 + 1]
    OBVIOUS
  <2>1. 1 \in 1 .. n /\ 0 + 1 = 1
    BY <1>2
  <2>2. A[1] = ss[1] /\ ss[1] \in S
    BY <1>2, <1>13, <2>1
  <2>3. f[0 + 1] = f[0] \o ss[0 + 1]
    BY <1>9
  <2> QED BY <1>3, <1>8, <2>1, <2>2, <2>3
<1>15. ASSUME NEW i \in E PROVE i + 1 \in E
  <2>1. i \in Nat /\ (i + 1 <= n => A[i + 1] = f[i + 1])
    OBVIOUS
  <2> HIDE DEF E
  <2>2. ASSUME (i + 1) + 1 <= n PROVE A[(i + 1) + 1] = f[(i + 1) + 1]
    <3>1. i + 1 \in Nat /\ i + 1 <= n /\ (i + 1) + 1 \in 1 .. n /\ (i + 1) + 1 # 1
          /\ ((i + 1) + 1) - 1 = i + 1
      BY <1>2, <2>1, <2>2
    <3>2. A[(i + 1) + 1] = A[i + 1] \o ss[(i + 1) + 1]
      BY <1>13, <3>1
    <3>3. f[(i + 1) + 1] = f[i + 1] \o ss[(i + 1) + 1]
      BY <1>9, <2>2, <3>1
    <3> QED BY <2>1, <3>1, <3>2, <3>3
  <2>3. i + 1 \in Nat
    BY <2>1
  <2> QED BY <2>2, <2>3 DEF E
<1>16. \A i \in Nat : i \in E
  <2>1. E \in SUBSET Nat
    OBVIOUS
  <2> HIDE DEF E
  <2> QED BY <1>14, <1>15, <2>1, NatsAll
<1>17. FlattenSeq(ss) = f[n]
  <2>1. CASE n = 0
    <3>1. ss = <<>>
      BY <1>6, <2>1 DEF n
    <3> QED BY <1>1, <1>8, <2>1, <3>1
  <2>2. CASE n # 0
    <3>1. n - 1 \in Nat /\ (n - 1) + 1 <= n /\ (n - 1) + 1 = n
      BY <1>2, <2>2
    <3>2. A[(n - 1) + 1] = f[(n - 1) + 1]
      BY <1>16, <3>1
    <3> QED BY <1>1, <2>2, <3>1, <3>2
  <2> QED BY <2>1, <2>2
<1> QED BY <1>7, <1>17 DEF step, S

LEMMA Joins ==
  ASSUME NEW B
  PROVE  /\ [x \in Seq(B) |-> [y \in Seq(B) |-> x \o y]] \in Steps(Seq(B), Seq(B))
         /\ <<>> \in Seq(B)
         /\ \A x, y \in Seq(B) : [u \in Seq(B) |-> [v \in Seq(B) |-> u \o v]][x][y] = x \o y
<1> DEFINE S == Seq(B)
<1>1. \A x \in S, y \in S : x \o y \in S
  OBVIOUS
<1> HIDE DEF S
<1>2. [x \in S |-> [y \in S |-> x \o y]] \in Steps(S, S)
  BY <1>1 DEF Steps
<1>3. \A x, y \in S : [u \in S |-> [v \in S |-> u \o v]][x][y] = x \o y
  OBVIOUS
<1>4. <<>> \in S
  BY DEF S
<1> QED BY <1>2, <1>3, <1>4 DEF S

LEMMA FlattenType ==
  ASSUME NEW B, NEW ss \in Seq(Seq(B)) PROVE FlattenSeq(ss) \in Seq(B)
<1> DEFINE S == Seq(B)
           step == [x \in S |-> [y \in S |-> x \o y]]
<1>1. step \in Steps(S, S) /\ <<>> \in S
  BY Joins
<1>2. FlattenSeq(ss) = Reads(step, <<>>, ss)
  BY FlattenReads
<1>3. ss \in Seq(S)
  OBVIOUS
<1> HIDE DEF step, S
<1>4. FlattenSeq(ss) \in S
  BY <1>1, <1>2, <1>3, ReadsType
<1> QED BY <1>4 DEF S

LEMMA FlattenNone == FlattenSeq(<<>>) = <<>>
<1>1. Len(<<>>) = 0
  OBVIOUS
<1> QED BY Zenon, <1>1 DEF FlattenSeq

LEMMA FlattenNext ==
  ASSUME NEW B, NEW ss \in Seq(Seq(B)), NEW s \in Seq(B)
  PROVE  FlattenSeq(Append(ss, s)) = FlattenSeq(ss) \o s
<1> DEFINE S == Seq(B)
           step == [x \in S |-> [y \in S |-> x \o y]]
           both == Append(ss, s)
<1>1. step \in Steps(S, S) /\ <<>> \in S /\ \A x, y \in S : step[x][y] = x \o y
  BY Joins
<1>2. FlattenSeq(ss) = Reads(step, <<>>, ss)
  BY FlattenReads
<1>3. both \in Seq(Seq(B))
  OBVIOUS
<1>4. FlattenSeq(both) = Reads(step, <<>>, both)
  <2> HIDE DEF both
  <2> QED BY <1>3, FlattenReads
<1>5. ss \in Seq(S) /\ s \in S /\ FlattenSeq(ss) \in S
  BY FlattenType
<1> HIDE DEF step, S
<1>6. Reads(step, <<>>, Append(ss, s)) = step[Reads(step, <<>>, ss)][s]
  BY <1>1, <1>5, ReadsNext
<1> QED BY <1>1, <1>2, <1>4, <1>5, <1>6

(* The first of them comes first.                                          *)
LEMMA FlattenFirst ==
  ASSUME NEW B, NEW s \in Seq(B), NEW ss \in Seq(Seq(B))
  PROVE  FlattenSeq(<<s>> \o ss) = s \o FlattenSeq(ss)
<1> DEFINE S == Seq(B)
           T == {r \in Seq(S) : FlattenSeq(<<s>> \o r) = s \o FlattenSeq(r)}
<1>1. <<>> \in T
  <2>1. <<s>> \o <<>> = Append(<<>>, s) /\ <<>> \in Seq(S) /\ <<>> \in S
    OBVIOUS
  <2>2. FlattenSeq(Append(<<>>, s)) = FlattenSeq(<<>>) \o s
    BY <2>1, FlattenNext
  <2>3. <<>> \o s = s /\ s \o <<>> = s
    OBVIOUS
  <2> QED BY <2>1, <2>2, <2>3, FlattenNone
<1>2. ASSUME NEW r \in T \cap Seq(S), NEW t \in S PROVE Append(r, t) \in T
  <2>1. r \in Seq(Seq(B)) /\ t \in Seq(B) /\ FlattenSeq(<<s>> \o r) = s \o FlattenSeq(r)
    OBVIOUS
  <2> HIDE DEF T
  <2>2. <<s>> \o Append(r, t) = Append(<<s>> \o r, t) /\ <<s>> \o r \in Seq(Seq(B))
        /\ Append(r, t) \in Seq(S)
    BY <2>1
  <2>3. FlattenSeq(Append(<<s>> \o r, t)) = FlattenSeq(<<s>> \o r) \o t
    BY <2>1, <2>2, FlattenNext
  <2>4. FlattenSeq(Append(r, t)) = FlattenSeq(r) \o t /\ FlattenSeq(r) \in Seq(B)
    BY <2>1, FlattenNext, FlattenType
  <2>5. (s \o FlattenSeq(r)) \o t = s \o (FlattenSeq(r) \o t)
    BY <2>1, <2>4, ConcatAssociative
  <2> QED BY <2>1, <2>2, <2>3, <2>4, <2>5 DEF T
<1>3. Seq(S) \subseteq T
  <2> HIDE DEF T, S
  <2> QED BY <1>1, <1>2, SequencesByLast
<1> QED BY <1>3

-----------------------------------------------------------------------------
(* A text that is written byte by byte, each byte as code has it.          *)
Encoded(code, s) == FlattenSeq([i \in DOMAIN s |-> code[s[i]]])

LEMMA Coded ==
  ASSUME NEW C, NEW B, NEW code \in [C -> Seq(B)], NEW s \in Seq(C)
  PROVE  /\ [i \in DOMAIN s |-> code[s[i]]] \in Seq(Seq(B))
         /\ Encoded(code, s) \in Seq(B)
<1> DEFINE r == [i \in DOMAIN s |-> code[s[i]]]
           S == Seq(B)
<1>1. r \in Seq(S)
  <2> HIDE DEF S
  <2>1. Len(s) \in Nat /\ DOMAIN s = 1 .. Len(s) /\ \A i \in DOMAIN s : code[s[i]] \in S
    BY DEF S
  <2> DEFINE n == Len(s)
  <2>2. n \in Nat /\ r \in [1 .. n -> S]
    BY <2>1
  <2> HIDE DEF n, r
  <2> QED BY <2>2
<1> HIDE DEF r
<1>2. FlattenSeq(r) \in Seq(B)
  BY <1>1, FlattenType
<1> QED BY <1>1, <1>2 DEF r, Encoded

LEMMA EncodedNone ==
  ASSUME NEW code PROVE Encoded(code, <<>>) = <<>>
<1>1. [i \in DOMAIN <<>> |-> code[<<>>[i]]] = <<>>
  OBVIOUS
<1> QED BY <1>1, FlattenNone DEF Encoded

LEMMA EncodedNext ==
  ASSUME NEW C, NEW B, NEW code \in [C -> Seq(B)], NEW s \in Seq(C), NEW c \in C
  PROVE  Encoded(code, Append(s, c)) = Encoded(code, s) \o code[c]
<1> DEFINE t == Append(s, c)
           r == [i \in DOMAIN s |-> code[s[i]]]
           q == [i \in DOMAIN t |-> code[t[i]]]
<1>1. /\ t \in Seq(C) /\ Len(t) = Len(s) + 1 /\ t[Len(s) + 1] = c
      /\ \A i \in 1 .. Len(s) : t[i] = s[i]
  BY AppendProperties
<1> HIDE DEF t
<1>2. r \in Seq(Seq(B)) /\ q \in Seq(Seq(B)) /\ code[c] \in Seq(B)
  <2>1. r \in Seq(Seq(B))
    BY Coded, SMTT(20)
  <2>2. q \in Seq(Seq(B))
    BY <1>1, Coded
  <2> HIDE DEF r, q
  <2> QED BY <2>1, <2>2
<1>3. /\ Len(r) = Len(s) /\ Len(q) = Len(s) + 1
      /\ \A i \in 1 .. Len(s) : r[i] = code[s[i]]
      /\ \A i \in 1 .. Len(s) + 1 : q[i] = code[t[i]]
  BY <1>1
<1>4. q = Append(r, code[c])
  <2> DEFINE a == Append(r, code[c])
             n == Len(s)
  <2>1. n \in Nat
    OBVIOUS
  <2> HIDE DEF r, q
  <2>2. /\ a \in Seq(Seq(B)) /\ Len(a) = n + 1 /\ a[n + 1] = code[c]
        /\ \A i \in 1 .. n : a[i] = r[i]
    BY <1>2, <1>3, AppendProperties
  <2> HIDE DEF n, a
  <2>3. \A i \in 1 .. n + 1 : q[i] = a[i]
    <3> TAKE i \in 1 .. n + 1
    <3>1. i = n + 1 \/ i \in 1 .. n
      BY <2>1
    <3> QED BY <1>1, <1>3, <2>2, <3>1 DEF n
  <2>4. q = a
    BY <1>2, <1>3, <2>1, <2>2, <2>3, SeqEqual DEF n
  <2> QED BY <2>4 DEF a
<1> HIDE DEF r, q
<1>5. FlattenSeq(Append(r, code[c])) = FlattenSeq(r) \o code[c]
  BY <1>2, FlattenNext
<1> QED BY <1>4, <1>5 DEF Encoded, r, q, t

LEMMA EncodedFirst ==
  ASSUME NEW C, NEW B, NEW code \in [C -> Seq(B)], NEW s \in Seq(C), NEW c \in C
  PROVE  Encoded(code, <<c>> \o s) = code[c] \o Encoded(code, s)
<1> DEFINE t == <<c>> \o s
           r == [i \in DOMAIN s |-> code[s[i]]]
           q == [i \in DOMAIN t |-> code[t[i]]]
<1>1. /\ t \in Seq(C) /\ Len(t) = Len(s) + 1 /\ t[1] = c
      /\ \A i \in DOMAIN s : t[i + 1] = s[i]
  BY Pushed
<1> HIDE DEF t
<1>2. r \in Seq(Seq(B)) /\ q \in Seq(Seq(B)) /\ code[c] \in Seq(B)
  <2>1. r \in Seq(Seq(B))
    BY Coded, SMTT(20)
  <2>2. q \in Seq(Seq(B))
    BY <1>1, Coded
  <2> HIDE DEF r, q
  <2> QED BY <2>1, <2>2
<1>3. /\ Len(r) = Len(s) /\ Len(q) = Len(s) + 1
      /\ \A i \in 1 .. Len(s) : r[i] = code[s[i]]
      /\ \A i \in 1 .. Len(s) + 1 : q[i] = code[t[i]]
  BY <1>1
<1>4. q = <<code[c]>> \o r
  <2> DEFINE a == <<code[c]>> \o r
             n == Len(s)
  <2>1. n \in Nat /\ DOMAIN s = 1 .. n /\ DOMAIN r = 1 .. n
    BY <1>3
  <2> HIDE DEF r, q
  <2>2. /\ a \in Seq(Seq(B)) /\ Len(a) = n + 1 /\ a[1] = code[c]
        /\ \A i \in DOMAIN r : a[i + 1] = r[i]
    <3> DEFINE S == Seq(B)
               d == code[c]
    <3>1. d \in S /\ r \in Seq(S)
      BY <1>2
    <3> HIDE DEF S, d
    <3>2. /\ <<d>> \o r \in Seq(S) /\ Len(<<d>> \o r) = Len(r) + 1 /\ (<<d>> \o r)[1] = d
          /\ \A i \in DOMAIN r : (<<d>> \o r)[i + 1] = r[i]
      BY <3>1, Pushed
    <3> QED BY <1>3, <3>2 DEF S, d
  <2> HIDE DEF n, a
  <2>3. \A i \in 1 .. n + 1 : q[i] = a[i]
    <3> TAKE i \in 1 .. n + 1
    <3>1. CASE i = 1
      BY <1>1, <1>3, <2>2, <3>1 DEF n
    <3>2. CASE i # 1
      <4>1. i - 1 \in 1 .. n /\ (i - 1) + 1 = i
        BY <2>1, <3>2
      <4>2. q[i] = code[t[i]] /\ t[i] = s[i - 1] /\ r[i - 1] = code[s[i - 1]]
        BY <1>1, <1>3, <2>1, <4>1 DEF n
      <4> QED BY <2>1, <2>2, <4>1, <4>2
    <3> QED BY <3>1, <3>2
  <2>4. q = a
    BY <1>2, <1>3, <2>1, <2>2, <2>3, SeqEqual DEF n
  <2> QED BY <2>4 DEF a
<1> HIDE DEF r, q
<1>5. FlattenSeq(<<code[c]>> \o r) = code[c] \o FlattenSeq(r)
  BY <1>2, FlattenFirst
<1> QED BY <1>4, <1>5 DEF Encoded, r, q, t

-----------------------------------------------------------------------------
LEMMA ChIs ==
  /\ Ch.newline = 10 /\ Ch.space = 32 /\ Ch.quote = 34 /\ Ch.percent = 37 /\ Ch.ampersand = 38
  /\ Ch.apostrophe = 39 /\ Ch.plus = 43 /\ Ch.minus = 45 /\ Ch.semicolon = 59
  /\ Ch.equals = 61 /\ Ch.backslash = 92 /\ Ch.underscore = 95
  BY DEF Ch

(* What is typed are bytes, into one field at least.                       *)
FieldsOK == fields \in Seq([name : Text, value : Text]) /\ fields # <<>>

LEMMA FieldsOKInit == Init => FieldsOK
<1>1. <<>> \in Text
  BY DEF Text
<1>2. Field \in [name : Text, value : Text]
  BY <1>1 DEF Field
<1> QED BY <1>2 DEF Init, FieldsOK

LEMMA FieldsOKNext == FieldsOK /\ [Next]_fields => FieldsOK'
<1> SUFFICES ASSUME FieldsOK, [Next]_fields PROVE FieldsOK'
  OBVIOUS
<1> DEFINE F == [name : Text, value : Text]
           n == Len(fields)
<1>1. fields \in Seq(F) /\ n \in Nat \ {0} /\ fields[n] \in F
  <2>1. fields \in Seq(F) /\ fields # <<>>
    BY DEF FieldsOK
  <2> HIDE DEF F
  <2> QED BY <2>1
<1>2. \A s \in Text, c \in Byte : Append(s, c) \in Text
  BY DEF Text
<1>3. Keys \subseteq Byte
  BY CodecAssumption
<1>4. CASE TypeName
  <2>1. PICK c \in Keys : fields' = [fields EXCEPT ![n].name = Append(@, c)]
    BY <1>4 DEF TypeName
  <2>2. [fields[n] EXCEPT !.name = Append(@, c)] \in F
    BY <1>1, <1>2, <1>3
  <2> QED BY <1>1, <2>1, <2>2, ExceptSeq DEF FieldsOK
<1>5. CASE TypeValue
  <2>1. PICK c \in Keys : fields' = [fields EXCEPT ![n].value = Append(@, c)]
    BY <1>5 DEF TypeValue
  <2>2. [fields[n] EXCEPT !.value = Append(@, c)] \in F
    BY <1>1, <1>2, <1>3
  <2> QED BY <1>1, <2>1, <2>2, ExceptSeq DEF FieldsOK
<1>6. CASE NextField
  <2>1. <<>> \in Text
    BY DEF Text
  <2>2. Field \in F
    BY <2>1 DEF Field
  <2> QED BY <1>1, <1>6, <2>2 DEF NextField, FieldsOK
<1>7. CASE UNCHANGED fields
  BY <1>7 DEF FieldsOK
<1> QED BY <1>4, <1>5, <1>6, <1>7 DEF Next

LEMMA FieldsAreTexts == Spec => []FieldsOK
  BY FieldsOKInit, FieldsOKNext, PTL DEF Spec

LEMMA TextsAreTexts ==
  ASSUME FieldsOK
  PROVE  /\ \A i \in DOMAIN fields : fields[i].name \in Text /\ fields[i].value \in Text
         /\ \A s \in Texts : s \in Text
<1> DEFINE F == [name : Text, value : Text]
<1>1. fields \in Seq(F)
  BY DEF FieldsOK
<1> HIDE DEF F
<1>2. \A i \in DOMAIN fields : fields[i] \in F
  BY <1>1
<1>3. \A i \in DOMAIN fields : fields[i].name \in Text /\ fields[i].value \in Text
  BY <1>2 DEF F
<1> QED BY <1>3 DEF Texts

-----------------------------------------------------------------------------
(* Bytes are put after a text, and before one.                             *)
LEMMA TextIs ==
  /\ <<>> \in Text
  /\ \A s \in Text, c \in Byte : Append(s, c) \in Text /\ <<c>> \o s \in Text
  /\ \A s, t \in Text : s \o t \in Text
  /\ \A c \in Byte : <<c>> \in Text
  BY DEF Text

LEMMA ConcatAppend ==
  ASSUME NEW C, NEW s \in Seq(C), NEW t \in Seq(C), NEW c \in C
  PROVE  Append(t, c) \in Seq(C) /\ s \o Append(t, c) = Append(s \o t, c)
<1> DEFINE q == <<c>>
<1>1. q \in Seq(C) /\ Append(t, c) = t \o q /\ s \o t \in Seq(C) /\ Append(s \o t, c) = (s \o t) \o q
  BY AppendIsConcat
<1> HIDE DEF q
<1>2. (s \o t) \o q = s \o (t \o q)
  BY <1>1, ConcatAssociative
<1> QED BY <1>1, <1>2

(* What the shell makes of each byte, as a transition function.            *)
ShellStep == [st \in ShellState |-> [c \in Byte |-> ShellRead(st, c)]]

LEMMA ShellWordIs ==
  ASSUME NEW s
  PROVE  ShellWord(s) = LET end == Reads(ShellStep, [mode |-> "plain", word |-> <<>>], s)
                        IN  IF end.mode = "plain" THEN end.word ELSE Broken
  BY DEF ShellWord, ShellStep

Shell(mode, word) == [mode |-> mode, word |-> word]

(* Every case of it.                                                       *)
LEMMA ShellCases ==
  ASSUME NEW w, NEW c \in Byte
  PROVE  /\ c # 39 => ShellRead(Shell("quoted", w), c) = Shell("quoted", Append(w, c))
         /\ c = 39 => ShellRead(Shell("quoted", w), c) = Shell("plain", w)
         /\ c = 39 => ShellRead(Shell("plain", w), c) = Shell("quoted", w)
         /\ c = 92 => ShellRead(Shell("plain", w), c) = Shell("escaped", w)
         /\ c \in Alnum => ShellRead(Shell("plain", w), c) = Shell("plain", Append(w, c))
         /\ c \notin Alnum \cup {39, 92} => ShellRead(Shell("plain", w), c) = Shell("broken", w)
         /\ c # 10 => ShellRead(Shell("escaped", w), c) = Shell("plain", Append(w, c))
         /\ c = 10 => ShellRead(Shell("escaped", w), c) = Shell("broken", w)
         /\ ShellRead(Shell("broken", w), c) = Shell("broken", w)
<1>1. /\ \A m : Shell(m, w).mode = m /\ Shell(m, w).word = w
      /\ \A m, k : [Shell(m, w) EXCEPT !.mode = k] = Shell(k, w)
      /\ \A m, v : [Shell(m, w) EXCEPT !.word = v] = Shell(m, v)
      /\ \A m, v : [mode |-> m, word |-> v] = Shell(m, v)
  BY DEF Shell
<1>2. c = 39 \/ c = 92 => c \notin Alnum
  BY DEF Alnum
<1>3. c # 39 => ShellRead(Shell("quoted", w), c) = Shell("quoted", Append(w, c))
  BY <1>1, ChIs DEF ShellRead
<1>4. c = 39 => ShellRead(Shell("quoted", w), c) = Shell("plain", w)
  BY <1>1, ChIs DEF ShellRead
<1>5. c = 39 => ShellRead(Shell("plain", w), c) = Shell("quoted", w)
  BY <1>1, <1>2, ChIs DEF ShellRead
<1>6. c = 92 => ShellRead(Shell("plain", w), c) = Shell("escaped", w)
  BY <1>1, <1>2, ChIs DEF ShellRead
<1>7. c \in Alnum => ShellRead(Shell("plain", w), c) = Shell("plain", Append(w, c))
  BY <1>1, <1>2, ChIs, ZenonT(30) DEF ShellRead
<1>8. c \notin Alnum \cup {39, 92} => ShellRead(Shell("plain", w), c) = Shell("broken", w)
  BY <1>1, ChIs DEF ShellRead
<1>9. c # 10 => ShellRead(Shell("escaped", w), c) = Shell("plain", Append(w, c))
  BY <1>1, ChIs DEF ShellRead
<1>10. c = 10 => ShellRead(Shell("escaped", w), c) = Shell("broken", w)
  BY <1>1, ChIs DEF ShellRead
<1>11. ShellRead(Shell("broken", w), c) = Shell("broken", w)
  BY <1>1, ChIs DEF ShellRead
<1> QED BY <1>3, <1>4, <1>5, <1>6, <1>7, <1>8, <1>9, <1>10, <1>11

LEMMA ShellStates ==
  /\ \A m \in {"plain", "quoted", "escaped", "broken"}, w \in Text : Shell(m, w) \in ShellState
  /\ \A st \in ShellState :
       \E m \in {"plain", "quoted", "escaped", "broken"}, w \in Text : st = Shell(m, w)
  BY DEF Shell, ShellState

LEMMA ShellSteps ==
  /\ ShellStep \in Steps(ShellState, Byte)
  /\ \A st \in ShellState, c \in Byte : ShellStep[st][c] = ShellRead(st, c)
<1>1. ASSUME NEW st \in ShellState, NEW c \in Byte PROVE ShellRead(st, c) \in ShellState
  <2>1. PICK m \in {"plain", "quoted", "escaped", "broken"}, w \in Text : st = Shell(m, w)
    BY ShellStates
  <2>2. Append(w, c) \in Text
    BY TextIs
  <2>3. CASE m = "quoted"
    <3>1. \/ ShellRead(st, c) = Shell("quoted", Append(w, c))
          \/ ShellRead(st, c) = Shell("plain", w)
      BY <2>1, <2>3, ShellCases
    <3> QED BY <2>2, <3>1, ShellStates
  <2>4. CASE m = "plain"
    <3>1. \/ ShellRead(st, c) = Shell("quoted", w)
          \/ ShellRead(st, c) = Shell("escaped", w)
          \/ ShellRead(st, c) = Shell("plain", Append(w, c))
          \/ ShellRead(st, c) = Shell("broken", w)
      BY <2>1, <2>4, ShellCases
    <3> QED BY <2>2, <3>1, ShellStates
  <2>5. CASE m = "escaped"
    <3>1. \/ ShellRead(st, c) = Shell("plain", Append(w, c))
          \/ ShellRead(st, c) = Shell("broken", w)
      BY <2>1, <2>5, ShellCases
    <3> QED BY <2>2, <3>1, ShellStates
  <2>6. CASE m = "broken"
    <3>1. ShellRead(st, c) = Shell("broken", w)
      BY <2>1, <2>6, ShellCases
    <3> QED BY <3>1, ShellStates
  <2> QED BY <2>3, <2>4, <2>5, <2>6
<1> QED BY <1>1 DEF ShellStep, Steps

(* One more byte.                                                          *)
LEMMA ShellNext ==
  ASSUME NEW m \in {"plain", "quoted", "escaped", "broken"}, NEW w \in Text,
         NEW s \in Seq(Byte), Reads(ShellStep, Shell("plain", <<>>), s) = Shell(m, w), NEW c \in Byte
  PROVE  Reads(ShellStep, Shell("plain", <<>>), Append(s, c)) = ShellRead(Shell(m, w), c)
<1> DEFINE start == Shell("plain", <<>>)
<1>1. start \in ShellState /\ Shell(m, w) \in ShellState
  BY ShellStates, TextIs
<1> HIDE DEF start
<1>2. Reads(ShellStep, start, Append(s, c)) = ShellStep[Reads(ShellStep, start, s)][c]
  BY <1>1, ShellSteps, ReadsNext
<1> QED BY <1>1, <1>2, ShellSteps DEF start

(* A text between quotes leads from the plain state to the plain state.    *)
LEMMA QuotedWord ==
  ASSUME NEW s \in Text PROVE ShellWord(ShellQuote(s)) = s
<1> DEFINE code == [c \in Byte |-> IF c = 39 THEN <<39, 92, 39, 39>> ELSE <<c>>]
           Leads(r, m, w) == r \in Seq(Byte) /\ Reads(ShellStep, Shell("plain", <<>>), r) = Shell(m, w)
           T == {t \in Text : Leads(<<39>> \o Encoded(code, t), "quoted", t)}
<1>0. 39 \in Byte /\ 92 \in Byte /\ <<39, 92, 39, 39>> \in Seq(Byte) /\ <<39>> \in Seq(Byte)
  BY DEF Byte
<1>1. code \in [Byte -> Seq(Byte)] /\ \A c \in Byte : code[c] = IF c = 39 THEN <<39, 92, 39, 39>> ELSE <<c>>
  BY <1>0
<1> HIDE DEF code
<1>2. ShellQuote(s) = (<<39>> \o Encoded(code, s)) \o <<39>>
  <2>1. DOMAIN s = 1 .. Len(s) /\ \A i \in DOMAIN s : s[i] \in Byte
    BY DEF Text
  <2> DEFINE a == Ch.apostrophe
             e == <<Ch.apostrophe, Ch.backslash, Ch.apostrophe, Ch.apostrophe>>
  <2>2. a = 39 /\ e = <<39, 92, 39, 39>>
    BY ChIs
  <2>3. ShellQuote(s) = <<a>> \o FlattenSeq([i \in DOMAIN s |-> IF s[i] = a THEN e ELSE <<s[i]>>]) \o <<a>>
    BY DEF ShellQuote
  <2> HIDE DEF a, e
  <2>4. \A i \in DOMAIN s : (IF s[i] = a THEN e ELSE <<s[i]>>) = code[s[i]]
    BY <1>1, <2>1, <2>2
  <2>5. [i \in DOMAIN s |-> IF s[i] = a THEN e ELSE <<s[i]>>] = [i \in DOMAIN s |-> code[s[i]]]
    BY <2>4
  <2> QED BY <2>2, <2>3, <2>5 DEF Encoded
<1>3. ASSUME NEW m \in {"plain", "quoted", "escaped", "broken"}, NEW w \in Text, NEW r, Leads(r, m, w),
             NEW c \in Byte
      PROVE  /\ Append(r, c) \in Seq(Byte)
             /\ Reads(ShellStep, Shell("plain", <<>>), Append(r, c)) = ShellRead(Shell(m, w), c)
  <2>1. r \in Seq(Byte) /\ Reads(ShellStep, Shell("plain", <<>>), r) = Shell(m, w)
    BY <1>3
  <2> QED BY <2>1, ShellNext
<1>4. ASSUME NEW w \in Text, NEW r, Leads(r, "quoted", w), NEW c \in Byte
      PROVE  Leads(r \o code[c], "quoted", Append(w, c))
  <2>0. r \in Seq(Byte)
    BY <1>4
  <2> HIDE DEF Leads
  <2>1. CASE c # 39
    <3>1. r \o code[c] = Append(r, c)
      BY <1>1, <2>0, <2>1, AppendIsConcat, ZenonT(30)
    <3>2. Leads(Append(r, c), "quoted", Append(w, c))
      BY <1>3, <1>4, <2>1, ShellCases DEF Leads
    <3> QED BY <3>1, <3>2
  <2>2. CASE c = 39
    <3> DEFINE r1 == Append(r, 39)
               r2 == Append(r1, 92)
               r3 == Append(r2, 39)
               r4 == Append(r3, 39)
               v == Append(w, 39)
    <3>1. v \in Text
      BY <1>0, TextIs
    <3>2. r \o code[c] = r4
      <4> DEFINE x1 == <<39>>
                 x2 == Append(x1, 92)
                 x3 == Append(x2, 39)
                 x4 == Append(x3, 39)
      <4>1. code[c] = x4
        BY <1>0, <1>1, <2>2
      <4>2. x1 \in Seq(Byte) /\ r \o x1 = r1
        BY <1>0, <2>0, AppendIsConcat
      <4>3. r1 \in Seq(Byte)
        BY <1>0, <2>0
      <4> HIDE DEF r1, x1
      <4>4. x2 \in Seq(Byte) /\ r \o x2 = r2
        BY <1>0, <2>0, <4>2, ConcatAppend
      <4> HIDE DEF r2, x2
      <4>5. x3 \in Seq(Byte) /\ r \o x3 = r3
        BY <1>0, <2>0, <4>4, ConcatAppend
      <4> HIDE DEF r3, x3
      <4>6. r \o x4 = r4
        BY <1>0, <2>0, <4>5, ConcatAppend
      <4> QED BY <4>1, <4>6
    <3>3. Leads(r1, "plain", w)
      BY <1>0, <1>3, <1>4, ShellCases DEF Leads
    <3> HIDE DEF r1
    <3>4. Leads(r2, "escaped", w)
      BY <1>0, <1>3, <3>3, ShellCases DEF Leads
    <3> HIDE DEF r2
    <3>5. Leads(r3, "plain", v)
      BY <1>0, <1>3, <3>4, ShellCases DEF Leads
    <3> HIDE DEF r3, v
    <3>6. Leads(r4, "quoted", v)
      BY <1>0, <1>3, <3>1, <3>5, ShellCases DEF Leads
    <3> QED BY <2>2, <3>2, <3>6 DEF v
  <2> QED BY <2>1, <2>2
<1>5. Leads(<<39>>, "quoted", <<>>)
  <2>1. Leads(<<>>, "plain", <<>>)
    <3> DEFINE start == Shell("plain", <<>>)
    <3>1. start \in ShellState /\ <<>> \in Seq(Byte)
      BY ShellStates, TextIs
    <3> HIDE DEF start
    <3>2. Reads(ShellStep, start, <<>>) = start
      BY <3>1, ShellSteps, ReadsNone
    <3> QED BY <3>1, <3>2 DEF start
  <2> DEFINE none == <<>>
  <2>2. Append(none, 39) = <<39>> /\ none \in Text
    BY TextIs
  <2> HIDE DEF Leads
  <2>3. Leads(none, "plain", none)
    BY <2>1
  <2> HIDE DEF none
  <2>4. Leads(Append(none, 39), "quoted", none)
    BY <1>0, <1>3, <2>2, <2>3, ShellCases DEF Leads
  <2> QED BY <2>2, <2>4 DEF none
<1>6. <<>> \in T
  <2>1. <<39>> \o <<>> = <<39>> /\ Encoded(code, <<>>) = <<>>
    BY EncodedNone
  <2> HIDE DEF Leads
  <2> QED BY <1>5, <2>1, TextIs
<1>7. ASSUME NEW t \in T \cap Seq(Byte), NEW c \in Byte PROVE Append(t, c) \in T
  <2>1. t \in Text /\ t \in Seq(Byte) /\ Leads(<<39>> \o Encoded(code, t), "quoted", t)
    OBVIOUS
  <2> HIDE DEF T, Leads
  <2>2. Encoded(code, Append(t, c)) = Encoded(code, t) \o code[c]
    BY <1>1, <2>1, EncodedNext, ZenonT(30)
  <2>3. Encoded(code, t) \in Seq(Byte) /\ code[c] \in Seq(Byte)
    BY <1>1, <2>1, Coded
  <2>4. <<39>> \o (Encoded(code, t) \o code[c]) = (<<39>> \o Encoded(code, t)) \o code[c]
    <3> DEFINE q == <<39>>
               e == Encoded(code, t)
               k == code[c]
    <3>1. q \in Seq(Byte) /\ e \in Seq(Byte) /\ k \in Seq(Byte)
      BY <1>0, <2>3
    <3> HIDE DEF q, e, k
    <3>2. (q \o e) \o k = q \o (e \o k)
      BY <3>1, ConcatAssociative
    <3> QED BY <3>2 DEF q, e, k
  <2>5. Leads((<<39>> \o Encoded(code, t)) \o code[c], "quoted", Append(t, c))
    BY <1>4, <2>1
  <2> QED BY <2>1, <2>2, <2>4, <2>5, TextIs DEF T
<1>8. Leads(<<39>> \o Encoded(code, s), "quoted", s)
  <2>1. Seq(Byte) \subseteq T
    <3> HIDE DEF T
    <3> QED BY <1>6, <1>7, SequencesByLast
  <2>2. s \in T
    <3> HIDE DEF T
    <3> QED BY <2>1 DEF Text
  <2> HIDE DEF Leads
  <2> QED BY <2>2
<1> DEFINE r == <<39>> \o Encoded(code, s)
<1>9. r \in Seq(Byte) /\ Leads(r, "quoted", s)
  BY <1>8
<1> HIDE DEF r
<1>10. Reads(ShellStep, Shell("plain", <<>>), Append(r, 39)) = Shell("plain", s)
  BY <1>0, <1>3, <1>9, ShellCases
<1>11. ShellQuote(s) = Append(r, 39)
  <2>1. r \o <<39>> = Append(r, 39)
    BY <1>9
  <2> QED BY <1>2, <2>1 DEF r
<1> QED BY <1>10, <1>11, ShellWordIs DEF Shell

(* main.cpp:440-447, 506-528: whatever is typed reaches a program as one   *)
(* argument, the same byte by byte, through the shell that the CLI calls.  *)
THEOREM OneWord == Spec => []QuotedIsOneWord
<1>1. FieldsOK => QuotedIsOneWord
  BY TextsAreTexts, QuotedWord DEF QuotedIsOneWord
<1> QED BY <1>1, FieldsAreTexts, PTL

-----------------------------------------------------------------------------
(* The parts of a text that comes after another.                           *)
LEMMA After ==
  ASSUME NEW C, NEW a \in Seq(C), NEW t \in Seq(C)
  PROVE  /\ a \o t \in Seq(C) /\ Len(a) \in Nat /\ Len(t) \in Nat /\ Len(a \o t) = Len(t) + Len(a)
         /\ DOMAIN t = 1 .. Len(t) /\ DOMAIN (a \o t) = 1 .. Len(t) + Len(a)
         /\ \A i \in 1 .. Len(a) : (a \o t)[i] = a[i]
         /\ \A i \in 1 .. Len(t) : (a \o t)[i + Len(a)] = t[i]
<1> DEFINE w == a \o t
           m == Len(a)
           n == Len(t)
<1>1. m \in Nat /\ n \in Nat /\ DOMAIN t = 1 .. n
  OBVIOUS
<1>2. /\ w \in Seq(C) /\ Len(w) = m + n
      /\ \A i \in 1 .. m + n : w[i] = IF i <= m THEN a[i] ELSE t[i - m]
  BY ConcatProperties
<1>3. DOMAIN w = 1 .. n + m /\ Len(w) = n + m
  <2>1. m + n = n + m
    BY <1>1
  <2> QED BY <1>2, <2>1
<1> HIDE DEF w, m, n
<1>4. ASSUME NEW i \in 1 .. m PROVE w[i] = a[i]
  <2>1. i \in 1 .. m + n /\ i <= m
    BY <1>1
  <2> QED BY <1>2, <2>1
<1>5. ASSUME NEW i \in 1 .. n PROVE w[i + m] = t[i]
  <2>1. i + m \in 1 .. m + n /\ ~(i + m <= m) /\ (i + m) - m = i
    BY <1>1
  <2> QED BY <1>2, <2>1
<1> QED BY <1>1, <1>2, <1>3, <1>4, <1>5 DEF w, m, n

(* A piece of it.                                                          *)
LEMMA PieceAfter ==
  ASSUME NEW C, NEW a \in Seq(C), NEW t \in Seq(C), NEW i \in Nat, NEW j \in Nat, 1 <= i, j <= Len(t)
  PROVE  /\ SubSeq(a \o t, i + Len(a), j + Len(a)) = SubSeq(t, i, j)
         /\ SubSeq(t, i, j) \in Seq(C)
<1> DEFINE w == a \o t
           m == Len(a)
           n == Len(t)
           p == SubSeq(w, i + m, j + m)
           q == SubSeq(t, i, j)
<1>1. /\ w \in Seq(C) /\ m \in Nat /\ n \in Nat
      /\ \A k \in 1 .. n : w[k + m] = t[k] /\ t[k] \in C
  BY After
<1>2. j <= n
  OBVIOUS
<1> HIDE DEF w, m, n
<1>3. ASSUME NEW k \in i .. j PROVE t[k] \in C
  <2>1. k \in 1 .. n
    BY <1>1, <1>2
  <2> QED BY <1>1, <2>1
<1>4. ASSUME NEW k \in (i + m) .. (j + m) PROVE w[k] \in C
  <2>1. k - m \in 1 .. n /\ (k - m) + m = k
    BY <1>1, <1>2
  <2>2. w[(k - m) + m] = t[k - m] /\ t[k - m] \in C
    BY <1>1, <2>1
  <2> QED BY <2>1, <2>2
<1>5. i + m \in Int /\ j + m \in Int /\ i \in Int /\ j \in Int
  BY <1>1
<1>6. /\ p \in Seq(C) /\ Len(p) = IF i + m <= j + m THEN (j + m) - (i + m) + 1 ELSE 0
      /\ \A k \in 1 .. (j + m) - (i + m) + 1 : p[k] = w[(i + m) + k - 1]
  BY <1>4, <1>5, SubSeqProperties
<1>7. /\ q \in Seq(C) /\ Len(q) = IF i <= j THEN j - i + 1 ELSE 0
      /\ \A k \in 1 .. j - i + 1 : q[k] = t[i + k - 1]
  BY <1>3, <1>5, SubSeqProperties
<1> HIDE DEF p, q
<1>8. (i + m <= j + m <=> i <= j) /\ (j + m) - (i + m) + 1 = j - i + 1
  BY <1>1
<1>9. ASSUME NEW k \in 1 .. Len(q) PROVE p[k] = q[k]
  <2>1. k \in 1 .. j - i + 1
    <3>1. CASE i <= j
      BY <1>7, <3>1
    <3>2. CASE ~(i <= j)
      BY <1>7, <3>2
    <3> QED BY <3>1, <3>2
  <2>2. i + k - 1 \in 1 .. n /\ (i + m) + k - 1 = (i + k - 1) + m
    BY <1>1, <1>2, <2>1
  <2>3. q[k] = t[i + k - 1]
    BY <1>7, <2>1
  <2>4. p[k] = w[(i + m) + k - 1]
    BY <1>6, <1>8, <2>1
  <2> QED BY <1>1, <2>2, <2>3, <2>4
<1>10. Len(p) = Len(q)
  BY <1>6, <1>7, <1>8
<1>11. p = q
  BY <1>6, <1>7, <1>9, <1>10, SeqEqual
<1> QED BY <1>7, <1>11 DEF p, q, w, m

-----------------------------------------------------------------------------
(* The string literals of C++.                                             *)
LEMMA NamedIs ==
  /\ DOMAIN Named = {110, 114, 116, 34, 92}
  /\ Named[110] = 10 /\ Named[114] = 13 /\ Named[116] = 9 /\ Named[34] = 34 /\ Named[92] = 92
  BY ChIs DEF Named

(* The digits after a backslash that are part of the escape.               *)
OctalAt(s, i) == {n \in 0 .. 3 : i + n <= Len(s) /\ \A j \in 1 .. n : s[i + j] \in 48 .. 55}

LEMMA DigitsAre ==
  ASSUME NEW s \in Text, NEW i \in DOMAIN s
  PROVE  /\ Digits(s, i) \in 0 .. 3 /\ i + Digits(s, i) <= Len(s)
         /\ Digits(s, i) > 0 => s[i + 1] \in 48 .. 55
         /\ \A n \in OctalAt(s, i) : (\A m \in OctalAt(s, i) : m <= n) => Digits(s, i) = n
<1> DEFINE D == OctalAt(s, i)
<1>1. i \in Nat /\ Len(s) \in Nat /\ i <= Len(s)
  BY DEF Text
<1>2. 0 \in D /\ D \subseteq 0 .. 3 /\ \A n \in D : i + n <= Len(s)
  BY <1>1 DEF OctalAt
<1>3. Digits(s, i) = Max(D)
  BY DEF Digits, OctalAt
<1> HIDE DEF D
<1>4. D \in SUBSET Nat
  BY <1>2
<1>5. ASSUME NEW n \in D, \A m \in D : m <= n PROVE Max(D) = n
  BY <1>4, <1>5, MaxGreatest
<1>6. PICK n \in D : \A m \in D : m <= n
  <2> DEFINE E == {k \in 1 .. 3 : k \in D}
  <2>1. CASE E = {}
    <3>1. \A m \in D : m <= 0
      BY <1>2, <2>1
    <3> QED BY <1>2, <3>1
  <2>2. CASE E # {}
    <3>1. E \in SUBSET (1 .. 3) /\ 3 \in Nat
      OBVIOUS
    <3> HIDE DEF E
    <3>2. PICK n \in E : \A m \in E : m <= n
      BY <2>2, <3>1, Greatest
    <3>3. n \in D /\ \A m \in D : m <= n
      BY <1>2, <3>1, <3>2 DEF E
    <3> QED BY <3>3
  <2> QED BY <2>1, <2>2
<1>7. Max(D) = n
  BY <1>5, <1>6
<1>8. n > 0 => s[i + 1] \in 48 .. 55
  <2> SUFFICES ASSUME n > 0 PROVE s[i + 1] \in 48 .. 55
    OBVIOUS
  <2>1. n \in 0 .. 3 /\ \A j \in 1 .. n : s[i + j] \in 48 .. 55
    BY <1>6 DEF D, OctalAt
  <2>2. 1 \in 1 .. n
    BY <2>1
  <2> QED BY <2>1, <2>2
<1> QED BY <1>2, <1>3, <1>5, <1>6, <1>7, <1>8 DEF D

OctalStep == [v \in Int |-> [c \in Int |-> 8 * v + (c - 48)]]

LEMMA OctalSteps ==
  /\ OctalStep \in Steps(Int, Int)
  /\ \A v, c \in Int : OctalStep[v][c] = 8 * v + (c - 48)
  /\ \A digits : OctalValue(digits) = Reads(OctalStep, 0, digits)
<1>1. OctalStep \in Steps(Int, Int)
  BY DEF OctalStep, Steps
<1>2. \A v, c \in Int : OctalStep[v][c] = 8 * v + (c - 48)
  BY DEF OctalStep
<1>3. \A digits : OctalValue(digits) = Reads(OctalStep, 0, digits)
  BY DEF OctalStep, OctalValue
<1> QED BY <1>1, <1>2, <1>3

LEMMA LiteralTyped ==
  ASSUME NEW s \in Text, NEW i \in DOMAIN s
  PROVE  LiteralAt(s, i).out \in Seq(Int) /\ LiteralAt(s, i).width \in Nat \ {0}
<1> DEFINE d == Digits(s, i)
           n == Len(s)
           p == SubSeq(s, i + 1, i + d)
<1>1. n \in Nat /\ i \in 1 .. n /\ \A k \in 1 .. n : s[k] \in Int
  <2>1. n \in Nat /\ DOMAIN s = 1 .. n /\ \A k \in 1 .. n : s[k] \in Byte
    BY DEF Text
  <2>2. i \in 1 .. n
    BY <2>1
  <2> HIDE DEF n, d, p
  <2>3. \A c \in Byte : c \in Int
    BY DEF Byte
  <2> QED BY <2>1, <2>2, <2>3
<1>2. d \in 0 .. 3 /\ i + d <= n /\ (d > 0 => s[i + 1] \in 48 .. 55)
  BY DigitsAre
<1> HIDE DEF d
<1>3. p \in Seq(Int)
  <2>1. \A k \in (i + 1) .. (i + d) : s[k] \in Int
    <3>1. \A k \in (i + 1) .. (i + d) : k \in 1 .. n
      BY <1>1, <1>2
    <3> HIDE DEF n
    <3> QED BY <1>1, <3>1
  <2>2. i + 1 \in Int /\ i + d \in Int
    BY <1>1, <1>2
  <2> QED BY <2>1, <2>2, SubSeqProperties
<1> HIDE DEF p, n
<1>4. OctalValue(p) \in Int
  <2>1. 0 \in Int /\ OctalValue(p) = Reads(OctalStep, 0, p)
    BY OctalSteps
  <2> QED BY <1>3, <2>1, OctalSteps, ReadsType
<1>5. Broken \in Seq(Int)
  BY DEF Broken
<1>6. n + 1 - i \in Nat \ {0}
  BY <1>1
<1>7. \A k \in DOMAIN Named : Named[k] \in Int
  BY NamedIs
<1>8. \A v \in Int : <<v>> \in Seq(Int)
  OBVIOUS
<1>9. CASE s[i] \in {34, 10}
  BY <1>5, <1>6, <1>9, ChIs DEF LiteralAt, n
<1>10. CASE s[i] \notin {34, 10, 92}
  BY <1>1, <1>8, <1>10, ChIs DEF LiteralAt
<1>11. CASE s[i] = 92 /\ d > 0
  <2>1. LiteralAt(s, i) = [out |-> <<OctalValue(p)>>, width |-> 1 + d]
    <3>1. s[i + 1] \notin DOMAIN Named
      BY <1>2, <1>11, NamedIs
    <3> QED BY <1>11, <3>1, ChIs DEF LiteralAt, p, d
  <2> QED BY <1>2, <1>4, <1>8, <2>1
<1>12. CASE s[i] = 92 /\ ~(d > 0)
  <2>1. CASE i < n /\ s[i + 1] \in DOMAIN Named
    <3>1. LiteralAt(s, i) = [out |-> <<Named[s[i + 1]]>>, width |-> 2]
      BY <1>12, <2>1, ChIs DEF LiteralAt, d, n
    <3> QED BY <1>7, <1>8, <2>1, <3>1
  <2>2. CASE ~(i < n /\ s[i + 1] \in DOMAIN Named)
    <3>1. LiteralAt(s, i) = [out |-> Broken, width |-> n + 1 - i]
      BY <1>12, <2>2, ChIs DEF LiteralAt, d, n
    <3> QED BY <1>5, <1>6, <3>1
  <2> QED BY <2>1, <2>2
<1> QED BY <1>9, <1>10, <1>11, <1>12

(* What a compiler makes of a position does not depend on what is before.  *)
LEMMA LiteralAfter ==
  ASSUME NEW a \in Text, NEW t \in Text, NEW i \in DOMAIN t
  PROVE  LiteralAt(a \o t, i + Len(a)) = LiteralAt(t, i)
<1> DEFINE w == a \o t
           m == Len(a)
           n == Len(t)
           d == Digits(t, i)
<1>1. /\ w \in Text /\ m \in Nat /\ n \in Nat /\ Len(w) = n + m /\ i \in 1 .. n
      /\ i + m \in DOMAIN w
      /\ \A k \in 1 .. n : w[k + m] = t[k]
  <2>1. a \in Seq(Byte) /\ t \in Seq(Byte)
    BY DEF Text
  <2>2. /\ w \in Seq(Byte) /\ m \in Nat /\ n \in Nat /\ Len(w) = n + m /\ i \in 1 .. n
        /\ DOMAIN w = 1 .. n + m /\ \A k \in 1 .. n : w[k + m] = t[k]
    BY <2>1, After
  <2> HIDE DEF w, m, n
  <2>3. i + m \in 1 .. n + m
    BY <2>2
  <2> QED BY <2>2, <2>3 DEF Text
<1>2. d \in 0 .. 3 /\ i + d <= n
  BY DigitsAre
<1>3. \A k \in 0 .. 3 : i + k <= n => SubSeq(w, (i + m) + 1, (i + m) + k) = SubSeq(t, i + 1, i + k)
  <2> SUFFICES ASSUME NEW k \in 0 .. 3, i + k <= n
               PROVE  SubSeq(w, (i + m) + 1, (i + m) + k) = SubSeq(t, i + 1, i + k)
    OBVIOUS
  <2>1. i + 1 \in Nat /\ i + k \in Nat /\ 1 <= i + 1
        /\ (i + 1) + m = (i + m) + 1 /\ (i + k) + m = (i + m) + k
    <3>1. i \in Nat /\ m \in Nat /\ k \in Nat
      BY <1>1
    <3> HIDE DEF m
    <3> QED BY <3>1
  <2>2. a \in Seq(Byte) /\ t \in Seq(Byte) /\ i + k <= Len(t)
    BY DEF Text
  <2>3. SubSeq(a \o t, (i + 1) + Len(a), (i + k) + Len(a)) = SubSeq(t, i + 1, i + k)
    <3> DEFINE b == i + 1
               e == i + k
    <3>1. b \in Nat /\ e \in Nat /\ 1 <= b /\ e <= Len(t)
      BY <2>1, <2>2
    <3> HIDE DEF b, e
    <3>2. SubSeq(a \o t, b + Len(a), e + Len(a)) = SubSeq(t, b, e)
      BY <2>2, <3>1, PieceAfter
    <3> QED BY <3>2 DEF b, e
  <2> QED BY <2>1, <2>3
<1>4. t[i] = w[i + m]
  BY <1>1
<1> HIDE DEF w, m, n, d
<1>5. OctalAt(w, i + m) = OctalAt(t, i)
  <2>1. ASSUME NEW k \in 0 .. 3 PROVE k \in OctalAt(w, i + m) <=> k \in OctalAt(t, i)
    <3>1. (i + m) + k <= Len(w) <=> i + k <= n
      BY <1>1
    <3>2. ASSUME i + k <= n, NEW j \in 1 .. k PROVE w[(i + m) + j] = t[i + j]
      <4>1. i + j \in 1 .. n /\ (i + j) + m = (i + m) + j
        BY <1>1, <3>2
      <4>2. w[(i + j) + m] = t[i + j]
        BY <1>1, <4>1
      <4> QED BY <4>1, <4>2
    <3> QED BY <3>1, <3>2 DEF OctalAt, n
  <2>2. OctalAt(w, i + m) \subseteq 0 .. 3 /\ OctalAt(t, i) \subseteq 0 .. 3
    BY DEF OctalAt
  <2> QED BY <2>1, <2>2
<1>6. Digits(w, i + m) = d
  BY <1>5 DEF Digits, OctalAt, d
<1>7. /\ Len(w) + 1 - (i + m) = n + 1 - i
      /\ (i + m < Len(w) <=> i < n)
      /\ i < n => w[(i + m) + 1] = t[i + 1]
  <2>1. Len(w) + 1 - (i + m) = n + 1 - i /\ (i + m < Len(w) <=> i < n)
    BY <1>1
  <2>2. ASSUME i < n PROVE w[(i + m) + 1] = t[i + 1]
    <3>1. i + 1 \in 1 .. n /\ (i + 1) + m = (i + m) + 1
      BY <1>1, <2>2
    <3>2. w[(i + 1) + m] = t[i + 1]
      BY <1>1, <3>1
    <3> QED BY <3>1, <3>2
  <2> QED BY <2>1, <2>2
<1>8. SubSeq(w, (i + m) + 1, (i + m) + d) = SubSeq(t, i + 1, i + d)
  BY <1>2, <1>3
<1> DEFINE In(s, k, digits, rest) ==
             CASE s[k] \in {Ch.quote, Ch.newline} -> [out |-> Broken, width |-> rest]
               [] s[k] \notin {Ch.quote, Ch.newline, Ch.backslash} -> [out |-> <<s[k]>>, width |-> 1]
               [] s[k] = Ch.backslash /\ digits > 0 ->
                    [out |-> <<OctalValue(SubSeq(s, k + 1, k + digits))>>, width |-> 1 + digits]
               [] s[k] = Ch.backslash /\ k < Len(s) /\ s[k + 1] \in DOMAIN Named ->
                    [out |-> <<Named[s[k + 1]]>>, width |-> 2]
               [] OTHER -> [out |-> Broken, width |-> rest]
<1>9. \A s, k : LiteralAt(s, k) = In(s, k, Digits(s, k), Len(s) + 1 - k)
  BY DEF LiteralAt
<1>10. In(w, i + m, d, n + 1 - i) = In(t, i, d, n + 1 - i)
  <2> DEFINE O == OctalValue(SubSeq(t, i + 1, i + d))
  <2>1. OctalValue(SubSeq(w, (i + m) + 1, (i + m) + d)) = O
    BY <1>8
  <2> HIDE DEF O
  <2>2. Len(t) = n
    BY DEF n
  <2>3. CASE i < n
    <3>1. w[(i + m) + 1] = t[i + 1] /\ i + m < Len(w) /\ i < Len(t)
      BY <1>7, <2>2, <2>3
    <3> QED BY <1>4, <2>1, <3>1 DEF O
  <2>4. CASE ~(i < n)
    <3>1. ~(i + m < Len(w)) /\ ~(i < Len(t))
      BY <1>7, <2>2, <2>4
    <3> QED BY <1>4, <2>1, <3>1 DEF O
  <2> QED BY <2>3, <2>4
<1> HIDE DEF In
<1>11. LiteralAt(w, i + m) = LiteralAt(t, i)
  BY <1>6, <1>7, <1>9, <1>10 DEF d, n
<1> QED BY <1>11 DEF w, m

(* The code of a byte is read back as that byte, whatever comes after it.  *)
OctalDigits(c) == <<48 + (c \div 64), 48 + ((c \div 8) % 8), 48 + (c % 8)>>

LEMMA OctalDigitsAre ==
  ASSUME NEW c \in Byte
  PROVE  /\ \A k \in 1 .. 3 : OctalDigits(c)[k] \in 48 .. 55
         /\ OctalDigits(c) \in Text /\ Len(OctalDigits(c)) = 3
         /\ Octal(c) = <<92>> \o OctalDigits(c)
<1> DEFINE x == 48 + (c \div 64)
           y == 48 + ((c \div 8) % 8)
           z == 48 + (c % 8)
<1>1. c \in 0 .. 255
  BY DEF Byte
<1>2. x \in 48 .. 55 /\ y \in 48 .. 55 /\ z \in 48 .. 55
  BY <1>1
<1>3. \A v \in 48 .. 55 : v \in Byte
  BY DEF Byte
<1>4. OctalDigits(c) = <<x, y, z>> /\ Octal(c) = <<92, x, y, z>>
  BY ChIs DEF OctalDigits, Octal
<1> HIDE DEF x, y, z
<1>5. <<x, y, z>> \in Seq(Byte) /\ Len(<<x, y, z>>) = 3 /\ \A k \in 1 .. 3 : <<x, y, z>>[k] \in 48 .. 55
  BY <1>2, <1>3
<1>6. <<92, x, y, z>> = <<92>> \o <<x, y, z>>
  OBVIOUS
<1> QED BY <1>4, <1>5, <1>6 DEF Text

(* Three digits are the byte.                                              *)
LEMMA OctalIs ==
  ASSUME NEW c \in Byte PROVE OctalValue(OctalDigits(c)) = c
<1> DEFINE I == Int
           x == 48 + (c \div 64)
           y == 48 + ((c \div 8) % 8)
           z == 48 + (c % 8)
           zero == 0
           one == <<x>>
           two == <<x, y>>
           v1 == 8 * zero + (x - 48)
           v2 == 8 * v1 + (y - 48)
<1>1. x \in I /\ y \in I /\ z \in I /\ zero \in I
  BY DEF Byte
<1>2. 8 * v2 + (z - 48) = c
  <2>1. c \in 0 .. 255
    BY DEF Byte
  <2>2. c = (8 * (c \div 8)) + (c % 8) /\ c \div 8 \in 0 .. 31
    BY <2>1
  <2>3. c \div 8 = (8 * ((c \div 8) \div 8)) + ((c \div 8) % 8) /\ (c \div 8) \div 8 = c \div 64
    BY <2>1
  <2> QED BY <2>1, <2>2, <2>3
<1>3. OctalDigits(c) = <<x, y, z>>
  BY DEF OctalDigits
<1> HIDE DEF x, y, z
<1>4. one \in Seq(I) /\ two \in Seq(I)
  BY <1>1
<1>13. two = Append(one, y)
  BY <1>1
<1>12. <<x, y, z>> = Append(two, z)
  BY <1>1
<1>5. v1 \in I /\ v2 \in I
  BY <1>1
<1>6. /\ OctalStep \in Steps(I, I)
      /\ \A v, d \in I : OctalStep[v][d] = 8 * v + (d - 48)
  BY OctalSteps
<1>7. OctalStep[zero][x] = v1 /\ OctalStep[v1][y] = v2 /\ OctalStep[v2][z] = 8 * v2 + (z - 48)
  BY <1>1, <1>5, <1>6
<1> HIDE DEF I, zero, v1, v2
<1>8. Reads(OctalStep, zero, one) = v1
  <2>1. Reads(OctalStep, zero, <<x>>) = OctalStep[zero][x]
    BY <1>1, <1>6, ReadsOne
  <2> QED BY <1>7, <2>1
<1> HIDE DEF one, two
<1>9. Reads(OctalStep, zero, two) = v2
  <2>1. Reads(OctalStep, zero, Append(one, y)) = OctalStep[Reads(OctalStep, zero, one)][y]
    BY <1>1, <1>4, <1>6, ReadsNext
  <2> QED BY <1>7, <1>8, <1>13, <2>1
<1>10. Reads(OctalStep, zero, Append(two, z)) = 8 * v2 + (z - 48)
  <2>1. Reads(OctalStep, zero, Append(two, z)) = OctalStep[Reads(OctalStep, zero, two)][z]
    BY <1>1, <1>4, <1>6, ReadsNext
  <2> QED BY <1>7, <1>9, <2>1
<1>11. OctalValue(<<x, y, z>>) = Reads(OctalStep, zero, <<x, y, z>>)
  BY OctalSteps DEF zero
<1> QED BY <1>2, <1>3, <1>10, <1>11, <1>12

LEMMA EscapeIs ==
  ASSUME NEW d \in Text
  PROVE  /\ <<92>> \o d \in Text /\ Len(<<92>> \o d) = Len(d) + 1 /\ (<<92>> \o d)[1] = 92
         /\ \A k \in DOMAIN d : (<<92>> \o d)[k + 1] = d[k]
<1> DEFINE b == 92
           C == Byte
<1>1. b \in C /\ d \in Seq(C) /\ Text = Seq(C)
  BY DEF Byte, Text
<1> HIDE DEF b, C
<1>2. /\ <<b>> \o d \in Seq(C) /\ Len(<<b>> \o d) = Len(d) + 1 /\ (<<b>> \o d)[1] = b
      /\ \A k \in DOMAIN d : (<<b>> \o d)[k + 1] = d[k]
  BY <1>1, Pushed
<1> QED BY <1>1, <1>2 DEF b

LEMMA LiteralByteIs ==
  ASSUME NEW c \in Byte
  PROVE  \/ c \in {92, 34} /\ LiteralByte(c) = <<92, c>>
         \/ c = 10 /\ LiteralByte(c) = <<92, 110>>
         \/ c = 13 /\ LiteralByte(c) = <<92, 114>>
         \/ c = 9 /\ LiteralByte(c) = <<92, 116>>
         \/ c \in (32 .. 126) \ {92, 34} /\ LiteralByte(c) = <<c>>
         \/ LiteralByte(c) = <<92>> \o OctalDigits(c)
<1>1. CASE c \in {92, 34}
  BY <1>1, ChIs DEF LiteralByte
<1>2. CASE c = 10
  BY <1>2, ChIs DEF LiteralByte
<1>3. CASE c = 13
  BY <1>3, ChIs DEF LiteralByte
<1>4. CASE c = 9
  BY <1>4, ChIs DEF LiteralByte
<1>5. CASE c \in (32 .. 126) \ {92, 34}
  BY <1>5, ChIs DEF LiteralByte
<1>6. CASE c \notin (32 .. 126) \cup {10, 13, 9}
  <2>1. LiteralByte(c) = Octal(c)
    BY <1>6, ChIs DEF LiteralByte
  <2> QED BY <2>1, OctalDigitsAre
<1> QED BY <1>1, <1>2, <1>3, <1>4, <1>5, <1>6

LEMMA LiteralByteTyped ==
  ASSUME NEW c \in Byte
  PROVE  LiteralByte(c) \in Text /\ Len(LiteralByte(c)) \in Nat \ {0}
<1>1. 92 \in Byte /\ 110 \in Byte /\ 114 \in Byte /\ 116 \in Byte
  BY DEF Byte
<1>2. \A d \in Byte : <<92, d>> \in Text /\ Len(<<92, d>>) = 2 /\ <<d>> \in Text /\ Len(<<d>>) = 1
  BY <1>1 DEF Text
<1>3. <<92>> \o OctalDigits(c) \in Text /\ Len(<<92>> \o OctalDigits(c)) = 4
  <2> DEFINE d == OctalDigits(c)
  <2>1. d \in Text /\ Len(d) = 3
    BY OctalDigitsAre
  <2> HIDE DEF d
  <2>2. <<92>> \o d \in Text /\ Len(<<92>> \o d) = Len(d) + 1
    BY <2>1, EscapeIs
  <2> QED BY <2>1, <2>2 DEF d
<1> DEFINE l == LiteralByte(c)
<1>4. \/ \E d \in Byte : l = <<92, d>> \/ l = <<d>>
      \/ l = <<92>> \o OctalDigits(c)
  BY <1>1, LiteralByteIs
<1> HIDE DEF l
<1>5. ASSUME l = << 92 >> \o OctalDigits(c) PROVE l \in Text /\ Len(l) = 4
  BY <1>3, <1>5
<1>6. ASSUME NEW d \in Byte, l = <<92, d>> PROVE l \in Text /\ Len(l) = 2
  BY <1>2, <1>6
<1>7. ASSUME NEW d \in Byte, l = <<d>> PROVE l \in Text /\ Len(l) = 1
  BY <1>2, <1>7
<1>8. l \in Text /\ (Len(l) = 1 \/ Len(l) = 2 \/ Len(l) = 4)
  BY <1>4, <1>5, <1>6, <1>7
<1> QED BY <1>8 DEF l

(* Three digits are all that are taken, whatever comes after them.         *)
LEMMA OctalFirst ==
  ASSUME NEW c \in Byte, NEW t \in Text
  PROVE  LiteralAt((<<92>> \o OctalDigits(c)) \o t, 1) = [out |-> <<c>>, width |-> 4]
<1> DEFINE d == OctalDigits(c)
           a == <<92>> \o d
           w == a \o t
<1>1. d \in Text /\ Len(d) = 3 /\ \A k \in 1 .. 3 : d[k] \in 48 .. 55
  BY OctalDigitsAre
<1>2. d \in Seq(Byte) /\ DOMAIN d = 1 .. 3
  BY <1>1 DEF Text
<1> HIDE DEF d
<1>3. a \in Text /\ Len(a) = 4 /\ a[1] = 92 /\ \A k \in 1 .. 3 : a[k + 1] = d[k]
  <2>1. /\ a \in Text /\ Len(a) = Len(d) + 1 /\ a[1] = 92
        /\ \A k \in DOMAIN d : a[k + 1] = d[k]
    BY <1>1, EscapeIs
  <2> HIDE DEF a
  <2> QED BY <1>1, <1>2, <2>1
<1> HIDE DEF a
<1>4. /\ w \in Seq(Byte) /\ Len(w) \in Nat /\ Len(w) >= 4 /\ 1 \in DOMAIN w
      /\ \A k \in 1 .. 4 : w[k] = a[k]
  <2>0. a \in Seq(Byte) /\ t \in Seq(Byte)
    BY <1>3 DEF Text
  <2>1. /\ w \in Seq(Byte) /\ Len(t) \in Nat /\ Len(w) = Len(t) + Len(a) /\ DOMAIN w = 1 .. Len(t) + Len(a)
        /\ \A k \in 1 .. Len(a) : w[k] = a[k]
    BY <2>0, After
  <2> HIDE DEF w
  <2> QED BY <1>3, <2>1
<1> HIDE DEF w
<1>5. w[1] = 92 /\ \A k \in 1 .. 3 : w[1 + k] = d[k] /\ w[1 + k] \in 48 .. 55
  <2>1. w[1] = 92
    BY <1>3, <1>4
  <2>2. ASSUME NEW k \in 1 .. 3 PROVE w[1 + k] = d[k]
    <3>1. k + 1 \in 1 .. 4 /\ 1 + k = k + 1
      OBVIOUS
    <3>2. w[k + 1] = a[k + 1]
      BY <1>4, <3>1
    <3> QED BY <1>3, <3>1, <3>2
  <2> QED BY <1>1, <2>1, <2>2
<1>6. Digits(w, 1) = 3
  <2>1. 3 \in OctalAt(w, 1)
    BY <1>4, <1>5 DEF OctalAt
  <2>2. \A m \in OctalAt(w, 1) : m <= 3
    BY DEF OctalAt
  <2> QED BY <1>4, <2>1, <2>2, DigitsAre DEF Text
<1>7. SubSeq(w, 1 + 1, 1 + 3) = d
  <2> DEFINE p == SubSeq(w, 1 + 1, 1 + 3)
  <2>1. p = SubSeq(w, 2, 4) /\ \A k \in 2 .. 4 : w[k] \in Byte
    BY <1>4
  <2>2. p \in Seq(Byte) /\ Len(p) = 3 /\ \A k \in 1 .. 3 : p[k] = w[2 + k - 1]
    BY <2>1, SubSeqProperties
  <2> HIDE DEF p
  <2>3. \A k \in 1 .. 3 : 2 + k - 1 = 1 + k
    OBVIOUS
  <2>4. \A k \in 1 .. 3 : p[k] = d[k]
    BY <1>5, <2>2, <2>3
  <2>5. p = d
    BY <1>1, <1>2, <2>2, <2>4, SeqEqual
  <2> QED BY <2>5 DEF p
<1>8. OctalValue(d) = c
  BY OctalIs DEF d
<1>9. w[1 + 1] \notin DOMAIN Named
  <2>1. w[1 + 1] \in 48 .. 55
    BY <1>5
  <2> QED BY <2>1, NamedIs
<1>10. LiteralAt(w, 1) = [out |-> <<OctalValue(SubSeq(w, 1 + 1, 1 + 3))>>, width |-> 1 + 3]
  BY <1>5, <1>6, <1>9, ChIs DEF LiteralAt
<1>11. LiteralAt(w, 1) = [out |-> <<c>>, width |-> 4]
  <2> DEFINE p == SubSeq(w, 1 + 1, 1 + 3)
  <2>1. LiteralAt(w, 1) = [out |-> <<OctalValue(p)>>, width |-> 4]
    BY <1>10
  <2>2. p = d
    BY <1>7
  <2> HIDE DEF p
  <2> QED BY <1>8, <2>1, <2>2
<1> QED BY <1>11 DEF w, a, d

(* The escapes with a name, and a byte that is not escaped.                *)
LEMMA NamedFirst ==
  ASSUME NEW d \in DOMAIN Named, NEW t \in Text
  PROVE  LiteralAt(<<92, d>> \o t, 1) = [out |-> <<Named[d]>>, width |-> 2]
<1> DEFINE a == <<92, d>>
           w == a \o t
<1>1. d \in {110, 114, 116, 34, 92} /\ d \notin 48 .. 55
  BY NamedIs
<1>2. a \in Seq(Byte) /\ Len(a) = 2 /\ a[1] = 92 /\ a[2] = d
  BY <1>1 DEF Byte
<1> HIDE DEF a
<1>3. w \in Seq(Byte) /\ Len(w) \in Nat /\ 1 < Len(w) /\ 1 \in DOMAIN w /\ w[1] = 92 /\ w[1 + 1] = d
  <2>0. a \in Seq(Byte) /\ t \in Seq(Byte)
    BY <1>2 DEF Text
  <2>1. /\ w \in Seq(Byte) /\ Len(t) \in Nat /\ Len(w) = Len(t) + Len(a) /\ DOMAIN w = 1 .. Len(t) + Len(a)
        /\ \A k \in 1 .. Len(a) : w[k] = a[k]
    BY <2>0, After
  <2> HIDE DEF w
  <2> QED BY <1>2, <2>1
<1> HIDE DEF w
<1>4. Digits(w, 1) \in 0 .. 3 /\ ~(Digits(w, 1) > 0)
  BY <1>1, <1>3, DigitsAre DEF Text
<1>5. LiteralAt(w, 1) = [out |-> <<Named[d]>>, width |-> 2]
  BY <1>3, <1>4, ChIs DEF LiteralAt
<1> QED BY <1>5 DEF w, a

LEMMA PlainFirst ==
  ASSUME NEW c \in Byte, c \notin {10, 34, 92}, NEW t \in Text
  PROVE  LiteralAt(<<c>> \o t, 1) = [out |-> <<c>>, width |-> 1]
<1> DEFINE w == <<c>> \o t
<1>1. w[1] = c
  BY Pushed DEF Text
<1> HIDE DEF w
<1>2. LiteralAt(w, 1) = [out |-> <<c>>, width |-> 1]
  BY <1>1, ChIs DEF LiteralAt
<1> QED BY <1>2 DEF w

LEMMA LiteralFirst ==
  ASSUME NEW c \in Byte, NEW t \in Text
  PROVE  LiteralAt(LiteralByte(c) \o t, 1) = [out |-> <<c>>, width |-> Len(LiteralByte(c))]
<1> DEFINE l == LiteralByte(c)
<1>1. ASSUME NEW d \in DOMAIN Named, Named[d] = c, l = <<92, d>>
      PROVE  LiteralAt(l \o t, 1) = [out |-> <<c>>, width |-> Len(l)]
  <2> HIDE DEF l
  <2>1. LiteralAt(<<92, d>> \o t, 1) = [out |-> <<Named[d]>>, width |-> 2]
    BY NamedFirst
  <2>2. Len(<<92, d>>) = 2
    OBVIOUS
  <2> QED BY <1>1, <2>1, <2>2
<1>2. ASSUME c \in (32 .. 126) \ {92, 34}, l = <<c>>
      PROVE  LiteralAt(l \o t, 1) = [out |-> <<c>>, width |-> Len(l)]
  <2> HIDE DEF l
  <2>1. LiteralAt(<<c>> \o t, 1) = [out |-> <<c>>, width |-> 1]
    BY <1>2, PlainFirst
  <2>2. Len(<<c>>) = 1
    OBVIOUS
  <2> QED BY <1>2, <2>1, <2>2
<1>3. ASSUME l = << 92 >> \o OctalDigits(c)
      PROVE  LiteralAt(l \o t, 1) = [out |-> <<c>>, width |-> Len(l)]
  <2> HIDE DEF l
  <2>1. LiteralAt((<<92>> \o OctalDigits(c)) \o t, 1) = [out |-> <<c>>, width |-> 4]
    BY OctalFirst
  <2> DEFINE d == OctalDigits(c)
  <2>2. d \in Text /\ Len(d) = 3
    BY OctalDigitsAre
  <2> HIDE DEF d
  <2>3. Len(<<92>> \o d) = Len(d) + 1
    BY <2>2, EscapeIs
  <2>4. Len(<<92>> \o d) = 4
    BY <2>2, <2>3
  <2> QED BY <1>3, <2>1, <2>4 DEF d
<1>4. /\ 110 \in DOMAIN Named /\ 114 \in DOMAIN Named /\ 116 \in DOMAIN Named
      /\ Named[110] = 10 /\ Named[114] = 13 /\ Named[116] = 9
      /\ \A d \in {92, 34} : d \in DOMAIN Named /\ Named[d] = d
  BY NamedIs
<1>5. \/ \E d \in DOMAIN Named : Named[d] = c /\ l = <<92, d>>
      \/ c \in (32 .. 126) \ {92, 34} /\ l = <<c>>
      \/ l = <<92>> \o OctalDigits(c)
  BY <1>4, LiteralByteIs
<1> HIDE DEF l
<1>6. LiteralAt(l \o t, 1) = [out |-> <<c>>, width |-> Len(l)]
  BY <1>1, <1>2, <1>3, <1>5
<1> QED BY <1>6 DEF l

LiteralOut(s) == [i \in DOMAIN s |-> LiteralAt(s, i).out]

LiteralWidth(s) == [i \in DOMAIN s |-> LiteralAt(s, i).width]

LEMMA LiteralScans ==
  ASSUME NEW s \in Text
  PROVE  /\ Scannable(Int, LiteralOut(s), LiteralWidth(s)) /\ Len(LiteralOut(s)) = Len(s)
         /\ ReadLiteral(s) = Scan(LiteralOut(s), LiteralWidth(s))
<1> DEFINE n == Len(s)
           O == Seq(Int)
           out == LiteralOut(s)
           width == LiteralWidth(s)
<1>1. n \in Nat /\ DOMAIN s = 1 .. n
  BY DEF Text
<1>2. \A i \in DOMAIN s : LiteralAt(s, i).out \in O /\ LiteralAt(s, i).width \in Nat \ {0}
  BY LiteralTyped
<1> HIDE DEF n, O
<1>3. /\ out \in [1 .. n -> O] /\ DOMAIN out = 1 .. n
      /\ \A i \in 1 .. n : width[i] \in Nat \ {0}
  BY <1>1, <1>2 DEF LiteralOut, LiteralWidth
<1> HIDE DEF out, width
<1>4. out \in Seq(O) /\ Len(out) = n
  BY <1>1, <1>3
<1>5. Scannable(Int, out, width)
  BY <1>3, <1>4 DEF Scannable, O
<1>6. ReadLiteral(s) = Scan(out, width)
  BY DEF ReadLiteral, LiteralOut, LiteralWidth, out, width
<1> QED BY <1>4, <1>5, <1>6 DEF out, width, n

(* The first code is read, and what follows as if it stood alone.          *)
LEMMA LiteralReads ==
  ASSUME NEW c \in Byte, NEW t \in Text
  PROVE  ReadLiteral(LiteralByte(c) \o t) = <<c>> \o ReadLiteral(t)
<1> DEFINE l == LiteralByte(c)
           k == Len(l)
           w == l \o t
           out == LiteralOut(w)
           width == LiteralWidth(w)
           out2 == LiteralOut(t)
           width2 == LiteralWidth(t)
<1>1. l \in Text /\ k \in Nat \ {0}
  BY LiteralByteTyped
<1>2. LiteralAt(w, 1) = [out |-> <<c>>, width |-> k]
  BY LiteralFirst
<1> HIDE DEF l
<1>3. /\ w \in Text /\ Len(t) \in Nat /\ Len(w) = Len(t) + k
      /\ DOMAIN t = 1 .. Len(t) /\ DOMAIN w = 1 .. Len(t) + k
  <2>1. l \in Seq(Byte) /\ t \in Seq(Byte)
    BY <1>1 DEF Text
  <2>2. /\ w \in Seq(Byte) /\ Len(t) \in Nat /\ Len(w) = Len(t) + Len(l)
        /\ DOMAIN t = 1 .. Len(t) /\ DOMAIN w = 1 .. Len(t) + Len(l)
    BY <2>1, After
  <2> QED BY <2>2 DEF Text
<1>4. \A i \in DOMAIN t : LiteralAt(w, i + k) = LiteralAt(t, i)
  BY <1>1, LiteralAfter
<1> HIDE DEF w, k
<1>5. ASSUME NEW i \in DOMAIN t PROVE i + k \in DOMAIN w
  BY <1>1, <1>3
<1>6. \A i \in DOMAIN t : out[i + k] = out2[i] /\ width[i + k] = width2[i]
  BY <1>4, <1>5 DEF LiteralOut, LiteralWidth
<1>7. 1 \in DOMAIN w
  BY <1>1, <1>3
<1>8. out[1] = <<c>> /\ width[1] = k
  BY <1>2, <1>7 DEF LiteralOut, LiteralWidth
<1>9. DOMAIN out2 = DOMAIN t
  BY DEF LiteralOut
<1> HIDE DEF out, width, out2, width2
<1>10. /\ Scannable(Int, out, width) /\ Len(out) = Len(w) /\ ReadLiteral(w) = Scan(out, width)
       /\ Scannable(Int, out2, width2) /\ Len(out2) = Len(t) /\ ReadLiteral(t) = Scan(out2, width2)
  BY <1>3, LiteralScans DEF out, width, out2, width2
<1>11. Len(out) = Len(out2) + k /\ \A i \in DOMAIN out2 : out[i + k] = out2[i] /\ width[i + k] = width2[i]
  BY <1>3, <1>6, <1>9, <1>10
<1>12. Scan(out, width) = out[1] \o Scan(out2, width2)
  <2> DEFINE I == Int
  <2>1. Scannable(I, out, width) /\ Scannable(I, out2, width2)
    BY <1>10
  <2>2. k \in Nat \ {0} /\ width[1] = k
    BY <1>1, <1>8
  <2> HIDE DEF I
  <2> QED BY <1>11, <2>1, <2>2, ScanFirst, SMTT(20)
<1>13. ReadLiteral(w) = <<c>> \o ReadLiteral(t)
  BY <1>8, <1>10, <1>12
<1> QED BY <1>13 DEF w, l

LEMMA LiteralIsText ==
  ASSUME NEW s \in Text PROVE ReadLiteral(CxxStringLiteral(s)) = s
<1> DEFINE code == [c \in Byte |-> LiteralByte(c)]
           T == {t \in Text : Encoded(code, t) \in Text /\ ReadLiteral(Encoded(code, t)) = t}
<1>0. code \in [Byte -> Seq(Byte)]
  BY LiteralByteTyped DEF Text
<1>1. \A c \in Byte : code[c] = LiteralByte(c)
  OBVIOUS
<1>2. \A t \in Text : CxxStringLiteral(t) = Encoded(code, t)
  <2> SUFFICES ASSUME NEW t \in Text PROVE CxxStringLiteral(t) = Encoded(code, t)
    OBVIOUS
  <2>1. \A i \in DOMAIN t : t[i] \in Byte
    BY DEF Text
  <2>2. [i \in DOMAIN t |-> LiteralByte(t[i])] = [i \in DOMAIN t |-> code[t[i]]]
    BY <1>1, <2>1
  <2> HIDE DEF code
  <2> QED BY <2>2 DEF CxxStringLiteral, Encoded
<1> HIDE DEF code
<1>3. <<>> \in T
  <2> DEFINE none == <<>>
  <2>1. none \in Text /\ Encoded(code, none) = none /\ Len(none) = 0
    BY EncodedNone, TextIs
  <2>2. ReadLiteral(none) = <<>>
    <3> HIDE DEF none
    <3> QED BY <2>1, LiteralScans, ScanNone
  <2> QED BY <2>1, <2>2
<1>4. ASSUME NEW t \in T \cap Seq(Byte), NEW c \in Byte PROVE <<c>> \o t \in T
  <2>0. t \in Seq(Byte)
    OBVIOUS
  <2>1. t \in Text /\ Encoded(code, t) \in Text /\ ReadLiteral(Encoded(code, t)) = t
    OBVIOUS
  <2> HIDE DEF T
  <2>2. Encoded(code, <<c>> \o t) = code[c] \o Encoded(code, t)
    BY <1>0, <2>0, EncodedFirst
  <2>3. code[c] = LiteralByte(c) /\ LiteralByte(c) \in Text
    BY <1>1, LiteralByteTyped
  <2> DEFINE e == Encoded(code, t)
             l == LiteralByte(c)
  <2>4. e \in Text /\ l \in Text /\ l \o e \in Text
    BY <2>1, <2>3, TextIs
  <2>5. ReadLiteral(l \o e) = <<c>> \o ReadLiteral(e)
    BY <2>4, LiteralReads
  <2> QED BY <2>1, <2>2, <2>3, <2>4, <2>5, TextIs DEF T
<1>5. Seq(Byte) \subseteq T
  <2> HIDE DEF T
  <2> QED BY <1>3, <1>4, SequencesByFirst
<1>6. s \in T
  <2> HIDE DEF T
  <2> QED BY <1>5 DEF Text
<1> QED BY <1>2, <1>6

(* main.cpp:210: whatever bytes a template or a public file has, those are *)
(* what the compiler reads from the generated C++.                         *)
THEOREM LiteralsAreBytes == Spec => []LiteralIsItsBytes
<1>1. FieldsOK => LiteralIsItsBytes
  BY TextsAreTexts, LiteralIsText DEF LiteralIsItsBytes
<1> QED BY <1>1, FieldsAreTexts, PTL

-----------------------------------------------------------------------------
(* A hexadecimal number in two characters.                                 *)
LEMMA HexValueType == \A c \in Byte : HexValue(c) \in -1 .. 15
  BY DEF HexValue, Byte

LEMMA CastType == \A v \in Int : Cast(v) \in Byte /\ (v \in 0 .. 255 => Cast(v) = v)
<1>1. \A v \in Int : v % 256 \in 0 .. 255 /\ (v \in 0 .. 255 => v % 256 = v)
  OBVIOUS
<1> QED BY <1>1 DEF Cast, Byte

HexStart(two) == SelectInSeq(two, LAMBDA c : c \notin Whitespace)

LEMMA HexStartIs ==
  ASSUME NEW a \in Byte, NEW b \in Byte
  PROVE  /\ HexStart(<<a, b>>) \in 0 .. 2
         /\ a \notin Whitespace => HexStart(<<a, b>>) = 1
<1> DEFINE two == <<a, b>>
           I == {i \in 1 .. Len(two) : two[i] \notin Whitespace}
<1>1. HexStart(two) = IF I # {} THEN Min(I) ELSE 0
  BY DEF HexStart, SelectInSeq
<1>2. I \in SUBSET (1 .. 2) /\ I \in SUBSET Nat /\ (a \notin Whitespace => 1 \in I)
  OBVIOUS
<1> HIDE DEF I, two
<1>3. I # {} => Min(I) \in I /\ \A y \in I : Min(I) <= y
  BY <1>2, MinIn
<1>4. ASSUME a \notin Whitespace PROVE I # {} /\ Min(I) = 1
  <2>1. 1 \in I
    BY <1>2, <1>4
  <2>2. Min(I) \in 1 .. 2 /\ Min(I) <= 1
    BY <1>2, <1>3, <2>1
  <2> QED BY <2>1, <2>2
<1>5. HexStart(two) \in 0 .. 2
  <2>1. I # {} => Min(I) \in 1 .. 2
    BY <1>2, <1>3
  <2> QED BY <1>1, <2>1
<1>6. a \notin Whitespace => HexStart(two) = 1
  BY <1>1, <1>4
<1> QED BY <1>5, <1>6 DEF two

HexFrom(two) ==
  LET sign == IF HexStart(two) = 0 THEN 0 ELSE two[HexStart(two)]
  IN  IF sign \in {43, 45} THEN HexStart(two) + 1 ELSE HexStart(two)

HexDigits(two) == {n \in 1 .. 2 : HexFrom(two) <= n /\ \A i \in HexFrom(two) .. n : IsHex(two[i])}

HexNumber(two) ==
  IF Cardinality(HexDigits(two)) = 2 THEN 16 * HexValue(two[1]) + HexValue(two[2])
                                     ELSE HexValue(two[HexFrom(two)])

LEMMA ReadHexIs ==
  ASSUME NEW two
  PROVE  ReadHex(two) =
           IF HexStart(two) = 0 \/ HexDigits(two) = {} \/ two \in {<<48, 88>>, <<48, 120>>} THEN NoByte
           ELSE Cast(IF (IF HexStart(two) = 0 THEN 0 ELSE two[HexStart(two)]) = 45
                     THEN -HexNumber(two) ELSE HexNumber(two))
  BY ChIs DEF ReadHex, HexStart, HexFrom, HexDigits, HexNumber

LEMMA ReadHexType ==
  ASSUME NEW a \in Byte, NEW b \in Byte
  PROVE  ReadHex(<<a, b>>) = NoByte \/ ReadHex(<<a, b>>) \in Byte
<1> DEFINE two == <<a, b>>
<1>1. \A i \in 1 .. 2 : two[i] \in Byte
  OBVIOUS
<1>2. HexStart(two) \in 0 .. 2
  BY HexStartIs
<1> HIDE DEF two
<1> SUFFICES ASSUME HexStart(two) # 0, HexDigits(two) # {}
             PROVE  ReadHex(two) = NoByte \/ ReadHex(two) \in Byte
  BY ReadHexIs DEF two
<1>3. HexFrom(two) \in 1 .. 2
  <2>1. HexFrom(two) \in 1 .. 3
    BY <1>2 DEF HexFrom
  <2>2. PICK n \in 1 .. 2 : HexFrom(two) <= n
    BY DEF HexDigits
  <2> QED BY <2>1, <2>2
<1>4. HexNumber(two) \in Int
  <2>1. HexValue(two[1]) \in Int /\ HexValue(two[2]) \in Int /\ HexValue(two[HexFrom(two)]) \in Int
    BY <1>1, <1>3, HexValueType
  <2> QED BY <2>1 DEF HexNumber
<1> DEFINE v == IF (IF HexStart(two) = 0 THEN 0 ELSE two[HexStart(two)]) = 45
                THEN -HexNumber(two) ELSE HexNumber(two)
<1>5. v \in Int
  BY <1>4
<1>6. ReadHex(two) = NoByte \/ ReadHex(two) = Cast(v)
  BY ReadHexIs
<1> HIDE DEF v
<1> QED BY <1>5, <1>6, CastType

LEMMA ReadHexDigits ==
  ASSUME NEW a \in Byte, NEW b \in Byte, HexValue(a) >= 0, HexValue(b) >= 0
  PROVE  ReadHex(<<a, b>>) = 16 * HexValue(a) + HexValue(b)
<1> DEFINE two == <<a, b>>
<1>1. two[1] = a /\ two[2] = b /\ (two \in {<<48, 88>>, <<48, 120>>} => b = 88 \/ b = 120)
  OBVIOUS
<1>2. a \notin Whitespace /\ a \notin {43, 45} /\ b # 88 /\ b # 120
  BY ChIs DEF HexValue, Whitespace, Byte
<1>3. HexStart(two) = 1
  BY <1>2, HexStartIs
<1> HIDE DEF two
<1>4. HexFrom(two) = 1
  BY <1>1, <1>2, <1>3 DEF HexFrom
<1>5. HexDigits(two) = {1, 2}
  <2>1. \A i \in 1 .. 2 : IsHex(two[i])
    BY <1>1 DEF IsHex
  <2>2. \A n \in 1 .. 2 : 1 <= n /\ \A i \in 1 .. n : i \in 1 .. 2
    OBVIOUS
  <2>3. HexDigits(two) = 1 .. 2
    BY <1>4, <2>1, <2>2 DEF HexDigits
  <2> QED BY <2>3
<1>6. Cardinality(HexDigits(two)) = 2
  <2>1. HexDigits(two) = 1 .. 2
    BY <1>5
  <2> DEFINE x == 1
             y == 2
  <2>2. x \in Int /\ y \in Int
    OBVIOUS
  <2> HIDE DEF x, y
  <2>3. Cardinality(x .. y) = IF x > y THEN 0 ELSE y - x + 1
    BY <2>2, FS_Interval
  <2> QED BY <2>1, <2>3 DEF x, y
<1>7. HexNumber(two) = 16 * HexValue(a) + HexValue(b)
  BY <1>1, <1>6 DEF HexNumber
<1>8. HexNumber(two) \in 0 .. 255
  <2>1. HexValue(a) \in 0 .. 15 /\ HexValue(b) \in 0 .. 15
    BY HexValueType
  <2> QED BY <1>7, <2>1
<1>9. ReadHex(two) = Cast(HexNumber(two))
  <2>1. HexStart(two) # 0 /\ HexDigits(two) # {} /\ two \notin {<<48, 88>>, <<48, 120>>}
        /\ (IF HexStart(two) = 0 THEN 0 ELSE two[HexStart(two)]) # 45
    BY <1>1, <1>2, <1>3, <1>5
  <2> QED BY <2>1, ReadHexIs
<1> QED BY <1>7, <1>8, <1>9, CastType DEF two

(* What is read at a position.                                             *)
LEMMA DecodeAtIs ==
  ASSUME NEW s, NEW i
  PROVE  DecodeAt(s, i) = IF DecodedByte(s, i) # NoByte THEN [out |-> <<DecodedByte(s, i)>>, width |-> 3]
                          ELSE IF s[i] = 43 THEN [out |-> <<32>>, width |-> 1]
                          ELSE [out |-> <<s[i]>>, width |-> 1]
<1> DEFINE b == DecodedByte(s, i)
<1>1. DecodeAt(s, i) = CASE b # NoByte -> [out |-> <<b>>, width |-> 3]
                         [] b = NoByte /\ s[i] = 43 -> [out |-> <<32>>, width |-> 1]
                         [] b = NoByte /\ s[i] # 43 -> [out |-> <<s[i]>>, width |-> 1]
  BY ChIs DEF DecodeAt, Decoded
<1> HIDE DEF b
<1>2. CASE b # NoByte
  BY <1>1, <1>2 DEF b
<1>3. CASE b = NoByte /\ s[i] = 43
  BY <1>1, <1>3 DEF b
<1>4. CASE b = NoByte /\ s[i] # 43
  BY <1>1, <1>4 DEF b
<1> QED BY <1>2, <1>3, <1>4

LEMMA DecodeTyped ==
  ASSUME NEW s \in Text, NEW i \in DOMAIN s
  PROVE  DecodeAt(s, i).out \in Seq(Byte) /\ DecodeAt(s, i).width \in Nat \ {0}
<1> DEFINE b == DecodedByte(s, i)
           n == Len(s)
<1>1. n \in Nat /\ i \in 1 .. n /\ \A k \in 1 .. n : s[k] \in Byte
  BY DEF Text
<1> HIDE DEF n
<1>2. b = NoByte \/ b \in Byte
  <2>1. CASE s[i] = 37 /\ i + 2 <= n
    <3> DEFINE x == s[i + 1]
               y == s[i + 2]
    <3>1. x \in Byte /\ y \in Byte
      BY <1>1, <2>1
    <3>2. b = ReadHex(<<x, y>>)
      BY <2>1, ChIs DEF DecodedByte, n
    <3> HIDE DEF x, y, b
    <3> QED BY <3>1, <3>2, ReadHexType
  <2>2. CASE ~(s[i] = 37 /\ i + 2 <= n)
    BY <2>2, ChIs DEF DecodedByte, n
  <2> QED BY <2>1, <2>2
<1>3. 32 \in Byte /\ s[i] \in Byte
  BY <1>1 DEF Byte
<1> HIDE DEF b
<1>4. \A c \in Byte : <<c>> \in Seq(Byte)
  OBVIOUS
<1>5. CASE b # NoByte
  <2>1. DecodeAt(s, i) = [out |-> <<b>>, width |-> 3]
    BY <1>5, DecodeAtIs DEF b
  <2> QED BY <1>2, <1>4, <1>5, <2>1
<1>6. CASE b = NoByte
  <2>1. DecodeAt(s, i) = [out |-> <<32>>, width |-> 1] \/ DecodeAt(s, i) = [out |-> <<s[i]>>, width |-> 1]
    BY <1>6, DecodeAtIs DEF b
  <2>2. \A c \in Byte : LET r == [out |-> <<c>>, width |-> 1] IN r.out \in Seq(Byte) /\ r.width \in Nat \ {0}
    BY <1>4
  <2>3. \E c \in Byte : DecodeAt(s, i) = [out |-> <<c>>, width |-> 1]
    BY <1>3, <2>1
  <2> QED BY <2>2, <2>3
<1> QED BY <1>5, <1>6

LEMMA DecodeAfter ==
  ASSUME NEW a \in Text, NEW t \in Text, NEW i \in DOMAIN t
  PROVE  DecodeAt(a \o t, i + Len(a)) = DecodeAt(t, i)
<1> DEFINE w == a \o t
           m == Len(a)
           n == Len(t)
<1>1. /\ m \in Nat /\ n \in Nat /\ Len(w) = n + m /\ i \in 1 .. n
      /\ \A k \in 1 .. n : w[k + m] = t[k]
  <2>1. a \in Seq(Byte) /\ t \in Seq(Byte)
    BY DEF Text
  <2> QED BY <2>1, After
<1> HIDE DEF w, m
<1>2. w[i + m] = t[i]
  BY <1>1
<1> HIDE DEF n
<1>3. (i + m) + 2 <= Len(w) <=> i + 2 <= n
  BY <1>1
<1>4. ASSUME i + 2 <= n PROVE w[(i + m) + 1] = t[i + 1] /\ w[(i + m) + 2] = t[i + 2]
  <2>1. i + 1 \in 1 .. n /\ i + 2 \in 1 .. n /\ (i + 1) + m = (i + m) + 1 /\ (i + 2) + m = (i + m) + 2
    <3>1. i \in Nat /\ 1 <= i /\ m \in Nat /\ n \in Nat
      BY <1>1
    <3> QED BY <1>4, <3>1
  <2>2. w[(i + 1) + m] = t[i + 1] /\ w[(i + 2) + m] = t[i + 2]
    BY <1>1, <2>1
  <2> QED BY <2>1, <2>2
<1>5. DecodedByte(w, i + m) = DecodedByte(t, i)
  BY <1>2, <1>3, <1>4 DEF DecodedByte, n
<1>6. DecodeAt(w, i + m) = DecodeAt(t, i)
  BY <1>2, <1>5, DecodeAtIs
<1> QED BY <1>6 DEF w, m

DecodeOut(s) == [i \in DOMAIN s |-> DecodeAt(s, i).out]

DecodeWidth(s) == [i \in DOMAIN s |-> DecodeAt(s, i).width]

LEMMA DecodeScans ==
  ASSUME NEW s \in Text
  PROVE  /\ Scannable(Byte, DecodeOut(s), DecodeWidth(s)) /\ Len(DecodeOut(s)) = Len(s)
         /\ UrlDecode(s) = Scan(DecodeOut(s), DecodeWidth(s))
<1> DEFINE n == Len(s)
           O == Seq(Byte)
           out == DecodeOut(s)
           width == DecodeWidth(s)
<1>1. n \in Nat /\ DOMAIN s = 1 .. n
  BY DEF Text
<1>2. \A i \in DOMAIN s : DecodeAt(s, i).out \in O /\ DecodeAt(s, i).width \in Nat \ {0}
  BY DecodeTyped
<1> HIDE DEF n, O
<1>3. /\ out \in [1 .. n -> O] /\ DOMAIN out = 1 .. n
      /\ \A i \in 1 .. n : width[i] \in Nat \ {0}
  BY <1>1, <1>2 DEF DecodeOut, DecodeWidth
<1> HIDE DEF out, width
<1>4. out \in Seq(O) /\ Len(out) = n
  BY <1>1, <1>3
<1>5. Scannable(Byte, out, width)
  BY <1>3, <1>4 DEF Scannable, O
<1>6. UrlDecode(s) = Scan(out, width)
  BY DEF UrlDecode, DecodeOut, DecodeWidth, out, width
<1> QED BY <1>4, <1>5, <1>6 DEF out, width, n

LEMMA DecodeType == \A s \in Text : UrlDecode(s) \in Text
  BY DecodeScans, ScanType DEF Text

LEMMA DecodeNone == UrlDecode(<<>>) = <<>>
<1> DEFINE none == <<>>
<1>1. none \in Text /\ Len(none) = 0
  BY TextIs
<1>2. UrlDecode(none) = <<>>
  <2> HIDE DEF none
  <2> QED BY <1>1, DecodeScans, ScanNone
<1> QED BY <1>2

-----------------------------------------------------------------------------
(* What a browser makes of a byte, and its code's bytes.                   *)
Unreserved == Alnum \cup {42, 45, 46, 95}

UpperHex(d) == IF d < 10 THEN 48 + d ELSE 55 + d

LEMMA UpperHexIs ==
  ASSUME NEW d \in 0 .. 15
  PROVE  UpperHex(d) \in Alnum /\ UpperHex(d) \in Byte /\ HexValue(UpperHex(d)) = d
<1>1. UpperHex(d) \in Alnum /\ UpperHex(d) \in Byte
  BY DEF UpperHex, Alnum, Byte
<1>2. ASSUME d < 10 PROVE HexValue(UpperHex(d)) = d
  <2>1. UpperHex(d) = 48 + d /\ 48 + d \in 48 .. 57 /\ (48 + d) - 48 = d
    BY <1>2 DEF UpperHex
  <2> QED BY <2>1 DEF HexValue
<1>3. ASSUME ~(d < 10) PROVE HexValue(UpperHex(d)) = d
  <2>1. UpperHex(d) = 55 + d /\ 55 + d \in 65 .. 70 /\ 55 + d \notin 48 .. 57 /\ (55 + d) - 55 = d
    BY <1>3 DEF UpperHex
  <2> QED BY <2>1 DEF HexValue
<1> QED BY <1>1, <1>2, <1>3

LEMMA UrlCodeIs ==
  ASSUME NEW c \in Byte
  PROVE  \/ c \in Unreserved /\ UrlCode(c) = <<c>>
         \/ c = 32 /\ UrlCode(c) = <<43>>
         \/ UrlCode(c) = <<37, UpperHex(c \div 16), UpperHex(c % 16)>>
<1>1. CASE c \in Unreserved
  BY <1>1, ChIs DEF UrlCode, Unreserved
<1>2. CASE c = 32
  <2>1. c \notin Unreserved
    BY <1>2 DEF Unreserved, Alnum
  <2> QED BY <1>2, <2>1, ChIs DEF UrlCode, Unreserved
<1>3. CASE c \notin Unreserved /\ c # 32
  BY <1>3, ChIs DEF UrlCode, Unreserved, UpperHex
<1> QED BY <1>1, <1>2, <1>3

LEMMA UrlCodeTyped ==
  ASSUME NEW c \in Byte
  PROVE  /\ UrlCode(c) \in Text /\ Len(UrlCode(c)) \in Nat \ {0}
         /\ UrlCode(c) \in Seq(Unreserved \cup {37, 43})
<1> DEFINE x == UpperHex(c \div 16)
           y == UpperHex(c % 16)
           U == Unreserved \cup {37, 43}
           l == UrlCode(c)
<1>1. x \in Byte /\ y \in Byte /\ x \in U /\ y \in U
  <2>1. c \div 16 \in 0 .. 15 /\ c % 16 \in 0 .. 15
    BY DEF Byte
  <2> QED BY <2>1, UpperHexIs DEF Unreserved
<1>2. 37 \in Byte /\ 43 \in Byte /\ 37 \in U /\ 43 \in U
  BY DEF Byte
<1>3. (c \in Unreserved /\ l = <<c>>) \/ l = <<43>> \/ l = <<37, x, y>>
  BY UrlCodeIs
<1>4. c \in Unreserved => c \in U
  OBVIOUS
<1> HIDE DEF x, y, U, l
<1>5. \A C : /\ 37 \in C /\ 43 \in C /\ x \in C /\ y \in C
             => /\ <<37, x, y>> \in Seq(C) /\ Len(<<37, x, y>>) = 3
                /\ <<43>> \in Seq(C) /\ Len(<<43>>) = 1
  OBVIOUS
<1>6. \A C : c \in C => <<c>> \in Seq(C) /\ Len(<<c>>) = 1
  OBVIOUS
<1>7. ASSUME l = <<37, x, y>> PROVE l \in Seq(Byte) /\ Len(l) \in Nat \ {0} /\ l \in Seq(U)
  <2>1. <<37, x, y>> \in Seq(Byte) /\ Len(<<37, x, y>>) = 3 /\ <<37, x, y>> \in Seq(U)
    BY <1>1, <1>2, <1>5
  <2> QED BY <1>7, <2>1
<1>8. ASSUME l = << 43 >> PROVE l \in Seq(Byte) /\ Len(l) \in Nat \ {0} /\ l \in Seq(U)
  <2>1. <<43>> \in Seq(Byte) /\ Len(<<43>>) = 1 /\ <<43>> \in Seq(U)
    BY <1>1, <1>2, <1>5
  <2> QED BY <1>8, <2>1
<1>9. ASSUME c \in Unreserved, l = <<c>> PROVE l \in Seq(Byte) /\ Len(l) \in Nat \ {0} /\ l \in Seq(U)
  <2>1. <<c>> \in Seq(Byte) /\ Len(<<c>>) = 1 /\ <<c>> \in Seq(U)
    BY <1>4, <1>6, <1>9
  <2> QED BY <1>9, <2>1
<1>10. l \in Text /\ Len(l) \in Nat \ {0} /\ l \in Seq(U)
  BY <1>3, <1>7, <1>8, <1>9 DEF Text
<1> QED BY <1>10 DEF l, U

LEMMA DecodeFirst ==
  ASSUME NEW c \in Byte, NEW t \in Text
  PROVE  DecodeAt(UrlCode(c) \o t, 1) = [out |-> <<c>>, width |-> Len(UrlCode(c))]
<1> DEFINE l == UrlCode(c)
           w == l \o t
           x == UpperHex(c \div 16)
           y == UpperHex(c % 16)
<1>1. l \in Text /\ Len(l) \in Nat \ {0}
  BY UrlCodeTyped
<1>2. (c \in Unreserved /\ l = <<c>>) \/ (c = 32 /\ l = <<43>>) \/ l = <<37, x, y>>
  BY UrlCodeIs
<1>3. x \in Byte /\ y \in Byte /\ HexValue(x) >= 0 /\ HexValue(y) >= 0 /\ 16 * HexValue(x) + HexValue(y) = c
  <2>1. c \in 0 .. 255 /\ c \div 16 \in 0 .. 15 /\ c % 16 \in 0 .. 15 /\ c = (16 * (c \div 16)) + (c % 16)
    BY DEF Byte
  <2>2. HexValue(x) = c \div 16 /\ HexValue(y) = c % 16 /\ x \in Byte /\ y \in Byte
    BY <2>1, UpperHexIs
  <2> HIDE DEF x, y
  <2> QED BY <2>1, <2>2
<1> HIDE DEF l, x, y
<1>4. Len(w) \in Nat /\ Len(w) >= Len(l) /\ \A i \in 1 .. Len(l) : w[i] = l[i]
  <2>1. l \in Seq(Byte) /\ t \in Seq(Byte)
    BY <1>1 DEF Text
  <2>2. /\ Len(l) \in Nat /\ Len(t) \in Nat /\ Len(w) = Len(t) + Len(l)
        /\ \A i \in 1 .. Len(l) : w[i] = l[i]
    BY <2>1, After
  <2> HIDE DEF w
  <2> QED BY <2>2
<1> HIDE DEF w
<1>5. CASE c \in Unreserved /\ l = <<c>>
  <2>1. Len(l) = 1 /\ l[1] = c /\ w[1] = l[1]
    BY <1>4, <1>5
  <2>2. c # 37 /\ c # 43
    BY <1>5 DEF Unreserved, Alnum
  <2>3. DecodedByte(w, 1) = NoByte
    BY <2>1, <2>2, ChIs DEF DecodedByte
  <2> QED BY <2>1, <2>2, <2>3, DecodeAtIs DEF l, w
<1>6. CASE c = 32 /\ l = <<43>>
  <2>1. Len(l) = 1 /\ l[1] = 43 /\ w[1] = l[1]
    BY <1>4, <1>6
  <2>2. DecodedByte(w, 1) = NoByte
    BY <2>1, ChIs DEF DecodedByte
  <2> QED BY <1>6, <2>1, <2>2, DecodeAtIs DEF l, w
<1>7. CASE l = <<37, x, y>>
  <2>1. Len(l) = 3 /\ l[1] = 37 /\ l[2] = x /\ l[3] = y
    BY <1>7
  <2>2. w[1] = 37 /\ w[1 + 1] = x /\ w[1 + 2] = y /\ 1 + 2 <= Len(w)
    BY <1>4, <2>1
  <2>3. DecodedByte(w, 1) = c
    BY <1>3, <2>2, ReadHexDigits, ChIs DEF DecodedByte
  <2>4. c # NoByte
    BY DEF NoByte, Byte
  <2>5. DecodeAt(w, 1) = [out |-> <<c>>, width |-> 3]
    BY <2>3, <2>4, DecodeAtIs
  <2> QED BY <2>1, <2>5 DEF l, w
<1> QED BY <1>2, <1>5, <1>6, <1>7

(* The code of a byte is decoded, and what follows as if it stood alone.   *)
LEMMA DecodeReads ==
  ASSUME NEW c \in Byte, NEW t \in Text
  PROVE  UrlDecode(UrlCode(c) \o t) = <<c>> \o UrlDecode(t)
<1> DEFINE l == UrlCode(c)
           k == Len(l)
           w == l \o t
           out == DecodeOut(w)
           width == DecodeWidth(w)
           out2 == DecodeOut(t)
           width2 == DecodeWidth(t)
<1>1. l \in Text /\ k \in Nat \ {0}
  BY UrlCodeTyped
<1>2. DecodeAt(w, 1) = [out |-> <<c>>, width |-> k]
  BY DecodeFirst
<1> HIDE DEF l
<1>3. /\ w \in Text /\ Len(t) \in Nat /\ Len(w) = Len(t) + k
      /\ DOMAIN t = 1 .. Len(t) /\ DOMAIN w = 1 .. Len(t) + k
  <2>1. l \in Seq(Byte) /\ t \in Seq(Byte)
    BY <1>1 DEF Text
  <2>2. /\ w \in Seq(Byte) /\ Len(t) \in Nat /\ Len(w) = Len(t) + Len(l)
        /\ DOMAIN t = 1 .. Len(t) /\ DOMAIN w = 1 .. Len(t) + Len(l)
    BY <2>1, After
  <2> QED BY <2>2 DEF Text
<1>4. \A i \in DOMAIN t : DecodeAt(w, i + k) = DecodeAt(t, i)
  BY <1>1, DecodeAfter
<1> HIDE DEF w, k
<1>5. ASSUME NEW i \in DOMAIN t PROVE i + k \in DOMAIN w
  BY <1>1, <1>3
<1>6. \A i \in DOMAIN t : out[i + k] = out2[i] /\ width[i + k] = width2[i]
  BY <1>4, <1>5 DEF DecodeOut, DecodeWidth
<1>7. 1 \in DOMAIN w
  BY <1>1, <1>3
<1>8. out[1] = <<c>> /\ width[1] = k
  BY <1>2, <1>7 DEF DecodeOut, DecodeWidth
<1>9. DOMAIN out2 = DOMAIN t
  BY DEF DecodeOut
<1> HIDE DEF out, width, out2, width2
<1>10. /\ Scannable(Byte, out, width) /\ Len(out) = Len(w) /\ UrlDecode(w) = Scan(out, width)
       /\ Scannable(Byte, out2, width2) /\ Len(out2) = Len(t) /\ UrlDecode(t) = Scan(out2, width2)
  BY <1>3, DecodeScans DEF out, width, out2, width2
<1>11. Len(out) = Len(out2) + k /\ \A i \in DOMAIN out2 : out[i + k] = out2[i] /\ width[i + k] = width2[i]
  BY <1>3, <1>6, <1>9, <1>10
<1>12. Scan(out, width) = out[1] \o Scan(out2, width2)
  <2>1. Scannable(Byte, out, width) /\ Scannable(Byte, out2, width2)
    BY <1>10
  <2>2. k \in Nat \ {0} /\ width[1] = k
    BY <1>1, <1>8
  <2> QED BY <1>11, <2>1, <2>2, ScanFirst, SMTT(20)
<1>13. UrlDecode(w) = <<c>> \o UrlDecode(t)
  BY <1>8, <1>10, <1>12
<1> QED BY <1>13 DEF w, l

UrlByte == Unreserved \cup {37, 43}

(* What a browser encodes is decoded, and holds no separator and no blank. *)
LEMMA UrlIsRead ==
  ASSUME NEW s \in Text
  PROVE  UrlEncode(s) \in Text /\ UrlEncode(s) \in Seq(UrlByte) /\ UrlDecode(UrlEncode(s)) = s
<1> DEFINE code == [c \in Byte |-> UrlCode(c)]
           T == {t \in Text : Encoded(code, t) \in Text /\ UrlDecode(Encoded(code, t)) = t}
<1>1. code \in [Byte -> Seq(Byte)]
  BY UrlCodeTyped DEF Text
<1>2. code \in [Byte -> Seq(UrlByte)]
  BY UrlCodeTyped DEF UrlByte
<1>3. \A c \in Byte : code[c] = UrlCode(c)
  OBVIOUS
<1>4. UrlEncode(s) = Encoded(code, s)
  <2>1. \A i \in DOMAIN s : s[i] \in Byte
    BY DEF Text
  <2>2. [i \in DOMAIN s |-> UrlCode(s[i])] = [i \in DOMAIN s |-> code[s[i]]]
    BY <1>3, <2>1
  <2> HIDE DEF code
  <2> QED BY <2>2 DEF UrlEncode, Encoded
<1> HIDE DEF code
<1>5. <<>> \in T
  <2> DEFINE none == <<>>
  <2>1. none \in Text /\ Encoded(code, none) = none
    BY EncodedNone, TextIs
  <2> QED BY <2>1, DecodeNone
<1>6. ASSUME NEW t \in T \cap Seq(Byte), NEW c \in Byte PROVE <<c>> \o t \in T
  <2>0. t \in Seq(Byte)
    OBVIOUS
  <2>1. t \in Text /\ Encoded(code, t) \in Text /\ UrlDecode(Encoded(code, t)) = t
    OBVIOUS
  <2> HIDE DEF T
  <2>2. Encoded(code, <<c>> \o t) = code[c] \o Encoded(code, t)
    BY <1>1, <2>0, EncodedFirst
  <2>3. code[c] = UrlCode(c) /\ UrlCode(c) \in Text
    BY <1>3, UrlCodeTyped
  <2> DEFINE e == Encoded(code, t)
             l == UrlCode(c)
  <2>4. e \in Text /\ l \in Text /\ l \o e \in Text
    BY <2>1, <2>3, TextIs
  <2>5. UrlDecode(l \o e) = <<c>> \o UrlDecode(e)
    BY <2>4, DecodeReads
  <2> QED BY <2>1, <2>2, <2>3, <2>4, <2>5, TextIs DEF T
<1>7. Seq(Byte) \subseteq T
  <2> HIDE DEF T
  <2> QED BY <1>5, <1>6, SequencesByFirst
<1>8. s \in Seq(Byte)
  BY DEF Text
<1>9. Encoded(code, s) \in Text /\ UrlDecode(Encoded(code, s)) = s
  BY <1>7, <1>8
<1>10. Encoded(code, s) \in Seq(UrlByte)
  BY <1>2, <1>8, Coded
<1> QED BY <1>4, <1>9, <1>10

-----------------------------------------------------------------------------
(* What is flattened, from each position on.                               *)
LEMMA FlattenMeans ==
  ASSUME NEW B, NEW ss \in Seq(Seq(B))
  PROVE  \E g : /\ g \in [Nat -> Seq(B)] /\ FlattenSeq(ss) = g[1]
                /\ \A i \in Nat \ {0} : g[i] = IF i \in DOMAIN ss THEN ss[i] \o g[i + 1] ELSE <<>>
<1> DEFINE n == Len(ss)
           D == Seq(B)
           tail(i) == SubSeq(ss, i, n)
           g == [i \in Nat |-> IF i = 0 THEN <<>> ELSE FlattenSeq(tail(i))]
<1>1. n \in Nat /\ DOMAIN ss = 1 .. n /\ ss \in Seq(D)
  OBVIOUS
<1>2. ASSUME NEW i \in Nat \ {0} PROVE tail(i) \in Seq(D)
  <2> HIDE DEF D
  <2>1. i \in Int /\ n \in Int /\ \A k \in i .. n : ss[k] \in D
    BY <1>1
  <2> QED BY <2>1, SubSeqProperties
<1>3. ASSUME NEW i \in 1 .. n PROVE ss[i] \in D /\ tail(i) = << ss[i] >> \o tail(i + 1)
  <2>1. ss[i] \in D /\ n \in 1 .. Len(ss) /\ i \in 1 .. n
    BY <1>1
  <2> HIDE DEF D
  <2> QED BY <1>1, <2>1, SubSeqRecursiveFirst
<1>4. ASSUME NEW i \in Nat, i > n PROVE tail(i) = <<>>
  BY <1>1, <1>4, SubSeqEmpty
<1>5. tail(1) = ss
  <2> HIDE DEF D
  <2> QED BY <1>1, SubSeqFull
<1> HIDE DEF tail, n
<1>6. \A i \in Nat \ {0} : FlattenSeq(tail(i)) \in D
  BY <1>2, FlattenType
<1>7. g \in [Nat -> D] /\ g[1] = FlattenSeq(ss)
  BY <1>5, <1>6
<1>8. ASSUME NEW i \in Nat \ {0} PROVE g[i] = IF i \in DOMAIN ss THEN ss[i] \o g[i + 1] ELSE <<>>
  <2>0. i + 1 \in Nat \ {0} /\ g[i] = FlattenSeq(tail(i))
    OBVIOUS
  <2>1. g[i + 1] = FlattenSeq(tail(i + 1))
    BY <2>0
  <2> HIDE DEF g
  <2>2. CASE i \in DOMAIN ss
    <3>1. ss[i] \in Seq(B) /\ tail(i) = << ss[i] >> \o tail(i + 1) /\ tail(i + 1) \in Seq(Seq(B))
      BY <1>1, <1>2, <1>3, <2>0, <2>2
    <3>2. FlattenSeq(<< ss[i] >> \o tail(i + 1)) = ss[i] \o FlattenSeq(tail(i + 1))
      BY <3>1, FlattenFirst
    <3> QED BY <2>0, <2>1, <2>2, <3>1, <3>2
  <2>3. CASE i \notin DOMAIN ss
    <3>1. i > n
      BY <1>1, <2>3
    <3>2. tail(i) = <<>>
      BY <1>4, <3>1
    <3> QED BY <2>0, <2>3, <3>2, FlattenNone
  <2> QED BY <2>2, <2>3
<1> HIDE DEF g
<1> QED BY <1>7, <1>8 DEF D

(* A scan that starts nowhere in Inside and one byte after another: they   *)
(* write the same exactly when no position is bad, where they begin with   *)
(* different bytes.                                                        *)
Beside(i, out, width, ss, Inside, Bad) ==
  /\ out[i] = ss[i] /\ i \notin Bad /\ i + width[i] \notin Inside
  /\ \/ width[i] = 1
     \/ /\ width[i] = 3 /\ i + 2 \in DOMAIN ss
        /\ \A j \in {i + 1, i + 2} : ss[j] = <<>> /\ j \notin Bad

Apart(i, out, ss) == out[i] # <<>> /\ ss[i] # <<>> /\ out[i][1] # ss[i][1]

LEMMA SameScan ==
  ASSUME NEW B, NEW out, NEW width, Scannable(B, out, width),
         NEW ss \in Seq(Seq(B)), Len(ss) = Len(out),
         NEW Inside, 1 \notin Inside, NEW Bad \in SUBSET DOMAIN ss, Bad \cap Inside = {},
         \A i \in DOMAIN ss \ Inside :
           IF i \in Bad THEN Apart(i, out, ss) ELSE Beside(i, out, width, ss, Inside, Bad)
  PROVE  Scan(out, width) = FlattenSeq(ss) <=> Bad = {}
<1>1. PICK f : Written(f, B, out, width) /\ Scan(out, width) = f[1]
  BY ScanMeans
<1>2. PICK g : /\ g \in [Nat -> Seq(B)] /\ FlattenSeq(ss) = g[1]
               /\ \A i \in Nat \ {0} : g[i] = IF i \in DOMAIN ss THEN ss[i] \o g[i + 1] ELSE <<>>
  BY FlattenMeans
<1> DEFINE n == Len(ss)
           From(i) == {j \in Bad : i <= j}
           Same(i) == f[i] = g[i] <=> From(i) = {}
           E == {k \in Nat : \A i \in Nat \ {0} : i + k > n /\ i \notin Inside => Same(i)}
<1>3. /\ n \in Nat /\ DOMAIN ss = 1 .. n /\ DOMAIN out = 1 .. n /\ Bad \in SUBSET (1 .. n)
      /\ \A i \in 1 .. n : out[i] \in Seq(B) /\ ss[i] \in Seq(B)
  BY DEF Scannable
<1>4. \A i \in 1 .. n : f[i] = out[i] \o f[i + width[i]] /\ g[i] = ss[i] \o g[i + 1]
  <2>1. \A i \in 1 .. n : i \in Nat /\ i \in Nat \ {0} /\ i \in DOMAIN out /\ i \in DOMAIN ss
    BY <1>3
  <2> QED BY <1>1, <1>2, <2>1 DEF Written
<1>5. \A i \in Nat : f[i] \in Seq(B) /\ g[i] \in Seq(B)
  BY <1>1, <1>2 DEF Written
<1> HIDE DEF n
<1>6. ASSUME NEW i \in Nat \ {0}, i > n PROVE Same(i)
  <2>1. i \in Nat /\ i \notin DOMAIN out /\ i \notin DOMAIN ss /\ From(i) = {}
    BY <1>3, <1>6
  <2>2. f[i] = <<>> /\ g[i] = <<>>
    BY <1>1, <1>2, <2>1 DEF Written
  <2> QED BY <2>1, <2>2
<1>7. ASSUME NEW i \in 1 .. n, i \in Bad, i \notin Inside PROVE Same(i)
  <2>1. out[i] # <<>> /\ ss[i] # <<>> /\ out[i][1] # ss[i][1]
    BY <1>3, <1>7 DEF Apart
  <2>2. \A s, t \in Seq(B) : s # <<>> => (s \o t)[1] = s[1]
    OBVIOUS
  <2>3. i + width[i] \in Nat /\ i + 1 \in Nat /\ i \in From(i)
    <3>1. width[i] \in Nat
      BY <1>3 DEF Scannable
    <3> QED BY <1>3, <1>7, <3>1
  <2>4. f[i] = out[i] \o f[i + width[i]] /\ g[i] = ss[i] \o g[i + 1]
    BY <1>4
  <2>5. /\ out[i] \in Seq(B) /\ f[i + width[i]] \in Seq(B)
        /\ ss[i] \in Seq(B) /\ g[i + 1] \in Seq(B)
    BY <1>3, <1>5, <2>3
  <2>6. f[i][1] = out[i][1] /\ g[i][1] = ss[i][1]
    BY <2>1, <2>2, <2>4, <2>5
  <2>7. f[i] # g[i]
    BY <2>1, <2>6
  <2> QED BY <2>3, <2>7
<1>8. ASSUME NEW i \in 1 .. n, i \notin Bad, i \notin Inside
      PROVE  LET j == i + width[i]
             IN  j \in Nat /\ i < j /\ j \notin Inside /\ (Same(j) => Same(i))
  <2> DEFINE j == i + width[i]
  <2>1. Beside(i, out, width, ss, Inside, Bad)
    BY <1>3, <1>8
  <2>2. j \in Nat /\ i < j /\ j \notin Inside /\ out[i] = ss[i]
    <3>1. width[i] \in Nat \ {0}
      BY <1>3 DEF Scannable
    <3>2. out[i] = ss[i] /\ i + width[i] \notin Inside
      BY <2>1 DEF Beside
    <3> QED BY <1>3, <3>1, <3>2
  <2>3. g[i] = ss[i] \o g[j] /\ From(i) = From(j)
    <3>1. CASE width[i] = 1
      <4>1. j = i + 1
        BY <3>1
      <4>2. From(i) = From(j)
        BY <1>3, <1>8, <4>1
      <4> QED BY <1>4, <4>1, <4>2
    <3>2. CASE /\ width[i] = 3 /\ i + 2 \in DOMAIN ss
               /\ \A k \in {i + 1, i + 2} : ss[k] = <<>> /\ k \notin Bad
      <4>1. j = i + 3 /\ i + 1 \in 1 .. n /\ i + 2 \in 1 .. n /\ (i + 1) + 1 = i + 2 /\ (i + 2) + 1 = i + 3
        BY <1>3, <3>2
      <4>2. g[i + 1] = <<>> \o g[i + 2] /\ g[i + 2] = <<>> \o g[i + 3]
        BY <1>4, <3>2, <4>1
      <4>3. g[i + 2] \in Seq(B) /\ g[i + 3] \in Seq(B)
        BY <1>5, <4>1
      <4>4. \A s \in Seq(B) : <<>> \o s = s
        OBVIOUS
      <4>5. g[i + 1] = g[i + 3]
        BY <4>2, <4>3, <4>4
      <4>6. ASSUME NEW k \in Bad, i <= k PROVE i + 3 <= k
        <5>1. k \in Nat /\ i \in Nat
          BY <1>3
        <5>2. k # i /\ k # i + 1 /\ k # i + 2
          BY <1>8, <3>2
        <5> QED BY <4>6, <5>1, <5>2
      <4>7. From(i) = From(j)
        BY <1>3, <4>1, <4>6
      <4> QED BY <1>4, <4>1, <4>5, <4>7
    <3> QED BY <2>1, <3>1, <3>2 DEF Beside
  <2>4. f[i] = ss[i] \o f[j]
    BY <1>4, <2>2
  <2>5. f[j] \in Seq(B) /\ g[j] \in Seq(B) /\ ss[i] \in Seq(B)
    BY <1>3, <1>5, <2>2
  <2>6. \A r, s, t \in Seq(B) : r \o s = r \o t => s = t
    BY ConcatSimplifications
  <2> HIDE DEF j
  <2>7. f[i] = g[i] <=> f[j] = g[j]
    BY <2>3, <2>4, <2>5, <2>6
  <2>8. Same(j) => Same(i)
    BY <2>3, <2>7
  <2> QED BY <2>2, <2>8 DEF j
<1> HIDE DEF Same
<1>9. 0 \in E
  BY <1>6
<1>10. ASSUME NEW k \in E PROVE k + 1 \in E
  <2>1. k \in Nat /\ k + 1 \in Nat /\ \A i \in Nat \ {0} : i + k > n /\ i \notin Inside => Same(i)
    OBVIOUS
  <2> HIDE DEF E
  <2>2. ASSUME NEW i \in Nat \ {0}, i + (k + 1) > n, i \notin Inside PROVE Same(i)
    <3>1. CASE i > n
      BY <1>6, <3>1
    <3>2. CASE i <= n /\ i \in Bad
      BY <1>7, <2>2, <3>2
    <3>3. CASE i <= n /\ i \notin Bad
      <4> DEFINE j == i + width[i]
      <4>1. i \in 1 .. n
        BY <1>3, <3>3
      <4>2. j \in Nat /\ i < j /\ j \notin Inside /\ (Same(j) => Same(i))
        BY <1>8, <2>2, <3>3, <4>1
      <4> HIDE DEF j
      <4>3. j \in Nat \ {0} /\ j + k > n
        BY <1>3, <2>1, <2>2, <4>2
      <4> QED BY <2>1, <4>2, <4>3
    <3> QED BY <1>3, <3>1, <3>2, <3>3
  <2> QED BY <2>1, <2>2 DEF E
<1>11. E = Nat
  <2>1. E \in SUBSET Nat
    OBVIOUS
  <2> HIDE DEF E
  <2> QED BY <1>9, <1>10, <2>1, NatsAll
<1>12. Same(1)
  <2>1. n \in E
    BY <1>3, <1>11
  <2>2. 1 + n > n
    BY <1>3
  <2> HIDE DEF n
  <2> QED BY <2>1, <2>2
<1>13. From(1) = Bad
  BY <1>3
<1> QED BY <1>1, <1>2, <1>12, <1>13 DEF Same

-----------------------------------------------------------------------------
(* What a stream reads where there is no escape.                           *)
LEMMA HexStartSecond ==
  ASSUME NEW a \in Byte, NEW b \in Byte, a \in Whitespace
  PROVE  HexStart(<<a, b>>) = IF b \in Whitespace THEN 0 ELSE 2
<1> DEFINE two == <<a, b>>
           I == {i \in 1 .. Len(two) : two[i] \notin Whitespace}
<1>1. HexStart(two) = IF I # {} THEN Min(I) ELSE 0
  BY DEF HexStart, SelectInSeq
<1>2. I \in SUBSET Nat /\ I = IF b \in Whitespace THEN {} ELSE {2}
  OBVIOUS
<1> HIDE DEF I
<1>3. ASSUME b \notin Whitespace PROVE Min(I) = 2
  <2>1. 2 \in I /\ \A y \in I : 2 <= y
    BY <1>2, <1>3
  <2> QED BY <1>2, <2>1, MinLeast
<1> QED BY <1>1, <1>2, <1>3

(* What may come before the digits.                                        *)
HexLeads == Whitespace \cup {43, 45}

LEMMA HexDigitIsNoLead == \A c \in Byte : IsHex(c) => c \notin HexLeads
  BY DEF IsHex, HexValue, HexLeads, Whitespace, Byte, Ch

(* Where the digits start, and which of the two they are.                  *)
LEMMA HexDigitsAre ==
  ASSUME NEW a \in Byte, NEW b \in Byte
  PROVE  LET two == <<a, b>>
         IN  /\ IsHex(a) => HexStart(two) = 1 /\ HexFrom(two) = 1
                            /\ HexDigits(two) = IF IsHex(b) THEN {1, 2} ELSE {1}
             /\ a \in HexLeads /\ IsHex(b) =>
                  HexStart(two) \in 1 .. 2 /\ HexFrom(two) = 2 /\ HexDigits(two) = {2}
             /\ ~IsHex(a) /\ (a \notin HexLeads \/ ~IsHex(b)) => HexStart(two) = 0 \/ HexDigits(two) = {}
<1> DEFINE two == <<a, b>>
<1>1. two[1] = a /\ two[2] = b
  OBVIOUS
<1>2. \A c \in Byte : IsHex(c) => c \notin HexLeads
  BY HexDigitIsNoLead
<1>3. HexStart(two) \in 0 .. 2 /\ (a \notin Whitespace => HexStart(two) = 1)
      /\ (a \in Whitespace => HexStart(two) = IF b \in Whitespace THEN 0 ELSE 2)
  BY HexStartIs, HexStartSecond
<1> HIDE DEF two
<1>4. ASSUME IsHex(a)
      PROVE  HexStart(two) = 1 /\ HexFrom(two) = 1 /\ HexDigits(two) = IF IsHex(b) THEN {1, 2} ELSE {1}
  <2>1. HexStart(two) = 1 /\ a \notin {43, 45}
    BY <1>2, <1>3, <1>4 DEF HexLeads
  <2>2. HexFrom(two) = 1
    BY <1>1, <2>1 DEF HexFrom
  <2>3. 1 \in HexDigits(two) /\ (2 \in HexDigits(two) <=> IsHex(b)) /\ HexDigits(two) \subseteq {1, 2}
    <3>1. \A i \in 1 .. 1 : i = 1
      OBVIOUS
    <3>2. \A i \in 1 .. 2 : i = 1 \/ i = 2
      OBVIOUS
    <3> QED BY <1>1, <1>4, <2>2, <3>1, <3>2 DEF HexDigits
  <2> QED BY <2>1, <2>2, <2>3
<1>5. ASSUME a \in HexLeads PROVE HexFrom(two) \in {0, 2, 3}
  BY <1>1, <1>3, <1>5 DEF HexFrom, HexLeads
<1>6. ASSUME a \in HexLeads, IsHex(b)
      PROVE  HexStart(two) \in 1 .. 2 /\ HexFrom(two) = 2 /\ HexDigits(two) = {2}
  <2>1. b \notin Whitespace /\ b \notin {43, 45}
    BY <1>2, <1>6 DEF HexLeads
  <2>2. HexStart(two) \in 1 .. 2 /\ HexFrom(two) = 2
    BY <1>1, <1>3, <1>6, <2>1 DEF HexFrom, HexLeads
  <2>3. \A i \in 2 .. 2 : i = 2
    OBVIOUS
  <2>4. HexDigits(two) = {2}
    BY <1>1, <1>6, <2>2, <2>3 DEF HexDigits
  <2> QED BY <2>2, <2>4
<1>7. ASSUME ~IsHex(a), a \notin HexLeads \/ ~IsHex(b), HexStart(two) # 0
      PROVE  HexDigits(two) = {}
  <2>1. HexFrom(two) \in 1 .. 3 /\ (a \notin HexLeads => HexFrom(two) = 1)
        /\ (a \in HexLeads => HexFrom(two) # 1)
    <3>1. HexStart(two) \in 1 .. 2
      BY <1>3, <1>7
    <3>2. a \notin HexLeads => HexStart(two) = 1 /\ HexFrom(two) = 1
      BY <1>1, <1>3 DEF HexFrom, HexLeads
    <3>3. HexFrom(two) = HexStart(two) \/ HexFrom(two) = HexStart(two) + 1
      BY <1>7 DEF HexFrom
    <3>4. a \in HexLeads => HexFrom(two) # 1
      BY <1>5
    <3> QED BY <3>1, <3>2, <3>3, <3>4
  <2>2. ~IsHex(two[HexFrom(two)]) \/ HexFrom(two) = 3
    BY <1>1, <1>7, <2>1
  <2>3. ASSUME NEW n \in 1 .. 2, HexFrom(two) <= n, \A i \in HexFrom(two) .. n : IsHex(two[i])
        PROVE  FALSE
    <3>1. HexFrom(two) # 3 /\ HexFrom(two) \in HexFrom(two) .. n
      BY <2>1, <2>3
    <3> QED BY <2>2, <2>3, <3>1
  <2> QED BY <2>3 DEF HexDigits
<1> QED BY <1>4, <1>6, <1>7 DEF two

(* What is no escape is read when it is loose, and never as a percent sign. *)
LEMMA LooseIsRead ==
  ASSUME NEW a \in Byte, NEW b \in Byte, ~(IsHex(a) /\ IsHex(b))
  PROVE  /\ IsLoose(a, b) => ReadHex(<<a, b>>) \in Byte \ {37}
         /\ ~IsLoose(a, b) => ReadHex(<<a, b>>) = NoByte
<1> DEFINE two == <<a, b>>
<1>1. two[1] = a /\ two[2] = b /\ (two \in {<<48, 88>>, <<48, 120>>} <=> a = 48 /\ b \in {88, 120})
  OBVIOUS
<1>2. /\ IsHex(a) => HexStart(two) = 1 /\ HexFrom(two) = 1 /\ HexDigits(two) = IF IsHex(b) THEN {1, 2} ELSE {1}
      /\ a \in HexLeads /\ IsHex(b) => HexStart(two) \in 1 .. 2 /\ HexFrom(two) = 2 /\ HexDigits(two) = {2}
      /\ ~IsHex(a) /\ (a \notin HexLeads \/ ~IsHex(b)) => HexStart(two) = 0 \/ HexDigits(two) = {}
  BY HexDigitsAre
<1>3. IsLoose(a, b) <=> \/ IsHex(a) /\ ~IsHex(b) /\ ~(a = 48 /\ b \in {88, 120})
                        \/ a \in HexLeads /\ IsHex(b)
  BY ChIs DEF IsLoose, HexLeads
<1>4. IsHex(48) /\ ~IsHex(88) /\ ~IsHex(120)
  BY DEF IsHex, HexValue
<1> HIDE DEF two
<1>5. ASSUME ~IsLoose(a, b) PROVE ReadHex(two) = NoByte
  <2>1. CASE IsHex(a)
    BY <1>1, <1>3, <1>5, <2>1, ReadHexIs
  <2>2. CASE ~IsHex(a)
    BY <1>2, <1>3, <1>5, <2>2, ReadHexIs
  <2> QED BY <2>1, <2>2
<1>6. ASSUME IsLoose(a, b) PROVE ReadHex(two) \in Byte \ {37}
  <2> DEFINE sign == IF HexStart(two) = 0 THEN 0 ELSE two[HexStart(two)]
             d == HexNumber(two)
             v == IF sign = 45 THEN -d ELSE d
  <2>1. HexStart(two) # 0 /\ HexDigits(two) # {} /\ two \notin {<<48, 88>>, <<48, 120>>}
    BY <1>1, <1>2, <1>3, <1>4, <1>6
  <2>2. ReadHex(two) = Cast(v)
    BY <2>1, ReadHexIs
  <2>3. HexDigits(two) = {HexFrom(two)} /\ HexFrom(two) \in 1 .. 2 /\ IsHex(two[HexFrom(two)])
    BY <1>1, <1>2, <1>3, <1>6
  <2>4. d \in 0 .. 15
    <3>1. HexNumber(two) = HexValue(two[HexFrom(two)])
      <4>1. Cardinality(HexDigits(two)) = 1
        BY <2>3, FS_Singleton
      <4> QED BY <4>1 DEF HexNumber
    <3>2. two[HexFrom(two)] \in Byte
      BY <1>1, <2>3
    <3> QED BY <2>3, <3>1, <3>2, HexValueType DEF IsHex
  <2>5. v \in -15 .. 15
    BY <2>4
  <2> HIDE DEF v
  <2>6. \A x \in -15 .. 15 : x % 256 \in 0 .. 255 /\ x % 256 # 37
    OBVIOUS
  <2> QED BY <2>2, <2>5, <2>6 DEF Cast, Byte
<1> QED BY <1>5, <1>6 DEF two

-----------------------------------------------------------------------------
(* Where escapes are, what is loose, and what each position stands for.    *)
Escapes(s) == {i \in DOMAIN s : IsEscape(s, i)}

Loose(s) == {i \in DOMAIN s : s[i] = 37 /\ i + 2 <= Len(s) /\ IsLoose(s[i + 1], s[i + 2])}

InEscape(s) == {i \in DOMAIN s : \E n \in 1 .. 2 : n < i /\ IsEscape(s, i - n)}

Piece(s, i) ==
  IF i \in InEscape(s) THEN <<>>
  ELSE IF i \in Escapes(s) THEN << 16 * HexValue(s[i + 1]) + HexValue(s[i + 2]) >>
  ELSE IF s[i] = 43 THEN << 32 >> ELSE << s[i] >>

Pieces(s) == [i \in DOMAIN s |-> Piece(s, i)]

LEMMA EscapeIsHex ==
  ASSUME NEW s \in Text, NEW i \in Escapes(s)
  PROVE  /\ s[i] = 37 /\ i + 1 \in DOMAIN s /\ i + 2 \in DOMAIN s
         /\ \A j \in {i + 1, i + 2} : IsHex(s[j]) /\ s[j] # 37 /\ j \notin Escapes(s) /\ j \notin Loose(s)
<1>1. i \in 1 .. Len(s) /\ Len(s) \in Nat /\ DOMAIN s = 1 .. Len(s)
  BY DEF Escapes, Text
<1>2. s[i] = 37 /\ i + 2 <= Len(s) /\ IsHex(s[i + 1]) /\ IsHex(s[i + 2])
  BY ChIs DEF Escapes, IsEscape
<1>3. i + 1 \in DOMAIN s /\ i + 2 \in DOMAIN s
  BY <1>1, <1>2
<1>4. ~IsHex(37)
  BY DEF IsHex, HexValue
<1>5. ASSUME NEW j \in {i + 1, i + 2}
      PROVE  IsHex(s[j]) /\ s[j] # 37 /\ j \notin Escapes(s) /\ j \notin Loose(s)
  <2>1. IsHex(s[j]) /\ s[j] # 37
    BY <1>2, <1>4
  <2> QED BY <2>1, ChIs DEF Escapes, Loose, IsEscape
<1> QED BY <1>2, <1>3, <1>5

(* What follows a position is in an escape exactly when one starts there,  *)
(* or one that the position is in goes on.                                 *)
LEMMA InEscapeIs ==
  ASSUME NEW s \in Text, NEW i \in DOMAIN s, i \notin InEscape(s)
  PROVE  /\ i \in Escapes(s) => /\ i + 3 \notin InEscape(s)
                                /\ i + 1 \in InEscape(s) /\ i + 2 \in InEscape(s)
         /\ i \notin Escapes(s) => i + 1 \notin InEscape(s)
<1>1. i \in 1 .. Len(s) /\ Len(s) \in Nat /\ DOMAIN s = 1 .. Len(s)
  BY DEF Text
<1>2. ASSUME i \in Escapes(s) PROVE i + 1 \in InEscape(s) /\ i + 2 \in InEscape(s)
  <2>1. i + 1 \in DOMAIN s /\ i + 2 \in DOMAIN s /\ IsEscape(s, i)
    BY <1>2, EscapeIsHex DEF Escapes
  <2>2. (i + 1) - 1 = i /\ (i + 2) - 2 = i /\ 1 < i + 1 /\ 2 < i + 2
    BY <1>1
  <2> QED BY <2>1, <2>2 DEF InEscape
<1>3. ASSUME i \in Escapes(s) PROVE i + 3 \notin InEscape(s)
  <2>1. i + 1 \notin Escapes(s) /\ i + 2 \notin Escapes(s) /\ i + 1 \in DOMAIN s /\ i + 2 \in DOMAIN s
    BY <1>3, EscapeIsHex
  <2>2. (i + 3) - 1 = i + 2 /\ (i + 3) - 2 = i + 1
    BY <1>1
  <2> QED BY <2>1, <2>2 DEF InEscape, Escapes
<1>4. ASSUME i \notin Escapes(s) PROVE i + 1 \notin InEscape(s)
  <2>1. (i + 1) - 1 = i /\ (i + 1) - 2 = i - 1
    BY <1>1
  <2>2. ~IsEscape(s, i)
    BY <1>4 DEF Escapes
  <2>3. 2 < i + 1 => ~IsEscape(s, i - 1)
    <3>1. 2 < i + 1 => 1 < i
      BY <1>1
    <3> QED BY <3>1 DEF InEscape
  <2> QED BY <2>1, <2>2, <2>3 DEF InEscape
<1> QED BY <1>2, <1>3, <1>4

(* Outside of escapes url_decode writes the same, or reads a loose one.    *)
LEMMA DecodesBeside ==
  ASSUME NEW s \in Text, NEW i \in DOMAIN s \ InEscape(s)
  PROVE  IF i \in Loose(s) THEN Apart(i, DecodeOut(s), Pieces(s))
         ELSE Beside(i, DecodeOut(s), DecodeWidth(s), Pieces(s), InEscape(s), Loose(s))
<1> DEFINE a == s[i + 1]
           b == s[i + 2]
           out == DecodeOut(s)
           width == DecodeWidth(s)
           ss == Pieces(s)
<1>1. i \in 1 .. Len(s) /\ Len(s) \in Nat /\ DOMAIN s = 1 .. Len(s) /\ s[i] \in Byte
  BY DEF Text
<1>2. out[i] = DecodeAt(s, i).out /\ width[i] = DecodeAt(s, i).width
  BY DEF DecodeOut, DecodeWidth
<1>3. \A j \in DOMAIN s : ss[j] = Piece(s, j)
  BY DEF Pieces
<1>4. DOMAIN ss = DOMAIN s
  BY DEF Pieces
<1>5. i + 2 <= Len(s) => a \in Byte /\ b \in Byte
  BY <1>1 DEF Text
<1>6. s[i] = 37 /\ i + 2 <= Len(s) => DecodedByte(s, i) = ReadHex(<<a, b>>)
  BY ChIs DEF DecodedByte
<1>7. ~(s[i] = 37 /\ i + 2 <= Len(s)) => DecodedByte(s, i) = NoByte
  BY ChIs DEF DecodedByte
<1> HIDE DEF out, width, ss
<1>8. CASE i \in Escapes(s)
  <2>1. s[i] = 37 /\ i + 2 <= Len(s) /\ HexValue(a) >= 0 /\ HexValue(b) >= 0 /\ IsHex(a) /\ IsHex(b)
    BY <1>8, ChIs DEF Escapes, IsEscape, IsHex
  <2>2. i \notin Loose(s)
    <3>1. a \notin Whitespace \cup {43, 45}
      BY <1>5, <2>1, HexDigitIsNoLead DEF HexLeads
    <3>2. ~IsLoose(a, b)
      BY <2>1, <3>1, ChIs DEF IsLoose
    <3> QED BY <3>2 DEF Loose
  <2>3. DecodedByte(s, i) = 16 * HexValue(a) + HexValue(b)
    BY <1>5, <1>6, <2>1, ReadHexDigits
  <2>4. DecodedByte(s, i) # NoByte
    <3>1. HexValue(a) \in 0 .. 15 /\ HexValue(b) \in 0 .. 15
      BY <1>5, <2>1, HexValueType
    <3> QED BY <2>3, <3>1 DEF NoByte
  <2>5. DecodeAt(s, i) = [out |-> <<DecodedByte(s, i)>>, width |-> 3]
    BY <2>4, DecodeAtIs
  <2>6. ss[i] = << 16 * HexValue(a) + HexValue(b) >>
    BY <1>3, <1>8 DEF Piece
  <2>7. out[i] = ss[i] /\ width[i] = 3
    BY <1>2, <2>3, <2>5, <2>6
  <2>8. /\ i + 2 \in DOMAIN ss /\ i + 3 \notin InEscape(s)
        /\ \A j \in {i + 1, i + 2} : ss[j] = <<>> /\ j \notin Loose(s)
    <3>1. i + 1 \in DOMAIN s /\ i + 2 \in DOMAIN s /\ \A j \in {i + 1, i + 2} : j \notin Loose(s)
      BY <1>8, EscapeIsHex
    <3>2. i + 1 \in InEscape(s) /\ i + 2 \in InEscape(s) /\ i + 3 \notin InEscape(s)
      BY <1>8, InEscapeIs
    <3> QED BY <1>3, <1>4, <3>1, <3>2 DEF Piece
  <2> QED BY <2>2, <2>7, <2>8 DEF Beside, out, width, ss
<1>9. CASE i \in Loose(s)
  <2>1. s[i] = 37 /\ i + 2 <= Len(s) /\ IsLoose(a, b)
    BY <1>9 DEF Loose
  <2>2. ~(IsHex(a) /\ IsHex(b))
    BY <1>5, <2>1, ChIs, HexDigitIsNoLead DEF IsLoose, HexLeads
  <2>3. DecodedByte(s, i) \in Byte \ {37}
    BY <1>5, <1>6, <2>1, <2>2, LooseIsRead
  <2>4. DecodedByte(s, i) # NoByte
    BY <2>3 DEF NoByte, Byte
  <2>5. out[i] = <<DecodedByte(s, i)>>
    BY <1>2, <2>4, DecodeAtIs
  <2>6. i \notin Escapes(s)
    BY <2>2 DEF Escapes, IsEscape
  <2>7. ss[i] = <<s[i]>>
    <3>1. i \notin InEscape(s) /\ s[i] # 43
      BY <2>1
    <3> QED BY <1>3, <2>6, <3>1 DEF Piece
  <2> QED BY <1>9, <2>1, <2>3, <2>5, <2>7 DEF Apart, out, ss
<1>10. CASE i \notin Escapes(s) /\ i \notin Loose(s)
  <2>1. DecodedByte(s, i) = NoByte
    <3>1. CASE s[i] = 37 /\ i + 2 <= Len(s)
      <4>1. ~(IsHex(a) /\ IsHex(b)) /\ ~IsLoose(a, b)
        BY <1>10, <3>1, ChIs DEF Escapes, Loose, IsEscape
      <4> QED BY <1>5, <1>6, <3>1, <4>1, LooseIsRead
    <3> QED BY <1>7, <3>1
  <2>2. out[i] = (IF s[i] = 43 THEN << 32 >> ELSE << s[i] >>) /\ width[i] = 1
    BY <1>2, <2>1, DecodeAtIs
  <2>3. ss[i] = IF s[i] = 43 THEN << 32 >> ELSE << s[i] >>
    BY <1>3, <1>10 DEF Piece
  <2>4. i + 1 \notin InEscape(s)
    BY <1>10, InEscapeIs
  <2> QED BY <1>10, <2>2, <2>3, <2>4 DEF Beside, out, width, ss
<1> QED BY <1>8, <1>9, <1>10

LEMMA PiecesAre ==
  ASSUME NEW s \in Text
  PROVE  Pieces(s) \in Seq(Seq(Byte)) /\ Len(Pieces(s)) = Len(s) /\ PercentDecode(s) = FlattenSeq(Pieces(s))
<1> DEFINE D == Seq(Byte)
           ss == Pieces(s)
           n == Len(s)
<1>1. n \in Nat /\ DOMAIN s = 1 .. n /\ \A i \in 1 .. n : s[i] \in Byte
  BY DEF Text
<1>2. \A c \in Byte : << c >> \in D
  OBVIOUS
<1>3. 32 \in Byte /\ <<>> \in D
  BY DEF Byte
<1> HIDE DEF D, n
<1>4. ASSUME NEW i \in 1 .. n PROVE Piece(s, i) \in D
  <2>1. ASSUME i \in Escapes(s) PROVE 16 * HexValue(s[i + 1]) + HexValue(s[i + 2]) \in Byte
    <3>1. s[i + 1] \in Byte /\ s[i + 2] \in Byte /\ HexValue(s[i + 1]) >= 0 /\ HexValue(s[i + 2]) >= 0
      BY <1>1, <2>1, EscapeIsHex DEF IsHex
    <3>2. HexValue(s[i + 1]) \in 0 .. 15 /\ HexValue(s[i + 2]) \in 0 .. 15
      BY <3>1, HexValueType
    <3> QED BY <3>2 DEF Byte
  <2> QED BY <1>1, <1>2, <1>3, <2>1 DEF Piece
<1>5. ss \in [1 .. n -> D]
  BY <1>1, <1>4 DEF Pieces
<1>6. ss \in Seq(D) /\ Len(ss) = n
  <2> HIDE DEF ss
  <2> QED BY <1>1, <1>5
<1>7. PercentDecode(s) = FlattenSeq(Pieces(s))
  <2>1. ASSUME NEW i \in DOMAIN s
        PROVE  Piece(s, i) =
                 IF \E k \in 1 .. 2 : k < i /\ IsEscape(s, i - k) THEN <<>>
                 ELSE IF IsEscape(s, i) THEN << 16 * HexValue(s[i + 1]) + HexValue(s[i + 2]) >>
                 ELSE IF s[i] = Ch.plus THEN << Ch.space >> ELSE << s[i] >>
    BY ChIs DEF Piece, InEscape, Escapes
  <2> QED BY <2>1 DEF PercentDecode, Pieces
<1> QED BY <1>6, <1>7 DEF D, n, ss

(* The positions that are read otherwise are the loose ones.               *)
LEMMA EscapesOf ==
  ASSUME NEW s \in Text
  PROVE  UrlDecode(s) = PercentDecode(s) <=> ~HasLoose(s)
<1> DEFINE out == DecodeOut(s)
           width == DecodeWidth(s)
           ss == Pieces(s)
           Inside == InEscape(s)
           Bad == Loose(s)
<1>1. /\ Scannable(Byte, out, width) /\ Len(out) = Len(s) /\ UrlDecode(s) = Scan(out, width)
      /\ ss \in Seq(Seq(Byte)) /\ Len(ss) = Len(s) /\ PercentDecode(s) = FlattenSeq(ss)
  BY DecodeScans, PiecesAre
<1>2. DOMAIN ss = DOMAIN s /\ Bad \in SUBSET DOMAIN ss /\ Inside \in SUBSET DOMAIN s
  BY DEF Pieces, Loose, InEscape
<1>3. 1 \notin Inside
  BY DEF InEscape
<1>4. ASSUME NEW i \in Bad PROVE i \notin Inside
  <2>1. s[i] = 37 /\ i \in 1 .. Len(s) /\ DOMAIN s = 1 .. Len(s) /\ Len(s) \in Nat
    BY DEF Loose, Text
  <2>2. ASSUME NEW n \in 1 .. 2, n < i, IsEscape(s, i - n) PROVE FALSE
    <3>1. i - n \in Escapes(s) /\ (i = (i - n) + 1 \/ i = (i - n) + 2)
      BY <2>1, <2>2 DEF Escapes
    <3> QED BY <2>1, <3>1, EscapeIsHex
  <2> QED BY <2>2 DEF InEscape
<1>5. \A i \in DOMAIN ss \ Inside :
        IF i \in Bad THEN Apart(i, out, ss) ELSE Beside(i, out, width, ss, Inside, Bad)
  BY <1>2, DecodesBeside
<1>6. HasLoose(s) <=> Bad # {}
  BY ChIs DEF HasLoose, Loose
<1> HIDE DEF out, width, ss, Inside, Bad
<1>7. Len(ss) = Len(out) /\ Bad \cap Inside = {}
  BY <1>1, <1>4
<1>8. Scan(out, width) = FlattenSeq(ss) <=> Bad = {}
  <2>1. Scannable(Byte, out, width) /\ ss \in Seq(Seq(Byte)) /\ Len(ss) = Len(out)
    BY <1>1, <1>7
  <2>2. Bad \in SUBSET DOMAIN ss /\ Bad \cap Inside = {} /\ 1 \notin Inside
    BY <1>2, <1>3, <1>7
  <2> QED BY <1>5, <2>1, <2>2, SameScan, SMTT(20)
<1> QED BY <1>1, <1>6, <1>8

(* http.cpp:114-135: every escape of a text of any bytes is read, and all  *)
(* else left as it is, exactly when no percent sign comes before what only *)
(* a stream takes for a number.                                            *)
THEOREM EscapesRead == Spec => []EscapesAreRead
<1>1. FieldsOK => EscapesAreRead
  BY TextsAreTexts, EscapesOf DEF EscapesAreRead
<1> QED BY <1>1, FieldsAreTexts, PTL

-----------------------------------------------------------------------------
(* What is left of a text without the blanks around it.                    *)
LEMMA TrimIs ==
  ASSUME NEW C, NEW s \in Seq(C), NEW blanks, NEW x \in DOMAIN s, NEW y \in DOMAIN s,
         s[x] \notin blanks, s[y] \notin blanks,
         \A i \in DOMAIN s : s[i] \notin blanks => x <= i /\ i <= y
  PROVE  Trim(s, blanks) = SubSeq(s, x, y)
<1> DEFINE kept == {i \in DOMAIN s : s[i] \notin blanks}
<1>1. kept \in SUBSET Nat /\ x \in kept /\ y \in kept /\ \A i \in kept : x <= i /\ i <= y
  OBVIOUS
<1>2. Trim(s, blanks) = IF kept = {} THEN <<>> ELSE SubSeq(s, Min(kept), Max(kept))
  BY DEF Trim
<1> HIDE DEF kept
<1>3. Min(kept) = x
  BY <1>1, MinLeast
<1>4. Max(kept) = y
  BY <1>1, MaxGreatest
<1> QED BY <1>1, <1>2, <1>3, <1>4

LEMMA TrimNone ==
  ASSUME NEW s, NEW blanks, \A i \in DOMAIN s : s[i] \in blanks
  PROVE  Trim(s, blanks) = <<>>
  BY DEF Trim

(* The first and the last that are no blanks.                              *)
LEMMA Ends ==
  ASSUME NEW C, NEW s \in Seq(C), NEW blanks, NEW k \in DOMAIN s, s[k] \notin blanks
  PROVE  \E x, y \in DOMAIN s :
           /\ s[x] \notin blanks /\ s[y] \notin blanks
           /\ \A i \in DOMAIN s : s[i] \notin blanks => x <= i /\ i <= y
<1> DEFINE kept == {i \in DOMAIN s : s[i] \notin blanks}
           n == Len(s)
<1>1. n \in Nat /\ kept \in SUBSET (1 .. n) /\ kept \in SUBSET Nat /\ k \in kept
  OBVIOUS
<1>2. \A i : i \in kept <=> i \in DOMAIN s /\ s[i] \notin blanks
  OBVIOUS
<1> HIDE DEF kept, n
<1>3. PICK x \in kept : \A i \in kept : x <= i
  BY <1>1, Least
<1>4. PICK y \in kept : \A i \in kept : i <= y
  BY <1>1, Greatest
<1> QED BY <1>2, <1>3, <1>4

LEMMA TrimType ==
  ASSUME NEW C, NEW s \in Seq(C), NEW blanks PROVE Trim(s, blanks) \in Seq(C)
<1>1. CASE \A i \in DOMAIN s : s[i] \in blanks
  <2>1. <<>> \in Seq(C)
    OBVIOUS
  <2> QED BY <1>1, <2>1, TrimNone
<1>2. ASSUME NEW k \in DOMAIN s, s[k] \notin blanks PROVE Trim(s, blanks) \in Seq(C)
  <2>1. PICK x \in DOMAIN s : \E y \in DOMAIN s :
              /\ s[x] \notin blanks /\ s[y] \notin blanks
              /\ \A i \in DOMAIN s : s[i] \notin blanks => x <= i /\ i <= y
    BY <1>2, Ends
  <2>2. PICK y \in DOMAIN s :
              /\ s[x] \notin blanks /\ s[y] \notin blanks
              /\ \A i \in DOMAIN s : s[i] \notin blanks => x <= i /\ i <= y
    BY <2>1
  <2>3. Trim(s, blanks) = SubSeq(s, x, y)
    BY <2>2, TrimIs
  <2>4. SubSeq(s, x, y) \in Seq(C)
    <3>1. x \in Int /\ y \in Int /\ \A i \in x .. y : s[i] \in C
      OBVIOUS
    <3> QED BY <3>1, SubSeqProperties
  <2> QED BY <2>3, <2>4
<1> QED BY <1>1, <1>2

(* Nothing is taken from a text with no blanks at its ends.                *)
LEMMA WholeIs ==
  ASSUME NEW C, NEW s \in Seq(C) PROVE SubSeq(s, 1, Len(s)) = s
  OBVIOUS

LEMMA TrimWhole ==
  ASSUME NEW C, NEW s \in Seq(C), NEW blanks,
         s # <<>> => s[1] \notin blanks /\ s[Len(s)] \notin blanks
  PROVE  Trim(s, blanks) = s
<1>1. CASE s = <<>>
  <2>1. \A i \in DOMAIN s : s[i] \in blanks
    BY <1>1
  <2> QED BY <1>1, <2>1, TrimNone
<1>2. CASE s # <<>>
  <2> DEFINE x == 1
             y == Len(s)
  <2>1. x \in DOMAIN s /\ y \in DOMAIN s /\ \A i \in DOMAIN s : x <= i /\ i <= y
    BY <1>2
  <2>2. s[x] \notin blanks /\ s[y] \notin blanks
    BY <1>2
  <2> HIDE DEF x, y
  <2>3. Trim(s, blanks) = SubSeq(s, x, y)
    BY <2>1, <2>2, TrimIs
  <2>4. SubSeq(s, x, y) = s
    BY WholeIs DEF x, y
  <2> QED BY <2>3, <2>4
<1> QED BY <1>1, <1>2

(* A blank before a text is taken from it.                                 *)
LEMMA TrimBlank ==
  ASSUME NEW C, NEW s \in Seq(C), NEW b \in C, NEW blanks, b \in blanks
  PROVE  Trim(<<b>> \o s, blanks) = Trim(s, blanks)
<1> DEFINE w == <<b>> \o s
           n == Len(s)
<1>1. /\ w \in Seq(C) /\ n \in Nat /\ DOMAIN s = 1 .. n /\ w[1] = b
      /\ \A i \in 1 .. n : i + 1 \in DOMAIN w /\ w[i + 1] = s[i]
      /\ \A i \in DOMAIN w : i # 1 => i - 1 \in 1 .. n /\ w[i] = s[i - 1]
  <2>1. /\ w \in Seq(C) /\ w[1] = b
        /\ \A i \in DOMAIN s : i + 1 \in DOMAIN w /\ w[i + 1] = s[i]
        /\ \A i \in DOMAIN w : i # 1 => i - 1 \in DOMAIN s /\ w[i] = s[i - 1]
    BY Pushed
  <2>2. n \in Nat /\ DOMAIN s = 1 .. n
    OBVIOUS
  <2> HIDE DEF w, n
  <2> QED BY <2>1, <2>2
<1>2. \A i \in DOMAIN w : i \in Nat
  BY <1>1
<1> HIDE DEF w, n
<1>3. CASE \A i \in DOMAIN s : s[i] \in blanks
  <2>1. \A i \in DOMAIN w : w[i] \in blanks
    BY <1>1, <1>3
  <2> QED BY <1>3, <2>1, TrimNone DEF w
<1>4. ASSUME NEW k \in DOMAIN s, s[k] \notin blanks PROVE Trim(w, blanks) = Trim(s, blanks)
  <2>1. PICK x \in DOMAIN s : \E y \in DOMAIN s :
              /\ s[x] \notin blanks /\ s[y] \notin blanks
              /\ \A i \in DOMAIN s : s[i] \notin blanks => x <= i /\ i <= y
    BY <1>4, Ends
  <2>2. PICK y \in DOMAIN s :
              /\ s[x] \notin blanks /\ s[y] \notin blanks
              /\ \A i \in DOMAIN s : s[i] \notin blanks => x <= i /\ i <= y
    BY <2>1
  <2>3. Trim(s, blanks) = SubSeq(s, x, y)
    BY <2>2, TrimIs
  <2>4. x \in Nat /\ y \in Nat /\ 1 <= x /\ y <= n
    BY <1>1
  <2> DEFINE u == x + 1
             v == y + 1
  <2>5. u \in DOMAIN w /\ v \in DOMAIN w /\ w[u] \notin blanks /\ w[v] \notin blanks
    BY <1>1, <2>2
  <2>6. ASSUME NEW i \in DOMAIN w, w[i] \notin blanks PROVE u <= i /\ i <= v
    <3>1. i # 1
      BY <1>1, <2>6
    <3>2. i - 1 \in DOMAIN s /\ s[i - 1] \notin blanks
      BY <1>1, <2>6, <3>1
    <3>3. x <= i - 1 /\ i - 1 <= y
      BY <2>2, <3>2
    <3>4. i \in Nat
      BY <1>2
    <3> QED BY <2>4, <3>3, <3>4
  <2> HIDE DEF u, v
  <2>7. Trim(w, blanks) = SubSeq(w, u, v)
    BY <1>1, <2>5, <2>6, TrimIs
  <2>8. SubSeq(w, x + 1, y + 1) = SubSeq(s, x, y)
    <3> DEFINE a == <<b>>
    <3>1. a \in Seq(C) /\ Len(a) = 1
      OBVIOUS
    <3>2. w = a \o s
      BY DEF w
    <3> HIDE DEF a
    <3>3. y <= Len(s)
      BY <2>4 DEF n
    <3>4. SubSeq(a \o s, x + Len(a), y + Len(a)) = SubSeq(s, x, y)
      <4> DEFINE i == x
                 j == y
      <4>1. i \in Nat /\ j \in Nat /\ 1 <= i /\ j <= Len(s)
        BY <2>4, <3>3
      <4>2. a \in Seq(C) /\ s \in Seq(C)
        BY <3>1
      <4> HIDE DEF i, j
      <4>3. SubSeq(a \o s, i + Len(a), j + Len(a)) = SubSeq(s, i, j)
        BY <4>1, <4>2, PieceAfter
      <4> QED BY <4>3 DEF i, j
    <3> QED BY <3>1, <3>2, <3>4
  <2> QED BY <2>3, <2>7, <2>8 DEF u, v
<1> QED BY <1>3, <1>4 DEF w

-----------------------------------------------------------------------------
(* A text in parts.                                                        *)
SplitStep(sep) ==
  [parts \in Seq(Text) |-> [c \in Byte |->
     IF c = sep THEN Append(parts, <<>>) ELSE [parts EXCEPT ![Len(parts)] = Append(@, c)]]]

LEMMA SplitSteps ==
  ASSUME NEW sep
  PROVE  /\ SplitStep(sep) \in Steps(Seq(Text), Byte)
         /\ \A parts \in Seq(Text), t \in Text, c \in Byte :
              SplitStep(sep)[Append(parts, t)][c] =
                IF c = sep THEN Append(Append(parts, t), <<>>) ELSE Append(parts, Append(t, c))
         /\ \A parts \in Seq(Text), c \in Byte : c = sep => SplitStep(sep)[parts][c] = Append(parts, <<>>)
<1> DEFINE S == Seq(Text)
           Put(parts, c) == [parts EXCEPT ![Len(parts)] = Append(@, c)]
           none == <<>>
<1>1. ASSUME NEW parts \in S, NEW c \in Byte PROVE Put(parts, c) \in S
  <2> DEFINE n == Len(parts)
             q == [parts EXCEPT ![n] = Append(@, c)]
  <2>1. n \in Nat /\ parts \in [1 .. n -> Text] /\ DOMAIN parts = 1 .. n
    OBVIOUS
  <2> HIDE DEF n
  <2>2. q \in [1 .. n -> Text]
    <3>1. ASSUME NEW i \in 1 .. n PROVE q[i] \in Text
      <4>1. parts[i] \in Text /\ Append(parts[i], c) \in Text
        BY <2>1, TextIs
      <4>2. q[i] = IF i = n THEN Append(parts[i], c) ELSE parts[i]
        BY <2>1
      <4> QED BY <4>1, <4>2
    <3>2. DOMAIN q = 1 .. n /\ q = [i \in DOMAIN q |-> q[i]]
      BY <2>1
    <3> HIDE DEF q
    <3> QED BY <3>1, <3>2
  <2> HIDE DEF q
  <2>3. q \in Seq(Text)
    BY <2>1, <2>2
  <2> QED BY <2>3 DEF q, n
<1>2. \A parts \in S : Append(parts, none) \in S
  BY TextIs
<1>3. SplitStep(sep) = [parts \in S |-> [c \in Byte |->
         IF c = sep THEN Append(parts, none) ELSE Put(parts, c)]]
  BY DEF SplitStep
<1> HIDE DEF S, Put, none
<1>4. SplitStep(sep) \in Steps(S, Byte)
  BY <1>1, <1>2, <1>3 DEF Steps
<1>5. \A parts \in S, c \in Byte :
        SplitStep(sep)[parts][c] = IF c = sep THEN Append(parts, none) ELSE Put(parts, c)
  BY <1>3
<1>6. ASSUME NEW parts \in S, NEW t \in Text, NEW c \in Byte
      PROVE  /\ Append(parts, t) \in S
             /\ Put(Append(parts, t), c) = Append(parts, Append(t, c))
  <2> DEFINE n == Len(parts)
             d == Append(t, c)
             p == Append(parts, t)
             q == Append(parts, d)
             r == [p EXCEPT ![Len(p)] = Append(@, c)]
  <2>1. d \in Text /\ parts \in Seq(Text)
    BY TextIs DEF S
  <2>2. n \in Nat
    BY <2>1
  <2> HIDE DEF d
  <2>3. /\ p \in Seq(Text) /\ Len(p) = n + 1 /\ p[n + 1] = t /\ \A i \in 1 .. n : p[i] = parts[i]
    BY <2>1, AppendProperties
  <2>4. /\ q \in Seq(Text) /\ Len(q) = n + 1 /\ q[n + 1] = d /\ \A i \in 1 .. n : q[i] = parts[i]
    BY <2>1, AppendProperties
  <2> HIDE DEF n, p, q
  <2>5. DOMAIN p = 1 .. n + 1 /\ DOMAIN q = 1 .. n + 1
    BY <2>2, <2>3, <2>4
  <2>6. ASSUME NEW i \in 1 .. n + 1
        PROVE  (IF i = n + 1 THEN Append(p[i], c) ELSE p[i]) = q[i]
    <3>1. CASE i = n + 1
      BY <2>3, <2>4, <3>1 DEF d
    <3>2. CASE i # n + 1
      <4>1. i \in 1 .. n
        BY <2>2, <3>2
      <4> QED BY <2>3, <2>4, <3>2, <4>1
    <3> QED BY <3>1, <3>2
  <2>7. r = [i \in 1 .. n + 1 |-> IF i = n + 1 THEN Append(p[i], c) ELSE p[i]]
    BY <2>3, <2>5
  <2>8. q = [i \in 1 .. n + 1 |-> q[i]]
    BY <2>4, <2>5
  <2>9. r = q
    BY <2>6, <2>7, <2>8
  <2> QED BY <2>3, <2>9 DEF p, q, d, S, Put
<1>7. ASSUME NEW parts \in S, NEW t \in Text, NEW c \in Byte
      PROVE  SplitStep(sep)[Append(parts, t)][c] =
               IF c = sep THEN Append(Append(parts, t), none) ELSE Append(parts, Append(t, c))
  <2> DEFINE p == Append(parts, t)
  <2>1. p \in S /\ Put(p, c) = Append(parts, Append(t, c))
    BY <1>6
  <2> HIDE DEF p
  <2>2. SplitStep(sep)[p][c] = IF c = sep THEN Append(p, none) ELSE Put(p, c)
    BY <1>5, <2>1
  <2> QED BY <2>1, <2>2 DEF p
<1>8. \A parts \in S, c \in Byte : c = sep => SplitStep(sep)[parts][c] = Append(parts, none)
  BY <1>5
<1> QED BY <1>4, <1>7, <1>8 DEF S, none

(* The first part is empty, to begin with.                                 *)
LEMMA SplitReads ==
  ASSUME NEW s, NEW sep PROVE Split(s, sep) = Reads(SplitStep(sep), Append(<<>>, <<>>), s)
<1>1. <<<<>>>> = Append(<<>>, <<>>)
  OBVIOUS
<1> QED BY <1>1 DEF Split, SplitStep

LEMMA SplitType ==
  ASSUME NEW s \in Text, NEW sep PROVE Split(s, sep) \in Seq(Text)
<1> DEFINE start == Append(<<>>, <<>>)
           P == Seq(Text)
<1>1. start \in P /\ s \in Seq(Byte)
  BY TextIs DEF Text
<1>2. SplitStep(sep) \in Steps(P, Byte)
  BY SplitSteps
<1>3. Split(s, sep) = Reads(SplitStep(sep), start, s)
  BY SplitReads
<1> HIDE DEF start, P
<1>4. Split(s, sep) \in P
  BY <1>1, <1>2, <1>3, ReadsType
<1> QED BY <1>4 DEF P

(* What holds no separator goes on with the part that is being read.       *)
LEMMA SplitPart ==
  ASSUME NEW sep, NEW parts \in Seq(Text), NEW b \in Seq(Byte \ {sep})
  PROVE  Reads(SplitStep(sep), Append(parts, <<>>), b) = Append(parts, b)
<1> DEFINE C == Byte \ {sep}
           P == Seq(Text)
           none == <<>>
           start == Append(parts, none)
           T == {t \in Text : Reads(SplitStep(sep), start, t) = Append(parts, t)}
<1>1. start \in P /\ none \in Text
  BY TextIs
<1>2. SplitStep(sep) \in Steps(P, Byte)
  BY SplitSteps
<1>3. <<>> \in T
  <2> HIDE DEF P, start
  <2>1. Reads(SplitStep(sep), start, <<>>) = start
    BY <1>1, <1>2, ReadsNone
  <2> QED BY <1>1, <2>1 DEF start
<1>4. ASSUME NEW t \in T \cap Seq(C), NEW c \in C PROVE Append(t, c) \in T
  <2>1. Reads(SplitStep(sep), start, t) = Append(parts, t)
    OBVIOUS
  <2>2. t \in Text /\ c \in Byte
    OBVIOUS
  <2>3. c # sep
    OBVIOUS
  <2>4. Append(t, c) \in Text
    BY <2>2, TextIs
  <2>5. t \in Seq(Byte)
    BY <2>2 DEF Text
  <2> HIDE DEF P, start, T, C
  <2>6. Reads(SplitStep(sep), start, Append(t, c)) = SplitStep(sep)[Reads(SplitStep(sep), start, t)][c]
    <3>1. start \in P
      BY <1>1
    <3> QED BY <1>2, <2>2, <2>5, <3>1, ReadsNext
  <2>7. SplitStep(sep)[Append(parts, t)][c] = Append(parts, Append(t, c))
    <3>1. SplitStep(sep)[Append(parts, t)][c] =
            IF c = sep THEN Append(Append(parts, t), <<>>) ELSE Append(parts, Append(t, c))
      BY <2>2, SplitSteps
    <3> QED BY <2>3, <3>1
  <2> QED BY <2>1, <2>4, <2>6, <2>7 DEF T
<1>5. Seq(C) \subseteq T
  <2> HIDE DEF C, T
  <2> QED BY <1>3, <1>4, SequencesByLast
<1>6. b \in T
  <2> HIDE DEF T
  <2> QED BY <1>5
<1> QED BY <1>6

LEMMA Free ==
  ASSUME NEW sep, NEW b \in Seq(Byte \ {sep}) PROVE b \in Text
  BY DEF Text

LEMMA SplitOne ==
  ASSUME NEW sep, NEW b \in Seq(Byte \ {sep}) PROVE Split(b, sep) = <<b>>
<1> DEFINE none == <<>>
<1>1. none \in Seq(Text) /\ Append(none, b) = <<b>>
  BY Free
<1>2. Split(b, sep) = Append(none, b)
  <2>1. Split(b, sep) = Reads(SplitStep(sep), Append(none, <<>>), b)
    BY SplitReads
  <2> HIDE DEF none
  <2> QED BY <1>1, <2>1, SplitPart
<1> QED BY <1>1, <1>2

(* One separator, one more part.                                           *)
LEMMA SplitLast ==
  ASSUME NEW sep \in Byte, NEW a \in Text, NEW b \in Seq(Byte \ {sep})
  PROVE  Split(a \o (<<sep>> \o b), sep) = Append(Split(a, sep), b)
<1> DEFINE P == Seq(Text)
           step == SplitStep(sep)
           start == Append(<<>>, <<>>)
           parts == Split(a, sep)
           w == a \o <<sep>>
<1>1. parts \in P /\ step \in Steps(P, Byte) /\ start \in P
  BY SplitType, SplitSteps, TextIs
<1>2. parts = Reads(step, start, a) /\ \A s : Split(s, sep) = Reads(step, start, s)
  BY SplitReads
<1>3. step[parts][sep] = Append(parts, <<>>)
  BY <1>1, SplitSteps
<1>4. a \in Seq(Byte) /\ b \in Seq(Byte) /\ w \in Seq(Byte) /\ w = Append(a, sep)
  BY Free, AppendIsConcat DEF Text
<1>5. a \o (<<sep>> \o b) = w \o b
  <2> DEFINE q == <<sep>>
  <2>1. q \in Seq(Byte)
    OBVIOUS
  <2> HIDE DEF q
  <2>2. (a \o q) \o b = a \o (q \o b)
    BY <1>4, <2>1, ConcatAssociative
  <2> QED BY <2>2 DEF q
<1>6. Reads(step, Append(parts, <<>>), b) = Append(parts, b)
  BY <1>1, SplitPart
<1> HIDE DEF step, start, parts, w, P
<1>7. Reads(step, start, w) = Append(parts, <<>>)
  <2>1. Reads(step, start, Append(a, sep)) = step[Reads(step, start, a)][sep]
    BY <1>1, <1>4, ReadsNext
  <2> QED BY <1>2, <1>3, <1>4, <2>1
<1>8. Reads(step, start, w \o b) = Reads(step, Reads(step, start, w), b)
  <2>1. start \in P /\ step \in Steps(P, Byte)
    BY <1>1
  <2>2. w \in Seq(Byte) /\ b \in Seq(Byte)
    BY <1>4
  <2> QED BY <2>1, <2>2, ReadsOn
<1> QED BY <1>2, <1>5, <1>6, <1>7, <1>8 DEF parts

(* Parts that are written with a separator between them.                   *)
Between(ps, sep) == [i \in DOMAIN ps |-> (IF i = 1 THEN <<>> ELSE <<sep>>) \o ps[i]]

JoinedBy(ps, sep) == FlattenSeq(Between(ps, sep))

(* What is said of one sequence is said of the sequences of a larger set.  *)
LEMMA SeqMonotone ==
  ASSUME NEW C, NEW D, C \subseteq D PROVE Seq(C) \subseteq Seq(D)
  OBVIOUS

LEMMA BetweenIs ==
  ASSUME NEW B, NEW sep \in B, NEW ps \in Seq(Seq(B))
  PROVE  /\ Between(ps, sep) \in Seq(Seq(B)) /\ Len(Between(ps, sep)) = Len(ps)
         /\ \A i \in DOMAIN ps : Between(ps, sep)[i] = (IF i = 1 THEN <<>> ELSE <<sep>>) \o ps[i]
<1> DEFINE S == Seq(B)
           n == Len(ps)
           r == Between(ps, sep)
<1>1. <<>> \in S /\ <<sep>> \in S /\ \A x, y \in S : x \o y \in S
  OBVIOUS
<1>2. n \in Nat /\ ps \in [1 .. n -> S] /\ DOMAIN ps = 1 .. n
  OBVIOUS
<1> HIDE DEF S, n
<1>3. \A i \in DOMAIN ps : r[i] = (IF i = 1 THEN <<>> ELSE <<sep>>) \o ps[i]
  BY DEF Between
<1>4. \A i \in 1 .. n : (IF i = 1 THEN <<>> ELSE <<sep>>) \o ps[i] \in S
  <2> TAKE i \in 1 .. n
  <2>1. (IF i = 1 THEN <<>> ELSE <<sep>>) \in S /\ ps[i] \in S
    BY <1>1, <1>2
  <2> HIDE DEF S
  <2> QED BY <1>1, <2>1
<1>5. r \in [1 .. n -> S]
  BY <1>2, <1>4 DEF Between
<1> HIDE DEF r
<1>6. r \in Seq(S) /\ Len(r) = n
  BY <1>2, <1>5
<1> QED BY <1>3, <1>6 DEF r, S, n

LEMMA JoinedType ==
  ASSUME NEW B, NEW sep \in B, NEW ps \in Seq(Seq(B)) PROVE JoinedBy(ps, sep) \in Seq(B)
  BY BetweenIs, FlattenType DEF JoinedBy

LEMMA JoinedOne ==
  ASSUME NEW B, NEW sep \in B, NEW p \in Seq(B) PROVE JoinedBy(<<p>>, sep) = p
<1> DEFINE none == <<>>
           ps == <<p>>
           r == Between(ps, sep)
<1>0. ps \in Seq(Seq(B))
  OBVIOUS
<1>1. Len(ps) = 1 /\ DOMAIN ps = {1} /\ ps[1] = p
  OBVIOUS
<1> HIDE DEF ps
<1>2. r \in Seq(Seq(B)) /\ Len(r) = 1 /\ r[1] = none \o p
  <2>1. /\ r \in Seq(Seq(B)) /\ Len(r) = Len(ps)
        /\ \A i \in DOMAIN ps : r[i] = (IF i = 1 THEN <<>> ELSE <<sep>>) \o ps[i]
    BY <1>0, BetweenIs
  <2>2. r[1] = (IF 1 = 1 THEN <<>> ELSE <<sep>>) \o ps[1]
    BY <1>1, <2>1
  <2> HIDE DEF r
  <2> QED BY <1>1, <2>1, <2>2
<1>3. none \o p = p
  OBVIOUS
<1> HIDE DEF r
<1>4. r = Append(none, p)
  <2>1. r = <<p>>
    BY <1>2, <1>3
  <2> QED BY <2>1
<1>5. FlattenSeq(Append(none, p)) = FlattenSeq(none) \o p
  <2>1. none \in Seq(Seq(B))
    OBVIOUS
  <2> HIDE DEF none
  <2> QED BY <2>1, FlattenNext
<1>6. FlattenSeq(r) = p
  BY <1>3, <1>4, <1>5, FlattenNone
<1> QED BY <1>6 DEF JoinedBy, r, ps

LEMMA JoinedNext ==
  ASSUME NEW B, NEW sep \in B, NEW ps \in Seq(Seq(B)), ps # <<>>, NEW p \in Seq(B)
  PROVE  JoinedBy(Append(ps, p), sep) = JoinedBy(ps, sep) \o (<<sep>> \o p)
<1> DEFINE S == Seq(B)
           n == Len(ps)
           qs == Append(ps, p)
           q == <<sep>> \o p
           r == Between(ps, sep)
           u == Between(qs, sep)
           v == Append(r, q)
<1>1. n \in Nat /\ n # 0 /\ DOMAIN ps = 1 .. n
  OBVIOUS
<1>2. qs \in Seq(S) /\ Len(qs) = n + 1 /\ qs[n + 1] = p /\ \A i \in 1 .. n : qs[i] = ps[i]
  BY AppendProperties
<1>3. q \in S
  OBVIOUS
<1> HIDE DEF qs, n
<1>4. DOMAIN qs = 1 .. n + 1
  BY <1>1, <1>2
<1>5. /\ r \in Seq(S) /\ Len(r) = n
      /\ \A i \in DOMAIN ps : r[i] = (IF i = 1 THEN <<>> ELSE <<sep>>) \o ps[i]
  BY BetweenIs DEF n
<1>6. /\ u \in Seq(S) /\ Len(u) = n + 1
      /\ \A i \in DOMAIN qs : u[i] = (IF i = 1 THEN <<>> ELSE <<sep>>) \o qs[i]
  <2>1. qs \in Seq(Seq(B))
    BY <1>2
  <2>2. /\ u \in Seq(Seq(B)) /\ Len(u) = Len(qs)
        /\ \A i \in DOMAIN qs : u[i] = (IF i = 1 THEN <<>> ELSE <<sep>>) \o qs[i]
    BY <2>1, BetweenIs
  <2> HIDE DEF u
  <2> QED BY <1>2, <2>2
<1> HIDE DEF q, r, u, S
<1>7. /\ v \in Seq(S) /\ Len(v) = n + 1 /\ v[n + 1] = q /\ \A i \in 1 .. n : v[i] = r[i]
  BY <1>3, <1>5, AppendProperties
<1> HIDE DEF v
<1>8. ASSUME NEW i \in 1 .. n + 1 PROVE u[i] = v[i]
  <2>1. CASE i = n + 1
    <3>1. i # 1 /\ i \in DOMAIN qs
      BY <1>1, <1>4, <2>1
    <3> QED BY <1>2, <1>6, <1>7, <2>1, <3>1 DEF q
  <2>2. CASE i # n + 1
    <3>1. i \in 1 .. n
      BY <1>1, <2>2
    <3>2. u[i] = (IF i = 1 THEN <<>> ELSE <<sep>>) \o qs[i] /\ qs[i] = ps[i]
      BY <1>2, <1>4, <1>6, <3>1
    <3>3. r[i] = (IF i = 1 THEN <<>> ELSE <<sep>>) \o ps[i]
      BY <1>1, <1>5, <3>1
    <3> QED BY <1>7, <3>1, <3>2, <3>3
  <2> QED BY <2>1, <2>2
<1>9. u = v
  BY <1>6, <1>7, <1>8, SeqEqual
<1>10. FlattenSeq(Append(r, q)) = FlattenSeq(r) \o q
  BY <1>3, <1>5, FlattenNext DEF S
<1>11. FlattenSeq(u) = FlattenSeq(r) \o q
  BY <1>9, <1>10 DEF v
<1> QED BY <1>11 DEF JoinedBy, u, r, q, qs

(* Parts without the separator are found again.                            *)
LEMMA SplitJoined ==
  ASSUME NEW sep \in Byte, NEW ps \in Seq(Seq(Byte \ {sep})), ps # <<>>
  PROVE  Split(JoinedBy(ps, sep), sep) = ps
<1> DEFINE C == Seq(Byte \ {sep})
           T == {qs \in Seq(C) : qs # <<>> => Split(JoinedBy(qs, sep), sep) = qs}
<1>1. <<>> \in T
  OBVIOUS
<1>2. C \subseteq Text
  BY Free
<1>3. ASSUME NEW qs \in T \cap Seq(C), NEW p \in C PROVE Append(qs, p) \in T
  <2>1. qs # <<>> => Split(JoinedBy(qs, sep), sep) = qs
    OBVIOUS
  <2>2. qs \in Seq(C) /\ p \in Text /\ Append(qs, p) \in Seq(C)
    BY <1>2
  <2>3. qs \in Seq(Seq(Byte)) /\ p \in Seq(Byte) /\ qs \in Seq(Text)
    <3> HIDE DEF C
    <3>1. qs \in Seq(Text)
      BY <1>2, <2>2, SeqMonotone
    <3> QED BY <2>2, <3>1 DEF Text
  <2>4. CASE qs = <<>>
    <3>1. Append(qs, p) = <<p>>
      BY <2>4
    <3>2. JoinedBy(<<p>>, sep) = p
      BY <2>3, JoinedOne
    <3>3. Split(p, sep) = <<p>>
      BY SplitOne
    <3> QED BY <2>2, <3>1, <3>2, <3>3
  <2>5. CASE qs # <<>>
    <3> DEFINE a == JoinedBy(qs, sep)
    <3>1. JoinedBy(Append(qs, p), sep) = a \o (<<sep>> \o p)
      BY <2>3, <2>5, JoinedNext
    <3>2. a \in Text
      BY <2>3, JoinedType DEF Text
    <3> HIDE DEF a
    <3>3. Split(a \o (<<sep>> \o p), sep) = Append(Split(a, sep), p)
      BY <3>2, SplitLast
    <3>4. Split(a, sep) = qs
      BY <2>1, <2>5 DEF a
    <3> QED BY <2>2, <3>1, <3>3, <3>4
  <2> QED BY <2>4, <2>5
<1>4. Seq(C) \subseteq T
  <2> HIDE DEF C, T
  <2> QED BY <1>1, <1>3, SequencesByLast
<1>5. ps \in T
  <2>1. ps \in Seq(C)
    OBVIOUS
  <2> HIDE DEF T, C
  <2> QED BY <1>4, <2>1
<1> QED BY <1>5

-----------------------------------------------------------------------------
(* A name and a value with an equals sign between them.                    *)
NoEquals == Seq(Byte \ {61})

LEMMA EqualsNone ==
  ASSUME NEW p \in NoEquals
  PROVE  p \in Text /\ Equals(p) = 0 /\ KeyOf(p) = p /\ ValueOf(p) = <<>>
<1> DEFINE I == {i \in 1 .. Len(p) : p[i] = 61}
<1>1. p \in Text
  BY Free DEF NoEquals
<1>2. I = {}
  BY DEF NoEquals
<1>3. Equals(p) = IF I # {} THEN Min(I) ELSE 0
  BY ChIs DEF Equals, SelectInSeq
<1> HIDE DEF I
<1> QED BY <1>1, <1>2, <1>3 DEF KeyOf, ValueOf

LEMMA EqualsFirst ==
  ASSUME NEW a \in NoEquals, NEW b \in Text
  PROVE  LET p == a \o (<<61>> \o b)
         IN  p \in Text /\ Equals(p) = Len(a) + 1 /\ KeyOf(p) = a /\ ValueOf(p) = b
<1> DEFINE q == <<61>> \o b
           p == a \o q
           m == Len(a)
           n == Len(b)
           I == {i \in 1 .. Len(p) : p[i] = 61}
<1>1. a \in Seq(Byte) /\ b \in Seq(Byte) /\ m \in Nat /\ n \in Nat /\ \A i \in 1 .. m : a[i] # 61
  BY Free DEF NoEquals, Text
<1>2. q \in Seq(Byte) /\ Len(q) = n + 1 /\ q[1] = 61 /\ \A i \in 1 .. n : q[i + 1] = b[i]
  <2> DEFINE e == 61
  <2>1. e \in Byte /\ DOMAIN b = 1 .. n
    BY <1>1 DEF Byte
  <2> HIDE DEF e
  <2>2. /\ <<e>> \o b \in Seq(Byte) /\ Len(<<e>> \o b) = Len(b) + 1 /\ (<<e>> \o b)[1] = e
        /\ \A i \in DOMAIN b : (<<e>> \o b)[i + 1] = b[i]
    BY <1>1, <2>1, Pushed
  <2> QED BY <2>1, <2>2 DEF e
<1> HIDE DEF q, n
<1>3. /\ p \in Seq(Byte) /\ Len(p) = (n + 1) + m
      /\ \A i \in 1 .. m : p[i] = a[i]
      /\ \A i \in 1 .. n + 1 : p[i + m] = q[i]
  <2>1. /\ p \in Seq(Byte) /\ Len(p) = Len(q) + m
        /\ \A i \in 1 .. m : p[i] = a[i]
        /\ \A i \in 1 .. Len(q) : p[i + m] = q[i]
    <3>1. a \in Seq(Byte) /\ q \in Seq(Byte)
      BY <1>1, <1>2
    <3> QED BY <3>1, After
  <2> HIDE DEF p, m
  <2> QED BY <1>2, <2>1
<1>4. Equals(p) = IF I # {} THEN Min(I) ELSE 0
  BY ChIs DEF Equals, SelectInSeq
<1> HIDE DEF p, m
<1>5. m + 1 \in I
  <2>1. m + 1 \in 1 .. Len(p)
    BY <1>1, <1>3
  <2>2. p[1 + m] = q[1] /\ 1 + m = m + 1
    BY <1>1, <1>3
  <2> QED BY <1>2, <2>1, <2>2
<1>6. \A i \in I : m + 1 <= i
  <2> SUFFICES ASSUME NEW i \in 1 .. Len(p), p[i] = 61, ~(m + 1 <= i) PROVE FALSE
    OBVIOUS
  <2>1. i \in 1 .. m
    BY <1>1
  <2> QED BY <1>1, <1>3, <2>1
<1>7. I \in SUBSET Nat
  OBVIOUS
<1> HIDE DEF I
<1>8. Equals(p) = m + 1 /\ m + 1 # 0 /\ (m + 1) - 1 = m
  <2>1. Min(I) = m + 1
    BY <1>5, <1>6, <1>7, MinLeast
  <2> QED BY <1>1, <1>4, <1>5, <2>1
<1>9. SubSeq(p, 1, m) = a
  <2> DEFINE r == SubSeq(p, 1, m)
  <2>1. 1 \in Int /\ m \in Int /\ \A i \in 1 .. m : p[i] \in Byte
    BY <1>1, <1>3
  <2>2. /\ r \in Seq(Byte) /\ Len(r) = IF 1 <= m THEN m - 1 + 1 ELSE 0
        /\ \A i \in 1 .. m - 1 + 1 : r[i] = p[1 + i - 1]
    BY <2>1, SubSeqProperties
  <2> HIDE DEF r
  <2>3. Len(r) = m
    BY <1>1, <2>2
  <2>4. \A i \in 1 .. m : r[i] = a[i]
    <3> TAKE i \in 1 .. m
    <3>1. i \in 1 .. m - 1 + 1 /\ 1 + i - 1 = i
      BY <1>1
    <3>2. r[i] = p[1 + i - 1]
      BY <2>2, <3>1
    <3> QED BY <1>3, <3>1, <3>2
  <2>5. r = a
    BY <1>1, <2>2, <2>3, <2>4, SeqEqual DEF m
  <2> QED BY <2>5 DEF r
<1>10. SubSeq(p, m + 1 + 1, Len(p)) = b
  <2> DEFINE r == SubSeq(p, m + 1 + 1, Len(p))
             x == m + 1 + 1
             y == Len(p)
  <2>1. x \in Int /\ y \in Int /\ \A i \in x .. y : p[i] \in Byte
    BY <1>1, <1>3
  <2>2. y - x + 1 = n /\ (~(x <= y) => n = 0)
    BY <1>1, <1>3
  <2>3. /\ r \in Seq(Byte) /\ Len(r) = IF x <= y THEN y - x + 1 ELSE 0
        /\ \A i \in 1 .. y - x + 1 : r[i] = p[x + i - 1]
    BY <2>1, SubSeqProperties
  <2> HIDE DEF r
  <2>4. Len(r) = n
    BY <2>2, <2>3
  <2>5. \A i \in 1 .. n : r[i] = b[i]
    <3> TAKE i \in 1 .. n
    <3>1. x + i - 1 = (i + 1) + m /\ i + 1 \in 1 .. n + 1
      BY <1>1
    <3>2. r[i] = p[x + i - 1]
      BY <2>2, <2>3
    <3>3. p[(i + 1) + m] = q[i + 1] /\ q[i + 1] = b[i]
      BY <1>2, <1>3, <3>1
    <3> QED BY <3>1, <3>2, <3>3
  <2>6. r = b
    BY <1>1, <2>3, <2>4, <2>5, SeqEqual DEF n
  <2> QED BY <2>6 DEF r
<1>11. KeyOf(p) = a /\ ValueOf(p) = b
  BY <1>8, <1>9, <1>10 DEF KeyOf, ValueOf
<1> QED BY <1>3, <1>8, <1>11 DEF p, q, m, Text

(* There is no other text.                                                 *)
LEMMA EqualsSplit ==
  ASSUME NEW p \in Text
  PROVE  p \in NoEquals \/ \E a \in NoEquals, b \in Text : p = a \o (<<61>> \o b)
<1> DEFINE With(t) == \E a \in NoEquals, b \in Text : t = a \o (<<61>> \o b)
           T == {t \in Text : t \in NoEquals \/ With(t)}
<1>1. <<>> \in T
  BY TextIs DEF NoEquals
<1>2. ASSUME NEW t \in T \cap Seq(Byte), NEW c \in Byte PROVE <<c>> \o t \in T
  <2>1. t \in Text /\ (t \in NoEquals \/ With(t))
    OBVIOUS
  <2>2. <<c>> \o t \in Text
    BY <2>1, TextIs
  <2>3. CASE c = 61
    <3>1. <<>> \in NoEquals /\ <<c>> \o t = <<>> \o (<<61>> \o t)
      <4>1. \A r \in Seq(Byte) : <<>> \o r = r
        OBVIOUS
      <4> QED BY <2>2, <2>3, <4>1 DEF NoEquals, Text
    <3> QED BY <2>1, <2>2, <3>1
  <2>4. CASE c # 61
    <3>1. CASE t \in NoEquals
      <4>1. <<c>> \o t \in NoEquals
        BY <2>4, <3>1 DEF NoEquals
      <4> QED BY <2>2, <4>1
    <3>2. CASE With(t)
      <4>1. PICK a \in NoEquals : \E b \in Text : t = a \o (<<61>> \o b)
        BY <3>2
      <4>2. PICK b \in Text : t = a \o (<<61>> \o b)
        BY <4>1
      <4>3. <<c>> \o a \in NoEquals
        BY <2>4 DEF NoEquals
      <4>4. <<c>> \o t = (<<c>> \o a) \o (<<61>> \o b)
        <5> DEFINE x == <<c>>
                   y == <<61>> \o b
        <5>1. x \in Seq(Byte) /\ y \in Seq(Byte) /\ a \in Seq(Byte)
          BY Free DEF NoEquals, Text, Byte
        <5> HIDE DEF x, y
        <5>2. (x \o a) \o y = x \o (a \o y)
          BY <5>1, ConcatAssociative
        <5> QED BY <4>2, <5>2 DEF x, y
      <4>5. With(<<c>> \o t)
        BY <4>3, <4>4
      <4> QED BY <2>2, <4>5
    <3> QED BY <2>1, <3>1, <3>2
  <2> QED BY <2>3, <2>4
<1>3. Seq(Byte) \subseteq T
  <2> HIDE DEF T
  <2> QED BY <1>1, <1>2, SequencesByFirst
<1>4. p \in T
  <2> HIDE DEF T
  <2> QED BY <1>3 DEF Text
<1> QED BY <1>4

LEMMA PairType ==
  ASSUME NEW p \in Text
  PROVE  /\ KeyOf(p) \in Text /\ ValueOf(p) \in Text
         /\ Pair(p) = [key |-> UrlDecode(Trim(KeyOf(p), Whitespace)), value |-> UrlDecode(Trim(ValueOf(p), Whitespace))]
         /\ Pair(p).key \in Text /\ Pair(p).value \in Text
<1>1. KeyOf(p) \in Text /\ ValueOf(p) \in Text
  <2>1. CASE p \in NoEquals
    BY <2>1, EqualsNone, TextIs
  <2>2. CASE \E a \in NoEquals, b \in Text : p = a \o (<<61>> \o b)
    <3>1. PICK a \in NoEquals : \E b \in Text : p = a \o (<<61>> \o b)
      BY <2>2
    <3>2. PICK b \in Text : p = a \o (<<61>> \o b)
      BY <3>1
    <3>3. KeyOf(p) = a /\ ValueOf(p) = b
      BY <3>2, EqualsFirst
    <3>4. a \in Text
      BY EqualsNone
    <3> QED BY <3>3, <3>4
  <2> QED BY <2>1, <2>2, EqualsSplit
<1>2. \A s \in Text : Trim(s, Whitespace) \in Text
  BY TrimType DEF Text
<1> QED BY <1>1, <1>2, DecodeType DEF Pair

-----------------------------------------------------------------------------
(* A field as a browser writes it.                                         *)
FormPart(field) == UrlEncode(field.name) \o (<<61>> \o UrlEncode(field.value))

FormParts(form) == [i \in DOMAIN form |-> FormPart(form[i])]

FormByte == UrlByte \cup {61}

LEMMA UrlBytesAre ==
  /\ UrlByte \subseteq Byte \ ({38, 59, 61, 63} \cup Whitespace)
  /\ FormByte \subseteq Byte \ {38, 63} /\ UrlByte \subseteq FormByte /\ 61 \in FormByte
<1>1. UrlByte \subseteq Byte \ ({38, 59, 61, 63} \cup Whitespace)
  BY ChIs DEF UrlByte, Unreserved, Alnum, Byte, Whitespace
<1>2. 61 \in Byte \ {38, 63}
  BY DEF Byte
<1> QED BY <1>1, <1>2 DEF FormByte

LEMMA FormPartIs ==
  ASSUME NEW name \in Text, NEW value \in Text
  PROVE  LET part == FormPart([name |-> name, value |-> value])
         IN  /\ part \in Seq(FormByte) /\ part # <<>>
             /\ Pair(part) = [key |-> name, value |-> value]
<1> DEFINE a == UrlEncode(name)
           b == UrlEncode(value)
           part == a \o (<<61>> \o b)
<1>1. /\ a \in Text /\ a \in Seq(UrlByte) /\ UrlDecode(a) = name
      /\ b \in Text /\ b \in Seq(UrlByte) /\ UrlDecode(b) = value
  BY UrlIsRead
<1>2. FormPart([name |-> name, value |-> value]) = part
  BY DEF FormPart
<1> HIDE DEF a, b
<1>3. a \in NoEquals
  <2>1. UrlByte \subseteq Byte \ {61}
    BY UrlBytesAre
  <2> QED BY <1>1, <2>1, SeqMonotone DEF NoEquals
<1>4. Equals(part) = Len(a) + 1 /\ KeyOf(part) = a /\ ValueOf(part) = b
  BY <1>1, <1>3, EqualsFirst
<1>5. part # <<>>
  <2> DEFINE none == <<>>
  <2>1. none \in NoEquals
    BY DEF NoEquals
  <2>2. Len(a) \in Nat
    BY <1>1
  <2>3. Equals(none) = 0
    <3> HIDE DEF none
    <3> QED BY <2>1, EqualsNone
  <2> QED BY <1>4, <2>2, <2>3
<1>6. part \in Seq(FormByte)
  <2> DEFINE q == <<61>>
  <2>1. q \in Seq(FormByte) /\ a \in Seq(FormByte) /\ b \in Seq(FormByte)
    BY <1>1, UrlBytesAre, SeqMonotone
  <2> HIDE DEF q
  <2>2. a \o (q \o b) \in Seq(FormByte)
    BY <2>1
  <2> QED BY <2>2 DEF q
<1>7. Trim(a, Whitespace) = a /\ Trim(b, Whitespace) = b
  <2>1. \A x \in Seq(UrlByte) : \A i \in DOMAIN x : x[i] \notin Whitespace
    BY UrlBytesAre
  <2>2. \A x \in Seq(UrlByte) : x # <<>> => 1 \in DOMAIN x /\ Len(x) \in DOMAIN x
    OBVIOUS
  <2> QED BY <1>1, <2>1, <2>2, TrimWhole
<1>8. Pair(part) = [key |-> name, value |-> value]
  BY <1>1, <1>4, <1>7 DEF Pair
<1> QED BY <1>2, <1>5, <1>6, <1>8

F == [name : Text, value : Text]

LEMMA FormPartWritten ==
  ASSUME NEW pre \in Seq(Byte), NEW field \in F
  PROVE  ((pre \o UrlEncode(field.name)) \o <<61>>) \o UrlEncode(field.value) = pre \o FormPart(field)
<1> DEFINE b == UrlEncode(field.name)
           c == <<61>>
           d == UrlEncode(field.value)
<1>1. b \in Seq(Byte) /\ d \in Seq(Byte)
  BY UrlIsRead DEF Text, F
<1>2. c \in Seq(Byte)
  BY DEF Byte
<1> DEFINE ab == pre \o b
           cd == c \o d
<1>3. ab \in Seq(Byte) /\ cd \in Seq(Byte)
  BY <1>1, <1>2
<1> HIDE DEF b, c, d
<1>4. pre \o (b \o cd) = ab \o cd
  <2> HIDE DEF cd
  <2> QED BY <1>1, <1>3, ConcatAssociative
<1>5. (ab \o c) \o d = ab \o (c \o d)
  <2> HIDE DEF ab
  <2> QED BY <1>1, <1>2, <1>3, ConcatAssociative, SMTT(20)
<1> QED BY <1>4, <1>5 DEF b, c, d, FormPart

LEMMA EncodeFormIs ==
  ASSUME NEW form \in Seq(F)
  PROVE  /\ EncodeForm(form) = JoinedBy(FormParts(form), 38)
         /\ FormParts(form) \in Seq(Seq(FormByte)) /\ Len(FormParts(form)) = Len(form)
         /\ \A i \in DOMAIN form :
              /\ FormParts(form)[i] # <<>>
              /\ Pair(FormParts(form)[i]) = [key |-> form[i].name, value |-> form[i].value]
<1> DEFINE ps == FormParts(form)
           n == Len(form)
           S == Seq(FormByte)
<1>1. n \in Nat /\ DOMAIN form = 1 .. n /\ \A i \in 1 .. n : form[i] \in F
  OBVIOUS
<1> HIDE DEF n
<1>2. ASSUME NEW i \in 1 .. n
      PROVE  /\ form[i].name \in Text /\ form[i].value \in Text
             /\ ps[i] = FormPart(form[i]) /\ ps[i] \in S /\ ps[i] # <<>>
             /\ Pair(ps[i]) = [key |-> form[i].name, value |-> form[i].value]
  <2> DEFINE x == form[i].name
             y == form[i].value
  <2>1. x \in Text /\ y \in Text /\ form[i] = [name |-> x, value |-> y]
    BY <1>1 DEF F
  <2> HIDE DEF x, y
  <2>2. ps[i] = FormPart([name |-> x, value |-> y])
    BY <1>1, <2>1 DEF FormParts
  <2> HIDE DEF ps
  <2>3. ps[i] \in S /\ ps[i] # <<>> /\ Pair(ps[i]) = [key |-> x, value |-> y]
    BY <2>1, <2>2, FormPartIs
  <2> QED BY <2>1, <2>2, <2>3 DEF x, y
<1>3. ps \in [1 .. n -> S]
  <2> HIDE DEF S
  <2>1. DOMAIN ps = 1 .. n /\ ps = [i \in DOMAIN ps |-> ps[i]]
    BY <1>1 DEF FormParts
  <2> HIDE DEF ps
  <2> QED BY <1>2, <2>1
<1>4. ps \in Seq(S) /\ Len(ps) = n
  <2> HIDE DEF S, ps
  <2> QED BY <1>1, <1>3
<1>5. EncodeForm(form) = JoinedBy(ps, 38)
  <2> DEFINE pre(i) == IF i = 1 THEN <<>> ELSE <<38>>
             raw(i) == ((pre(i) \o UrlEncode(form[i].name)) \o <<61>>) \o UrlEncode(form[i].value)
  <2>1. EncodeForm(form) = FlattenSeq([i \in DOMAIN form |-> raw(i)])
    BY ChIs DEF EncodeForm
  <2>2. JoinedBy(ps, 38) = FlattenSeq([i \in DOMAIN form |-> pre(i) \o ps[i]])
    <3>1. DOMAIN ps = DOMAIN form
      BY DEF FormParts
    <3> QED BY <3>1 DEF JoinedBy, Between
  <2>3. ASSUME NEW i \in DOMAIN form PROVE raw(i) = pre(i) \o ps[i]
    <3>1. pre(i) \in Seq(Byte)
      <4>1. 38 \in Byte
        BY DEF Byte
      <4>2. <<>> \in Seq(Byte) /\ <<38>> \in Seq(Byte)
        BY <4>1
      <4> QED BY <4>2
    <3>2. form[i] \in F /\ ps[i] = FormPart(form[i])
      BY <1>1, <1>2
    <3> HIDE DEF pre, ps
    <3> QED BY <3>1, <3>2, FormPartWritten
  <2> HIDE DEF raw, pre, ps
  <2>4. [i \in DOMAIN form |-> raw(i)] = [i \in DOMAIN form |-> pre(i) \o ps[i]]
    BY <2>3
  <2> QED BY <2>1, <2>2, <2>4
<1> QED BY <1>1, <1>2, <1>4, <1>5 DEF n, S

(* The names, and what the last field of each has.                         *)
Typings(form) ==
  [name \in {form[i].name : i \in DOMAIN form} |->
     form[Max({i \in DOMAIN form : form[i].name = name})].value]

LEMMA LastOfForm ==
  ASSUME NEW n \in Nat, NEW form, DOMAIN form = 1 .. n, NEW pairs, DOMAIN pairs = 1 .. n,
         \A i \in 1 .. n : pairs[i].key = form[i].name /\ pairs[i].value = form[i].value
  PROVE  LastOf(pairs) = Typings(form)
<1> DEFINE K == {pairs[i].key : i \in DOMAIN pairs}
           N == {form[i].name : i \in DOMAIN form}
           P(k) == {i \in DOMAIN pairs : pairs[i].key = k}
           Q(k) == {i \in DOMAIN form : form[i].name = k}
<1>1. K = N /\ \A k : P(k) = Q(k)
  OBVIOUS
<1>2. ASSUME NEW k \in N PROVE Max(Q(k)) \in 1 .. n
  <2>1. Q(k) \in SUBSET (1 .. n) /\ Q(k) # {}
    OBVIOUS
  <2> HIDE DEF Q
  <2>2. Max(Q(k)) \in Q(k)
    BY <2>1, MaxIn
  <2> QED BY <2>1, <2>2
<1>3. LastOf(pairs) = [k \in K |-> pairs[Max(P(k))].value]
  BY DEF LastOf
<1>4. Typings(form) = [k \in N |-> form[Max(Q(k))].value]
  BY DEF Typings
<1> HIDE DEF K, N, P, Q
<1>5. \A k \in N : pairs[Max(P(k))].value = form[Max(Q(k))].value
  BY <1>1, <1>2
<1> QED BY <1>1, <1>3, <1>4, <1>5

LEMMA FormIsRead ==
  ASSUME NEW form \in Seq(F), form # <<>>
  PROVE  /\ ParseForm(EncodeForm(form)) = Typings(form)
         /\ ParseQuery(EncodeForm(form)) = Typings(form)
<1> DEFINE ps == FormParts(form)
           n == Len(form)
           e == EncodeForm(form)
           pairs == PairsOf(ps)
<1>1. n \in Nat /\ n # 0 /\ DOMAIN form = 1 .. n
  OBVIOUS
<1>2. e = JoinedBy(ps, 38) /\ ps \in Seq(Seq(FormByte)) /\ Len(ps) = n
  BY EncodeFormIs
<1>3. \A i \in 1 .. n : ps[i] # <<>> /\ Pair(ps[i]) = [key |-> form[i].name, value |-> form[i].value]
  BY <1>1, EncodeFormIs
<1> HIDE DEF ps, n, e
<1>4. DOMAIN ps = 1 .. n /\ ps # <<>>
  BY <1>1, <1>2
<1>5. Split(e, 38) = ps
  <2> DEFINE sep == 38
             C == Byte \ {sep}
  <2>1. sep \in Byte /\ FormByte \subseteq C
    BY UrlBytesAre DEF Byte
  <2>2. ps \in Seq(Seq(C))
    <3> HIDE DEF C
    <3>1. Seq(FormByte) \subseteq Seq(C)
      BY <2>1, SeqMonotone
    <3> DEFINE X == Seq(FormByte)
               Y == Seq(C)
    <3>2. X \subseteq Y /\ ps \in Seq(X)
      BY <1>2, <3>1
    <3> HIDE DEF X, Y
    <3>3. ps \in Seq(Y)
      BY <3>2, SeqMonotone
    <3> QED BY <3>3 DEF Y
  <2>3. e = JoinedBy(ps, sep)
    BY <1>2
  <2> HIDE DEF sep
  <2>4. Split(JoinedBy(ps, sep), sep) = ps
    BY <1>4, <2>1, <2>2, SplitJoined
  <2> QED BY <2>3, <2>4 DEF sep
<1>6. DOMAIN pairs = 1 .. n /\ \A i \in 1 .. n : pairs[i] = Pair(ps[i])
  BY <1>3, <1>4 DEF PairsOf
<1> HIDE DEF pairs
<1>7. ASSUME NEW i \in 1 .. n PROVE pairs[i].key = form[i].name /\ pairs[i].value = form[i].value
  <2>1. pairs[i] = [key |-> form[i].name, value |-> form[i].value]
    BY <1>3, <1>6
  <2> QED BY <2>1
<1>8. LastOf(pairs) = Typings(form)
  BY <1>1, <1>6, <1>7, LastOfForm
<1>9. ParsePairs(e, 38) = Typings(form)
  BY <1>5, <1>8 DEF ParsePairs, pairs
<1>10. ~(e # <<>> /\ e[1] = 63)
  <2> DEFINE sep == 38
             C == Byte \ {63}
  <2>1. sep \in C /\ FormByte \subseteq C
    BY UrlBytesAre DEF Byte
  <2>2. ps \in Seq(Seq(C))
    <3> HIDE DEF C
    <3>1. Seq(FormByte) \subseteq Seq(C)
      BY <2>1, SeqMonotone
    <3> DEFINE X == Seq(FormByte)
               Y == Seq(C)
    <3>2. X \subseteq Y /\ ps \in Seq(X)
      BY <1>2, <3>1
    <3> HIDE DEF X, Y
    <3>3. ps \in Seq(Y)
      BY <3>2, SeqMonotone
    <3> QED BY <3>3 DEF Y
  <2>3. e = JoinedBy(ps, sep)
    BY <1>2
  <2> HIDE DEF sep, C
  <2>4. JoinedBy(ps, sep) \in Seq(C)
    BY <2>1, <2>2, JoinedType
  <2>5. e \in Seq(C)
    BY <2>3, <2>4
  <2>6. 63 \notin C
    BY DEF C
  <2>7. e # <<>> => e[1] \in C
    BY <2>5
  <2> QED BY <2>6, <2>7
<1>11. ParseForm(e) = Typings(form) /\ ParseQuery(e) = Typings(form)
  BY <1>9, <1>10, ChIs DEF ParseForm, ParseQuery
<1> QED BY <1>11 DEF e

(* auth.cpp:32-34: what a browser encodes of a form is read as it was      *)
(* typed, from a body and from a query alike, whatever bytes there are.    *)
THEOREM FormsAreRead == Spec => []FormIsReadBack
<1>1. FieldsOK => FormIsReadBack
  <2> SUFFICES ASSUME FieldsOK PROVE FormIsReadBack
    OBVIOUS
  <2>1. fields \in Seq(F) /\ fields # <<>>
    BY DEF FieldsOK, F
  <2>2. ParseForm(EncodeForm(fields)) = Typings(fields) /\ ParseQuery(EncodeForm(fields)) = Typings(fields)
    BY <2>1, FormIsRead
  <2> QED BY <2>2 DEF FormIsReadBack, Typings
<1> QED BY <1>1, FieldsAreTexts, PTL

-----------------------------------------------------------------------------
(* The line of the name in luxweb.toml.                                    *)
NameByte == Alnum \cup {45, 95}

LEMMA AppNameType ==
  ASSUME NEW s \in Text PROVE AppName(s) \in Seq(NameByte)
<1>1. 108 \in NameByte /\ 95 \in NameByte
  BY DEF NameByte, Alnum
<1> DEFINE n == Len(s)
           r == [i \in DOMAIN s |-> IF s[i] \in Alnum \cup {95, 45} THEN s[i] ELSE 95]
<1>2. n \in Nat /\ DOMAIN s = 1 .. n
  BY DEF Text
<1>3. r \in Seq(NameByte)
  <2> HIDE DEF n
  <2>1. \A i \in 1 .. n : (IF s[i] \in Alnum \cup {95, 45} THEN s[i] ELSE 95) \in NameByte
    BY <1>1 DEF NameByte
  <2>2. r \in [1 .. n -> NameByte]
    BY <1>2, <2>1
  <2> HIDE DEF r
  <2> QED BY <1>2, <2>2
<1>4. <<108>> \in Seq(NameByte)
  BY <1>1
<1>5. AppName(s) = IF s = <<>> THEN <<108>> ELSE r
  BY ChIs DEF AppName
<1> QED BY <1>3, <1>4, <1>5

LEMMA NameBytesAre == NameByte \subseteq Byte \ {9, 10, 13, 32, 34, 35, 61}
  BY DEF NameByte, Alnum, Byte

(* name = "...": the first byte and the last are no blanks.                *)
QuotedName(name) == <<34>> \o (name \o <<34>>)

NameLine(name) == <<110, 32>> \o (<<61>> \o (<<32>> \o QuotedName(name)))

TomlBlanks == {9, 10, 13, 32}

LEMMA QuotedNameIs ==
  ASSUME NEW name \in Seq(NameByte)
  PROVE  LET q == QuotedName(name)
         IN  /\ q \in Seq(Byte \ {10}) /\ q \in Text /\ Len(q) = Len(name) + 2
             /\ q[1] = 34 /\ q[Len(q)] = 34 /\ SubSeq(q, 2, Len(q) - 1) = name
             /\ Unquoted(q) = name
<1> DEFINE C == Byte \ {10}
           e == 34
           n == Len(name)
           b == name \o <<e>>
           q == <<e>> \o b
           r == SubSeq(q, 2, Len(q) - 1)
<1>1. name \in Seq(C) /\ e \in C
  <2>1. NameByte \subseteq C
    BY NameBytesAre
  <2>2. e \in C
    BY DEF Byte
  <2> HIDE DEF C
  <2>3. name \in Seq(C)
    BY <2>1, SeqMonotone
  <2> QED BY <2>2, <2>3
<1>2. n \in Nat /\ Text = Seq(Byte) /\ C \subseteq Byte
  BY DEF Text
<1> HIDE DEF C, e
<1>3. /\ b \in Seq(C) /\ Len(b) = n + 1 /\ b[n + 1] = e
      /\ \A i \in 1 .. n : b[i] = name[i]
  <2>1. b = Append(name, e)
    BY <1>1, AppendIsConcat
  <2> HIDE DEF b
  <2> QED BY <1>1, <2>1, AppendProperties
<1> HIDE DEF b, n
<1>4. /\ q \in Seq(C) /\ Len(q) = Len(b) + 1 /\ q[1] = e
      /\ \A i \in DOMAIN b : q[i + 1] = b[i]
  <2>1. b \in Seq(C)
    BY <1>3
  <2> QED BY <1>1, <2>1, Pushed
<1> HIDE DEF q
<1>5. Len(q) = n + 2 /\ DOMAIN b = 1 .. n + 1
  BY <1>2, <1>3, <1>4
<1>6. q[n + 2] = e
  <2>1. n + 1 \in DOMAIN b /\ (n + 1) + 1 = n + 2
    BY <1>2, <1>5
  <2>2. q[(n + 1) + 1] = b[n + 1]
    BY <1>4, <2>1
  <2> QED BY <1>3, <2>1, <2>2
<1>7. r = name
  <2>1. 2 \in Int /\ n + 1 \in Int /\ \A i \in 2 .. n + 1 : q[i] \in C
    BY <1>2, <1>4, <1>5
  <2> DEFINE x == 2
             y == n + 1
  <2>2. r = SubSeq(q, x, y)
    BY <1>2, <1>5
  <2>3. /\ SubSeq(q, x, y) \in Seq(C) /\ Len(SubSeq(q, x, y)) = IF x <= y THEN y - x + 1 ELSE 0
        /\ \A i \in 1 .. y - x + 1 : SubSeq(q, x, y)[i] = q[x + i - 1]
    <3> HIDE DEF x, y
    <3>1. x \in Int /\ y \in Int /\ \A i \in x .. y : q[i] \in C
      BY <2>1 DEF x, y
    <3> QED BY <3>1, SubSeqProperties
  <2> HIDE DEF r
  <2>4. r \in Seq(C) /\ Len(r) = n
    BY <1>2, <2>2, <2>3
  <2>5. \A i \in 1 .. n : r[i] = name[i]
    <3> TAKE i \in 1 .. n
    <3>1. i \in 1 .. y - x + 1 /\ x + i - 1 = i + 1 /\ i \in 1 .. n + 1
      BY <1>2
    <3>2. r[i] = q[x + i - 1]
      BY <2>2, <2>3, <3>1
    <3>3. q[i + 1] = b[i] /\ b[i] = name[i]
      BY <1>3, <1>4, <1>5, <3>1
    <3> QED BY <3>1, <3>2, <3>3
  <2> QED BY <1>1, <2>4, <2>5, SeqEqual DEF n
<1>8. q \in Text
  BY <1>2, <1>4, SeqMonotone
<1>9. Unquoted(q) = name
  <2>1. Len(q) >= 2 /\ q[Len(q)] = e /\ q[1] = e
    BY <1>2, <1>4, <1>5, <1>6
  <2> QED BY <1>7, <2>1, ChIs DEF Unquoted, Last, r, e
<1>10. /\ q \in Seq(C) /\ q \in Text /\ Len(q) = n + 2 /\ q[1] = e /\ q[Len(q)] = e
       /\ SubSeq(q, 2, Len(q) - 1) = name /\ Unquoted(q) = name
  BY <1>4, <1>5, <1>6, <1>7, <1>8, <1>9 DEF r
<1> QED BY <1>10 DEF QuotedName, q, b, e, C, n

LEMMA TomlNameIs ==
  ASSUME NEW name \in Seq(NameByte)
  PROVE  TomlName(name) = NameLine(name) \o (<<10>> \o <<>>)
<1> DEFINE x1 == <<34>>
           y == <<32>>
           z == <<61>>
           u == <<110, 32>>
           l == <<10>>
           x2 == y \o x1
           x3 == z \o x2
           x4 == u \o x3
           b == name \o x1
           w == x4 \o name
<1>1. x1 \in Seq(Byte) /\ y \in Seq(Byte) /\ z \in Seq(Byte) /\ u \in Seq(Byte) /\ l \in Seq(Byte)
  BY DEF Byte
<1>2. name \in Seq(Byte)
  <2>1. NameByte \subseteq Byte
    BY NameBytesAre
  <2> QED BY <2>1, SeqMonotone
<1>3. TomlName(name) = w \o (x1 \o l)
  <2>1. NameKey \o <<Ch.space, Ch.equals, Ch.space, Ch.quote>> = x4
    BY ChIs DEF NameKey
  <2>2. <<Ch.quote, Ch.newline>> = x1 \o l
    BY ChIs
  <2> HIDE DEF x4
  <2>3. TomlName(name) = (x4 \o name) \o <<Ch.quote, Ch.newline>>
    BY <2>1 DEF TomlName
  <2> HIDE DEF x1, l
  <2> QED BY <2>2, <2>3
<1>4. l \o <<>> = l
  OBVIOUS
<1> HIDE DEF x1, y, z, u, l
<1>5. x2 \in Seq(Byte) /\ b \in Seq(Byte)
  BY <1>1, <1>2
<1>6. x2 \o b = y \o (x1 \o b)
  <2> HIDE DEF b
  <2>1. y \in Seq(Byte) /\ x1 \in Seq(Byte) /\ b \in Seq(Byte)
    BY <1>1, <1>5
  <2>2. (y \o x1) \o b = y \o (x1 \o b)
    BY <2>1, ConcatAssociative
  <2> QED BY <2>2
<1> HIDE DEF x2
<1>7. x3 \in Seq(Byte)
  BY <1>1, <1>5
<1>8. x3 \o b = z \o (x2 \o b)
  <2> HIDE DEF b
  <2>1. z \in Seq(Byte) /\ x2 \in Seq(Byte) /\ b \in Seq(Byte)
    BY <1>1, <1>5
  <2>2. (z \o x2) \o b = z \o (x2 \o b)
    BY <2>1, ConcatAssociative
  <2> QED BY <2>2
<1> HIDE DEF x3
<1>9. x4 \in Seq(Byte)
  BY <1>1, <1>7
<1>10. x4 \o b = u \o (x3 \o b)
  <2> HIDE DEF b
  <2>1. u \in Seq(Byte) /\ x3 \in Seq(Byte) /\ b \in Seq(Byte)
    BY <1>1, <1>5, <1>7
  <2>2. (u \o x3) \o b = u \o (x3 \o b)
    BY <2>1, ConcatAssociative
  <2> QED BY <2>2
<1> HIDE DEF x4
<1>11. w \in Seq(Byte)
  BY <1>2, <1>9
<1>12. w \o x1 = x4 \o b
  <2>1. x4 \in Seq(Byte) /\ name \in Seq(Byte) /\ x1 \in Seq(Byte)
    BY <1>1, <1>2, <1>9
  <2>2. (x4 \o name) \o x1 = x4 \o (name \o x1)
    BY <2>1, ConcatAssociative, SMTT(20)
  <2> QED BY <2>2
<1> HIDE DEF w
<1>13. (w \o x1) \o l = w \o (x1 \o l)
  <2>1. w \in Seq(Byte) /\ x1 \in Seq(Byte) /\ l \in Seq(Byte)
    BY <1>1, <1>11
  <2> QED BY <2>1, ConcatAssociative
<1>14. NameLine(name) = u \o (z \o (y \o (x1 \o b)))
  BY DEF NameLine, QuotedName, u, z, y, x1
<1>15. TomlName(name) = NameLine(name) \o l
  BY <1>3, <1>6, <1>8, <1>10, <1>12, <1>13, <1>14
<1> QED BY <1>4, <1>15 DEF l

LEMMA NameLineIs ==
  ASSUME NEW name \in Seq(NameByte)
  PROVE  LET line == NameLine(name)
         IN  /\ line \in Seq(Byte \ {10}) /\ Trim(line, TomlBlanks) = line /\ line[1] = 110
             /\ Equals(line) = 3 /\ KeyOf(line) = <<110, 32>>
             /\ Trim(ValueOf(line), TomlBlanks) = QuotedName(name)
<1> DEFINE C == Byte \ {10}
           u == <<110, 32>>
           z == <<61>>
           q == QuotedName(name)
           v == <<32>> \o q
           r == z \o v
           line == u \o r
<1>1. q \in Seq(C) /\ q \in Text /\ Len(q) \in Nat \ {0} /\ q[1] = 34 /\ q[Len(q)] = 34
  <2>1. q \in Seq(C) /\ q \in Text /\ Len(q) = Len(name) + 2 /\ q[1] = 34 /\ q[Len(q)] = 34
    BY QuotedNameIs
  <2>2. Len(name) \in Nat
    OBVIOUS
  <2> HIDE DEF q
  <2> QED BY <2>1, <2>2
<1> HIDE DEF q
<1>2. 32 \in C /\ 61 \in C /\ 110 \in C /\ C \subseteq Byte /\ Text = Seq(Byte)
  BY DEF Byte, Text
<1>3. /\ u \in Seq(C) /\ Len(u) = 2 /\ u[1] = 110 /\ u[2] = 32 /\ DOMAIN u = {1, 2}
      /\ z \in Seq(C) /\ Len(z) = 1
  BY <1>2
<1>4. u \in NoEquals
  BY DEF NoEquals, Byte
<1>5. v \in Seq(C) /\ v \in Text
  <2> HIDE DEF C
  <2>1. v \in Seq(C)
    BY <1>1, <1>2
  <2> HIDE DEF v
  <2>2. v \in Text
    BY <1>2, <2>1, SeqMonotone
  <2> QED BY <2>1, <2>2
<1>6. Trim(v, TomlBlanks) = q
  <2> DEFINE e == 32
  <2>1. e \in Byte /\ e \in TomlBlanks /\ 34 \notin TomlBlanks /\ q \in Seq(Byte)
    BY <1>1, <1>2 DEF TomlBlanks, Byte
  <2>2. Trim(<<e>> \o q, TomlBlanks) = Trim(q, TomlBlanks)
    <3> HIDE DEF e
    <3>1. e \in Byte /\ e \in TomlBlanks /\ q \in Seq(Byte)
      BY <2>1
    <3> QED BY <3>1, TrimBlank
  <2>3. Trim(q, TomlBlanks) = q
    <3>1. q[1] \notin TomlBlanks /\ q[Len(q)] \notin TomlBlanks
      BY <1>1, <2>1
    <3> QED BY <2>1, <3>1, TrimWhole
  <2> QED BY <2>2, <2>3
<1>7. Equals(line) = 3 /\ KeyOf(line) = u /\ ValueOf(line) = v
  <2> HIDE DEF u, v
  <2>1. Equals(line) = Len(u) + 1 /\ KeyOf(line) = u /\ ValueOf(line) = v
    BY <1>4, <1>5, EqualsFirst
  <2> QED BY <1>3, <2>1
<1>8. /\ line \in Seq(C) /\ Len(line) \in Nat \ {0} /\ line[1] = 110 /\ line[Len(line)] = 34
  <2> DEFINE n == Len(q)
             e == 32
  <2> HIDE DEF C, u, z
  <2>1. /\ v \in Seq(C) /\ Len(v) = n + 1 /\ \A i \in DOMAIN q : v[i + 1] = q[i]
    <3>1. q \in Seq(C) /\ e \in C
      BY <1>1, <1>2
    <3> HIDE DEF e
    <3>2. <<e>> \o q \in Seq(C) /\ Len(<<e>> \o q) = Len(q) + 1 /\ \A i \in DOMAIN q : (<<e>> \o q)[i + 1] = q[i]
      BY <3>1, Pushed
    <3> QED BY <3>2 DEF e
  <2>2. n \in Nat \ {0} /\ DOMAIN q = 1 .. n
    BY <1>1
  <2> HIDE DEF n, v
  <2>3. v[n + 1] = 34
    BY <1>1, <2>1, <2>2 DEF n
  <2>4. r \in Seq(C) /\ Len(r) = (n + 1) + 1 /\ \A i \in 1 .. n + 1 : r[i + 1] = v[i]
    <3>1. z \in Seq(C) /\ v \in Seq(C)
      BY <1>3, <2>1
    <3>2. r \in Seq(C) /\ Len(r) = Len(v) + Len(z) /\ \A i \in 1 .. Len(v) : r[i + Len(z)] = v[i]
      BY <3>1, After
    <3> HIDE DEF r
    <3> QED BY <1>3, <2>1, <3>2
  <2> HIDE DEF r
  <2>5. /\ line \in Seq(C) /\ Len(line) = ((n + 1) + 1) + 2 /\ \A i \in 1 .. (n + 1) + 1 : line[i + 2] = r[i]
        /\ line[1] = u[1]
    <3>1. u \in Seq(C) /\ r \in Seq(C)
      BY <1>3, <2>4
    <3>2. /\ line \in Seq(C) /\ Len(line) = Len(r) + Len(u) /\ \A i \in 1 .. Len(r) : line[i + Len(u)] = r[i]
          /\ \A i \in 1 .. Len(u) : line[i] = u[i]
      BY <3>1, After
    <3> HIDE DEF line
    <3> QED BY <1>3, <2>4, <3>2
  <2> HIDE DEF line
  <2>6. line[((n + 1) + 1) + 2] = r[(n + 1) + 1] /\ r[(n + 1) + 1] = v[n + 1]
    <3>1. (n + 1) + 1 \in 1 .. (n + 1) + 1 /\ n + 1 \in 1 .. n + 1
      BY <2>2
    <3> QED BY <2>4, <2>5, <3>1
  <2> QED BY <1>3, <2>2, <2>3, <2>5, <2>6
<1> HIDE DEF line
<1>9. Trim(line, TomlBlanks) = line
  <2>1. 110 \notin TomlBlanks /\ 34 \notin TomlBlanks
    BY DEF TomlBlanks
  <2> HIDE DEF C
  <2>2. line \in Seq(C) /\ line[1] \notin TomlBlanks /\ line[Len(line)] \notin TomlBlanks
    BY <1>8, <2>1
  <2> QED BY <2>2, TrimWhole
<1>10. NameLine(name) = line
  BY DEF NameLine, line, q
<1>11. /\ line \in Seq(C) /\ Trim(line, TomlBlanks) = line /\ line[1] = 110
       /\ Equals(line) = 3 /\ KeyOf(line) = u /\ Trim(ValueOf(line), TomlBlanks) = q
  BY <1>6, <1>7, <1>8, <1>9
<1> QED BY <1>10, <1>11 DEF C, u, q

LEMMA FirstOnly ==
  ASSUME NEW C, NEW s \in Seq(C), s # <<>> PROVE SubSeq(s, 1, 1) = <<s[1]>>
<1> DEFINE x == 1
           r == SubSeq(s, x, x)
           t == <<s[1]>>
<1>1. x \in Int /\ \A i \in x .. x : s[i] \in C
  OBVIOUS
<1>2. /\ SubSeq(s, x, x) \in Seq(C) /\ Len(SubSeq(s, x, x)) = IF x <= x THEN x - x + 1 ELSE 0
      /\ \A i \in 1 .. x - x + 1 : SubSeq(s, x, x)[i] = s[x + i - 1]
  <2> HIDE DEF x, r
  <2> QED BY <1>1, SubSeqProperties
<1>3. r \in Seq(C) /\ Len(r) = 1 /\ r[1] = s[1]
  <2> HIDE DEF r
  <2>1. x = 1 /\ x - x + 1 = 1 /\ x + 1 - 1 = 1 /\ 1 \in 1 .. 1
    OBVIOUS
  <2> QED BY <1>2, <2>1 DEF r
<1>4. t \in Seq(C) /\ Len(t) = 1 /\ t[1] = s[1]
  OBVIOUS
<1> HIDE DEF r, t
<1>5. r = t
  <2>1. \A i \in 1 .. Len(r) : r[i] = t[i]
    BY <1>3, <1>4
  <2> QED BY <1>3, <1>4, <2>1, SeqEqual
<1> QED BY <1>5 DEF r, t, x

LEMMA NameAfterIs ==
  ASSUME NEW name \in Seq(NameByte), NEW before
  PROVE  NameAfter(before, NameLine(name)) = name /\ NameAfter(before, <<>>) = before
<1>1. \A raw : NameAfter(before, raw) =
        LET line == Trim(raw, TomlBlanks)
        IN  IF Equals(line) > 0 /\ line[1] # 35 /\ Trim(KeyOf(line), TomlBlanks) = NameKey
            THEN Unquoted(Trim(ValueOf(line), TomlBlanks)) ELSE before
  <2>1. {9, 10, 13, Ch.space} = TomlBlanks
    BY ChIs DEF TomlBlanks
  <2> QED BY <2>1 DEF NameAfter
<1>2. NameAfter(before, NameLine(name)) = name
  <2> DEFINE line == NameLine(name)
             u == <<110, 32>>
  <2>1. /\ Trim(line, TomlBlanks) = line /\ line[1] = 110 /\ Equals(line) = 3 /\ KeyOf(line) = u
        /\ Trim(ValueOf(line), TomlBlanks) = QuotedName(name)
    BY NameLineIs
  <2>2. Unquoted(QuotedName(name)) = name
    BY QuotedNameIs
  <2>3. Trim(u, TomlBlanks) = NameKey
    <3> DEFINE x == 1
    <3>1. /\ u \in Seq(Byte) /\ x \in DOMAIN u /\ u[x] \notin TomlBlanks
          /\ \A i \in DOMAIN u : u[i] \notin TomlBlanks => x <= i /\ i <= x
      BY DEF TomlBlanks, Byte
    <3>2. SubSeq(u, x, x) = <<110>>
      <4>1. u \in Seq(Byte) /\ u # <<>> /\ u[1] = 110
        BY <3>1
      <4> HIDE DEF u
      <4> QED BY <4>1, FirstOnly
    <3> HIDE DEF u, x
    <3>3. Trim(u, TomlBlanks) = SubSeq(u, x, x)
      BY <3>1, TrimIs
    <3> QED BY <3>2, <3>3 DEF NameKey
  <2> HIDE DEF line, u
  <2>4. NameAfter(before, line) = name
    <3>1. Equals(line) > 0 /\ line[1] # 35 /\ Trim(KeyOf(line), TomlBlanks) = NameKey
      BY <2>1, <2>3
    <3>2. NameAfter(before, line) = Unquoted(Trim(ValueOf(line), TomlBlanks))
      BY <1>1, <2>1, <3>1
    <3> QED BY <2>1, <2>2, <3>2
  <2> QED BY <2>4 DEF line
<1>3. NameAfter(before, <<>>) = before
  <2> DEFINE none == <<>>
  <2>1. Trim(none, TomlBlanks) = none
    BY TrimNone
  <2>2. none \in NoEquals
    BY DEF NoEquals
  <2> HIDE DEF none
  <2>3. Equals(none) = 0
    BY <2>2, EqualsNone
  <2>4. NameAfter(before, none) = before
    BY <1>1, <2>1, <2>3
  <2> QED BY <2>4 DEF none
<1> QED BY <1>2, <1>3

(* A line makes a text of a text.                                          *)
LEMMA NameAfterType ==
  ASSUME NEW before \in Text, NEW raw \in Text PROVE NameAfter(before, raw) \in Text
<1> DEFINE blanks == {9, 10, 13, Ch.space}
           line == Trim(raw, blanks)
           v == Trim(ValueOf(line), blanks)
<1>1. line \in Text
  <2> HIDE DEF blanks
  <2> QED BY TrimType DEF Text
<1> HIDE DEF line
<1>2. v \in Text
  <2>1. ValueOf(line) \in Text
    BY <1>1, PairType
  <2> HIDE DEF blanks
  <2> QED BY <2>1, TrimType DEF Text
<1> HIDE DEF v
<1>3. Unquoted(v) \in Text
  <2>1. Len(v) \in Nat
    BY <1>2 DEF Text
  <2> DEFINE x == 2
             y == Len(v) - 1
  <2>2. CASE Len(v) >= 2
    <3>1. x \in Int /\ y \in Int /\ \A i \in x .. y : v[i] \in Byte
      BY <1>2, <2>1 DEF Text
    <3>2. v \in Seq(Byte)
      BY <1>2 DEF Text
    <3>3. SubSeq(v, x, y) \in Seq(Byte)
      <4> HIDE DEF x, y
      <4> QED BY <3>1, <3>2, SubSeqProperties
    <3> QED BY <1>2, <3>3 DEF Unquoted, Text
  <2>3. CASE ~(Len(v) >= 2)
    BY <1>2, <2>3 DEF Unquoted
  <2> QED BY <2>2, <2>3
<1>4. NameAfter(before, raw) = Unquoted(v) \/ NameAfter(before, raw) = before
  BY DEF NameAfter, v, line
<1> QED BY <1>3, <1>4

NameStep == [name \in Text |-> [raw \in Text |-> NameAfter(name, raw)]]

LEMMA NameSteps ==
  /\ NameStep \in Steps(Text, Text)
  /\ \A name \in Text, raw \in Text : NameStep[name][raw] = NameAfter(name, raw)
<1>1. \A name \in Text : [raw \in Text |-> NameAfter(name, raw)] \in [Text -> Text]
  BY NameAfterType
<1> QED BY <1>1 DEF Steps, NameStep

LEMMA NameIsRead ==
  ASSUME NEW name \in Seq(NameByte) PROVE ConfigName(TomlName(name)) = name
<1> DEFINE line == NameLine(name)
           nl == 10
           none == <<>>
           lines == <<line>>
           start == Reads(NameStep, none, lines)
<1>1. line \in Seq(Byte \ {nl}) /\ none \in Seq(Byte \ {nl}) /\ nl \in Byte
  BY NameLineIs DEF Byte
<1>2. line \in Text /\ none \in Text
  <2> HIDE DEF line, none, nl
  <2> QED BY <1>1, Free
<1>3. name \in Text
  <2>1. NameByte \subseteq Byte
    BY NameBytesAre
  <2> QED BY <2>1, SeqMonotone DEF Text
<1>4. Split(TomlName(name), nl) = Append(lines, none)
  <2>1. TomlName(name) = line \o (<<nl>> \o none)
    BY TomlNameIs
  <2> HIDE DEF line, none, nl, lines
  <2>2. Split(line \o (<<nl>> \o none), nl) = Append(Split(line, nl), none)
    BY <1>1, <1>2, SplitLast
  <2>3. Split(line, nl) = lines
    BY <1>1, SplitOne DEF lines
  <2> QED BY <2>1, <2>2, <2>3
<1>5. ConfigName(TomlName(name)) = Reads(NameStep, none, Append(lines, none))
  BY <1>4, ChIs DEF ConfigName, NameStep
<1>6. lines \in Seq(Text)
  <2> HIDE DEF line
  <2> QED BY <1>2
<1>7. start = name
  <2>1. NameAfter(none, line) = name
    BY NameAfterIs
  <2> HIDE DEF line, none
  <2>2. NameStep \in Steps(Text, Text) /\ none \in Text /\ line \in Text
    BY <1>2, NameSteps
  <2>3. Reads(NameStep, none, <<line>>) = NameStep[none][line]
    BY <2>2, ReadsOne
  <2> QED BY <1>2, <2>1, <2>3, NameSteps
<1>8. NameAfter(name, none) = name
  BY NameAfterIs
<1> HIDE DEF none, lines
<1>9. Reads(NameStep, none, Append(lines, none)) = NameStep[start][none]
  <2>1. NameStep \in Steps(Text, Text) /\ none \in Text /\ lines \in Seq(Text)
    BY <1>2, <1>6, NameSteps
  <2> QED BY <2>1, ReadsNext
<1> QED BY <1>2, <1>3, <1>5, <1>7, <1>8, <1>9, NameSteps

(* main.cpp:245-253 and 79-112: the name luxweb new has written for a      *)
(* directory, whatever bytes its own consists of, is the one that build,   *)
(* dev and serve read.                                                     *)
THEOREM NamesAreRead == Spec => []NameIsReadBack
<1>1. FieldsOK => NameIsReadBack
  <2> SUFFICES ASSUME FieldsOK, NEW s \in Texts PROVE ConfigName(TomlName(AppName(s))) = AppName(s)
    BY DEF NameIsReadBack
  <2>1. s \in Text
    BY TextsAreTexts
  <2>2. AppName(s) \in Seq(NameByte)
    BY <2>1, AppNameType
  <2> QED BY <2>2, NameIsRead
<1> QED BY <1>1, FieldsAreTexts, PTL

-----------------------------------------------------------------------------
(* A blank before a part says nothing.                                     *)
LEMMA PairBlank ==
  ASSUME NEW p \in Text PROVE <<32>> \o p \in Text /\ Pair(<<32>> \o p) = Pair(p)
<1> DEFINE e == 32
           x == <<e>>
           w == x \o p
<1>1. e \in Byte /\ e \in Whitespace /\ e \in Byte \ {61}
  BY ChIs DEF Byte, Whitespace
<1>2. w \in Text
  <2> HIDE DEF e
  <2> QED BY <1>1, TextIs
<1>3. \A s \in Text : Trim(x \o s, Whitespace) = Trim(s, Whitespace)
  <2> SUFFICES ASSUME NEW s \in Seq(Byte) PROVE Trim(<<e>> \o s, Whitespace) = Trim(s, Whitespace)
    BY DEF Text
  <2> HIDE DEF e
  <2> QED BY <1>1, TrimBlank
<1>4. ASSUME NEW s \in NoEquals PROVE x \o s \in NoEquals
  <2> HIDE DEF e
  <2> QED BY <1>1 DEF NoEquals
<1>5. ASSUME p \in NoEquals PROVE Pair(w) = Pair(p)
  <2> HIDE DEF x
  <2>1. w \in NoEquals
    BY <1>4, <1>5
  <2> HIDE DEF w
  <2>2. KeyOf(w) = w /\ ValueOf(w) = <<>> /\ KeyOf(p) = p /\ ValueOf(p) = <<>>
    BY <1>5, <2>1, EqualsNone
  <2>3. Trim(w, Whitespace) = Trim(p, Whitespace)
    BY <1>3 DEF w
  <2> QED BY <2>2, <2>3 DEF Pair
<1>6. ASSUME NEW a \in NoEquals, NEW b \in Text, p = a \o (<< 61 >> \o b) PROVE Pair(w) = Pair(p)
  <2>2. p = a \o (<<61>> \o b)
    BY <1>6
  <2> DEFINE q == <<61>> \o b
             u == x \o a
  <2>3. a \in Text /\ u \in NoEquals
    <3> HIDE DEF x
    <3> QED BY <1>4, EqualsNone
  <2>4. w = u \o q
    <3>1. x \in Seq(Byte) /\ a \in Seq(Byte) /\ q \in Seq(Byte)
      BY <1>1, <2>3 DEF Text, Byte
    <3> HIDE DEF x, q
    <3>2. (x \o a) \o q = x \o (a \o q)
      BY <3>1, ConcatAssociative
    <3> QED BY <2>2, <3>2 DEF q
  <2> HIDE DEF x, u, w
  <2>5. KeyOf(w) = u /\ ValueOf(w) = b
    BY <2>3, <2>4, EqualsFirst
  <2> HIDE DEF q
  <2>6. KeyOf(p) = a /\ ValueOf(p) = b
    BY <2>2, EqualsFirst
  <2>7. Trim(u, Whitespace) = Trim(a, Whitespace)
    BY <1>3, <2>3 DEF u
  <2> QED BY <2>5, <2>6, <2>7 DEF Pair
<1>7. Pair(w) = Pair(p)
  <2> HIDE DEF w
  <2>1. p \in NoEquals \/ \E a \in NoEquals, b \in Text : p = a \o (<<61>> \o b)
    BY EqualsSplit
  <2> QED BY <1>5, <1>6, <2>1
<1> QED BY <1>2, <1>7

(* What a browser writes of one cookie.                                    *)
CookieText(f) == (IF f.name = <<>> THEN <<>> ELSE f.name \o <<61>>) \o f.value

CookiePairs(jar) == [i \in DOMAIN jar |-> Pair(CookieText(jar[i]))]

CookieParts(jar) ==
  [i \in DOMAIN jar |-> IF i = 1 THEN CookieText(jar[i]) ELSE <<32>> \o CookieText(jar[i])]

LEMMA Without ==
  ASSUME NEW s \in Seq(Byte), NEW c, \A i \in DOMAIN s : s[i] # c
  PROVE  s \in Seq(Byte \ {c})
  OBVIOUS

LEMMA CookieIs ==
  ASSUME NEW f \in F, IsCookie(f)
  PROVE  /\ CookieText(f) \in Seq(Byte \ {59}) /\ CookieText(f) # <<>>
         /\ <<32>> \o CookieText(f) \in Seq(Byte \ {59}) /\ <<32>> \o CookieText(f) # <<>>
<1> DEFINE c == 59
           C == Byte \ {c}
           m == f.name
           v == f.value
           x == <<61>>
           y == <<32>>
           h == IF m = <<>> THEN <<>> ELSE m \o x
           t == h \o v
<1>1. m \in Seq(Byte) /\ v \in Seq(Byte)
  BY DEF F, Text
<1>2. m # <<>> \/ v # <<>>
  BY DEF IsCookie
<1>3. \A s \in {m, v} : \A i \in DOMAIN s : s[i] # c
  BY ChIs DEF IsCookie
<1>4. x \in Seq(C) /\ y \in Seq(C) /\ <<>> \in Seq(C) /\ Len(x) = 1 /\ Len(y) = 1
  BY DEF Byte
<1> HIDE DEF m, v
<1>5. m \in Seq(C) /\ v \in Seq(C)
  <2> HIDE DEF c
  <2> QED BY <1>1, <1>3, Without
<1> HIDE DEF C, x, y
<1>6. h \in Seq(C) /\ (m # <<>> => Len(h) # 0) /\ (m = <<>> => h = <<>>)
  <2>1. m \in Seq(C) /\ x \in Seq(C)
    BY <1>4, <1>5
  <2>2. m \o x \in Seq(C) /\ Len(m \o x) = Len(m) + Len(x) /\ Len(m) \in Nat
    BY <2>1
  <2> QED BY <1>4, <2>2
<1> HIDE DEF h
<1>7. t \in Seq(C) /\ Len(t) = Len(h) + Len(v) /\ Len(h) \in Nat /\ Len(v) \in Nat
  BY <1>5, <1>6
<1>8. Len(t) # 0
  <2>1. CASE m # <<>>
    BY <1>6, <1>7, <2>1
  <2>2. CASE m = <<>>
    <3>1. Len(v) # 0
      BY <1>2, <1>5, <2>2
    <3> QED BY <1>7, <3>1
  <2> QED BY <2>1, <2>2
<1>9. CookieText(f) = t
  BY DEF CookieText, t, h, x, m, v
<1> HIDE DEF t
<1>10. t # <<>>
  BY <1>8
<1>11. y \o t \in Seq(C) /\ Len(y \o t) = 1 + Len(t) /\ Len(t) \in Nat
  <2>1. y \in Seq(C) /\ t \in Seq(C)
    BY <1>4, <1>7
  <2>2. y \o t \in Seq(C) /\ Len(y \o t) = Len(y) + Len(t) /\ Len(t) \in Nat
    BY <2>1
  <2> QED BY <1>4, <2>2
<1>12. y \o t # <<>>
  <2> DEFINE z == y \o t
  <2>1. Len(z) # 0
    BY <1>11
  <2>2. z \in Seq(C)
    BY <1>11
  <2> HIDE DEF z
  <2>3. z # <<>>
    BY <2>1, <2>2
  <2> QED BY <2>3 DEF z
<1>13. t \in Seq(C) /\ t # <<>> /\ y \o t \in Seq(C) /\ y \o t # <<>>
  BY <1>7, <1>10, <1>11, <1>12
<1> QED BY <1>9, <1>13 DEF y, C, c

LEMMA CookieWritten ==
  ASSUME NEW f \in F
  PROVE  LET h == IF f.name = <<>> THEN <<>> ELSE f.name \o <<61>>
         IN  /\ (<<>> \o h) \o f.value = <<>> \o CookieText(f)
             /\ (<<59, 32>> \o h) \o f.value = <<59>> \o (<<32>> \o CookieText(f))
<1> DEFINE h == IF f.name = <<>> THEN <<>> ELSE f.name \o <<61>>
           v == f.value
           a == <<59>>
           b == <<32>>
           t == h \o v
<1>1. h \in Seq(Byte) /\ v \in Seq(Byte) /\ a \in Seq(Byte) /\ b \in Seq(Byte) /\ <<59, 32>> = a \o b
  <2>1. v \in Seq(Byte) /\ a \in Seq(Byte) /\ b \in Seq(Byte) /\ <<59, 32>> = a \o b
    BY DEF F, Text, Byte
  <2>2. <<>> \in Seq(Byte) /\ f.name \o <<61>> \in Seq(Byte)
    BY DEF F, Text, Byte
  <2> QED BY <2>1, <2>2
<1>2. CookieText(f) = t
  BY DEF CookieText
<1> HIDE DEF h, v, a, b
<1>3. t \in Seq(Byte)
  BY <1>1
<1>4. <<>> \o h = h /\ <<>> \o t = t
  <2> HIDE DEF t
  <2> QED BY <1>1, <1>3
<1>5. ((a \o b) \o h) \o v = (a \o b) \o t
  <2> DEFINE ab == a \o b
  <2>1. ab \in Seq(Byte) /\ h \in Seq(Byte) /\ v \in Seq(Byte)
    BY <1>1
  <2> HIDE DEF ab
  <2> QED BY <2>1, ConcatAssociative
<1>6. (a \o b) \o t = a \o (b \o t)
  <2> HIDE DEF t
  <2>1. a \in Seq(Byte) /\ b \in Seq(Byte) /\ t \in Seq(Byte)
    BY <1>1, <1>3
  <2> QED BY <2>1, ConcatAssociative
<1>7. (<<>> \o h) \o v = <<>> \o t
  BY <1>4
<1>8. (<<59, 32>> \o h) \o v = a \o (b \o t)
  BY <1>1, <1>5, <1>6
<1> QED BY <1>2, <1>7, <1>8 DEF h, v, a, b

LEMMA CookieHeaderIs ==
  ASSUME NEW jar \in Seq(F) PROVE CookieHeader(jar) = JoinedBy(CookieParts(jar), 59)
<1> DEFINE raw(i) == ((IF i = 1 THEN <<>> ELSE <<59, 32>>)
                        \o (IF jar[i].name = <<>> THEN <<>> ELSE jar[i].name \o <<61>>)) \o jar[i].value
           part(i) == IF i = 1 THEN CookieText(jar[i]) ELSE <<32>> \o CookieText(jar[i])
           put(i) == (IF i = 1 THEN <<>> ELSE <<59>>) \o part(i)
<1>1. CookieHeader(jar) = FlattenSeq([i \in DOMAIN jar |-> raw(i)])
  BY ChIs DEF CookieHeader
<1>2. JoinedBy(CookieParts(jar), 59) = FlattenSeq([i \in DOMAIN jar |-> put(i)])
  <2> DEFINE ps == CookieParts(jar)
  <2>1. DOMAIN ps = DOMAIN jar /\ \A i \in DOMAIN jar : ps[i] = part(i)
    BY DEF CookieParts
  <2> HIDE DEF ps, part
  <2>2. [i \in DOMAIN ps |-> (IF i = 1 THEN <<>> ELSE <<59>>) \o ps[i]] = [i \in DOMAIN jar |-> put(i)]
    BY <2>1
  <2>3. JoinedBy(ps, 59) = FlattenSeq([i \in DOMAIN ps |-> (IF i = 1 THEN <<>> ELSE <<59>>) \o ps[i]])
    BY DEF JoinedBy, Between
  <2> QED BY <2>2, <2>3 DEF ps
<1>3. ASSUME NEW i \in DOMAIN jar PROVE raw(i) = put(i)
  <2>1. jar[i] \in F
    OBVIOUS
  <2> DEFINE f == jar[i]
             h == IF f.name = <<>> THEN <<>> ELSE f.name \o <<61>>
  <2>2. /\ (<<>> \o h) \o f.value = <<>> \o CookieText(f)
        /\ (<<59, 32>> \o h) \o f.value = <<59>> \o (<<32>> \o CookieText(f))
    <3> HIDE DEF f
    <3>1. f \in F
      BY <2>1 DEF f
    <3> QED BY <3>1, CookieWritten
  <2>3. raw(i) = ((IF i = 1 THEN <<>> ELSE <<59, 32>>) \o h) \o f.value
    OBVIOUS
  <2>4. put(i) = (IF i = 1 THEN <<>> ELSE <<59>>) \o (IF i = 1 THEN CookieText(f) ELSE <<32>> \o CookieText(f))
    OBVIOUS
  <2> HIDE DEF h, f, raw, put
  <2>5. CASE i = 1
    BY <2>2, <2>3, <2>4, <2>5
  <2>6. CASE i # 1
    BY <2>2, <2>3, <2>4, <2>6
  <2> QED BY <2>5, <2>6
<1> HIDE DEF raw, put
<1>4. [i \in DOMAIN jar |-> raw(i)] = [i \in DOMAIN jar |-> put(i)]
  BY <1>3
<1> QED BY <1>1, <1>2, <1>4

(* Of a jar of cookies each is read, and of equal names the last counts.   *)
LEMMA CookiesAreRead ==
  ASSUME NEW jar \in Seq(F), jar # <<>>, \A i \in DOMAIN jar : IsCookie(jar[i])
  PROVE  ParseCookies(CookieHeader(jar)) = LastOf(CookiePairs(jar))
<1> DEFINE sep == 59
           C == Byte \ {sep}
           S == Seq(C)
           n == Len(jar)
           ps == CookieParts(jar)
           e == CookieHeader(jar)
           pairs == PairsOf(ps)
           mine == CookiePairs(jar)
<1>1. n \in Nat /\ n # 0 /\ DOMAIN jar = 1 .. n /\ \A i \in 1 .. n : jar[i] \in F /\ IsCookie(jar[i])
  OBVIOUS
<1> HIDE DEF n
<1>2. ASSUME NEW i \in 1 .. n PROVE ps[i] \in S /\ ps[i] # <<>> /\ Pair(ps[i]) = Pair(CookieText(jar[i]))
  <2> DEFINE f == jar[i]
             t == CookieText(f)
             u == <<32>> \o t
  <2>1. f \in F /\ IsCookie(f)
    BY <1>1
  <2>2. ps[i] = IF i = 1 THEN t ELSE u
    BY <1>1 DEF CookieParts
  <2> HIDE DEF f, ps
  <2>3. t \in S /\ t # <<>> /\ u \in S /\ u # <<>>
    BY <2>1, CookieIs
  <2>4. t \in Text
    <3> HIDE DEF t, sep
    <3> QED BY <2>3, Free
  <2> HIDE DEF t, S
  <2>5. Pair(u) = Pair(t)
    BY <2>4, PairBlank
  <2> HIDE DEF u
  <2>6. Pair(ps[i]) = Pair(t)
    BY <2>2, <2>5
  <2> QED BY <2>2, <2>3, <2>6 DEF t, f
<1>3. ps \in [1 .. n -> S]
  <2> HIDE DEF S
  <2>1. DOMAIN ps = 1 .. n /\ ps = [i \in DOMAIN ps |-> ps[i]]
    BY <1>1 DEF CookieParts
  <2> HIDE DEF ps
  <2> QED BY <1>2, <2>1
<1>4. ps \in Seq(S) /\ Len(ps) = n /\ DOMAIN ps = 1 .. n /\ ps # <<>>
  <2> HIDE DEF S, ps
  <2>1. ps \in Seq(S) /\ Len(ps) = n /\ DOMAIN ps = 1 .. n
    BY <1>1, <1>3
  <2> QED BY <1>1, <2>1
<1>5. Split(e, sep) = ps
  <2>1. e = JoinedBy(ps, sep)
    BY CookieHeaderIs
  <2>2. sep \in Byte
    BY DEF Byte
  <2> HIDE DEF sep, ps, e
  <2>3. ps \in Seq(Seq(Byte \ {sep})) /\ ps # <<>>
    BY <1>4
  <2>4. Split(JoinedBy(ps, sep), sep) = ps
    BY <2>2, <2>3, SplitJoined
  <2> QED BY <2>1, <2>4
<1>6. ParseCookies(e) = LastOf(pairs)
  <2>1. ParseCookies(e) = ParsePairs(e, sep)
    BY ChIs DEF ParseCookies
  <2> HIDE DEF sep, e, ps
  <2> QED BY <1>5, <2>1 DEF ParsePairs
<1>7. pairs = mine
  <2>1. DOMAIN mine = 1 .. n /\ \A i \in 1 .. n : mine[i] = Pair(CookieText(jar[i]))
    BY <1>1 DEF CookiePairs
  <2>2. mine = [i \in 1 .. n |-> mine[i]]
    BY <1>1 DEF CookiePairs
  <2> HIDE DEF ps, mine
  <2>3. {j \in DOMAIN ps : ps[j] # <<>>} = 1 .. n
    BY <1>2, <1>4
  <2>4. pairs = [i \in 1 .. n |-> Pair(ps[i])]
    BY <2>3 DEF PairsOf
  <2>5. \A i \in 1 .. n : Pair(ps[i]) = mine[i]
    BY <1>2, <2>1
  <2> HIDE DEF pairs
  <2> QED BY <2>2, <2>4, <2>5
<1> QED BY <1>6, <1>7

-----------------------------------------------------------------------------
(* One more cookie at p: those from p on are one further.                  *)
LEMMA InsertedIs ==
  ASSUME NEW S, NEW s \in Seq(S), NEW x \in S, NEW p \in 1 .. Len(s) + 1
  PROVE  /\ InsertAt(s, p, x) \in Seq(S) /\ Len(InsertAt(s, p, x)) = Len(s) + 1
         /\ InsertAt(s, p, x)[p] = x
         /\ \A j \in 1 .. Len(s) : InsertAt(s, p, x)[IF j < p THEN j ELSE j + 1] = s[j]
<1> DEFINE n == Len(s)
           one == 1
           k == p - 1
           a == SubSeq(s, one, k)
           b == SubSeq(s, p, n)
           q == <<x>>
           aq == a \o q
           r == aq \o b
<1>1. n \in Nat /\ p \in Nat /\ 1 <= p /\ p <= n + 1 /\ \A i \in 1 .. n : s[i] \in S
  OBVIOUS
<1>2. one \in Int /\ k \in Int /\ p \in Int /\ n \in Int /\ one = 1 /\ k = p - 1
  BY <1>1
<1>3. InsertAt(s, p, x) = r
  BY DEF InsertAt
<1>4. q \in Seq(S) /\ Len(q) = 1 /\ q[1] = x
  OBVIOUS
<1> HIDE DEF n, one, k, q
<1>5. /\ a \in Seq(S) /\ Len(a) = p - 1 /\ \A i \in 1 .. p - 1 : a[i] = s[i]
  <2>1. \A i \in one .. k : s[i] \in S
    BY <1>1, <1>2
  <2>2. /\ a \in Seq(S) /\ Len(a) = IF one <= k THEN k - one + 1 ELSE 0
        /\ \A i \in 1 .. k - one + 1 : a[i] = s[one + i - 1]
    BY <1>2, <2>1, SubSeqProperties
  <2> HIDE DEF a
  <2>3. k - one + 1 = p - 1 /\ (IF one <= k THEN k - one + 1 ELSE 0) = p - 1
    BY <1>1, <1>2
  <2>4. \A i \in 1 .. p - 1 : one + i - 1 = i
    BY <1>1, <1>2
  <2> QED BY <2>2, <2>3, <2>4
<1>6. /\ b \in Seq(S) /\ Len(b) = n + 1 - p /\ \A i \in 1 .. n + 1 - p : b[i] = s[p + i - 1]
  <2>1. \A i \in p .. n : s[i] \in S
    BY <1>1
  <2>2. /\ b \in Seq(S) /\ Len(b) = IF p <= n THEN n - p + 1 ELSE 0
        /\ \A i \in 1 .. n - p + 1 : b[i] = s[p + i - 1]
    BY <1>2, <2>1, SubSeqProperties
  <2> HIDE DEF b
  <2>3. n - p + 1 = n + 1 - p /\ (IF p <= n THEN n - p + 1 ELSE 0) = n + 1 - p
    BY <1>1
  <2> QED BY <2>2, <2>3
<1> HIDE DEF a, b
<1>7. /\ aq \in Seq(S) /\ Len(aq) = p /\ aq[p] = x /\ \A i \in 1 .. p - 1 : aq[i] = s[i]
  <2>1. a \in Seq(S) /\ q \in Seq(S)
    BY <1>4, <1>5
  <2>2. /\ aq \in Seq(S) /\ Len(aq) = Len(q) + Len(a)
        /\ \A i \in 1 .. Len(q) : aq[i + Len(a)] = q[i]
        /\ \A i \in 1 .. Len(a) : aq[i] = a[i]
    BY <2>1, After
  <2> HIDE DEF aq
  <2>3. Len(aq) = p /\ 1 \in 1 .. Len(q) /\ 1 + Len(a) = p
    BY <1>1, <1>4, <1>5, <2>2
  <2>4. aq[p] = q[1]
    BY <2>2, <2>3
  <2> QED BY <1>4, <1>5, <2>2, <2>3, <2>4
<1> HIDE DEF aq
<1>8. /\ r \in Seq(S) /\ Len(r) = n + 1
      /\ \A i \in 1 .. n + 1 - p : r[i + p] = b[i]
      /\ \A i \in 1 .. p : r[i] = aq[i]
  <2>1. aq \in Seq(S) /\ b \in Seq(S)
    BY <1>6, <1>7
  <2>2. /\ r \in Seq(S) /\ Len(r) = Len(b) + Len(aq)
        /\ \A i \in 1 .. Len(b) : r[i + Len(aq)] = b[i]
        /\ \A i \in 1 .. Len(aq) : r[i] = aq[i]
    BY <2>1, After
  <2> HIDE DEF r
  <2>3. Len(r) = n + 1
    BY <1>1, <1>6, <1>7, <2>2
  <2> QED BY <1>6, <1>7, <2>2, <2>3
<1> HIDE DEF r
<1>9. r[p] = x
  BY <1>1, <1>7, <1>8
<1>10. ASSUME NEW j \in 1 .. n PROVE r[IF j < p THEN j ELSE j + 1] = s[j]
  <2>1. CASE j < p
    <3>1. j \in 1 .. p - 1 /\ j \in 1 .. p
      BY <1>1, <2>1
    <3> QED BY <1>7, <1>8, <2>1, <3>1
  <2>2. CASE ~(j < p)
    <3> DEFINE i == j + 1 - p
    <3>1. i \in 1 .. n + 1 - p /\ i + p = j + 1 /\ p + i - 1 = j
      BY <1>1, <2>2
    <3> HIDE DEF i
    <3>2. r[i + p] = b[i] /\ b[i] = s[p + i - 1]
      BY <1>6, <1>8, <3>1
    <3> QED BY <2>2, <3>1, <3>2
  <2> QED BY <2>1, <2>2
<1> QED BY <1>3, <1>8, <1>9, <1>10 DEF n

OneMore(n, pairs, p, more) ==
  /\ DOMAIN pairs = 1 .. n /\ DOMAIN more = 1 .. n + 1
  /\ \A j \in 1 .. n : more[IF j < p THEN j ELSE j + 1] = pairs[j]

WithOne(f, name, value) == [k \in DOMAIN f \cup {name} |-> IF k = name THEN value ELSE f[k]]

(* A pair of a new name at p, wherever it is, is one more in what is read. *)
LEMMA LastOfOneMore ==
  \A n \in Nat : \A pairs, p, more :
    p \in 1 .. n + 1 /\ OneMore(n, pairs, p, more) /\ more[p].key \notin DOMAIN LastOf(pairs)
      => LastOf(more) = WithOne(LastOf(pairs), more[p].key, more[p].value)
<1> SUFFICES ASSUME NEW n \in Nat, NEW pairs, NEW p \in 1 .. n + 1, NEW more,
                    OneMore(n, pairs, p, more), more[p].key \notin DOMAIN LastOf(pairs)
             PROVE  LastOf(more) = WithOne(LastOf(pairs), more[p].key, more[p].value)
  OBVIOUS
<1> DEFINE name == more[p].key
           K == {pairs[i].key : i \in DOMAIN pairs}
           M == {more[i].key : i \in DOMAIN more}
           P(k) == {i \in DOMAIN pairs : pairs[i].key = k}
           Q(k) == {i \in DOMAIN more : more[i].key = k}
           at(j) == IF j < p THEN j ELSE j + 1
           back(i) == IF i < p THEN i ELSE i - 1
<1>0. DOMAIN pairs = 1 .. n /\ DOMAIN more = 1 .. n + 1 /\ \A j \in 1 .. n : more[at(j)] = pairs[j]
  BY DEF OneMore
<1>1. DOMAIN LastOf(pairs) = K /\ \A k \in K : LastOf(pairs)[k] = pairs[Max(P(k))].value
  BY DEF LastOf
<1>2. LastOf(more) = [k \in M |-> more[Max(Q(k))].value]
  BY DEF LastOf
<1>3. \A j \in 1 .. n : at(j) \in 1 .. n + 1 /\ at(j) # p /\ more[at(j)] = pairs[j]
  <2>1. \A j \in 1 .. n : at(j) \in 1 .. n + 1 /\ at(j) # p
    OBVIOUS
  <2> HIDE DEF at
  <2> QED BY <1>0, <2>1
<1>4. \A i \in 1 .. n + 1 : i # p => back(i) \in 1 .. n /\ at(back(i)) = i /\ more[i] = pairs[back(i)]
  <2> TAKE i \in 1 .. n + 1
  <2>1. i # p => back(i) \in 1 .. n /\ at(back(i)) = i
    OBVIOUS
  <2> HIDE DEF at, back
  <2> QED BY <1>3, <2>1
<1>5. \A i, j \in 1 .. n : i <= j => at(i) <= at(j)
  OBVIOUS
<1>6. M = K \cup {name}
  <2> HIDE DEF at, back
  <2>1. ASSUME NEW k \in M PROVE k \in K \cup {name}
    <3>1. PICK i \in 1 .. n + 1 : k = more[i].key
      BY <1>0
    <3>2. i # p => back(i) \in DOMAIN pairs /\ k = pairs[back(i)].key
      BY <1>0, <1>4, <3>1
    <3> QED BY <3>1, <3>2
  <2>2. ASSUME NEW k \in K PROVE k \in M
    <3>1. PICK j \in 1 .. n : k = pairs[j].key
      BY <1>0
    <3>2. at(j) \in DOMAIN more /\ more[at(j)].key = k
      BY <1>0, <1>3, <3>1
    <3> QED BY <3>2
  <2>3. name \in M
    BY <1>0
  <2> QED BY <2>1, <2>2, <2>3
<1>7. name \notin K
  BY <1>1
<1>8. more[Max(Q(name))].value = more[p].value
  <2> HIDE DEF at, back
  <2>1. ASSUME NEW i \in Q(name) PROVE i = p
    <3>1. i \in 1 .. n + 1 /\ more[i].key = name
      BY <1>0
    <3>2. i # p => back(i) \in DOMAIN pairs /\ pairs[back(i)].key = name
      BY <1>0, <1>4, <3>1
    <3> QED BY <1>7, <3>2
  <2>2. Q(name) \in SUBSET Nat /\ p \in Q(name) /\ \A i \in Q(name) : i <= p
    <3>1. Q(name) \in SUBSET Nat /\ p \in Q(name) /\ p <= p
      BY <1>0
    <3> HIDE DEF Q, name
    <3> QED BY <2>1, <3>1
  <2> DEFINE T == Q(name)
  <2> HIDE DEF T, Q
  <2>3. T \in SUBSET Nat /\ p \in T /\ \A i \in T : i <= p
    BY <2>2 DEF T
  <2>4. Max(T) = p
    BY <2>3, MaxGreatest
  <2> QED BY <2>4 DEF T
<1>9. ASSUME NEW k \in K PROVE more[Max(Q(k))].value = pairs[Max(P(k))].value
  <2> DEFINE m == Max(P(k))
             T == P(k)
             U == Q(k)
             l == at(m)
  <2>1. T \in SUBSET (1 .. n) /\ T # {} /\ \A j \in 1 .. n : j \in T <=> pairs[j].key = k
    BY <1>0
  <2>2. U \in SUBSET (1 .. n + 1) /\ \A i \in 1 .. n + 1 : i \in U <=> more[i].key = k
    BY <1>0
  <2>3. m \in T /\ \A j \in T : j <= m
    <3> HIDE DEF T
    <3>1. Max(T) \in T /\ \A j \in T : j <= Max(T)
      BY <2>1, MaxIn
    <3> QED BY <3>1 DEF T
  <2> HIDE DEF T, U, m, P, Q, at, back, l
  <2>4. l \in U /\ more[l] = pairs[m]
    BY <1>3, <2>1, <2>2, <2>3 DEF l
  <2>5. ASSUME NEW i \in U PROVE i <= l
    <3>1. i \in 1 .. n + 1 /\ more[i].key = k /\ i # p
      <4>1. i \in 1 .. n + 1 /\ more[i].key = k
        BY <2>2
      <4> QED BY <1>7, <4>1
    <3>2. back(i) \in T
      BY <1>4, <2>1, <3>1
    <3>3. at(back(i)) <= at(m)
      BY <1>5, <2>1, <2>3, <3>2
    <3> QED BY <1>4, <3>1, <3>3 DEF l
  <2>6. Max(U) = l
    <3>1. U \in SUBSET Nat
      BY <2>2
    <3> QED BY <2>4, <2>5, <3>1, MaxGreatest
  <2> QED BY <2>4, <2>6 DEF U, m
<1> HIDE DEF K, M, P, Q, name, at, back
<1>10. ASSUME NEW k \in M
       PROVE  more[Max(Q(k))].value = IF k = name THEN more[p].value ELSE LastOf(pairs)[k]
  <2>1. CASE k = name
    BY <1>8, <2>1
  <2>2. CASE k # name
    <3>1. k \in K
      BY <1>6, <2>2
    <3> QED BY <1>1, <1>9, <2>2, <3>1
  <2> QED BY <2>1, <2>2
<1>11. LastOf(more) = [k \in K \cup {name} |-> IF k = name THEN more[p].value ELSE LastOf(pairs)[k]]
  BY <1>2, <1>6, <1>10
<1> QED BY <1>1, <1>11 DEF name, WithOne

-----------------------------------------------------------------------------
(* What need not be encoded is decoded to itself.                          *)
LEMMA PlainIsCode ==
  ASSUME NEW c \in Byte, c \in Unreserved PROVE UrlCode(c) = <<c>>
  BY ChIs DEF UrlCode, Unreserved, Alnum

LEMMA PlainIsRead ==
  ASSUME NEW s \in Seq(Unreserved) PROVE s \in Text /\ UrlDecode(s) = s
<1> DEFINE U == Unreserved
           code == [c \in U |-> <<c>>]
           T == {t \in Seq(U) : Encoded(code, t) = t}
<1>1. U \subseteq Byte
  BY DEF Unreserved, Alnum, Byte
<1>2. s \in Text
  <2> HIDE DEF U
  <2>1. s \in Seq(U)
    BY DEF U
  <2> QED BY <1>1, <2>1, SeqMonotone DEF Text
<1>3. \A c \in U : UrlCode(c) = <<c>>
  BY <1>1, PlainIsCode
<1>4. code \in [U -> Seq(U)] /\ \A c \in U : code[c] = <<c>>
  <2> HIDE DEF U
  <2> QED OBVIOUS
<1>5. UrlEncode(s) = Encoded(code, s)
  <2>1. \A i \in DOMAIN s : s[i] \in U
    OBVIOUS
  <2> HIDE DEF U
  <2>2. [i \in DOMAIN s |-> UrlCode(s[i])] = [i \in DOMAIN s |-> code[s[i]]]
    BY <1>3, <1>4, <2>1
  <2> HIDE DEF code
  <2> QED BY <2>2 DEF UrlEncode, Encoded
<1> HIDE DEF U, code
<1>6. <<>> \in T
  BY EncodedNone
<1>7. ASSUME NEW t \in T \cap Seq(U), NEW c \in U PROVE Append(t, c) \in T
  <2>1. Encoded(code, t) = t /\ t \in Seq(U)
    OBVIOUS
  <2>2. Encoded(code, Append(t, c)) = Encoded(code, t) \o code[c]
    BY <1>4, <2>1, EncodedNext
  <2>3. Append(t, c) = t \o <<c>> /\ Append(t, c) \in Seq(U)
    BY <2>1, AppendIsConcat
  <2> QED BY <1>4, <2>1, <2>2, <2>3
<1>8. s \in T
  <2>1. Seq(U) \subseteq T
    <3> HIDE DEF T
    <3> QED BY <1>6, <1>7, SequencesByLast
  <2> QED BY <2>1 DEF U
<1>9. UrlEncode(s) = s
  BY <1>5, <1>8
<1> QED BY <1>2, <1>9, UrlIsRead

Session == [name |-> SessionName, value |-> Token]

LEMMA SessionIs ==
  /\ Session \in F /\ IsCookie(Session)
  /\ Pair(CookieText(Session)) = [key |-> SessionName, value |-> Token]
<1> DEFINE a == SessionName
           t == Token
           q == <<61>> \o t
           w == a \o q
<1>1. /\ a \in Seq(Byte) /\ a # <<>> /\ Len(a) = 1 /\ a[1] = 97
      /\ t \in Seq(Byte) /\ t # <<>> /\ Len(t) = 2 /\ t[1] = 52 /\ t[2] = 97
  BY DEF SessionName, Token, Byte
<1>2. a \in Seq(Unreserved) /\ t \in Seq(Unreserved)
  BY DEF SessionName, Token, Unreserved, Alnum
<1>3. \A s \in {a, t} : s \in Text /\ UrlDecode(s) = s /\ \A i \in DOMAIN s : s[i] \in {52, 97}
  <2>1. \A s \in {a, t} : s \in Text /\ UrlDecode(s) = s
    BY <1>2, PlainIsRead
  <2> QED BY <1>1, <2>1
<1>4. \A c \in {52, 97} : c \notin Whitespace /\ c # 59 /\ c # 61 /\ c >= 32
  BY ChIs DEF Whitespace
<1>5. Session \in F /\ Session.name = a /\ Session.value = t
  BY <1>3 DEF Session, F
<1> HIDE DEF a, t
<1>6. Trim(a, Whitespace) = a /\ Trim(t, Whitespace) = t
  <2>1. a[1] \notin Whitespace /\ a[Len(a)] \notin Whitespace /\ t[1] \notin Whitespace /\ t[Len(t)] \notin Whitespace
    BY <1>1, <1>4
  <2> QED BY <1>1, <2>1, TrimWhole
<1>7. IsCookie(Session)
  <2>1. ~Contains(a, 61)
    BY <1>1 DEF Contains
  <2>2. \A s \in {a, t} : Trim(s, Whitespace) = s /\ \A i \in DOMAIN s : s[i] # 59 /\ s[i] >= 32
    BY <1>3, <1>4, <1>6
  <2> QED BY <1>1, <1>5, <2>1, <2>2, ChIs DEF IsCookie
<1>8. a \in NoEquals
  <2> DEFINE e == 61
  <2>1. \A i \in DOMAIN a : a[i] # e
    BY <1>3, <1>4
  <2> HIDE DEF e
  <2>2. a \in Seq(Byte \ {e})
    BY <1>1, <2>1, Without
  <2> QED BY <2>2 DEF e, NoEquals
<1>9. CookieText(Session) = w
  <2>1. CookieText(Session) = (a \o <<61>>) \o t
    BY <1>1, <1>5 DEF CookieText
  <2> DEFINE x == <<61>>
  <2>2. x \in Seq(Byte) /\ a \in Seq(Byte) /\ t \in Seq(Byte)
    BY <1>1 DEF Byte
  <2> HIDE DEF x
  <2>3. (a \o x) \o t = a \o (x \o t)
    BY <2>2, ConcatAssociative
  <2> QED BY <2>1, <2>3 DEF x
<1>10. KeyOf(w) = a /\ ValueOf(w) = t
  BY <1>3, <1>8, EqualsFirst
<1> HIDE DEF w
<1>11. Pair(w) = [key |-> a, value |-> t]
  BY <1>3, <1>6, <1>10 DEF Pair
<1> QED BY <1>5, <1>7, <1>9, <1>11 DEF a, t

LEMMA SessionIsRead ==
  ASSUME NEW jar \in Seq(F), jar # <<>>, \A i \in DOMAIN jar : IsCookie(jar[i]),
         SessionName \notin DOMAIN ParseCookies(CookieHeader(jar)), NEW p \in 1 .. Len(jar) + 1
  PROVE  ParseCookies(CookieHeader(InsertAt(jar, p, Session))) =
           WithOne(ParseCookies(CookieHeader(jar)), SessionName, Token)
<1> DEFINE n == Len(jar)
           more == InsertAt(jar, p, Session)
           pairs == CookiePairs(jar)
           all == CookiePairs(more)
           at(j) == IF j < p THEN j ELSE j + 1
<1>1. n \in Nat /\ DOMAIN jar = 1 .. n /\ p \in 1 .. n + 1
  OBVIOUS
<1>2. Session \in F /\ IsCookie(Session) /\ Pair(CookieText(Session)) = [key |-> SessionName, value |-> Token]
  BY SessionIs
<1>3. /\ more \in Seq(F) /\ Len(more) = n + 1 /\ more[p] = Session
      /\ \A j \in 1 .. n : more[at(j)] = jar[j]
  <2>1. Session \in F
    BY <1>2
  <2> QED BY <2>1, InsertedIs
<1> HIDE DEF n, more
<1>4. DOMAIN more = 1 .. n + 1 /\ more # <<>>
  BY <1>1, <1>3
<1>5. ASSUME NEW i \in 1 .. n + 1 PROVE i = p \/ \E j \in 1 .. n : i = at(j)
  <2>1. i < p => i \in 1 .. n /\ i = at(i)
    BY <1>1
  <2>2. i > p => i - 1 \in 1 .. n /\ i = at(i - 1)
    BY <1>1
  <2> HIDE DEF at
  <2>3. i < p \/ i = p \/ i > p
    BY <1>1
  <2> QED BY <2>1, <2>2, <2>3
<1>6. \A j \in 1 .. n : at(j) \in 1 .. n + 1
  BY <1>1
<1> HIDE DEF at
<1>7. \A i \in DOMAIN more : IsCookie(more[i])
  <2> SUFFICES ASSUME NEW i \in 1 .. n + 1 PROVE IsCookie(more[i])
    BY <1>4
  <2>1. ASSUME NEW j \in 1 .. n, i = at(j) PROVE IsCookie(more[i])
    BY <1>1, <1>3, <2>1
  <2> QED BY <1>2, <1>3, <1>5, <2>1
<1>8. ParseCookies(CookieHeader(jar)) = LastOf(pairs) /\ ParseCookies(CookieHeader(more)) = LastOf(all)
  BY <1>3, <1>4, <1>7, CookiesAreRead
<1>9. DOMAIN pairs = 1 .. n /\ \A j \in 1 .. n : pairs[j] = Pair(CookieText(jar[j]))
  BY <1>1 DEF CookiePairs
<1>10. DOMAIN all = 1 .. n + 1 /\ \A i \in 1 .. n + 1 : all[i] = Pair(CookieText(more[i]))
  BY <1>4 DEF CookiePairs
<1> HIDE DEF pairs, all
<1>11. \A j \in 1 .. n : all[at(j)] = pairs[j]
  BY <1>3, <1>6, <1>9, <1>10
<1>12. all[p].key = SessionName /\ all[p].value = Token
  <2>1. all[p] = [key |-> SessionName, value |-> Token]
    BY <1>1, <1>2, <1>3, <1>10
  <2> QED BY <2>1
<1>13. LastOf(all) = WithOne(LastOf(pairs), all[p].key, all[p].value)
  <2>1. all[p].key \notin DOMAIN LastOf(pairs)
    BY <1>8, <1>12
  <2>2. OneMore(n, pairs, p, all)
    BY <1>9, <1>10, <1>11 DEF OneMore, at
  <2>3. n \in Nat /\ p \in 1 .. n + 1
    BY <1>1
  <2> QED BY <2>1, <2>2, <2>3, LastOfOneMore
<1>14. LastOf(all) = WithOne(LastOf(pairs), SessionName, Token)
  BY <1>12, <1>13
<1> QED BY <1>8, <1>14 DEF more

(* auth.cpp:12, 63: whatever cookies a browser has beside the session's,   *)
(* and wherever among them it puts that one, its token is read back, and   *)
(* so is what was read of the others.                                      *)
THEOREM SessionsAreRead == Spec => []SessionIsReadBack
<1>1. FieldsOK => SessionIsReadBack
  <2> SUFFICES ASSUME FieldsOK, \A i \in DOMAIN fields : IsCookie(fields[i]),
                      SessionName \notin DOMAIN ParseCookies(CookieHeader(fields)),
                      NEW i \in 1 .. Len(fields) + 1
               PROVE  ParseCookies(CookieHeader(InsertAt(fields, i, Session))) =
                        WithOne(ParseCookies(CookieHeader(fields)), SessionName, Token)
    BY DEF SessionIsReadBack, Session, WithOne
  <2>1. fields \in Seq(F) /\ fields # <<>>
    BY DEF FieldsOK, F
  <2> QED BY <2>1, SessionIsRead
<1> QED BY <1>1, FieldsAreTexts, PTL
===============================================================================
