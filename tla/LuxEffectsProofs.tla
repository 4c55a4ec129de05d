--------------------------- MODULE LuxEffectsProofs ---------------------------
(***************************************************************************)
(* Theorems about LuxEffects, for any number of signals, stores, effects,  *)
(* listeners, elements and mounts, and calls nested to any depth.          *)
(***************************************************************************)
EXTENDS LuxEffects, SequenceLemmas

(* e is the effect of the innermost run among the calls from the i-th on.  *)
Top(st, i, e) ==
  \/ e = NoEffect /\ \A j \in i .. Len(st) : st[j].kind # "run"
  \/ \E j \in i .. Len(st) : /\ st[j].kind = "run" /\ st[j].who = e
                             /\ \A k \in i .. j - 1 : st[k].kind # "run"

(* act is that of the innermost run, and each run will put back that of    *)
(* the next one out.                                                       *)
Nested(st, act) ==
  /\ Top(st, 1, act)
  /\ \A i \in DOMAIN st : st[i].kind = "run" => Top(st, i + 1, st[i].previous)

(* What the kind of a call says about it.  Only set() has a queue, and     *)
(* there is room for what it calls.                                        *)
FrameOK(f) ==
  /\ f.kind = "run" => f.who \in Effects
  /\ f.kind = "first" => f.who \in Plain /\ f.source \in Sources
  /\ f.kind # "set" => f.queue = <<>>

StackOK(st) ==
  /\ st \in Seq(Frames) /\ Len(st) <= MaxDepth
  /\ \A i \in DOMAIN st :
       FrameOK(st[i]) /\ (st[i].kind = "set" => Len(st) - i + 2 <= MaxDepth)

(* A running set() has still to tell an element.                           *)
Pending(st, b) == \E i \in DOMAIN st, n \in 1 .. MaxMounts : Contains(st[i].queue, Run(b, n))

-----------------------------------------------------------------------------
(* Calls that are added or end on top change nothing for those below.      *)
LEMMA Shift ==
  ASSUME NEW st \in Seq(Frames), NEW new \in Seq(Frames), NEW d \in Nat,
         Len(new) = Len(st) + d,
         \A i \in DOMAIN st : new[i + d].kind = st[i].kind /\ new[i + d].who = st[i].who,
         NEW i \in 1 .. Len(st) + 1, NEW e
  PROVE  Top(st, i, e) <=> Top(new, i + d, e)
<1>1. ASSUME NEW j \in i .. Len(st)
      PROVE  j + d \in i + d .. Len(new) /\ new[j + d].kind = st[j].kind /\ new[j + d].who = st[j].who
  OBVIOUS
<1>2. ASSUME NEW j \in i + d .. Len(new)
      PROVE  /\ j - d \in i .. Len(st)
             /\ new[j].kind = st[j - d].kind /\ new[j].who = st[j - d].who
  <2>1. j - d \in i .. Len(st) /\ (j - d) + d = j
    OBVIOUS
  <2> QED BY <2>1, <1>1
<1>3. ASSUME Top(st, i, e) PROVE Top(new, i + d, e)
  <2>1. CASE e = NoEffect /\ \A j \in i .. Len(st) : st[j].kind # "run"
    BY <1>2, <2>1 DEF Top
  <2>2. ASSUME NEW j \in i .. Len(st), st[j].kind = "run", st[j].who = e,
               \A k \in i .. j - 1 : st[k].kind # "run"
        PROVE  Top(new, i + d, e)
    <3>1. ASSUME NEW k \in i + d .. (j + d) - 1 PROVE new[k].kind # "run"
      <4>1. k \in i + d .. Len(new) /\ k - d \in i .. j - 1
        OBVIOUS
      <4> QED BY <1>2, <2>2, <4>1
    <3> QED BY <1>1, <2>2, <3>1 DEF Top
  <2> QED BY <1>3, <2>1, <2>2 DEF Top
<1>4. ASSUME Top(new, i + d, e) PROVE Top(st, i, e)
  <2>1. CASE e = NoEffect /\ \A j \in i + d .. Len(new) : new[j].kind # "run"
    BY <1>1, <2>1 DEF Top
  <2>2. ASSUME NEW j \in i + d .. Len(new), new[j].kind = "run", new[j].who = e,
               \A k \in i + d .. j - 1 : new[k].kind # "run"
        PROVE  Top(st, i, e)
    <3>1. ASSUME NEW k \in i .. (j - d) - 1 PROVE st[k].kind # "run"
      <4>1. k \in i .. Len(st) /\ k + d \in i + d .. j - 1
        OBVIOUS
      <4> QED BY <1>1, <2>2, <4>1
    <3> QED BY <1>2, <2>2, <3>1 DEF Top
  <2> QED BY <1>4, <2>1, <2>2 DEF Top
<1> QED BY <1>3, <1>4

(* A function is called, or set() begins: a run replaces activeEffect.     *)
LEMMA PushStack ==
  ASSUME NEW st, NEW act, StackOK(st), Nested(st, act),
         NEW f \in Frames, FrameOK(f), Len(st) < MaxDepth,
         f.kind = "set" => Len(st) < MaxDepth - 1,
         f.kind = "run" => f.previous = act,
         MaxDepth \in Nat
  PROVE  /\ StackOK(<<f>> \o st)
         /\ Nested(<<f>> \o st, IF f.kind = "run" THEN f.who ELSE act)
         /\ \A b \in Bindings : Pending(st, b) => Pending(<<f>> \o st, b)
         /\ \A b \in Bindings, n \in 1 .. MaxMounts :
              Contains(f.queue, Run(b, n)) => Pending(<<f>> \o st, b)
<1> DEFINE new == <<f>> \o st
<1>1. st \in Seq(Frames)
  BY DEF StackOK
<1>2. /\ new \in Seq(Frames) /\ Len(new) = Len(st) + 1
      /\ new[1] = f /\ 1 \in DOMAIN new
      /\ \A i \in DOMAIN st : i + 1 \in DOMAIN new /\ new[i + 1] = st[i]
      /\ \A i \in DOMAIN new : i # 1 => i - 1 \in DOMAIN st /\ new[i] = st[i - 1]
  BY <1>1, Pushed
<1> HIDE DEF new
<1>3. StackOK(new)
  <2>1. ASSUME NEW i \in DOMAIN new
        PROVE  FrameOK(new[i]) /\ (new[i].kind = "set" => Len(new) - i + 2 <= MaxDepth)
    <3>1. CASE i = 1
      BY <1>1, <1>2, <3>1
    <3>2. CASE i # 1
      <4>1. i - 1 \in DOMAIN st /\ new[i] = st[i - 1]
        BY <1>2, <3>2
      <4>2. st[i - 1].kind = "set" => Len(st) - (i - 1) + 2 <= MaxDepth
        BY <4>1 DEF StackOK
      <4>3. Len(st) - (i - 1) + 2 = Len(new) - i + 2
        BY <1>1, <1>2
      <4> QED BY <4>1, <4>2, <4>3 DEF StackOK
    <3> QED BY <3>1, <3>2
  <2> QED BY <1>1, <1>2, <2>1 DEF StackOK
<1>4. \A i \in 1 .. Len(st) + 1 : \A e : Top(st, i, e) <=> Top(new, i + 1, e)
  <2>1. \A i \in DOMAIN st : new[i + 1].kind = st[i].kind /\ new[i + 1].who = st[i].who
    BY <1>2
  <2> QED BY <1>1, <1>2, <2>1, Shift
<1>5. Top(new, 2, act)
  <2>1. 1 \in 1 .. Len(st) + 1 /\ Top(st, 1, act)
    BY <1>1 DEF Nested
  <2> QED BY <1>4, <2>1
<1>6. Top(new, 1, IF f.kind = "run" THEN f.who ELSE act)
  <2>1. CASE f.kind = "run"
    BY <1>1, <1>2, <2>1 DEF Top
  <2>2. CASE f.kind # "run"
    <3>1. CASE act = NoEffect /\ \A j \in 2 .. Len(new) : new[j].kind # "run"
      BY <1>1, <1>2, <2>2, <3>1 DEF Top
    <3>2. ASSUME NEW j \in 2 .. Len(new), new[j].kind = "run", new[j].who = act,
                 \A k \in 2 .. j - 1 : new[k].kind # "run"
          PROVE  Top(new, 1, act)
      BY <1>1, <1>2, <2>2, <3>2 DEF Top
    <3> QED BY <1>5, <2>2, <3>1, <3>2 DEF Top
  <2> QED BY <2>1, <2>2
<1>7. ASSUME NEW i \in DOMAIN new, new[i].kind = "run" PROVE Top(new, i + 1, new[i].previous)
  <2>1. CASE i = 1
    BY <1>2, <1>5, <1>7, <2>1
  <2>2. CASE i # 1
    <3>1. i - 1 \in DOMAIN st /\ new[i] = st[i - 1]
      BY <1>2, <2>2
    <3>2. Top(st, i, new[i].previous) /\ i \in 1 .. Len(st) + 1
      <4>1. Top(st, (i - 1) + 1, st[i - 1].previous) /\ (i - 1) + 1 = i
        BY <1>1, <1>2, <1>7, <3>1 DEF Nested
      <4> QED BY <1>1, <1>2, <3>1, <4>1
    <3> QED BY <1>4, <3>2
  <2> QED BY <2>1, <2>2
<1>8. Nested(new, IF f.kind = "run" THEN f.who ELSE act)
  BY <1>6, <1>7 DEF Nested
<1>9. \A b \in Bindings : Pending(st, b) => Pending(new, b)
  BY <1>2 DEF Pending
<1>10. \A b \in Bindings, n \in 1 .. MaxMounts :
         Contains(f.queue, Run(b, n)) => Pending(new, b)
  BY <1>2 DEF Pending
<1> QED BY <1>3, <1>8, <1>9, <1>10 DEF new

(* What a call on top leaves when it ends, or when calls up to it do.      *)
LEMMA DropStack ==
  ASSUME NEW st, StackOK(st), NEW n \in DOMAIN st, MaxDepth \in Nat
  PROVE  /\ StackOK(SubSeq(st, n + 1, Len(st)))
         /\ \A act : Nested(st, act) =>
              \A e : Top(st, n + 1, e) => Nested(SubSeq(st, n + 1, Len(st)), e)
         /\ \A b \in Bindings : Pending(st, b) =>
              \/ Pending(SubSeq(st, n + 1, Len(st)), b)
              \/ \E i \in 1 .. n, m \in 1 .. MaxMounts : Contains(st[i].queue, Run(b, m))
<1> DEFINE new == SubSeq(st, n + 1, Len(st))
<1>1. st \in Seq(Frames) /\ n \in 1 .. Len(st) /\ Len(st) \in Nat
  BY DEF StackOK
<1>2. /\ new \in Seq(Frames) /\ Len(new) = Len(st) - n
      /\ \A i \in 1 .. Len(st) - n : new[i] = st[i + n]
  BY <1>1
<1> HIDE DEF new
<1>3. \A i \in DOMAIN new : i + n \in DOMAIN st /\ new[i] = st[i + n]
  BY <1>1, <1>2
<1>4. StackOK(new)
  <2>1. ASSUME NEW i \in DOMAIN new
        PROVE  FrameOK(new[i]) /\ (new[i].kind = "set" => Len(new) - i + 2 <= MaxDepth)
    <3>1. i + n \in DOMAIN st /\ new[i] = st[i + n] /\ i \in Nat
      BY <1>2, <1>3
    <3>2. Len(st) - (i + n) = Len(new) - i
      BY <1>1, <1>2, <3>1
    <3>3. st[i + n].kind = "set" => Len(st) - (i + n) + 2 <= MaxDepth
      BY <3>1 DEF StackOK
    <3> QED BY <3>1, <3>2, <3>3 DEF StackOK
  <2>2. Len(new) <= MaxDepth
    BY <1>1, <1>2 DEF StackOK
  <2> QED BY <1>2, <2>1, <2>2 DEF StackOK
<1>5. \A i \in 1 .. Len(new) + 1 : \A e : Top(new, i, e) <=> Top(st, i + n, e)
  <2>1. Len(st) = Len(new) + n /\ n \in Nat
    BY <1>1, <1>2
  <2>2. \A i \in DOMAIN new : st[i + n].kind = new[i].kind /\ st[i + n].who = new[i].who
    BY <1>3
  <2> QED BY <1>1, <1>2, <2>1, <2>2, Shift
<1>6. ASSUME NEW act, Nested(st, act), NEW e, Top(st, n + 1, e) PROVE Nested(new, e)
  <2>1. Top(new, 1, e)
    <3>1. 1 \in 1 .. Len(new) + 1 /\ 1 + n = n + 1
      BY <1>1, <1>2
    <3> QED BY <1>5, <1>6, <3>1
  <2>2. ASSUME NEW i \in DOMAIN new, new[i].kind = "run" PROVE Top(new, i + 1, new[i].previous)
    <3>1. i + n \in DOMAIN st /\ new[i] = st[i + n]
      BY <1>3
    <3>2. Top(st, (i + n) + 1, new[i].previous)
      BY <1>6, <2>2, <3>1 DEF Nested
    <3>3. (i + n) + 1 = (i + 1) + n /\ i + 1 \in 1 .. Len(new) + 1
      BY <1>1, <1>2
    <3> QED BY <1>5, <3>2, <3>3
  <2> QED BY <2>1, <2>2 DEF Nested
<1>7. ASSUME NEW b \in Bindings, Pending(st, b),
             ~\E i \in 1 .. n, m \in 1 .. MaxMounts : Contains(st[i].queue, Run(b, m))
      PROVE  Pending(new, b)
  <2>1. PICK i \in DOMAIN st, m \in 1 .. MaxMounts : Contains(st[i].queue, Run(b, m))
    BY <1>7 DEF Pending
  <2>2. i \notin 1 .. n
    BY <1>7, <2>1
  <2>3. i - n \in DOMAIN new /\ new[i - n] = st[i]
    <3>1. i - n \in 1 .. Len(st) - n /\ (i - n) + n = i
      BY <1>1, <2>2
    <3> QED BY <1>2, <3>1
  <2> QED BY <2>1, <2>3 DEF Pending
<1> QED BY <1>4, <1>6, <1>7 DEF new

(* A call that returns leaves activeEffect to the innermost run of those   *)
(* that go on.                                                             *)
LEMMA PopStack ==
  ASSUME NEW st, NEW act, StackOK(st), Nested(st, act), st # <<>>, Head(st).queue = <<>>,
         MaxDepth \in Nat
  PROVE  /\ StackOK(Tail(st))
         /\ Nested(Tail(st), IF Head(st).kind = "run" THEN Head(st).previous ELSE act)
         /\ \A b \in Bindings : Pending(st, b) => Pending(Tail(st), b)
<1>1. /\ st \in Seq(Frames) /\ Len(st) \in Nat /\ 1 \in DOMAIN st
      /\ Tail(st) = SubSeq(st, 1 + 1, Len(st)) /\ Head(st) = st[1]
  BY TailIsSubSeq DEF StackOK
<1>2. Top(st, 1 + 1, IF st[1].kind = "run" THEN st[1].previous ELSE act)
  <2>1. CASE st[1].kind = "run"
    BY <1>1, <2>1 DEF Nested
  <2>2. CASE st[1].kind # "run"
    <3>1. Top(st, 1, act)
      BY DEF Nested
    <3>2. CASE act = NoEffect /\ \A j \in 1 .. Len(st) : st[j].kind # "run"
      BY <1>1, <2>2, <3>2 DEF Top
    <3>3. ASSUME NEW j \in 1 .. Len(st), st[j].kind = "run", st[j].who = act,
                 \A k \in 1 .. j - 1 : st[k].kind # "run"
          PROVE  Top(st, 2, act)
      <4>1. j \in 2 .. Len(st)
        BY <2>2, <3>3
      <4> QED BY <3>3, <4>1 DEF Top
    <3> QED BY <2>2, <3>1, <3>2, <3>3 DEF Top
  <2> QED BY <2>1, <2>2
<1>3. \A i \in 1 .. 1, m \in 1 .. MaxMounts, b \in Bindings : ~Contains(st[i].queue, Run(b, m))
  BY <1>1 DEF Contains
<1> DEFINE new == SubSeq(st, 1 + 1, Len(st))
<1>4. /\ StackOK(new)
      /\ \A e : Top(st, 1 + 1, e) => Nested(new, e)
      /\ \A b \in Bindings : Pending(st, b) =>
           \/ Pending(new, b)
           \/ \E i \in 1 .. 1, m \in 1 .. MaxMounts : Contains(st[i].queue, Run(b, m))
  BY <1>1, DropStack
<1>5. Tail(st) = new
  BY <1>1
<1> HIDE DEF new
<1> QED BY <1>1, <1>2, <1>3, <1>4, <1>5

(* set() goes on to its next listener.                                     *)
LEMMA AdvanceStack ==
  ASSUME NEW st, NEW act, StackOK(st), Nested(st, act), st # <<>>,
         Head(st).kind = "set", Head(st).queue # <<>>, MaxDepth \in Nat
  PROVE  LET new == <<[Head(st) EXCEPT !.queue = Tail(@)]>> \o Tail(st)
         IN  /\ StackOK(new) /\ Nested(new, act) /\ Len(new) < MaxDepth
             /\ \A b \in Bindings : Pending(st, b) =>
                  \/ Pending(new, b)
                  \/ \E n \in 1 .. MaxMounts : Head(Head(st).queue) = Run(b, n)
<1> DEFINE f == [Head(st) EXCEPT !.queue = Tail(@)]
           rest == Tail(st)
           new == <<f>> \o rest
<1>1. /\ st \in Seq(Frames) /\ Len(st) \in Nat /\ 1 \in DOMAIN st /\ Head(st) = st[1]
      /\ st[1] \in Frames
  BY DEF StackOK
<1>2. /\ rest \in Seq(Frames) /\ Len(rest) = Len(st) - 1
      /\ \A i \in 1 .. Len(rest) : rest[i] = st[i + 1]
  BY <1>1, HeadTailProperties
<1>3. /\ st[1].queue \in Seq(Functions) /\ st[1].queue # <<>>
      /\ Tail(st[1].queue) \in Seq(Functions)
      /\ Len(Tail(st[1].queue)) = Len(st[1].queue) - 1
      /\ \A i \in 1 .. Len(Tail(st[1].queue)) : Tail(st[1].queue)[i] = st[1].queue[i + 1]
  <2>1. st[1].queue \in Seq(Functions) /\ st[1].queue # <<>>
    BY <1>1 DEF Frames
  <2> QED BY <2>1, HeadTailProperties
<1>4. /\ f \in Frames /\ f.queue = Tail(st[1].queue)
      /\ f.kind = "set" /\ f.who = st[1].who /\ f.previous = st[1].previous
  BY <1>1, <1>3 DEF Frames
<1> HIDE DEF f, rest
<1>5. /\ new \in Seq(Frames) /\ Len(new) = Len(st)
      /\ new[1] = f /\ 1 \in DOMAIN new
      /\ \A i \in DOMAIN rest : i + 1 \in DOMAIN new /\ new[i + 1] = rest[i]
      /\ \A i \in DOMAIN new : i # 1 => i - 1 \in DOMAIN rest /\ new[i] = rest[i - 1]
  BY <1>1, <1>2, <1>4, Pushed
<1> HIDE DEF new
<1>6. \A i \in DOMAIN new : i \in DOMAIN st /\ (i # 1 => new[i] = st[i])
  <2> SUFFICES ASSUME NEW i \in DOMAIN new, i # 1 PROVE new[i] = st[i]
    BY <1>1, <1>5
  <2> DEFINE m == Len(rest)
  <2>1. m \in Nat /\ DOMAIN rest = 1 .. m
    BY <1>2
  <2>2. i \in Nat /\ i - 1 \in DOMAIN rest /\ new[i] = rest[i - 1]
    BY <1>5
  <2> HIDE DEF m
  <2>3. i - 1 \in 1 .. Len(rest) /\ new[i] = rest[i - 1] /\ (i - 1) + 1 = i
    BY <2>1, <2>2 DEF m
  <2> QED BY <1>2, <2>3
<1>7. \A i \in DOMAIN new :
        /\ new[i].kind = st[i].kind /\ new[i].who = st[i].who
        /\ new[i].previous = st[i].previous
  BY <1>1, <1>4, <1>5, <1>6
<1>8. StackOK(new)
  <2>1. ASSUME NEW i \in DOMAIN new
        PROVE  FrameOK(new[i]) /\ (new[i].kind = "set" => Len(new) - i + 2 <= MaxDepth)
    <3>1. new[i].kind = "set" => Len(new) - i + 2 <= MaxDepth
      BY <1>5, <1>6, <1>7 DEF StackOK
    <3>2. FrameOK(new[i])
      <4>1. CASE i = 1
        BY <1>4, <1>5, <4>1 DEF FrameOK
      <4>2. CASE i # 1
        BY <1>6, <4>2 DEF StackOK
      <4> QED BY <4>1, <4>2
    <3> QED BY <3>1, <3>2
  <2> QED BY <1>5, <2>1 DEF StackOK
<1>9. Nested(new, act)
  <2>1. \A i \in 1 .. Len(st) + 1 : \A e : Top(st, i, e) <=> Top(new, i, e)
    <3>1. \A i \in DOMAIN st : new[i + 0].kind = st[i].kind /\ new[i + 0].who = st[i].who
      BY <1>1, <1>5, <1>7
    <3>2. Len(new) = Len(st) + 0 /\ 0 \in Nat
      BY <1>1, <1>5
    <3>3. \A i \in 1 .. Len(st) + 1 : \A e : Top(st, i, e) <=> Top(new, i + 0, e)
      BY <1>1, <1>5, <3>1, <3>2, Shift
    <3> QED BY <1>1, <3>3
  <2>2. Top(new, 1, act)
    <3>1. 1 \in 1 .. Len(st) + 1 /\ Top(st, 1, act)
      BY <1>1 DEF Nested
    <3> QED BY <2>1, <3>1
  <2>3. ASSUME NEW i \in DOMAIN new, new[i].kind = "run" PROVE Top(new, i + 1, new[i].previous)
    <3>1. i \in DOMAIN st /\ i + 1 \in 1 .. Len(st) + 1
      BY <1>1, <1>5
    <3>2. Top(st, i + 1, new[i].previous)
      BY <1>7, <2>3, <3>1 DEF Nested
    <3> QED BY <2>1, <3>1, <3>2
  <2> QED BY <2>2, <2>3 DEF Nested
<1>10. Len(new) < MaxDepth
  <2>1. Len(st) - 1 + 2 <= MaxDepth
    BY <1>1 DEF StackOK
  <2> QED BY <1>1, <1>5, <2>1
<1>11. ASSUME NEW b \in Bindings, Pending(st, b),
              ~\E n \in 1 .. MaxMounts : Head(st[1].queue) = Run(b, n)
       PROVE  Pending(new, b)
  <2>1. PICK i \in DOMAIN st, m \in 1 .. MaxMounts : Contains(st[i].queue, Run(b, m))
    BY <1>11 DEF Pending
  <2>2. i \in DOMAIN new
    BY <1>1, <1>5
  <2>3. CASE i # 1
    BY <1>6, <2>1, <2>2, <2>3 DEF Pending
  <2>4. CASE i = 1
    <3>1. PICK j \in 1 .. Len(st[1].queue) : st[1].queue[j] = Run(b, m)
      BY <2>1, <2>4 DEF Contains
    <3>2. j # 1
      BY <1>3, <1>11, <3>1
    <3>3. j - 1 \in 1 .. Len(f.queue) /\ f.queue[j - 1] = Run(b, m)
      BY <1>3, <1>4, <3>1, <3>2
    <3>4. Contains(f.queue, Run(b, m))
      BY <3>3 DEF Contains
    <3> QED BY <1>5, <2>2, <2>4, <3>4 DEF Pending
  <2> QED BY <2>3, <2>4
<1> QED BY <1>1, <1>8, <1>9, <1>10, <1>11 DEF new, f, rest

(* activeEffect is the effect whose function is running.                   *)
LEMMA ActiveIsInnermost ==
  ASSUME stack \in Seq(Frames), Nested(stack, activeEffect)
  PROVE  activeEffect = Innermost
<1> DEFINE running == {i \in DOMAIN stack : stack[i].kind = "run"}
<1>1. Top(stack, 1, activeEffect)
  BY DEF Nested
<1>2. CASE activeEffect = NoEffect /\ \A j \in 1 .. Len(stack) : stack[j].kind # "run"
  BY <1>2 DEF Innermost
<1>3. ASSUME NEW j \in 1 .. Len(stack), stack[j].kind = "run", stack[j].who = activeEffect,
             \A k \in 1 .. j - 1 : stack[k].kind # "run"
      PROVE  activeEffect = Innermost
  <2>1. j \in running /\ \A i \in running : j <= i
    BY <1>3
  <2>2. \A i \in running : (\A k \in running : i <= k) => i = j
    BY <2>1
  <2>3. (CHOOSE i \in running : \A k \in running : i <= k) = j
    BY <2>1, <2>2
  <2> QED BY <1>3, <2>1, <2>3 DEF Innermost
<1> QED BY <1>1, <1>2, <1>3 DEF Top

(* The finally blocks of the calls that end, one after the other, leave    *)
(* the effect of the innermost run of those that go on.                    *)
LEMMA RestoredIsOuter ==
  ASSUME stack \in Seq(Frames), Nested(stack, activeEffect), NEW n \in DOMAIN stack
  PROVE  Top(stack, n + 1, Restored(n))
<1> DEFINE ended == {i \in 1 .. n : stack[i].kind = "run"}
<1>1. n \in Nat /\ n \in 1 .. Len(stack) /\ Len(stack) \in Nat
  OBVIOUS
<1>2. CASE ended = {}
  <2>1. Restored(n) = activeEffect /\ \A k \in 1 .. n : stack[k].kind # "run"
    BY <1>2 DEF Restored
  <2>2. Top(stack, 1, activeEffect)
    BY DEF Nested
  <2>3. CASE activeEffect = NoEffect /\ \A j \in 1 .. Len(stack) : stack[j].kind # "run"
    BY <1>1, <2>1, <2>3 DEF Top
  <2>4. ASSUME NEW j \in 1 .. Len(stack), stack[j].kind = "run", stack[j].who = activeEffect,
               \A k \in 1 .. j - 1 : stack[k].kind # "run"
        PROVE  Top(stack, n + 1, Restored(n))
    <3>1. j \in n + 1 .. Len(stack)
      BY <1>1, <2>1, <2>4
    <3> QED BY <1>1, <2>1, <2>4, <3>1 DEF Top
  <2> QED BY <2>2, <2>3, <2>4 DEF Top
<1>3. CASE ended # {}
  <2> DEFINE m == CHOOSE i \in ended : \A k \in ended : k <= i
  <2>1. m \in ended /\ \A k \in ended : k <= m
    <3>1. \E i \in ended : \A k \in ended : k <= i
      BY <1>1, <1>3, Greatest
    <3> QED BY <3>1
  <2>2. Restored(n) = stack[m].previous
    BY <1>3 DEF Restored
  <2> HIDE DEF m
  <2>3. Top(stack, m + 1, stack[m].previous)
    BY <1>1, <2>1 DEF Nested
  <2>4. \A k \in m + 1 .. n : stack[k].kind # "run"
    BY <1>1, <2>1
  <2>5. CASE stack[m].previous = NoEffect /\ \A j \in m + 1 .. Len(stack) : stack[j].kind # "run"
    BY <1>1, <2>1, <2>2, <2>5 DEF Top
  <2>6. ASSUME NEW j \in m + 1 .. Len(stack), stack[j].kind = "run",
               stack[j].who = stack[m].previous,
               \A k \in m + 1 .. j - 1 : stack[k].kind # "run"
        PROVE  Top(stack, n + 1, Restored(n))
    <3>1. j \in n + 1 .. Len(stack)
      BY <1>1, <2>1, <2>4, <2>6
    <3>2. \A k \in n + 1 .. j - 1 : stack[k].kind # "run"
      BY <1>1, <2>1, <2>6
    <3> QED BY <2>2, <2>6, <3>1, <3>2 DEF Top
  <2> QED BY <2>3, <2>5, <2>6 DEF Top
<1> QED BY <1>2, <1>3

-----------------------------------------------------------------------------
(* The listeners of a source: a set, in which the elements' runs are those *)
(* of the mounts there have been.                                          *)
ListOK(q, m) ==
  /\ q \in Seq(Functions) /\ IsInjective(q)
  /\ \A b \in Bindings, n \in 1 .. MaxMounts : Contains(q, Run(b, n)) => n <= m

(* Of an element whose store was there in time: it is bound, and what it   *)
(* does not show yet it will be told, or was to be.                        *)
Bound(b) ==
  /\ Live(b)
  /\ shown[b] = value[StoreOf[b]] \/ b \in missed \/ Pending(stack, b)

Types ==
  /\ value \in [Sources -> Values \cup {Missing, Held}]
  /\ \A s \in Stores : value[s] # Held
  /\ listeners \in [Sources -> Seq(Functions)]
  /\ activeEffect \in Effects \cup {NoEffect}
  /\ shown \in [Bindings -> Values \cup {Blank, Missing}]
  /\ mounts \in 0 .. MaxMounts
  /\ reads \subseteq Effects \X Sources
  /\ early \subseteq Stores
  /\ missed \subseteq Bindings
  /\ \A s \in early : value[s] # Missing

Lists == \A s \in Sources : ListOK(listeners[s], mounts)

Told == mounts > 0 => \A b \in Bindings : StoreOf[b] \in early => Bound(b)

IInv ==
  /\ Types
  /\ StackOK(stack) /\ Nested(stack, activeEffect)
  /\ Lists
  /\ SubscribedInItsRuns
  /\ Told

(* A run of an element is not a function of a script, and names its        *)
(* element and its mount.                                                  *)
LEMMA RunsApart ==
  ASSUME EffectsAssumption
  PROVE  /\ \A b \in Bindings, n \in 1 .. MaxMounts :
              Run(b, n) \in Functions /\ Run(b, n) \notin Effects \cup Plain
         /\ \A b, c, n, m : Run(b, n) = Run(c, m) => b = c /\ n = m
BY DEF EffectsAssumption, Functions, Runs, Run

(* Adding a function of a script to a set of listeners,                    *)
LEMMA AddedOK ==
  ASSUME EffectsAssumption, NEW q, NEW m, ListOK(q, m), NEW l \in Effects \cup Plain
  PROVE  /\ ListOK(Add(q, l), m)
         /\ \A f : Contains(Add(q, l), f) <=> Contains(q, f) \/ f = l
<1>1. l \in Functions /\ q \in Seq(Functions) /\ IsInjective(q)
  BY DEF ListOK, Functions
<1>2. CASE Contains(q, l)
  BY <1>2 DEF Add
<1>3. CASE ~Contains(q, l)
  <2>1. Add(q, l) = Append(q, l)
    BY <1>3 DEF Add
  <2> DEFINE r == Append(q, l)
  <2>2. r \in Seq(Functions) /\ IsInjective(r) /\ Range(r) = Range(q) \cup {l}
    BY <1>1, <1>3, Added
  <2> HIDE DEF r
  <2>3. \A f : Contains(r, f) <=> f \in Range(r)
    BY <2>2 DEF Contains, Range
  <2>4. \A f : Contains(q, f) <=> f \in Range(q)
    BY <1>1 DEF Contains, Range
  <2>5. \A f : Contains(r, f) <=> Contains(q, f) \/ f = l
    BY <2>2, <2>3, <2>4
  <2>6. ListOK(r, m)
    BY <2>2, <2>5, RunsApart DEF ListOK
  <2> QED BY <2>1, <2>5, <2>6 DEF r
<1> QED BY <1>2, <1>3

(* and taking one out.                                                     *)
LEMMA DeletedOK ==
  ASSUME NEW q, NEW m, ListOK(q, m), NEW i \in DOMAIN q
  PROVE  /\ ListOK(RemoveAt(q, i), m)
         /\ \A f : Contains(RemoveAt(q, i), f) => Contains(q, f)
         /\ \A f : f # q[i] /\ Contains(q, f) => Contains(RemoveAt(q, i), f)
<1> DEFINE r == RemoveAt(q, i)
<1>1. q \in Seq(Functions) /\ IsInjective(q)
  BY DEF ListOK
<1>2. r \in Seq(Functions) /\ IsInjective(r) /\ Range(r) \subseteq Range(q)
  BY <1>1, Deleted
<1>3. /\ Len(r) = Len(q) - 1 /\ Len(q) \in Nat /\ i \in 1 .. Len(q)
      /\ \A j \in 1 .. Len(q) - 1 : r[j] = IF j < i THEN q[j] ELSE q[j + 1]
  BY <1>1, Removed
<1> HIDE DEF r
<1>4. \A f : Contains(r, f) => Contains(q, f)
  BY <1>1, <1>2 DEF Contains, Range
<1>5. ASSUME NEW f, f # q[i], Contains(q, f) PROVE Contains(r, f)
  <2>1. PICK j \in 1 .. Len(q) : q[j] = f
    BY <1>5 DEF Contains
  <2>2. CASE j < i
    <3>1. j \in 1 .. Len(r) /\ r[j] = f
      BY <1>3, <2>1, <2>2
    <3> QED BY <3>1 DEF Contains
  <2>3. CASE j > i
    <3>1. j - 1 \in 1 .. Len(r) /\ r[j - 1] = f
      BY <1>3, <2>1, <2>3
    <3> QED BY <3>1 DEF Contains
  <2> QED BY <1>3, <1>5, <2>1, <2>2, <2>3
<1> QED BY <1>2, <1>4, <1>5 DEF ListOK, r

-----------------------------------------------------------------------------
(* A set of listeners changes, and the others stay as they are.            *)
LEMMA ListsStep ==
  ASSUME Types, Lists, NEW s \in Sources, NEW q, ListOK(q, mounts), mounts' = mounts,
         listeners' = [listeners EXCEPT ![s] = q]
  PROVE  /\ listeners' \in [Sources -> Seq(Functions)] /\ Lists'
         /\ listeners'[s] = q
         /\ \A t \in Sources : t # s => listeners'[t] = listeners[t]
<1>1. q \in Seq(Functions)
  BY DEF ListOK
<1>2. /\ listeners' \in [Sources -> Seq(Functions)]
      /\ listeners'[s] = q /\ \A t \in Sources : t # s => listeners'[t] = listeners[t]
  BY <1>1 DEF Types
<1>3. \A t \in Sources : ListOK(listeners'[t], mounts')
  BY <1>2 DEF Lists
<1> QED BY <1>2, <1>3 DEF Lists, ListOK

(* activeEffect is an effect, or there is none.                            *)
LEMMA ActiveType ==
  ASSUME NEW st, NEW act, StackOK(st), Nested(st, act)
  PROVE  act \in Effects \cup {NoEffect}
BY DEF StackOK, Nested, Top, FrameOK

(* What a step has to keep, for every element to stay bound.               *)
LEMMA ToldStep ==
  ASSUME Told, mounts' = mounts, mounts > 0 => early' = early,
         \A b \in Bindings : StoreOf[b] \in early /\ mounts > 0 /\ Bound(b) => Bound(b)'
  PROVE  Told'
BY DEF Told

(* No element loses its place among the listeners, or what it is to be     *)
(* told, by a step that publishes and shows nothing.                       *)
LEMMA ToldKept ==
  ASSUME EffectsAssumption, Types, Told, UNCHANGED <<value, shown, mounts, early, missed>>,
         \A b \in Bindings, n \in 1 .. MaxMounts : \A s \in Sources :
           Contains(listeners[s], Run(b, n)) => Contains(listeners'[s], Run(b, n)),
         \A b \in Bindings : Pending(stack, b) => Pending(stack', b)
  PROVE  Told'
<1>1. ASSUME NEW b \in Bindings, Bound(b) PROVE Bound(b)'
  <2>1. StoreOf[b] \in Sources
    BY DEF EffectsAssumption, Sources
  <2>2. Live(b)'
    BY <1>1, <2>1 DEF Bound, Live
  <2>3. shown'[b] = value'[StoreOf[b]] \/ b \in missed' \/ Pending(stack', b)
    BY <1>1 DEF Bound
  <2> QED BY <2>2, <2>3 DEF Bound, Pending
<1> QED BY <1>1, ToldStep

(* set() has yet to tell the elements that are bound to the store.         *)
LEMMA PublishTold ==
  ASSUME EffectsAssumption, IInv, NEW s \in Sources, NEW v, Publish(s, v)
  PROVE  /\ StackOK(stack') /\ Nested(stack', activeEffect)
         /\ \A b \in Bindings : Pending(stack, b) => Pending(stack', b)
         /\ \A b \in Bindings : StoreOf[b] = s /\ Live(b) => Pending(stack', b)
<1> DEFINE f == Frame("set", NoEffect, s, listeners[s], NoEffect)
<1>1. f \in Frames /\ FrameOK(f) /\ f.kind = "set" /\ f.queue = listeners[s]
  BY DEF IInv, Types, Frame, Frames, FrameOK
<1>2. stack' = <<f>> \o stack /\ Len(stack) < MaxDepth - 1 /\ MaxDepth \in Nat
  BY DEF Publish, EffectsAssumption
<1>3. StackOK(stack) /\ Nested(stack, activeEffect) /\ Len(stack) \in Nat
  BY DEF IInv, StackOK
<1> HIDE DEF f
<1>4. Len(stack) < MaxDepth
  BY <1>2, <1>3
<1>5. /\ StackOK(<<f>> \o stack)
      /\ Nested(<<f>> \o stack, IF f.kind = "run" THEN f.who ELSE activeEffect)
      /\ \A b \in Bindings : Pending(stack, b) => Pending(<<f>> \o stack, b)
      /\ \A b \in Bindings, n \in 1 .. MaxMounts :
           Contains(f.queue, Run(b, n)) => Pending(<<f>> \o stack, b)
  BY <1>1, <1>2, <1>3, <1>4, PushStack
<1>6. (IF f.kind = "run" THEN f.who ELSE activeEffect) = activeEffect
  BY <1>1
<1> QED BY <1>1, <1>2, <1>5, <1>6 DEF Live

(* A function is called.                                                   *)
LEMMA CalledStack ==
  ASSUME EffectsAssumption, NEW st, StackOK(st), Nested(st, activeEffect),
         Len(st) < MaxDepth, NEW f \in Effects \cup Plain
  PROVE  /\ StackOK(Called(f) \o st)
         /\ Nested(Called(f) \o st, IF f \in Effects THEN f ELSE activeEffect)
         /\ \A b \in Bindings : Pending(st, b) => Pending(Called(f) \o st, b)
<1> DEFINE g == IF f \in Effects THEN Frame("run", f, NoSource, <<>>, activeEffect)
                                 ELSE Frame("call", f, NoSource, <<>>, NoEffect)
<1>1. activeEffect \in Effects \cup {NoEffect}
  BY ActiveType
<1>2. /\ g \in Frames /\ FrameOK(g) /\ g.kind # "set"
      /\ g.kind = "run" => g.previous = activeEffect
      /\ (IF g.kind = "run" THEN g.who ELSE activeEffect)
           = (IF f \in Effects THEN f ELSE activeEffect)
  <2>1. CASE f \in Effects
    BY <1>1, <2>1 DEF Frame, Frames, FrameOK
  <2>2. CASE f \notin Effects
    BY <2>2 DEF Frame, Frames, FrameOK
  <2> QED BY <2>1, <2>2
<1>3. Called(f) = <<g>>
  BY DEF Called
<1> HIDE DEF g
<1>4. /\ StackOK(<<g>> \o st)
      /\ Nested(<<g>> \o st, IF g.kind = "run" THEN g.who ELSE activeEffect)
      /\ \A b \in Bindings : Pending(st, b) => Pending(<<g>> \o st, b)
  BY <1>2, PushStack DEF EffectsAssumption
<1> QED BY <1>2, <1>3, <1>4

-----------------------------------------------------------------------------
LEMMA CreateStoreStep ==
  ASSUME EffectsAssumption, IInv, NEW s \in Stores, CreateStore(s) PROVE IInv'
<1>1. PICK v \in Values : value' = [value EXCEPT ![s] = v]
  BY DEF CreateStore
<1>2. v \notin {Held, Missing} /\ s \in Sources
  BY DEF EffectsAssumption, Sources
<1>3. Types'
  BY <1>1, <1>2 DEF IInv, Types, CreateStore
<1>4. UNCHANGED <<listeners, activeEffect, stack, shown, mounts, reads, missed>>
  BY DEF CreateStore
<1>5. StackOK(stack)' /\ Nested(stack, activeEffect)' /\ Lists' /\ SubscribedInItsRuns'
  BY <1>4 DEF IInv, StackOK, Nested, Top, Lists, ListOK, SubscribedInItsRuns
<1>6. Told'
  <2>1. mounts > 0 => early' = early
    BY DEF CreateStore, IInv, Types
  <2>2. ASSUME NEW b \in Bindings, StoreOf[b] \in early, Bound(b) PROVE Bound(b)'
    <3>1. value'[StoreOf[b]] = value[StoreOf[b]]
      BY <1>1, <2>2 DEF IInv, Types, CreateStore, Sources
    <3> QED BY <1>4, <2>2, <3>1 DEF Bound, Live, Pending
  <2> QED BY <1>4, <2>1, <2>2, ToldStep DEF IInv
<1> QED BY <1>3, <1>5, <1>6 DEF IInv

LEMMA GetStep ==
  ASSUME EffectsAssumption, IInv, NEW s \in Sources, Get(s) PROVE IInv'
<1>1. activeEffect = Innermost /\ activeEffect \in Effects \cup {NoEffect} /\ NoEffect \notin Effects
  BY ActiveIsInnermost, ActiveType DEF IInv, StackOK, EffectsAssumption
<1>2. UNCHANGED <<value, activeEffect, stack, shown, mounts, early, missed>>
  BY DEF Get
<1>3. StackOK(stack)' /\ Nested(stack, activeEffect)'
  BY <1>2 DEF IInv, StackOK, Nested, Top
<1>4. CASE activeEffect = NoEffect
  <2>1. listeners' = listeners /\ reads' = reads
    BY <1>1, <1>4 DEF Get
  <2>2. Types' /\ Lists' /\ SubscribedInItsRuns' /\ Told'
    BY <1>2, <2>1
       DEF IInv, Types, Lists, ListOK, SubscribedInItsRuns, Told, Bound, Live, Pending
  <2> QED BY <1>3, <2>2 DEF IInv
<1>5. CASE activeEffect # NoEffect
  <2> DEFINE q == Add(listeners[s], activeEffect)
  <2>1. /\ activeEffect \in Effects /\ reads' = reads \cup {<<activeEffect, s>>}
        /\ listeners' = [listeners EXCEPT ![s] = q]
    BY <1>1, <1>5 DEF Get, IInv, Types
  <2>2. ListOK(listeners[s], mounts)
    BY DEF IInv, Lists
  <2>3. /\ ListOK(q, mounts)
        /\ \A f : Contains(q, f) <=> Contains(listeners[s], f) \/ f = activeEffect
    BY <2>1, <2>2, AddedOK
  <2> HIDE DEF q
  <2>4. /\ listeners' \in [Sources -> Seq(Functions)] /\ Lists'
        /\ listeners'[s] = q
        /\ \A t \in Sources : t # s => listeners'[t] = listeners[t]
    BY <1>2, <2>1, <2>3, ListsStep DEF IInv
  <2>5. Types'
    BY <1>2, <2>1, <2>4 DEF IInv, Types
  <2>6. ASSUME NEW t \in Sources, NEW e \in Effects
        PROVE  Contains(listeners'[t], e) <=> <<e, t>> \in reads'
    <3>1. Contains(listeners[t], e) <=> <<e, t>> \in reads
      BY DEF IInv, SubscribedInItsRuns
    <3>2. CASE t = s
      BY <2>1, <2>3, <2>4, <3>1, <3>2
    <3>3. CASE t # s
      BY <2>1, <2>4, <3>1, <3>3
    <3> QED BY <3>2, <3>3
  <2>7. SubscribedInItsRuns'
    BY <2>6 DEF SubscribedInItsRuns
  <2>8. Told'
    <3>1. \A b \in Bindings, n \in 1 .. MaxMounts : \A t \in Sources :
            Contains(listeners[t], Run(b, n)) => Contains(listeners'[t], Run(b, n))
      BY <2>3, <2>4
    <3> QED BY <1>2, <3>1, ToldKept DEF IInv
  <2> QED BY <1>3, <2>4, <2>5, <2>7, <2>8 DEF IInv
<1> QED BY <1>4, <1>5

LEMMA SetStep ==
  ASSUME EffectsAssumption, IInv, NEW s \in Sources, NEW v \in Values \cup {Held}, Set(s, v)
  PROVE  IInv'
<1>1. UNCHANGED <<listeners, activeEffect, shown, mounts, reads, early, missed>>
  BY DEF Set
<1>2. /\ Publish(s, v) /\ value' = [value EXCEPT ![s] = v]
      /\ v # Missing /\ (s \in Stores => v # Held)
  BY DEF Set, Publish, EffectsAssumption, Sources
<1>3. /\ StackOK(stack') /\ Nested(stack', activeEffect)
      /\ \A b \in Bindings : Pending(stack, b) => Pending(stack', b)
      /\ \A b \in Bindings : StoreOf[b] = s /\ Live(b) => Pending(stack', b)
  BY <1>2, PublishTold
<1>4. Types' /\ Lists' /\ SubscribedInItsRuns'
  BY <1>1, <1>2 DEF IInv, Types, Lists, ListOK, SubscribedInItsRuns, Sources
<1>5. StackOK(stack)' /\ Nested(stack, activeEffect)'
  BY <1>1, <1>3 DEF StackOK, Nested, Top
<1>6. ASSUME NEW b \in Bindings, Bound(b) PROVE Bound(b)'
  <2>1. Live(b) /\ Live(b)'
    BY <1>1, <1>6 DEF Bound, Live
  <2>2. shown'[b] = value'[StoreOf[b]] \/ b \in missed' \/ Pending(stack', b)
    <3>1. CASE StoreOf[b] = s
      BY <1>3, <2>1, <3>1
    <3>2. CASE StoreOf[b] # s
      <4>1. value'[StoreOf[b]] = value[StoreOf[b]]
        BY <1>2, <3>2 DEF IInv, Types, EffectsAssumption, Sources
      <4> QED BY <1>1, <1>3, <1>6, <4>1 DEF Bound
    <3> QED BY <3>1, <3>2
  <2> QED BY <2>1, <2>2 DEF Bound, Pending
<1>7. Told'
  BY <1>1, <1>6, ToldStep DEF IInv
<1> QED BY <1>4, <1>5, <1>7 DEF IInv

LEMMA RunEffectStep ==
  ASSUME EffectsAssumption, IInv, NEW e \in Effects, RunEffect(e) PROVE IInv'
<1>1. /\ UNCHANGED <<value, listeners, shown, mounts, reads, early, missed>>
      /\ activeEffect' = e /\ stack' = Called(e) \o stack /\ Len(stack) < MaxDepth
  BY DEF RunEffect
<1>2. /\ StackOK(stack') /\ Nested(stack', e)
      /\ \A b \in Bindings : Pending(stack, b) => Pending(stack', b)
  BY <1>1, CalledStack DEF IInv
<1>3. Types' /\ Lists' /\ SubscribedInItsRuns'
  BY <1>1 DEF IInv, Types, Lists, ListOK, SubscribedInItsRuns
<1>4. StackOK(stack)' /\ Nested(stack, activeEffect)'
  BY <1>1, <1>2 DEF StackOK, Nested, Top
<1>5. Told'
  BY <1>1, <1>2, ToldKept DEF IInv
<1> QED BY <1>3, <1>4, <1>5 DEF IInv

LEMMA SubscribeStep ==
  ASSUME EffectsAssumption, IInv, NEW s \in Sources, NEW l \in Plain, Subscribe(s, l)
  PROVE  IInv'
<1>1. /\ UNCHANGED <<value, activeEffect, shown, mounts, reads, early, missed>>
      /\ Len(stack) < MaxDepth /\ ~Contains(listeners[s], l)
  BY DEF Subscribe
<1>2. l \notin Effects /\ l \in Effects \cup Plain /\ ListOK(listeners[s], mounts)
  BY DEF IInv, Lists, EffectsAssumption
<1>3. CASE s \in Stores /\ listeners' = [listeners EXCEPT ![s] = Append(@, l)]
                        /\ stack' = Called(l) \o stack
  <2> DEFINE q == Add(listeners[s], l)
  <2>1. listeners' = [listeners EXCEPT ![s] = q]
    BY <1>1, <1>3 DEF Add, IInv, Types
  <2>2. /\ ListOK(q, mounts)
        /\ \A f : Contains(q, f) <=> Contains(listeners[s], f) \/ f = l
    BY <1>2, AddedOK
  <2> HIDE DEF q
  <2>3. /\ listeners' \in [Sources -> Seq(Functions)] /\ Lists'
        /\ listeners'[s] = q
        /\ \A t \in Sources : t # s => listeners'[t] = listeners[t]
    BY <1>1, <2>1, <2>2, ListsStep DEF IInv
  <2>4. Types'
    BY <1>1, <2>3 DEF IInv, Types
  <2>5. SubscribedInItsRuns'
    BY <1>1, <1>2, <2>2, <2>3 DEF IInv, SubscribedInItsRuns
  <2>6. /\ StackOK(stack') /\ Nested(stack', activeEffect)
        /\ \A b \in Bindings : Pending(stack, b) => Pending(stack', b)
    BY <1>1, <1>2, <1>3, CalledStack DEF IInv
  <2>7. StackOK(stack)' /\ Nested(stack, activeEffect)'
    BY <1>1, <2>6 DEF StackOK, Nested, Top
  <2>8. Told'
    <3>1. \A b \in Bindings, n \in 1 .. MaxMounts : \A t \in Sources :
            Contains(listeners[t], Run(b, n)) => Contains(listeners'[t], Run(b, n))
      BY <2>2, <2>3
    <3> QED BY <1>1, <2>6, <3>1, ToldKept DEF IInv
  <2> QED BY <2>3, <2>4, <2>5, <2>7, <2>8 DEF IInv
<1>4. CASE s \in Signals /\ UNCHANGED listeners
           /\ stack' = <<Frame("first", l, s, <<>>, NoEffect)>> \o stack
  <2> DEFINE f == Frame("first", l, s, <<>>, NoEffect)
  <2>1. f \in Frames /\ FrameOK(f) /\ f.kind = "first"
    BY <1>2 DEF Frame, Frames, FrameOK
  <2>2. stack' = <<f>> \o stack
    BY <1>4
  <2> HIDE DEF f
  <2>3. /\ StackOK(<<f>> \o stack)
        /\ Nested(<<f>> \o stack, IF f.kind = "run" THEN f.who ELSE activeEffect)
        /\ \A b \in Bindings : Pending(stack, b) => Pending(<<f>> \o stack, b)
    BY <1>1, <2>1, PushStack DEF IInv, EffectsAssumption
  <2>4. /\ StackOK(stack') /\ Nested(stack', activeEffect)
        /\ \A b \in Bindings : Pending(stack, b) => Pending(stack', b)
    BY <2>1, <2>2, <2>3
  <2>5. StackOK(stack)' /\ Nested(stack, activeEffect)'
    BY <1>1, <2>4 DEF StackOK, Nested, Top
  <2>6. Types' /\ Lists' /\ SubscribedInItsRuns'
    BY <1>1, <1>4 DEF IInv, Types, Lists, ListOK, SubscribedInItsRuns
  <2>7. Told'
    BY <1>1, <1>4, <2>4, ToldKept DEF IInv
  <2> QED BY <2>5, <2>6, <2>7 DEF IInv
<1> QED BY <1>3, <1>4 DEF Subscribe

LEMMA UnsubscribeStep ==
  ASSUME EffectsAssumption, IInv, NEW s \in Sources, NEW l \in Plain, Unsubscribe(s, l)
  PROVE  IInv'
<1>1. UNCHANGED <<value, activeEffect, stack, shown, mounts, reads, early, missed>>
  BY DEF Unsubscribe
<1>2. PICK i \in DOMAIN listeners[s] :
        /\ listeners[s][i] = l
        /\ listeners' = [listeners EXCEPT ![s] = RemoveAt(@, i)]
  BY DEF Unsubscribe
<1> DEFINE q == RemoveAt(listeners[s], i)
<1>3. l \notin Effects /\ l \in Effects \cup Plain /\ ListOK(listeners[s], mounts)
  BY DEF IInv, Lists, EffectsAssumption
<1>4. /\ ListOK(q, mounts)
      /\ \A f : Contains(q, f) => Contains(listeners[s], f)
      /\ \A f : f # l /\ Contains(listeners[s], f) => Contains(q, f)
  BY <1>2, <1>3, DeletedOK
<1>5. listeners' = [listeners EXCEPT ![s] = q]
  BY <1>2 DEF IInv, Types
<1> HIDE DEF q
<1>6. /\ listeners' \in [Sources -> Seq(Functions)] /\ Lists'
      /\ listeners'[s] = q
      /\ \A t \in Sources : t # s => listeners'[t] = listeners[t]
  BY <1>1, <1>4, <1>5, ListsStep DEF IInv
<1>7. Types' /\ StackOK(stack)' /\ Nested(stack, activeEffect)'
  BY <1>1, <1>6 DEF IInv, Types, StackOK, Nested, Top
<1>8. SubscribedInItsRuns'
  BY <1>1, <1>3, <1>4, <1>6 DEF IInv, SubscribedInItsRuns
<1>9. Told'
  <2>1. \A b \in Bindings, n \in 1 .. MaxMounts : \A t \in Sources :
          Contains(listeners[t], Run(b, n)) => Contains(listeners'[t], Run(b, n))
    BY <1>3, <1>4, <1>6, RunsApart
  <2>2. \A b \in Bindings : Pending(stack, b) => Pending(stack', b)
    BY <1>1
  <2> QED BY <1>1, <2>1, <2>2, ToldKept DEF IInv
<1> QED BY <1>6, <1>7, <1>8, <1>9 DEF IInv

-----------------------------------------------------------------------------
LEMMA CallStep ==
  ASSUME EffectsAssumption, IInv, Call PROVE IInv'
<1> DEFINE f == Head(Head(stack).queue)
           rest == <<[Head(stack) EXCEPT !.queue = Tail(@)]>> \o Tail(stack)
<1>1. /\ stack # <<>> /\ Head(stack).kind = "set" /\ Head(stack).queue # <<>>
      /\ f \in Effects \cup Plain /\ stack' = Called(f) \o rest
      /\ activeEffect' = IF f \in Effects THEN f ELSE activeEffect
      /\ UNCHANGED <<value, listeners, shown, mounts, reads, early, missed>>
  BY DEF Call
<1>2. /\ StackOK(rest) /\ Nested(rest, activeEffect) /\ Len(rest) < MaxDepth
      /\ \A b \in Bindings : Pending(stack, b) =>
           \/ Pending(rest, b)
           \/ \E n \in 1 .. MaxMounts : f = Run(b, n)
  BY <1>1, AdvanceStack DEF IInv, EffectsAssumption
<1> HIDE DEF f, rest
<1>3. \A b \in Bindings : Pending(stack, b) => Pending(rest, b)
  BY <1>1, <1>2, RunsApart
<1>4. /\ StackOK(stack') /\ Nested(stack', activeEffect')
      /\ \A b \in Bindings : Pending(rest, b) => Pending(stack', b)
  BY <1>1, <1>2, CalledStack
<1>5. Types' /\ Lists' /\ SubscribedInItsRuns'
  <2>1. activeEffect' \in Effects \cup {NoEffect}
    BY <1>4, ActiveType
  <2> QED BY <1>1, <2>1 DEF IInv, Types, Lists, ListOK, SubscribedInItsRuns
<1>6. StackOK(stack)' /\ Nested(stack, activeEffect)'
  BY <1>4 DEF StackOK, Nested, Top
<1>7. Told'
  BY <1>1, <1>3, <1>4, ToldKept DEF IInv
<1> QED BY <1>5, <1>6, <1>7 DEF IInv

(* An element shows what its store holds now: the store is still there.    *)
LEMMA ShowStep ==
  ASSUME EffectsAssumption, IInv, Show PROVE IInv'
<1> DEFINE f == Head(Head(stack).queue)
           rest == <<[Head(stack) EXCEPT !.queue = Tail(@)]>> \o Tail(stack)
<1>1. /\ stack # <<>> /\ Head(stack).kind = "set" /\ Head(stack).queue # <<>>
      /\ stack' = rest
      /\ UNCHANGED <<value, listeners, activeEffect, mounts, reads, early>>
  BY DEF Show
<1>2. PICK c \in Bindings, m \in 1 .. MaxMounts :
        /\ f = Run(c, m)
        /\ shown' = [shown EXCEPT ![c] = Rendered(c)] /\ missed' = missed \ {c}
  BY DEF Show
<1>3. /\ StackOK(rest) /\ Nested(rest, activeEffect)
      /\ \A b \in Bindings : Pending(stack, b) =>
           \/ Pending(rest, b)
           \/ \E n \in 1 .. MaxMounts : f = Run(b, n)
  BY <1>1, AdvanceStack DEF IInv, EffectsAssumption
<1> HIDE DEF f, rest
<1>4. \A b \in Bindings : b # c /\ Pending(stack, b) => Pending(rest, b)
  BY <1>2, <1>3, RunsApart
<1>5. \A b \in Bindings : StoreOf[b] \in Stores /\ StoreOf[b] \in Sources
  BY DEF EffectsAssumption, Sources
<1>6. Rendered(c) \in Values \cup {Blank, Missing}
  BY <1>5 DEF IInv, Types, Rendered, Evaluate
<1>7. Types' /\ Lists' /\ SubscribedInItsRuns'
  BY <1>1, <1>2, <1>6 DEF IInv, Types, Lists, ListOK, SubscribedInItsRuns
<1>8. StackOK(stack)' /\ Nested(stack, activeEffect)'
  BY <1>1, <1>3 DEF StackOK, Nested, Top
<1>9. ASSUME NEW b \in Bindings, StoreOf[b] \in early, Bound(b) PROVE Bound(b)'
  <2>1. Live(b)'
    BY <1>1, <1>9 DEF Bound, Live
  <2>2. shown'[b] = value'[StoreOf[b]] \/ b \in missed' \/ Pending(stack', b)
    <3>1. CASE b = c
      <4>1. value[StoreOf[c]] # Missing
        BY <1>9, <3>1 DEF IInv, Types
      <4>2. Rendered(c) = value[StoreOf[c]]
        BY <4>1 DEF Rendered, Evaluate
      <4> QED BY <1>1, <1>2, <3>1, <4>2 DEF IInv, Types
    <3>2. CASE b # c
      BY <1>1, <1>2, <1>4, <1>9, <3>2 DEF IInv, Types, Bound
    <3> QED BY <3>1, <3>2
  <2> QED BY <2>1, <2>2 DEF Bound, Pending
<1>10. Told'
  BY <1>1, <1>9, ToldStep DEF IInv
<1> QED BY <1>7, <1>8, <1>10 DEF IInv

LEMMA ReturnStep ==
  ASSUME EffectsAssumption, IInv, Return PROVE IInv'
<1> DEFINE top == Head(stack)
<1>1. /\ stack # <<>> /\ top.queue = <<>> /\ stack' = Tail(stack)
      /\ activeEffect' = IF top.kind = "run" THEN top.previous ELSE activeEffect
      /\ listeners' = IF top.kind = "first"
                      THEN [listeners EXCEPT ![top.source] = Add(@, top.who)]
                      ELSE listeners
      /\ UNCHANGED <<value, shown, mounts, reads, early, missed>>
  BY DEF Return
<1>2. top = stack[1] /\ 1 \in DOMAIN stack /\ FrameOK(top)
  BY <1>1 DEF IInv, StackOK
<1>3. /\ StackOK(stack') /\ Nested(stack', activeEffect')
      /\ \A b \in Bindings : Pending(stack, b) => Pending(stack', b)
  BY <1>1, PopStack DEF IInv, EffectsAssumption
<1> HIDE DEF top
<1>4. StackOK(stack)' /\ Nested(stack, activeEffect)'
  BY <1>3 DEF StackOK, Nested, Top
<1>5. activeEffect' \in Effects \cup {NoEffect}
  BY <1>3, ActiveType
<1>6. CASE top.kind # "first"
  <2>1. listeners' = listeners
    BY <1>1, <1>6
  <2>2. Types' /\ Lists' /\ SubscribedInItsRuns'
    BY <1>1, <1>5, <2>1 DEF IInv, Types, Lists, ListOK, SubscribedInItsRuns
  <2>3. Told'
    BY <1>1, <1>3, <2>1, ToldKept DEF IInv
  <2> QED BY <1>4, <2>2, <2>3 DEF IInv
<1>7. CASE top.kind = "first"
  <2> DEFINE s == top.source
             l == top.who
             q == Add(listeners[s], l)
  <2>1. l \in Plain /\ s \in Sources /\ l \notin Effects /\ l \in Effects \cup Plain
    BY <1>2, <1>7 DEF FrameOK, EffectsAssumption
  <2>2. listeners' = [listeners EXCEPT ![s] = q] /\ ListOK(listeners[s], mounts)
    BY <1>1, <1>7, <2>1 DEF IInv, Types, Lists
  <2> HIDE DEF s, l
  <2>3. /\ ListOK(q, mounts)
        /\ \A f : Contains(q, f) <=> Contains(listeners[s], f) \/ f = l
    BY <2>1, <2>2, AddedOK
  <2> HIDE DEF q
  <2>4. /\ listeners' \in [Sources -> Seq(Functions)] /\ Lists'
        /\ listeners'[s] = q
        /\ \A t \in Sources : t # s => listeners'[t] = listeners[t]
    BY <1>1, <2>1, <2>2, <2>3, ListsStep DEF IInv
  <2>5. Types'
    BY <1>1, <1>5, <2>4 DEF IInv, Types
  <2>6. SubscribedInItsRuns'
    BY <1>1, <2>1, <2>3, <2>4 DEF IInv, SubscribedInItsRuns
  <2>7. Told'
    <3>1. \A b \in Bindings, n \in 1 .. MaxMounts : \A t \in Sources :
            Contains(listeners[t], Run(b, n)) => Contains(listeners'[t], Run(b, n))
      BY <2>3, <2>4
    <3> QED BY <1>1, <1>3, <3>1, ToldKept DEF IInv
  <2> QED BY <1>4, <2>4, <2>5, <2>6, <2>7 DEF IInv
<1> QED BY <1>6, <1>7

(* An exception: what the set() calls it ends had still to tell is missed. *)
LEMMA ThrowStep ==
  ASSUME EffectsAssumption, IInv, Throw PROVE IInv'
<1> DEFINE lost(n) == {b \in Bindings : \E i \in 1 .. n, m \in 1 .. MaxMounts :
                                          Contains(stack[i].queue, Run(b, m))}
<1>1. UNCHANGED <<value, listeners, shown, mounts, reads, early>>
  BY DEF Throw
<1>2. PICK n \in DOMAIN stack :
        /\ activeEffect' = Restored(n) /\ missed' = missed \cup lost(n)
        /\ stack' = SubSeq(stack, n + 1, Len(stack))
  BY DEF Throw
<1>3. stack \in Seq(Frames) /\ StackOK(stack) /\ Nested(stack, activeEffect)
  BY DEF IInv, StackOK
<1>4. Top(stack, n + 1, Restored(n))
  BY <1>3, RestoredIsOuter
<1>5. /\ StackOK(stack') /\ Nested(stack', activeEffect')
      /\ \A b \in Bindings : Pending(stack, b) => Pending(stack', b) \/ b \in lost(n)
  BY <1>2, <1>3, <1>4, DropStack DEF EffectsAssumption
<1>6. lost(n) \subseteq Bindings
  OBVIOUS
<1> HIDE DEF lost
<1>7. StackOK(stack)' /\ Nested(stack, activeEffect)'
  BY <1>5 DEF StackOK, Nested, Top
<1>8. Types' /\ Lists' /\ SubscribedInItsRuns'
  <2>1. activeEffect' \in Effects \cup {NoEffect}
    BY <1>5, ActiveType
  <2> QED BY <1>1, <1>2, <1>6, <2>1 DEF IInv, Types, Lists, ListOK, SubscribedInItsRuns
<1>9. ASSUME NEW b \in Bindings, Bound(b) PROVE Bound(b)'
  <2>1. Live(b)'
    BY <1>1, <1>9 DEF Bound, Live
  <2>2. shown'[b] = value'[StoreOf[b]] \/ b \in missed' \/ Pending(stack', b)
    BY <1>1, <1>2, <1>5, <1>9 DEF Bound
  <2> QED BY <2>1, <2>2 DEF Bound, Pending
<1>10. Told'
  BY <1>1, <1>9, ToldStep DEF IInv
<1> QED BY <1>7, <1>8, <1>10 DEF IInv

-----------------------------------------------------------------------------
(* What mount adds to the listeners of a source: one run for each element  *)
(* that names it.                                                          *)
LEMMA MountedList ==
  ASSUME EffectsAssumption, NEW T \in SUBSET Bindings, NEW n \in 1 .. MaxMounts,
         NEW q, ListOK(q, n - 1)
  PROVE  LET bound == SetToSeq(T)
             r == q \o [i \in DOMAIN bound |-> Run(bound[i], n)]
         IN  /\ ListOK(r, n)
             /\ \A f : Contains(q, f) => Contains(r, f)
             /\ \A f \in Effects : Contains(r, f) => Contains(q, f)
             /\ \A b \in T : Contains(r, Run(b, n))
<1> DEFINE bound == SetToSeq(T)
           new == [i \in DOMAIN bound |-> Run(bound[i], n)]
           r == q \o new
<1>1. IsFiniteSet(T)
  BY FS_Subset DEF EffectsAssumption
<1>2. bound \in Seq(T) /\ IsInjective(bound) /\ Range(bound) = T
  BY <1>1, Listed
<1> HIDE DEF bound
<1>3. /\ new \in Seq(Functions) /\ Len(new) = Len(bound)
      /\ \A i \in DOMAIN bound : i \in DOMAIN new /\ new[i] = Run(bound[i], n)
      /\ DOMAIN new = DOMAIN bound
  <2>1. \A i \in DOMAIN bound : bound[i] \in Bindings
    BY <1>2
  <2>2. \A i \in DOMAIN bound : Run(bound[i], n) \in Functions
    BY <2>1, RunsApart
  <2>3. new \in [1 .. Len(bound) -> Functions] /\ Len(bound) \in Nat
    BY <1>2, <2>2
  <2> HIDE DEF new
  <2>4. new \in Seq(Functions) /\ Len(new) = Len(bound)
    BY <2>3
  <2> QED BY <1>2, <2>4 DEF new
<1> HIDE DEF new
<1>4. IsInjective(new)
  BY <1>2, <1>3, RunsApart DEF IsInjective
<1>5. Range(new) = {Run(b, n) : b \in T}
  <2>1. Range(new) \subseteq {Run(b, n) : b \in T}
    BY <1>2, <1>3 DEF Range
  <2>2. ASSUME NEW b \in T PROVE Run(b, n) \in Range(new)
    <3>1. PICK i \in DOMAIN bound : bound[i] = b
      BY <1>2 DEF Range
    <3> QED BY <1>3, <3>1 DEF Range
  <2> QED BY <2>1, <2>2
<1>6. q \in Seq(Functions) /\ IsInjective(q)
  BY DEF ListOK
<1>7. \A f : f \in Range(q) <=> Contains(q, f)
  BY <1>6 DEF Range, Contains
<1>8. Range(q) \cap Range(new) = {}
  <2>1. ASSUME NEW b \in T PROVE ~Contains(q, Run(b, n))
    BY DEF ListOK
  <2> QED BY <1>5, <1>7, <2>1
<1>9. r \in Seq(Functions) /\ IsInjective(r) /\ Range(r) = Range(q) \cup Range(new)
  BY <1>3, <1>4, <1>6, <1>8, Joined
<1> HIDE DEF r
<1>10. \A f : f \in Range(r) <=> Contains(r, f)
  BY <1>9 DEF Range, Contains
<1>11. \A f : Contains(r, f) <=> Contains(q, f) \/ \E b \in T : f = Run(b, n)
  BY <1>5, <1>7, <1>9, <1>10
<1>12. ASSUME NEW b \in Bindings, NEW m \in 1 .. MaxMounts, Contains(r, Run(b, m))
       PROVE  m <= n
  <2>1. CASE Contains(q, Run(b, m))
    <3>1. m <= n - 1
      BY <2>1 DEF ListOK
    <3> QED BY <3>1
  <2>2. CASE \E c \in T : Run(b, m) = Run(c, n)
    BY <2>2, RunsApart
  <2> QED BY <1>11, <1>12, <2>1, <2>2
<1>13. ListOK(r, n)
  BY <1>9, <1>12 DEF ListOK
<1>14. \A f \in Effects : Contains(r, f) => Contains(q, f)
  BY <1>11, RunsApart
<1> QED BY <1>11, <1>13, <1>14 DEF r, new, bound

LEMMA MountStep ==
  ASSUME EffectsAssumption, IInv, Mount PROVE IInv'
<1> DEFINE T(s) == {b \in Bindings : StoreOf[b] = s /\ Evaluate(b) # Missing}
           n == mounts + 1
           r(s) == listeners[s] \o [i \in DOMAIN SetToSeq(T(s)) |-> Run(SetToSeq(T(s))[i], n)]
<1>1. /\ mounts' = n /\ mounts < MaxMounts /\ shown' = [b \in Bindings |-> Rendered(b)]
      /\ missed' = {} /\ UNCHANGED <<value, activeEffect, stack, reads, early>>
      /\ listeners' = [s \in Sources |-> r(s)]
  BY DEF Mount
<1>2. n \in 1 .. MaxMounts /\ n - 1 = mounts
  BY <1>1 DEF IInv, Types, EffectsAssumption
<1>3. ASSUME NEW s \in Sources
      PROVE  /\ listeners'[s] = r(s)
             /\ ListOK(r(s), n)
             /\ \A f \in Effects : Contains(r(s), f) <=> Contains(listeners[s], f)
             /\ \A b \in T(s) : Contains(r(s), Run(b, n))
  <2>1. ListOK(listeners[s], n - 1)
    BY <1>2 DEF IInv, Lists
  <2>2. listeners'[s] = r(s)
    BY <1>1
  <2> DEFINE elements == T(s)
             q == listeners[s]
             added == q \o [i \in DOMAIN SetToSeq(elements) |-> Run(SetToSeq(elements)[i], n)]
  <2>3. elements \in SUBSET Bindings
    OBVIOUS
  <2> HIDE DEF elements, T, q, n, r
  <2>4. /\ ListOK(added, n)
        /\ \A f : Contains(q, f) => Contains(added, f)
        /\ \A f \in Effects : Contains(added, f) => Contains(q, f)
        /\ \A b \in elements : Contains(added, Run(b, n))
    BY <1>2, <2>1, <2>3, MountedList DEF q
  <2>5. added = r(s)
    BY DEF r, q, elements
  <2> HIDE DEF added
  <2> QED BY <2>2, <2>4, <2>5 DEF q, elements
<1> HIDE DEF n, r
<1>4. listeners' \in [Sources -> Seq(Functions)] /\ Lists'
  BY <1>1, <1>3 DEF Lists, ListOK
<1>5. \A b \in Bindings : StoreOf[b] \in Stores /\ StoreOf[b] \in Sources
  BY DEF EffectsAssumption, Sources
<1>6. \A b \in Bindings : Rendered(b) \in Values \cup {Blank, Missing}
  BY <1>5 DEF IInv, Types, Rendered, Evaluate
<1>7. Types'
  BY <1>1, <1>2, <1>4, <1>6 DEF IInv, Types
<1>8. StackOK(stack)' /\ Nested(stack, activeEffect)' /\ SubscribedInItsRuns'
  BY <1>1, <1>3 DEF IInv, StackOK, Nested, Top, SubscribedInItsRuns
<1>9. ASSUME NEW b \in Bindings, StoreOf[b] \in early PROVE Bound(b)'
  <2>1. value[StoreOf[b]] # Missing
    BY <1>9 DEF IInv, Types
  <2>2. b \in T(StoreOf[b]) /\ Rendered(b) = value[StoreOf[b]]
    BY <2>1 DEF Rendered, Evaluate
  <2>3. Contains(listeners'[StoreOf[b]], Run(b, n))
    BY <1>3, <1>5, <2>2
  <2> QED BY <1>1, <1>2, <2>2, <2>3 DEF Bound, Live
<1>10. Told'
  BY <1>1, <1>9 DEF Told
<1> QED BY <1>4, <1>7, <1>8, <1>10 DEF IInv

(* What is typed into an element is what it shows, and is published.       *)
LEMMA TypeStep ==
  ASSUME EffectsAssumption, IInv, NEW c \in Inputs, NEW v \in Values, Type(c, v)
  PROVE  IInv'
<1>1. /\ shown' = [shown EXCEPT ![c] = v]
      /\ UNCHANGED <<listeners, activeEffect, mounts, reads, early, missed>>
      /\ \/ Live(c) /\ Publish(StoreOf[c], v)
         \/ ~Live(c) /\ UNCHANGED <<value, stack>>
  BY DEF Type
<1>2. c \in Bindings /\ v \notin {Missing, Held}
  BY DEF EffectsAssumption
<1>3. \A b \in Bindings : StoreOf[b] \in Stores /\ StoreOf[b] \in Sources
  BY DEF EffectsAssumption, Sources
<1>4. Lists' /\ SubscribedInItsRuns'
  BY <1>1 DEF IInv, Lists, ListOK, SubscribedInItsRuns
<1>5. CASE Live(c) /\ Publish(StoreOf[c], v)
  <2> DEFINE s == StoreOf[c]
  <2>1. value' = [value EXCEPT ![s] = v] /\ s \in Stores /\ s \in Sources
    BY <1>2, <1>3, <1>5 DEF Publish
  <2>2. /\ StackOK(stack') /\ Nested(stack', activeEffect)
        /\ \A b \in Bindings : Pending(stack, b) => Pending(stack', b)
        /\ \A b \in Bindings : StoreOf[b] = s /\ Live(b) => Pending(stack', b)
    BY <1>5, <2>1, PublishTold
  <2> HIDE DEF s
  <2>3. Types'
    BY <1>1, <1>2, <2>1 DEF IInv, Types
  <2>4. StackOK(stack)' /\ Nested(stack, activeEffect)'
    BY <1>1, <2>2 DEF StackOK, Nested, Top
  <2>5. ASSUME NEW b \in Bindings, Bound(b) PROVE Bound(b)'
    <3>1. Live(b) /\ Live(b)'
      BY <1>1, <2>5 DEF Bound, Live
    <3>2. shown'[b] = value'[StoreOf[b]] \/ b \in missed' \/ Pending(stack', b)
      <4>1. CASE StoreOf[b] = s
        BY <2>2, <3>1, <4>1
      <4>2. CASE StoreOf[b] # s
        <5>1. value'[StoreOf[b]] = value[StoreOf[b]] /\ b # c
          BY <1>3, <2>1, <4>2 DEF IInv, Types, s
        <5>2. shown'[b] = shown[b]
          BY <1>1, <5>1 DEF IInv, Types
        <5> QED BY <1>1, <2>2, <2>5, <5>1, <5>2 DEF Bound
      <4> QED BY <4>1, <4>2
    <3> QED BY <3>1, <3>2 DEF Bound, Pending
  <2>6. Told'
    BY <1>1, <2>5, ToldStep DEF IInv
  <2> QED BY <1>4, <2>3, <2>4, <2>6 DEF IInv
<1>6. CASE ~Live(c) /\ UNCHANGED <<value, stack>>
  <2>1. Types' /\ StackOK(stack)' /\ Nested(stack, activeEffect)'
    BY <1>1, <1>2, <1>6 DEF IInv, Types, StackOK, Nested, Top
  <2>2. ASSUME NEW b \in Bindings, Bound(b) PROVE Bound(b)'
    <3>1. b # c
      BY <1>6, <2>2 DEF Bound
    <3>2. shown'[b] = shown[b]
      BY <1>1, <3>1 DEF IInv, Types
    <3> QED BY <1>1, <1>6, <2>2, <3>2 DEF Bound, Live, Pending
  <2>3. Told'
    BY <1>1, <2>2, ToldStep DEF IInv
  <2> QED BY <1>4, <2>1, <2>3 DEF IInv
<1> QED BY <1>1, <1>5, <1>6

-----------------------------------------------------------------------------
LEMMA InitIInv ==
  ASSUME EffectsAssumption, Init PROVE IInv
<1>1. Types
  BY DEF EffectsAssumption, Init, Types, Sources
<1>2. stack = <<>> /\ stack \in Seq(Frames) /\ Len(stack) = 0
  BY DEF Init
<1>3. StackOK(stack) /\ Nested(stack, activeEffect)
  BY <1>2 DEF Init, StackOK, Nested, Top, EffectsAssumption
<1>4. ASSUME NEW s \in Sources
      PROVE  listeners[s] = <<>> /\ ListOK(listeners[s], mounts) /\ \A f : ~Contains(listeners[s], f)
  <2>1. listeners[s] = <<>>
    BY DEF Init
  <2> QED BY <2>1 DEF ListOK, IsInjective, Contains
<1>5. Lists /\ SubscribedInItsRuns
  BY <1>4 DEF Lists, SubscribedInItsRuns, Init
<1>6. Told
  BY DEF Init, Told
<1> QED BY <1>1, <1>3, <1>5, <1>6 DEF IInv

LEMMA NextIInv ==
  ASSUME EffectsAssumption, IInv, [Next]_vars PROVE IInv'
<1>1. ASSUME NEW s \in Stores, CreateStore(s) PROVE IInv'
  BY <1>1, CreateStoreStep
<1>2. ASSUME NEW s \in Sources, Get(s) PROVE IInv'
  BY <1>2, GetStep
<1>3. ASSUME NEW s \in Sources, NEW v \in Values \cup {Held}, Set(s, v) PROVE IInv'
  BY <1>3, SetStep
<1>4. ASSUME NEW s \in Sources, NEW l \in Plain, Subscribe(s, l) PROVE IInv'
  BY <1>4, SubscribeStep
<1>5. ASSUME NEW s \in Sources, NEW l \in Plain, Unsubscribe(s, l) PROVE IInv'
  BY <1>5, UnsubscribeStep
<1>6. ASSUME NEW e \in Effects, RunEffect(e) PROVE IInv'
  BY <1>6, RunEffectStep
<1>7. CASE Call \/ Show \/ Return \/ Throw
  BY <1>7, CallStep, ShowStep, ReturnStep, ThrowStep
<1>8. CASE Mount
  BY <1>8, MountStep
<1>9. ASSUME NEW b \in Inputs, NEW v \in Values, Type(b, v) PROVE IInv'
  BY <1>9, TypeStep
<1>10. CASE UNCHANGED vars
  BY <1>10 DEF vars, IInv, Types, StackOK, Nested, Top, Lists, ListOK, SubscribedInItsRuns,
               Told, Bound, Live, Pending
<1> QED BY <1>1, <1>2, <1>3, <1>4, <1>5, <1>6, <1>7, <1>8, <1>9, <1>10 DEF Next

(* The runs that are on the stack hold what activeEffect will be when each *)
(* of them ends, the listeners of a source are the effects in whose runs   *)
(* it was read, and an element shows its store or waits in the queue of a  *)
(* set().                                                                  *)
THEOREM EffectsInductive == Spec => []IInv
<1>1. Init => IInv
  BY InitIInv, EffectsAssumption
<1>2. IInv /\ [Next]_vars => IInv'
  BY NextIInv, EffectsAssumption
<1> QED BY <1>1, <1>2, PTL DEF Spec

(* Every variable keeps its type; in a set of listeners none is twice.     *)
THEOREM EffectsTypeCorrect == Spec => []TypeOK
<1>1. IInv => TypeOK
  BY DEF IInv, Types, StackOK, Lists, ListOK, TypeOK
<1> QED BY <1>1, EffectsInductive, PTL

(* However runs nest, return and throw, an effect is told of exactly what  *)
(* was read while a run of its own was the innermost one, by its function  *)
(* or by a listener called from it (get and effect in style.cpp).          *)
THEOREM SubscribersSound == Spec => []SubscribedInItsRuns
<1>1. IInv => SubscribedInItsRuns
  BY DEF IInv
<1> QED BY <1>1, EffectsInductive, PTL

(* When no call runs, an element whose store was there before mount shows  *)
(* it, unless an exception has ended the set() that had to tell it.        *)
THEOREM QuietIsShown == Spec => []QuietMeansShown
<1>1. IInv => QuietMeansShown
  <2> SUFFICES ASSUME IInv, stack = <<>>, mounts > 0, NEW b \in Bindings, StoreOf[b] \in early
               PROVE  shown[b] = value[StoreOf[b]] \/ b \in missed
    BY DEF QuietMeansShown
  <2>1. Bound(b)
    BY DEF IInv, Told
  <2>2. ~Pending(stack, b)
    BY DEF Pending
  <2> QED BY <2>1, <2>2 DEF Bound
<1> QED BY <1>1, EffectsInductive, PTL
=============================================================================
