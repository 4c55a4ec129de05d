------------------------------ MODULE SiteProofs ------------------------------
(***************************************************************************)
(* Theorems about Site, for any templates, public files and directories,   *)
(* any wiring of main that keeps what each theorem says, and any number of *)
(* edits, starts and builds.                                               *)
(***************************************************************************)
EXTENDS Site, SequenceLemmas

-----------------------------------------------------------------------------
LEMMA TwoLong ==
  ASSUME NEW S, NEW s \in Seq(S), Len(s) > 1, Len(s) <= 2
  PROVE  Len(s) = 2 /\ s # <<>>
<1> DEFINE n == Len(s)
<1>1. n \in Nat /\ n > 1 /\ n <= 2 /\ (s = <<>> => n = 0)
  OBVIOUS
<1> HIDE DEF n
<1>2. n = 2 /\ n # 0
  BY <1>1
<1> QED BY <1>1, <1>2 DEF n

LEMMA FrontLast ==
  ASSUME NEW S, NEW s \in Seq(S), s # <<>>
  PROVE  /\ Front(s) \in Seq(S) /\ Len(Front(s)) = Len(s) - 1
         /\ \A i \in 1 .. Len(s) - 1 : Front(s)[i] = s[i]
         /\ Last(s) \in S
         /\ Append(Front(s), Last(s)) = s
<1>1. /\ Front(s) \in Seq(S) /\ Len(Front(s)) = Len(s) - 1
      /\ \A i \in 1 .. Len(s) - 1 : Front(s)[i] = s[i]
  <2> DEFINE n == Len(s) - 1
             r == SubSeq(s, 1, n)
  <2>1. n \in Nat
    OBVIOUS
  <2>2. \A i \in 1 .. n : s[i] \in S
    OBVIOUS
  <2> HIDE DEF n
  <2>3. /\ r \in Seq(S) /\ Len(r) = IF 1 <= n THEN n - 1 + 1 ELSE 0
        /\ \A i \in 1 .. n - 1 + 1 : r[i] = s[1 + i - 1]
    BY <2>1, <2>2, SubSeqProperties
  <2> HIDE DEF r
  <2>4. Len(r) = n /\ \A i \in 1 .. n : r[i] = s[i]
    BY <2>1, <2>3
  <2> QED BY <2>3, <2>4 DEF Front, r, n
<1>2. Last(s) \in S
  BY DEF Last
<1> DEFINE f == Front(s)
           l == Last(s)
           t == Append(f, l)
<1>3. l = s[Len(s)]
  BY DEF Last
<1> HIDE DEF f, l
<1>4. /\ t \in Seq(S) /\ Len(t) = Len(s) /\ t[Len(s)] = l
      /\ \A i \in 1 .. Len(s) - 1 : t[i] = f[i]
  BY <1>1, <1>2, AppendProperties DEF f, l
<1> HIDE DEF t
<1>5. \A i \in 1 .. Len(s) : t[i] = s[i]
  <2> TAKE i \in 1 .. Len(s)
  <2>1. i = Len(s) \/ i \in 1 .. Len(s) - 1
    OBVIOUS
  <2> QED BY <1>1, <1>3, <1>4, <2>1 DEF f
<1>6. t = s
  BY <1>4, <1>5, SeqEqual
<1> QED BY <1>1, <1>2, <1>6 DEF t, f, l

LEMMA AppendFront ==
  ASSUME NEW S, NEW s \in Seq(S), NEW x \in S
  PROVE  /\ Append(s, x) \in Seq(S) /\ Append(s, x) # <<>>
         /\ Front(Append(s, x)) = s /\ Last(Append(s, x)) = x
<1> DEFINE t == Append(s, x)
<1>1. /\ t \in Seq(S) /\ Len(t) = Len(s) + 1 /\ t[Len(s) + 1] = x /\ t # <<>>
      /\ \A i \in 1 .. Len(s) : t[i] = s[i]
  BY AppendProperties
<1> HIDE DEF t
<1>2. /\ Front(t) \in Seq(S) /\ Len(Front(t)) = Len(s)
      /\ \A i \in 1 .. Len(s) : Front(t)[i] = s[i]
  BY <1>1, FrontLast
<1>3. Front(t) = s
  BY <1>2, SeqEqual
<1> QED BY <1>1, <1>3 DEF t, Last

(* A path that is under a directory is the directory and the rest.         *)
LEMMA RelativeOf ==
  ASSUME NEW S, NEW base \in Seq(S), NEW path \in Seq(S), IsPrefix(base, path), base # path
  PROVE  /\ Relative(path, base) \in Seq(S) /\ Relative(path, base) # <<>>
         /\ Last(Relative(path, base)) = Last(path)
         /\ base \o Relative(path, base) = path
<1> DEFINE r == Relative(path, base)
           n == Len(base)
<1>1. n \in Nat /\ n <= Len(path) /\ SubSeq(base, 1, n) = SubSeq(path, 1, n) /\ Len(path) \in Nat
  BY DEF IsPrefix
<1>2. \A i \in 1 .. n : base[i] = path[i]
  <2> TAKE i \in 1 .. n
  <2>1. SubSeq(base, 1, n)[i] = base[i]
    OBVIOUS
  <2>2. SubSeq(path, 1, n)[i] = path[i]
    BY <1>1
  <2> QED BY <1>1, <2>1, <2>2
<1>3. n # Len(path)
  BY <1>2, SeqEqual
<1>4. /\ r \in Seq(S) /\ Len(r) = Len(path) - n
      /\ \A i \in 1 .. Len(path) - n : r[i] = path[n + i]
  BY <1>1 DEF Relative
<1> HIDE DEF r, n
<1>5. r # <<>> /\ Last(r) = Last(path)
  BY <1>1, <1>3, <1>4 DEF Last
<1> DEFINE t == base \o r
<1>6. /\ t \in Seq(S) /\ Len(t) = Len(path)
      /\ \A i \in 1 .. Len(path) : t[i] = IF i <= n THEN base[i] ELSE r[i - n]
  <2>1. /\ t \in Seq(S) /\ Len(t) = Len(base) + Len(r)
        /\ \A i \in 1 .. Len(base) + Len(r) :
             t[i] = IF i <= Len(base) THEN base[i] ELSE r[i - Len(base)]
    BY <1>4, ConcatProperties
  <2>2. Len(base) + Len(r) = Len(path) /\ n = Len(base)
    BY <1>1, <1>4 DEF n
  <2> QED BY <2>1, <2>2
<1> HIDE DEF t
<1>7. \A i \in 1 .. Len(path) : t[i] = path[i]
  <2> TAKE i \in 1 .. Len(path)
  <2>1. CASE i <= n
    BY <1>1, <1>2, <1>6, <2>1
  <2>2. CASE i > n
    <3>1. i - n \in 1 .. Len(path) - n /\ n + (i - n) = i /\ ~(i <= n)
      BY <1>1, <2>2
    <3> QED BY <1>4, <1>6, <3>1
  <2> QED BY <1>1, <2>1, <2>2
<1>8. t = path
  BY <1>6, <1>7, SeqEqual
<1> QED BY <1>4, <1>5, <1>8 DEF t, r

(* A name with an extension has two parts or more; a page has html.        *)
LEMMA Extended ==
  ASSUME NEW S, NEW path \in Seq(Seq(S)), path # <<>>
  PROVE  /\ HasExtension(path) => Len(Last(path)) > 1
         /\ IsPage(path) => HasExtension(path) /\ Last(Last(path)) = "html"
<1> DEFINE l == Last(path)
<1>1. l \in Seq(S)
  BY FrontLast
<1> HIDE DEF l
<1>2. Len(l) \in Nat
  BY <1>1
<1>3. ASSUME HasExtension(path) PROVE Len(l) > 1
  <2>1. Len(l) > 2 \/ Len(l) = 2
    BY <1>3, Zenon DEF HasExtension, l
  <2>2. \A n \in Nat : n > 2 \/ n = 2 => n > 1
    OBVIOUS
  <2> QED BY <1>2, <2>1, <2>2, Zenon
<1>4. ASSUME IsPage(path) PROVE HasExtension(path) /\ Last(l) = "html"
  BY <1>4 DEF IsPage, Extension, l
<1> QED BY <1>3, <1>4 DEF l

(* A page whose name has one dot is found again under the name of its      *)
(* template, to which render appends what was trimmed.                     *)
LEMMA TrimmedIsFound ==
  ASSUME NEW S, NEW path \in Seq(Seq(S)), path # <<>>, IsPage(path),
         Len(Last(path)) <= 2
  PROVE  /\ TrimExtension(path) \in Seq(Seq(S)) /\ TrimExtension(path) # <<>>
         /\ WithHtml(TrimExtension(path)) = path
         /\ WithHtml(path) = path
<1> DEFINE l == Last(path)
           stem == Front(l)
           f == Front(path)
           trimmed == Append(f, stem)
<1>1. f \in Seq(Seq(S)) /\ l \in Seq(S) /\ Append(f, l) = path
  BY FrontLast
<1>2. Len(l) = 2 /\ Last(l) = "html" /\ l # <<>> /\ HasExtension(path)
  <2>1. HasExtension(path) /\ Last(l) = "html" /\ Len(l) > 1 /\ Len(l) <= 2
    BY Extended
  <2> HIDE DEF l
  <2>2. Len(l) = 2 /\ l # <<>>
    BY <1>1, <2>1, TwoLong
  <2> QED BY <2>1, <2>2
<1> HIDE DEF l, f
<1>3. stem \in Seq(S) /\ Len(stem) = 1 /\ Append(stem, "html") = l
  <2>1. /\ stem \in Seq(S) /\ Len(stem) = Len(l) - 1
        /\ Append(stem, Last(l)) = l
    BY <1>1, <1>2, FrontLast
  <2> HIDE DEF stem
  <2>2. Len(stem) = 1
    BY <1>2, <2>1
  <2> QED BY <1>2, <2>1, <2>2
<1> HIDE DEF stem
<1>4. trimmed \in Seq(Seq(S)) /\ trimmed # <<>> /\ Front(trimmed) = f /\ Last(trimmed) = stem
  BY <1>1, <1>3, AppendFront
<1>5. TrimExtension(path) = trimmed
  BY <1>2 DEF TrimExtension, f, l, stem
<1> HIDE DEF trimmed
<1>6. ~HasExtension(trimmed)
  <2>1. Len(Last(trimmed)) = 1
    BY <1>3, <1>4
  <2> QED BY <2>1 DEF HasExtension
<1>7. WithHtml(trimmed) = path
  BY <1>1, <1>3, <1>4, <1>6 DEF WithHtml
<1> QED BY <1>2, <1>4, <1>5, <1>7 DEF WithHtml

LEMMA TrimTyped ==
  ASSUME NEW S, NEW path \in Seq(Seq(S)), path # <<>>
  PROVE  TrimExtension(path) \in Seq(Seq(S)) /\ TrimExtension(path) # <<>>
<1> DEFINE l == Last(path)
           f == Front(path)
<1>1. f \in Seq(Seq(S)) /\ l \in Seq(S)
  BY FrontLast
<1>2. CASE HasExtension(path)
  <2>1. Len(l) > 1
    BY <1>2, Extended
  <2> HIDE DEF l, f
  <2>2. l # <<>>
    <3>1. Len(l) \in Nat /\ (l = <<>> => Len(l) = 0)
      BY <1>1
    <3> QED BY <2>1, <3>1
  <2>3. Front(l) \in Seq(S)
    BY <1>1, <2>2, FrontLast
  <2>4. Append(f, Front(l)) \in Seq(Seq(S)) /\ Append(f, Front(l)) # <<>>
    <3> DEFINE x == Front(l)
               names == Seq(S)
    <3>1. f \in Seq(names) /\ x \in names
      BY <1>1, <2>3
    <3> HIDE DEF x, names
    <3>2. Append(f, x) \in Seq(names) /\ Append(f, x) # <<>>
      BY <3>1, AppendFront
    <3> QED BY <3>2 DEF x, names
  <2> QED BY <1>2, <2>4 DEF TrimExtension, l, f
<1>3. CASE ~HasExtension(path)
  BY <1>3 DEF TrimExtension
<1> QED BY <1>2, <1>3

LEMMA RouteTyped ==
  ASSUME NEW S, NEW mount \in Seq(Seq(S)), NEW path \in Seq(Seq(S)), path # <<>>
  PROVE  JoinRoute(mount, path) \in Seq(Seq(S))
<1> DEFINE r == IF Last(path) = <<"index">> THEN Front(path) ELSE path
<1>1. r \in Seq(Seq(S))
  BY FrontLast
<1> HIDE DEF r
<1>2. mount \o r \in Seq(Seq(S))
  BY <1>1, ConcatProperties
<1> QED BY <1>2 DEF JoinRoute, r

LEMMA PrefixMeans ==
  ASSUME NEW S, NEW s \in Seq(S), NEW t \in Seq(S)
  PROVE  IsPrefix(s, t) <=> Len(s) <= Len(t) /\ \A i \in 1 .. Len(s) : s[i] = t[i]
<1> DEFINE n == Len(s)
           a == SubSeq(s, 1, n)
           b == SubSeq(t, 1, n)
<1>1. n \in Nat /\ Len(t) \in Nat
  OBVIOUS
<1>2. a = s
  OBVIOUS
<1>3. CASE n <= Len(t)
  <2> HIDE DEF n
  <2>1. \A i \in 1 .. n : t[i] \in S
    BY <1>1, <1>3
  <2>2. /\ b \in Seq(S) /\ Len(b) = IF 1 <= n THEN n - 1 + 1 ELSE 0
        /\ \A i \in 1 .. n - 1 + 1 : b[i] = t[1 + i - 1]
    BY <1>1, <2>1, SubSeqProperties
  <2> HIDE DEF b
  <2>3. Len(b) = n /\ \A i \in 1 .. n : b[i] = t[i]
    BY <1>1, <2>2
  <2>4. b = s <=> \A i \in 1 .. n : s[i] = b[i]
    BY <2>2, <2>3, SeqEqual DEF n
  <2> QED BY <1>2, <1>3, <2>3, <2>4 DEF IsPrefix, a, b, n
<1>4. CASE ~(n <= Len(t))
  BY <1>4 DEF IsPrefix
<1> QED BY <1>3, <1>4

LEMMA PrefixTrans ==
  ASSUME NEW S, NEW s \in Seq(S), NEW t \in Seq(S), NEW u \in Seq(S),
         IsPrefix(s, t), IsPrefix(t, u)
  PROVE  IsPrefix(s, u)
<1>1. Len(s) <= Len(t) /\ \A i \in 1 .. Len(s) : s[i] = t[i]
  BY PrefixMeans
<1>2. Len(t) <= Len(u) /\ \A i \in 1 .. Len(t) : t[i] = u[i]
  BY PrefixMeans
<1>3. Len(s) \in Nat /\ Len(t) \in Nat /\ Len(u) \in Nat
  OBVIOUS
<1>4. Len(s) <= Len(u) /\ \A i \in 1 .. Len(s) : i \in 1 .. Len(t)
  BY <1>1, <1>2, <1>3
<1> QED BY <1>1, <1>2, <1>4, PrefixMeans

(* What main has still to do is an end of what it does.                    *)
LEMMA TodoStep ==
  ASSUME NEW S, NEW main \in Seq(S), NEW k \in 0 .. Len(main),
         SubSeq(main, k + 1, Len(main)) # <<>>
  PROVE  /\ k + 1 \in 1 .. Len(main)
         /\ Head(SubSeq(main, k + 1, Len(main))) = main[k + 1]
         /\ Tail(SubSeq(main, k + 1, Len(main))) = SubSeq(main, (k + 1) + 1, Len(main))
<1>1. k + 1 \in 1 .. Len(main)
  <2>1. CASE k = Len(main)
    BY <2>1, SubSeqEmpty
  <2>2. CASE k # Len(main)
    BY <2>2
  <2> QED BY <2>1, <2>2
<1>2. \A i \in k + 1 .. Len(main) : main[i] \in S
  OBVIOUS
<1> QED BY <1>1, <1>2, HeadTailOfSubSeq

LEMMA EndIsSuffix ==
  ASSUME NEW S, NEW main \in Seq(S), NEW k \in 0 .. Len(main)
  PROVE  IsSuffix(SubSeq(main, k + 1, Len(main)), main)
<1> DEFINE n == Len(main)
           rest == SubSeq(main, k + 1, n)
           m == n - k
           a == Reverse(rest)
           b == Reverse(main)
<1>1. n \in Nat /\ k \in Nat /\ m \in 0 .. n /\ m \in Nat
  OBVIOUS
<1>2. /\ rest \in Seq(S) /\ Len(rest) = m
      /\ \A i \in 1 .. m : rest[i] = main[k + i]
  OBVIOUS
<1> HIDE DEF rest
<1>3. /\ a \in Seq(S) /\ Len(a) = m
      /\ \A i \in 1 .. m : a[i] = rest[m - i + 1]
  BY <1>1, <1>2 DEF Reverse
<1>4. /\ b \in Seq(S) /\ Len(b) = n
      /\ \A i \in 1 .. n : b[i] = main[n - i + 1]
  BY <1>1 DEF Reverse
<1> HIDE DEF a, b
<1>5. \A i \in 1 .. m : a[i] = b[i]
  <2> TAKE i \in 1 .. m
  <2>1. m - i + 1 \in 1 .. m /\ k + (m - i + 1) = n - i + 1 /\ i \in 1 .. n
    BY <1>1
  <2> QED BY <1>2, <1>3, <1>4, <2>1
<1>6. Len(a) <= Len(b) /\ \A i \in 1 .. Len(a) : a[i] = b[i]
  BY <1>1, <1>3, <1>4, <1>5
<1> QED BY <1>3, <1>4, <1>6, PrefixMeans DEF IsSuffix, a, b, rest

-----------------------------------------------------------------------------
(* main has done k of its calls, and search paths come from no other; a    *)
(* template path it adds first is the first of them.                       *)
Wiring(main, k) ==
  /\ todo = SubSeq(main, k + 1, Len(main))
  /\ \A j \in DOMAIN searchPaths : \E i \in 1 .. k : searchPaths[j] = main[i].dir
  /\ k > 0 /\ main[1].call = "add_template_path" =>
       searchPaths # <<>> /\ searchPaths[1] = main[1].dir

(* What luxweb build makes of the files there are.                         *)
BundleOf(F, P) ==
  [templates |-> {f \in F : IsPage(f)},
   routes |-> EmbeddedHandlers({f \in F : IsPage(f) /\ IsPrefix(PagesDir, f)}),
   assets |-> [f \in DOMAIN P |-> EmbeddedFile(P, f)],
   files |-> F, public |-> P]

PublicOK(P) == DOMAIN P \subseteq Public /\ \A f \in DOMAIN P : P[f] \in Bodies

Built ==
  bundle # NoBundle =>
    /\ bundle.files \subseteq Templates /\ PublicOK(bundle.public)
    /\ bundle = BundleOf(bundle.files, bundle.public)

IInv ==
  /\ files \subseteq Templates /\ PublicOK(public) /\ edits \in 0 .. MaxEdits
  /\ searchPaths \in Seq(Paths)
  /\ \E main \in Mains : \E k \in 0 .. Len(main) : Wiring(main, k)
  /\ routes \subseteq Handlers
  /\ Built

(* A search path is a directory, and what is under it has a name there.    *)
LEMMA NamedUnder ==
  ASSUME SiteAssumption, NEW f \in Templates, NEW dir \in Paths \ Templates, IsPrefix(dir, f)
  PROVE  /\ Relative(f, dir) \in Paths /\ Relative(f, dir) # <<>>
         /\ Last(Relative(f, dir)) = Last(f)
         /\ dir \o Relative(f, dir) = f
         /\ TrimExtension(Relative(f, dir)) \in Paths /\ TrimExtension(Relative(f, dir)) # <<>>
<1>1. f \in Seq(Seq(STRING)) /\ dir \in Seq(Seq(STRING)) /\ dir # f
  BY DEF SiteAssumption, Paths
<1>2. /\ Relative(f, dir) \in Seq(Seq(STRING)) /\ Relative(f, dir) # <<>>
      /\ Last(Relative(f, dir)) = Last(f) /\ dir \o Relative(f, dir) = f
  BY <1>1, RelativeOf
<1>3. /\ TrimExtension(Relative(f, dir)) \in Seq(Seq(STRING))
      /\ TrimExtension(Relative(f, dir)) # <<>>
  BY <1>2, TrimTyped
<1> QED BY <1>2, <1>3 DEF Paths

(* The search paths are directories that main has named.                   *)
LEMMA Directories ==
  ASSUME SiteAssumption, IInv
  PROVE  \A j \in DOMAIN searchPaths : searchPaths[j] \in Paths \ Templates
<1>1. PICK main \in Mains : \E k \in 0 .. Len(main) : Wiring(main, k)
  BY DEF IInv
<1>2. PICK k \in 0 .. Len(main) : Wiring(main, k)
  BY <1>1
<1>3. ASSUME NEW j \in DOMAIN searchPaths PROVE searchPaths[j] \notin Templates
  <2>1. PICK i \in 1 .. k : searchPaths[j] = main[i].dir
    BY <1>2 DEF Wiring
  <2>2. i \in DOMAIN main
    BY DEF SiteAssumption
  <2> QED BY <2>1, <2>2 DEF SiteAssumption
<1>4. \A j \in DOMAIN searchPaths : searchPaths[j] \in Paths
  BY DEF IInv
<1> QED BY <1>3, <1>4

(* main makes its next call.                                               *)
LEMMA NextCall ==
  ASSUME SiteAssumption, NEW main \in Mains, NEW k \in 0 .. Len(main), Wiring(main, k),
         todo # <<>>
  PROVE  /\ k + 1 \in 1 .. Len(main) /\ Head(todo) = main[k + 1] /\ Head(todo) \in Calls
         /\ Tail(todo) = SubSeq(main, (k + 1) + 1, Len(main))
         /\ Head(todo).dir \in Paths \ Templates
<1>1. main \in Seq(Calls) /\ todo = SubSeq(main, k + 1, Len(main))
  BY DEF SiteAssumption, Wiring
<1>2. /\ k + 1 \in 1 .. Len(main) /\ Head(todo) = main[k + 1]
      /\ Tail(todo) = SubSeq(main, (k + 1) + 1, Len(main))
  BY <1>1, TodoStep
<1>3. main[k + 1] \in Calls
  BY <1>1, <1>2
<1>4. main[k + 1].dir \in Paths
  BY <1>3 DEF Calls
<1>5. main[k + 1].dir \notin Templates
  BY <1>1, <1>2 DEF SiteAssumption
<1> QED BY <1>2, <1>3, <1>4, <1>5

(* The search paths when one is added.                                     *)
LEMMA PathAdded ==
  ASSUME searchPaths \in Seq(Paths), NEW dir \in Paths, searchPaths' = Append(searchPaths, dir)
  PROVE  /\ searchPaths' \in Seq(Paths) /\ Len(searchPaths') = Len(searchPaths) + 1
         /\ searchPaths'[Len(searchPaths) + 1] = dir
         /\ \A j \in DOMAIN searchPaths : j \in DOMAIN searchPaths' /\ searchPaths'[j] = searchPaths[j]
         /\ \A j \in DOMAIN searchPaths' : j \in DOMAIN searchPaths \/ j = Len(searchPaths) + 1
         /\ searchPaths' # <<>>
BY AppendProperties

LEMMA WiringStep ==
  ASSUME SiteAssumption, searchPaths \in Seq(Paths), todo # <<>>, todo' = Tail(todo),
         NEW main \in Mains, NEW k \in 0 .. Len(main), Wiring(main, k),
         \/ searchPaths' = Append(searchPaths, Head(todo).dir)
         \/ UNCHANGED searchPaths /\ Head(todo).call = "pages"
  PROVE  Wiring(main, k + 1)' /\ searchPaths' \in Seq(Paths)
<1>1. /\ k + 1 \in 1 .. Len(main) /\ Head(todo) = main[k + 1]
      /\ todo' = SubSeq(main, (k + 1) + 1, Len(main))
      /\ main[k + 1].dir \in Paths
  BY NextCall
<1>2. CASE searchPaths' = Append(searchPaths, Head(todo).dir)
  <2>1. /\ searchPaths' \in Seq(Paths) /\ Len(searchPaths') = Len(searchPaths) + 1
        /\ searchPaths'[Len(searchPaths) + 1] = main[k + 1].dir
        /\ \A j \in DOMAIN searchPaths :
             j \in DOMAIN searchPaths' /\ searchPaths'[j] = searchPaths[j]
        /\ \A j \in DOMAIN searchPaths' : j \in DOMAIN searchPaths \/ j = Len(searchPaths) + 1
        /\ searchPaths' # <<>>
    BY <1>1, <1>2, PathAdded
  <2>2. ASSUME NEW j \in DOMAIN searchPaths'
        PROVE  \E i \in 1 .. k + 1 : searchPaths'[j] = main[i].dir
    <3>1. CASE j = Len(searchPaths) + 1
      BY <2>1, <3>1
    <3>2. CASE j \in DOMAIN searchPaths
      <4>1. PICK i \in 1 .. k : searchPaths[j] = main[i].dir
        BY <3>2 DEF Wiring
      <4>2. i \in 1 .. k + 1
        OBVIOUS
      <4> QED BY <2>1, <3>2, <4>1, <4>2
    <3> QED BY <2>1, <3>1, <3>2
  <2>3. main[1].call = "add_template_path" => searchPaths'[1] = main[1].dir
    <3>1. CASE k = 0
      <4>1. 1 .. k = {}
        BY <3>1
      <4>2. 1 \notin DOMAIN searchPaths
        BY <4>1 DEF Wiring
      <4> DEFINE n == Len(searchPaths)
      <4>3. n \in Nat /\ DOMAIN searchPaths = 1 .. n
        OBVIOUS
      <4> HIDE DEF n
      <4>4. n + 1 = 1
        BY <4>2, <4>3
      <4> QED BY <2>1, <3>1, <4>4 DEF n
    <3>2. CASE k # 0
      <4> HAVE main[1].call = "add_template_path"
      <4>1. searchPaths # <<>> /\ searchPaths[1] = main[1].dir
        BY <3>2 DEF Wiring
      <4>2. 1 \in DOMAIN searchPaths
        BY <4>1
      <4> QED BY <2>1, <4>1, <4>2
    <3> QED BY <3>1, <3>2
  <2> QED BY <1>1, <2>1, <2>2, <2>3 DEF Wiring
<1>3. CASE UNCHANGED searchPaths /\ Head(todo).call = "pages"
  <2>1. \A j \in DOMAIN searchPaths : \E i \in 1 .. k + 1 : searchPaths[j] = main[i].dir
    <3> TAKE j \in DOMAIN searchPaths
    <3>1. PICK i \in 1 .. k : searchPaths[j] = main[i].dir
      BY DEF Wiring
    <3>2. i \in 1 .. k + 1
      OBVIOUS
    <3> QED BY <3>1, <3>2
  <2>2. main[1].call = "add_template_path" => k > 0
    <3>1. k = 0 => main[1].call = "pages"
      BY <1>1, <1>3
    <3> QED BY <3>1
  <2>3. main[1].call = "add_template_path" => searchPaths # <<>> /\ searchPaths[1] = main[1].dir
    BY <2>2 DEF Wiring
  <2> QED BY <1>1, <1>3, <2>1, <2>3 DEF Wiring
<1> QED BY <1>2, <1>3

-----------------------------------------------------------------------------
(* What pages() does to the search paths: there is one over each directory *)
(* in which it has found a page.                                           *)
LEMMA PagesPaths ==
  ASSUME SiteAssumption, IInv, Pages
  PROVE  /\ \/ UNCHANGED searchPaths
            \/ searchPaths' = Append(searchPaths, Head(todo).dir)
               /\ ~Covered(searchPaths, Head(todo).dir)
         /\ \A f \in files : IsPrefix(Head(todo).dir, f) =>
              \E j \in DOMAIN searchPaths' :
                /\ IsPrefix(searchPaths'[j], f)
                /\ searchPaths'[j] \in Paths \ Templates
<1> DEFINE dir == Head(todo).dir
<1>1. todo # <<>> /\ \/ Covered(searchPaths, dir) /\ UNCHANGED searchPaths
                     \/ ~Covered(searchPaths, dir) /\ searchPaths' = Append(searchPaths, dir)
                     \/ ~(\E f \in files : IsPrefix(dir, f)) /\ UNCHANGED searchPaths
  BY DEF Pages
<1>2. dir \in Paths \ Templates
  <2>1. PICK main \in Mains : \E k \in 0 .. Len(main) : Wiring(main, k)
    BY DEF IInv
  <2> QED BY <1>1, <2>1, NextCall
<1> HIDE DEF dir
<1>3. ASSUME NEW f \in files, IsPrefix(dir, f)
      PROVE  \E j \in DOMAIN searchPaths' : IsPrefix(searchPaths'[j], f)
                                            /\ searchPaths'[j] \in Paths \ Templates
  <2>1. f \in Paths
    BY DEF IInv, SiteAssumption
  <2>2. CASE Covered(searchPaths, dir) /\ UNCHANGED searchPaths
    <3>1. PICK j \in DOMAIN searchPaths : IsPrefix(searchPaths[j], dir)
      BY <2>2 DEF Covered
    <3>2. searchPaths[j] \in Paths \ Templates
      BY Directories
    <3>3. IsPrefix(searchPaths[j], f)
      BY <1>2, <1>3, <2>1, <3>1, <3>2, PrefixTrans DEF Paths
    <3> QED BY <2>2, <3>2, <3>3
  <2>3. CASE searchPaths' = Append(searchPaths, dir)
    <3>1. /\ searchPaths' \in Seq(Paths) /\ Len(searchPaths') = Len(searchPaths) + 1
          /\ searchPaths'[Len(searchPaths) + 1] = dir
      BY <1>2, <2>3, PathAdded DEF IInv
    <3>2. Len(searchPaths) + 1 \in DOMAIN searchPaths'
      BY <3>1 DEF IInv
    <3> QED BY <1>2, <1>3, <3>1, <3>2
  <2> QED BY <1>1, <1>3, <2>2, <2>3
<1> QED BY <1>1, <1>3 DEF dir

(* The name of a page's template is its path from a search path over it.   *)
LEMMA NameUnder ==
  ASSUME NEW paths \in Seq(Paths), NEW f, \E j \in DOMAIN paths : IsPrefix(paths[j], f)
  PROVE  \E m \in DOMAIN paths :
           /\ IsPrefix(paths[m], f)
           /\ TemplateName(paths, f) = TrimExtension(Relative(f, paths[m]))
           /\ \A j \in DOMAIN paths : IsPrefix(paths[j], f) => m <= j
<1> DEFINE over == {i \in DOMAIN paths : IsPrefix(paths[i], f)}
<1>1. over \in SUBSET Nat /\ over # {}
  OBVIOUS
<1>2. Min(over) \in over /\ \A y \in over : Min(over) <= y
  BY <1>1, MinIn
<1> QED BY <1>2 DEF TemplateName

LEMMA AddTemplatePathStep ==
  ASSUME SiteAssumption, IInv, AddTemplatePath PROVE IInv'
<1>1. /\ todo # <<>> /\ searchPaths' = Append(searchPaths, Head(todo).dir)
      /\ todo' = Tail(todo) /\ UNCHANGED <<files, public, routes, bundle, edits>>
  BY DEF AddTemplatePath
<1>2. PICK main \in Mains : \E k \in 0 .. Len(main) : Wiring(main, k)
  BY DEF IInv
<1>3. PICK k \in 0 .. Len(main) : Wiring(main, k)
  BY <1>2
<1>4. k + 1 \in 0 .. Len(main)
  BY <1>1, <1>3, NextCall
<1>5. Wiring(main, k + 1)' /\ searchPaths' \in Seq(Paths)
  BY <1>1, <1>3, WiringStep DEF IInv
<1> QED BY <1>1, <1>4, <1>5 DEF IInv, Built, PublicOK

LEMMA PagesStep ==
  ASSUME SiteAssumption, IInv, Pages PROVE IInv'
<1> DEFINE call == Head(todo)
<1>1. /\ todo # <<>> /\ call.call = "pages"
      /\ routes' = routes \cup PageHandlers(files, searchPaths', call.dir, call.mount)
      /\ todo' = Tail(todo) /\ UNCHANGED <<files, public, bundle, edits>>
  BY DEF Pages
<1>2. PICK main \in Mains : \E k \in 0 .. Len(main) : Wiring(main, k)
  BY DEF IInv
<1>3. PICK k \in 0 .. Len(main) : Wiring(main, k)
  BY <1>2
<1>4. k + 1 \in 0 .. Len(main) /\ call \in Calls /\ call.dir \in Paths \ Templates
  BY <1>1, <1>3, NextCall
<1>5. Wiring(main, k + 1)' /\ searchPaths' \in Seq(Paths)
  <2>1. UNCHANGED searchPaths \/ searchPaths' = Append(searchPaths, call.dir)
    BY PagesPaths
  <2> QED BY <1>1, <1>3, <2>1, WiringStep DEF IInv
<1>6. call.mount \in Paths
  BY <1>4 DEF Calls
<1> HIDE DEF call
<1>7. ASSUME NEW h \in PageHandlers(files, searchPaths', call.dir, call.mount)
      PROVE  h \in Handlers
  <2>1. PICK f \in files :
          /\ IsPrefix(call.dir, f)
          /\ h = [route |-> JoinRoute(call.mount, TrimExtension(Relative(f, call.dir))),
                  template |-> TemplateName(searchPaths', f), file |-> f]
    BY DEF PageHandlers
  <2>2. f \in Templates
    BY DEF IInv
  <2>3. JoinRoute(call.mount, TrimExtension(Relative(f, call.dir))) \in Paths
    <3>1. /\ TrimExtension(Relative(f, call.dir)) \in Paths
          /\ TrimExtension(Relative(f, call.dir)) # <<>>
      BY <1>4, <2>1, <2>2, NamedUnder
    <3> QED BY <1>6, <3>1, RouteTyped DEF Paths
  <2>4. TemplateName(searchPaths', f) \in Paths
    <3>1. \E j \in DOMAIN searchPaths' : IsPrefix(searchPaths'[j], f)
      BY <2>1, PagesPaths DEF call
    <3>2. PICK m \in DOMAIN searchPaths' :
            /\ IsPrefix(searchPaths'[m], f)
            /\ TemplateName(searchPaths', f) = TrimExtension(Relative(f, searchPaths'[m]))
      BY <1>5, <3>1, NameUnder
    <3>3. searchPaths'[m] \in Paths \ Templates
      <4>1. PICK i \in 1 .. k + 1 : searchPaths'[m] = main[i].dir
        BY <1>5 DEF Wiring
      <4>2. i \in DOMAIN main
        BY <1>4 DEF SiteAssumption
      <4>3. main[i].dir \notin Templates
        BY <4>2 DEF SiteAssumption
      <4> QED BY <1>5, <4>1, <4>3
    <3> QED BY <2>2, <3>2, <3>3, NamedUnder
  <2> QED BY <2>1, <2>2, <2>3, <2>4 DEF Handlers
<1>8. routes' \subseteq Handlers
  BY <1>1, <1>7 DEF IInv
<1> QED BY <1>1, <1>4, <1>5, <1>8 DEF IInv, Built, PublicOK

LEMMA RestartStep ==
  ASSUME SiteAssumption, IInv, Restart PROVE IInv'
<1>1. /\ todo' \in Mains /\ searchPaths' = <<>> /\ routes' = {}
      /\ UNCHANGED <<files, public, bundle, edits>>
  BY DEF Restart
<1>2. todo' \in Seq(Calls)
  BY <1>1 DEF SiteAssumption
<1>3. todo' = SubSeq(todo', 0 + 1, Len(todo')) /\ 0 \in 0 .. Len(todo')
  BY <1>2
<1>4. searchPaths' \in Seq(Paths) /\ DOMAIN searchPaths' = {}
  BY <1>1
<1>5. \E main \in Mains : \E k \in 0 .. Len(main) : Wiring(main, k)'
  BY <1>1, <1>3, <1>4 DEF Wiring
<1> QED BY <1>1, <1>4, <1>5 DEF IInv, Built, PublicOK

LEMMA OtherStep ==
  ASSUME SiteAssumption, IInv, Build \/ EditTemplate \/ EditPublic \/ UNCHANGED vars
  PROVE  IInv'
<1>1. UNCHANGED <<todo, searchPaths, routes>>
  BY DEF Build, EditTemplate, EditPublic, vars
<1>2. \E main \in Mains : \E k \in 0 .. Len(main) : Wiring(main, k)'
  <2>1. PICK main \in Mains : \E k \in 0 .. Len(main) : Wiring(main, k)
    BY DEF IInv
  <2>2. PICK k \in 0 .. Len(main) : Wiring(main, k)
    BY <2>1
  <2>3. Wiring(main, k)'
    BY <1>1, <2>2 DEF Wiring
  <2> QED BY <2>3
<1>3. CASE Build
  <2>1. bundle' = BundleOf(files, public) /\ UNCHANGED <<files, public, edits>>
    BY <1>3 DEF Build, BundleOf
  <2>2. bundle'.files = files /\ bundle'.public = public
    BY <2>1 DEF BundleOf
  <2>3. Built'
    BY <2>1, <2>2 DEF IInv, Built, PublicOK
  <2> QED BY <1>1, <1>2, <2>1, <2>3 DEF IInv, PublicOK
<1>4. CASE EditTemplate
  <2>1. PICK f \in Templates : files' = SymDiff(files, {f})
    BY <1>4 DEF EditTemplate
  <2>2. files' \subseteq Templates
    BY <2>1 DEF SymDiff, IInv
  <2>3. edits' \in 0 .. MaxEdits
    BY <1>4 DEF EditTemplate, IInv, SiteAssumption
  <2>4. UNCHANGED <<public, bundle>>
    BY <1>4 DEF EditTemplate
  <2> QED BY <1>1, <1>2, <2>2, <2>3, <2>4 DEF IInv, Built, PublicOK
<1>5. CASE EditPublic
  <2>1. PICK f \in Public, F \in SUBSET Public :
          /\ SymDiff(F, DOMAIN public) \subseteq {f}
          /\ \E body \in Bodies : public' = [g \in F |-> IF g = f THEN body ELSE public[g]]
    BY <1>5 DEF EditPublic
  <2>2. PICK body \in Bodies : public' = [g \in F |-> IF g = f THEN body ELSE public[g]]
    BY <2>1
  <2>3. \A g \in F : g = f \/ g \in DOMAIN public
    BY <2>1 DEF SymDiff
  <2>4. PublicOK(public')
    BY <2>2, <2>3 DEF IInv, PublicOK
  <2>5. edits' \in 0 .. MaxEdits
    BY <1>5 DEF EditPublic, IInv, SiteAssumption
  <2>6. UNCHANGED <<files, bundle>>
    BY <1>5 DEF EditPublic
  <2> QED BY <1>1, <1>2, <2>4, <2>5, <2>6 DEF IInv, Built, PublicOK
<1>6. CASE UNCHANGED vars
  BY <1>2, <1>6 DEF vars, IInv, Built, PublicOK
<1> QED BY <1>3, <1>4, <1>5, <1>6

LEMMA InitIInv ==
  ASSUME SiteAssumption, Init PROVE IInv
<1>1. todo \in Mains /\ searchPaths = <<>> /\ routes = {} /\ bundle = NoBundle
  BY DEF Init
<1>2. todo \in Seq(Calls)
  BY <1>1 DEF SiteAssumption
<1>3. todo = SubSeq(todo, 0 + 1, Len(todo)) /\ 0 \in 0 .. Len(todo)
  BY <1>2
<1>4. searchPaths \in Seq(Paths) /\ DOMAIN searchPaths = {}
  BY <1>1
<1>5. \E main \in Mains : \E k \in 0 .. Len(main) : Wiring(main, k)
  BY <1>1, <1>3, <1>4 DEF Wiring
<1>6. PublicOK(public) /\ files \subseteq Templates /\ edits \in 0 .. MaxEdits
  BY DEF Init, PublicOK, SiteAssumption
<1> QED BY <1>1, <1>4, <1>5, <1>6 DEF IInv, Built

LEMMA NextIInv ==
  ASSUME SiteAssumption, IInv, [Next]_vars PROVE IInv'
BY AddTemplatePathStep, PagesStep, RestartStep, OtherStep DEF Next

THEOREM SiteInductive == Spec => []IInv
<1>1. Init => IInv
  BY InitIInv, SiteAssumption
<1>2. IInv /\ [Next]_vars => IInv'
  BY NextIInv, SiteAssumption
<1> QED BY <1>1, <1>2, PTL DEF Spec

-----------------------------------------------------------------------------
(* A path that main adds is under none it has added, and pages() adds one  *)
(* only where there is none over it.                                       *)
Antichain ==
  \A j \in DOMAIN searchPaths : \A i \in 1 .. j - 1 : ~IsPrefix(searchPaths[i], searchPaths[j])

LEMMA AntichainAdded ==
  ASSUME searchPaths \in Seq(Paths), Antichain, NEW dir \in Paths,
         searchPaths' = Append(searchPaths, dir), ~Covered(searchPaths, dir)
  PROVE  Antichain'
<1> DEFINE n == Len(searchPaths)
<1>1. /\ searchPaths' \in Seq(Paths) /\ searchPaths'[n + 1] = dir
      /\ \A j \in DOMAIN searchPaths : searchPaths'[j] = searchPaths[j]
      /\ \A j \in DOMAIN searchPaths' : j \in DOMAIN searchPaths \/ j = n + 1
  BY PathAdded
<1>2. n \in Nat /\ DOMAIN searchPaths = 1 .. n
  OBVIOUS
<1> HIDE DEF n
<1>3. ASSUME NEW j \in DOMAIN searchPaths', NEW i \in 1 .. j - 1
      PROVE  ~IsPrefix(searchPaths'[i], searchPaths'[j])
  <2>1. CASE j \in DOMAIN searchPaths
    <3>1. i \in DOMAIN searchPaths
      BY <1>2, <2>1
    <3> QED BY <1>1, <2>1, <3>1 DEF Antichain
  <2>2. CASE j = n + 1
    <3>1. i \in DOMAIN searchPaths
      BY <1>2, <2>2
    <3> QED BY <1>1, <2>2, <3>1 DEF Covered
  <2> QED BY <1>1, <2>1, <2>2
<1> QED BY <1>3 DEF Antichain

LEMMA AntichainStep ==
  ASSUME SiteAssumption, \A main \in Mains : Spread(main), IInv, Antichain, [Next]_vars
  PROVE  Antichain'
<1>1. searchPaths \in Seq(Paths)
  BY DEF IInv
<1>2. CASE UNCHANGED searchPaths
  BY <1>2 DEF Antichain
<1>3. CASE AddTemplatePath
  <2>1. /\ todo # <<>> /\ Head(todo).call = "add_template_path"
        /\ searchPaths' = Append(searchPaths, Head(todo).dir)
    BY <1>3 DEF AddTemplatePath
  <2>2. PICK main \in Mains : \E k \in 0 .. Len(main) : Wiring(main, k)
    BY DEF IInv
  <2>3. PICK k \in 0 .. Len(main) : Wiring(main, k)
    BY <2>2
  <2>4. k + 1 \in 1 .. Len(main) /\ Head(todo) = main[k + 1] /\ Head(todo).dir \in Paths
    BY <2>1, <2>3, NextCall
  <2>5. ASSUME NEW j \in DOMAIN searchPaths PROVE ~IsPrefix(searchPaths[j], Head(todo).dir)
    <3>1. PICK i \in 1 .. k : searchPaths[j] = main[i].dir
      BY <2>3 DEF Wiring
    <3>2. k + 1 \in DOMAIN main /\ i \in 1 .. (k + 1) - 1
      BY <2>4 DEF SiteAssumption
    <3>3. ~IsPrefix(main[i].dir, main[k + 1].dir)
      BY <2>1, <2>4, <3>2 DEF Spread
    <3> QED BY <2>4, <3>1, <3>3
  <2>6. ~Covered(searchPaths, Head(todo).dir)
    BY <2>5 DEF Covered
  <2> QED BY <1>1, <2>1, <2>4, <2>6, AntichainAdded
<1>4. CASE Pages
  <2>1. Head(todo).dir \in Paths
    <3>1. todo # <<>>
      BY <1>4 DEF Pages
    <3>2. PICK main \in Mains : \E k \in 0 .. Len(main) : Wiring(main, k)
      BY DEF IInv
    <3> QED BY <3>1, <3>2, NextCall
  <2> QED BY <1>1, <1>2, <1>4, <2>1, PagesPaths, AntichainAdded
<1>5. CASE Restart
  <2>1. searchPaths' = <<>>
    BY <1>5 DEF Restart
  <2>2. DOMAIN searchPaths' = {}
    BY <2>1
  <2> QED BY <2>2 DEF Antichain
<1> QED BY <1>2, <1>3, <1>4, <1>5 DEF Next, Build, EditTemplate, EditPublic, vars

(* Types, for any project whose main adds no template path under one it    *)
(* has: no search path is under an earlier one, so that a page has its     *)
(* name from one of them.                                                  *)
THEOREM SiteTypeCorrect ==
  ASSUME \A main \in Mains : Spread(main) PROVE Spec => []TypeOK
<1>1. Init => Antichain
  <2> SUFFICES ASSUME Init PROVE Antichain
    OBVIOUS
  <2>1. searchPaths = <<>>
    BY DEF Init
  <2>2. DOMAIN searchPaths = {}
    BY <2>1
  <2> QED BY <2>2 DEF Antichain
<1>2. IInv /\ Antichain /\ [Next]_vars => Antichain'
  BY AntichainStep, SiteAssumption
<1>3. IInv /\ Antichain => TypeOK
  <2> SUFFICES ASSUME IInv, Antichain PROVE TypeOK
    OBVIOUS
  <2>1. \E main \in Mains : IsSuffix(todo, main)
    <3>1. PICK main \in Mains : \E k \in 0 .. Len(main) : Wiring(main, k)
      BY DEF IInv
    <3>2. PICK k \in 0 .. Len(main) : Wiring(main, k)
      BY <3>1
    <3>3. main \in Seq(Calls) /\ todo = SubSeq(main, k + 1, Len(main))
      BY <3>2, SiteAssumption DEF SiteAssumption, Wiring
    <3> QED BY <3>3, EndIsSuffix
  <2>2. bundle = NoBundle \/ bundle.templates \cup bundle.files \subseteq Templates
    <3> SUFFICES ASSUME bundle # NoBundle
                 PROVE  bundle.templates \subseteq Templates /\ bundle.files \subseteq Templates
      OBVIOUS
    <3>1. bundle.files \subseteq Templates /\ bundle = BundleOf(bundle.files, bundle.public)
      BY DEF IInv, Built
    <3>2. BundleOf(bundle.files, bundle.public).templates \subseteq bundle.files
      BY DEF BundleOf
    <3> QED BY <3>1, <3>2
  <2> QED BY <2>1, <2>2 DEF IInv, Antichain, PublicOK, TypeOK
<1> QED BY <1>1, <1>2, <1>3, SiteInductive, PTL DEF Spec

-----------------------------------------------------------------------------
(* A handler keeps the name of its page under the first search path.       *)
Served(h) ==
  /\ searchPaths # <<>> /\ searchPaths[1] \in Paths \ Templates
  /\ IsPrefix(searchPaths[1], h.file) /\ IsPage(h.file)
  /\ h.template = TrimExtension(Relative(h.file, searchPaths[1]))

AllServed == \A h \in routes : Served(h)

(* The first search path stays the first.                                  *)
LEMMA FirstStays ==
  ASSUME searchPaths \in Seq(Paths), NEW dir \in Paths,
         UNCHANGED searchPaths \/ searchPaths' = Append(searchPaths, dir),
         NEW h, Served(h)
  PROVE  Served(h)'
<1>1. CASE UNCHANGED searchPaths
  BY <1>1 DEF Served
<1>2. CASE searchPaths' = Append(searchPaths, dir)
  <2>1. searchPaths # <<>>
    BY DEF Served
  <2>2. 1 \in DOMAIN searchPaths
    BY <2>1
  <2>3. searchPaths' # <<>> /\ searchPaths'[1] = searchPaths[1]
    BY <1>2, <2>2, PathAdded
  <2> QED BY <2>3 DEF Served
<1> QED BY <1>1, <1>2

LEMMA ServedStep ==
  ASSUME SiteAssumption, \A main \in Mains : OneRoot(main), IInv, AllServed, [Next]_vars
  PROVE  AllServed'
<1>1. searchPaths \in Seq(Paths)
  BY DEF IInv
<1>2. CASE UNCHANGED <<searchPaths, routes>>
  BY <1>2 DEF AllServed, Served
<1>3. CASE AddTemplatePath
  <2>1. /\ todo # <<>> /\ searchPaths' = Append(searchPaths, Head(todo).dir)
        /\ routes' = routes
    BY <1>3 DEF AddTemplatePath
  <2>2. Head(todo).dir \in Paths
    <3>1. PICK main \in Mains : \E k \in 0 .. Len(main) : Wiring(main, k)
      BY DEF IInv
    <3> QED BY <2>1, <3>1, NextCall
  <2>3. \A h \in routes : Served(h)'
    BY <1>1, <2>1, <2>2, FirstStays DEF AllServed
  <2> QED BY <2>1, <2>3 DEF AllServed
<1>4. CASE Pages
  <2> DEFINE call == Head(todo)
  <2>1. /\ todo # <<>> /\ call.call = "pages" /\ todo' = Tail(todo)
        /\ routes' = routes \cup PageHandlers(files, searchPaths', call.dir, call.mount)
    BY <1>4 DEF Pages
  <2>2. PICK main \in Mains : \E k \in 0 .. Len(main) : Wiring(main, k)
    BY DEF IInv
  <2>3. PICK k \in 0 .. Len(main) : Wiring(main, k)
    BY <2>2
  <2>4. /\ k + 1 \in 1 .. Len(main) /\ call = main[k + 1] /\ call.dir \in Paths \ Templates
        /\ main \in Seq(Calls)
    BY <2>1, <2>3, NextCall DEF SiteAssumption
  <2>5. UNCHANGED searchPaths \/ searchPaths' = Append(searchPaths, call.dir)
    BY <1>4, PagesPaths
  <2>6. Wiring(main, k + 1)' /\ searchPaths' \in Seq(Paths)
    BY <1>1, <2>1, <2>3, <2>5, WiringStep
  <2>7. \A h \in routes : Served(h)'
    BY <1>1, <2>4, <2>5, FirstStays DEF AllServed
  <2> HIDE DEF call
  <2>8. ASSUME NEW h \in PageHandlers(files, searchPaths', call.dir, call.mount)
        PROVE  Served(h)'
    <3>1. PICK f \in files :
            /\ IsPrefix(call.dir, f) /\ IsPage(f)
            /\ h.file = f /\ h.template = TemplateName(searchPaths', f)
      BY DEF PageHandlers
    <3>2. f \in Templates /\ f \in Paths
      BY DEF IInv, SiteAssumption
    <3>3. \E j \in DOMAIN searchPaths' : IsPrefix(searchPaths'[j], f)
      BY <1>4, <3>1, PagesPaths DEF call
    <3>4. searchPaths' # <<>> /\ 1 \in DOMAIN searchPaths'
      BY <2>6, <3>3
    <3>5. PICK i \in 1 .. k + 1 : searchPaths'[1] = main[i].dir
      BY <2>6, <3>4 DEF Wiring
    <3>6. searchPaths'[1] \in Paths \ Templates
      <4>1. i \in DOMAIN main
        BY <2>4
      <4> QED BY <2>6, <3>4, <3>5, <4>1 DEF SiteAssumption
    <3>7. IsPrefix(searchPaths'[1], f)
      <4>1. CASE k = 0
        <5>1. i = 1 /\ k + 1 = 1
          BY <4>1
        <5> QED BY <2>4, <3>1, <3>5, <5>1
      <4>2. CASE k # 0
        <5>1. k + 1 # 1 /\ k + 1 \in DOMAIN main /\ k + 1 > 0
          BY <2>4, <4>2
        <5>2. main[1].call = "add_template_path" /\ IsPrefix(main[1].dir, main[k + 1].dir)
          BY <2>1, <2>4, <5>1 DEF OneRoot
        <5>3. searchPaths'[1] = main[1].dir
          BY <2>6, <5>1, <5>2 DEF Wiring
        <5>4. IsPrefix(searchPaths'[1], call.dir)
          BY <2>4, <5>2, <5>3
        <5> QED BY <2>4, <3>1, <3>2, <3>6, <5>4, PrefixTrans DEF Paths
      <4> QED BY <4>1, <4>2
    <3>8. TemplateName(searchPaths', f) = TrimExtension(Relative(f, searchPaths'[1]))
      <4>1. PICK m \in DOMAIN searchPaths' :
              /\ TemplateName(searchPaths', f) = TrimExtension(Relative(f, searchPaths'[m]))
              /\ \A j \in DOMAIN searchPaths' : IsPrefix(searchPaths'[j], f) => m <= j
        BY <2>6, <3>3, NameUnder
      <4>2. m <= 1
        BY <3>4, <3>7, <4>1
      <4>3. m = 1
        BY <2>6, <4>2
      <4> QED BY <4>1, <4>3
    <3> QED BY <3>1, <3>4, <3>6, <3>7, <3>8 DEF Served
  <2> QED BY <2>1, <2>7, <2>8 DEF AllServed
<1>5. CASE Restart
  BY <1>5 DEF Restart, AllServed
<1> QED BY <1>2, <1>3, <1>4, <1>5 DEF Next, Build, EditTemplate, EditPublic, vars

(* Where main has one call of pages(), or a template path over all its     *)
(* directories of pages from the first, and no name has two dots: a page   *)
(* that is there is what its route shows, whatever else was created,       *)
(* deleted or added (App::pages, TemplateEngine::render).                  *)
THEOREM PagesAreThemselves ==
  ASSUME OneDot, \A main \in Mains : OneRoot(main) PROVE Spec => []PageIsItself
<1>1. Init => AllServed
  BY DEF Init, AllServed
<1>2. IInv /\ AllServed /\ [Next]_vars => AllServed'
  BY ServedStep, SiteAssumption
<1>3. IInv /\ AllServed => PageIsItself
  <2> SUFFICES ASSUME IInv, AllServed, NEW h \in routes, h.file \in files
               PROVE  Render(files, searchPaths, h.template) = ShowFile(files, h.file)
    BY DEF PageIsItself
  <2> DEFINE f == h.file
             base == searchPaths[1]
             rest == Relative(f, base)
             found == {i \in DOMAIN searchPaths : searchPaths[i] \o WithHtml(h.template) \in files}
  <2>1. f \in Templates /\ searchPaths \in Seq(Paths)
    BY DEF IInv
  <2>2. /\ searchPaths # <<>> /\ base \in Paths \ Templates
        /\ IsPrefix(base, f) /\ IsPage(f) /\ h.template = TrimExtension(rest)
    BY DEF AllServed, Served
  <2>3. rest \in Paths /\ rest # <<>> /\ Last(rest) = Last(f) /\ base \o rest = f
    BY <2>1, <2>2, NamedUnder, SiteAssumption
  <2>4. IsPage(rest) /\ Len(Last(rest)) <= 2
    BY <2>1, <2>2, <2>3 DEF IsPage, HasExtension, Extension, OneDot
  <2> HIDE DEF f, base, rest
  <2>5. WithHtml(h.template) = rest
    BY <2>2, <2>3, <2>4, TrimmedIsFound DEF Paths
  <2>6. base \o WithHtml(h.template) = f
    BY <2>3, <2>5
  <2>7. 1 \in DOMAIN searchPaths /\ DOMAIN searchPaths \in SUBSET (Nat \ {0})
    BY <2>1, <2>2
  <2>8. 1 \in found /\ found \in SUBSET Nat /\ \A y \in found : 1 <= y
    <3>1. searchPaths[1] \o WithHtml(h.template) \in files
      BY <2>6 DEF f, base
    <3>2. 1 \in found /\ found \in SUBSET (Nat \ {0})
      BY <2>7, <3>1
    <3> QED BY <3>2
  <2> HIDE DEF found
  <2>9. Min(found) = 1 /\ found # {}
    BY <2>8, MinLeast
  <2> QED BY <2>6, <2>9 DEF Render, found, f, base
<1> QED BY <1>1, <1>2, <1>3, SiteInductive, PTL DEF Spec

-----------------------------------------------------------------------------
(* The route of an embedded page leaves out pages/ as that of pages() does. *)
LEMMA TrimTail ==
  ASSUME NEW S, NEW path \in Seq(Seq(S)), Len(path) >= 2
  PROVE  /\ TrimExtension(path)[1] = path[1]
         /\ Tail(TrimExtension(path)) = TrimExtension(Tail(path))
<1> DEFINE n == Len(path)
           l == Last(path)
           x == IF HasExtension(path) THEN Front(l) ELSE l
           rest == Tail(path)
           a == TrimExtension(path)
           b == TrimExtension(rest)
<1>1. n \in Nat /\ n >= 2 /\ path # <<>>
  OBVIOUS
<1>2. /\ l \in Seq(S) /\ Append(Front(path), l) = path
      /\ Front(path) \in Seq(Seq(S)) /\ Len(Front(path)) = n - 1
      /\ \A i \in 1 .. n - 1 : Front(path)[i] = path[i]
  BY <1>1, FrontLast
<1>3. /\ rest \in Seq(Seq(S)) /\ Len(rest) = n - 1
      /\ \A i \in 1 .. n - 1 : rest[i] = path[i + 1]
  BY <1>1, HeadTailProperties
<1> HIDE DEF n
<1>4. Last(rest) = l
  BY <1>1, <1>3 DEF Last, n
<1> HIDE DEF rest
<1>5. rest # <<>>
  <2>1. 1 \in DOMAIN rest
    BY <1>1, <1>3
  <2> QED BY <2>1
<1>6. /\ Append(Front(rest), l) = rest /\ Front(rest) \in Seq(Seq(S))
      /\ Len(Front(rest)) = n - 1 - 1
      /\ \A i \in 1 .. n - 1 - 1 : Front(rest)[i] = rest[i]
  BY <1>3, <1>4, <1>5, FrontLast
<1>7. a = Append(Front(path), x) /\ b = Append(Front(rest), x)
  BY <1>2, <1>4, <1>6 DEF TrimExtension, HasExtension
<1>8. x \in Seq(S)
  <2>1. CASE HasExtension(path)
    <3>1. Len(l) > 1
      BY <1>1, <2>1, Extended
    <3> HIDE DEF l
    <3>2. l # <<>>
      <4>1. Len(l) \in Nat /\ (l = <<>> => Len(l) = 0)
        BY <1>2
      <4> QED BY <3>1, <4>1
    <3>3. Front(l) \in Seq(S)
      BY <1>2, <3>2, FrontLast
    <3> QED BY <2>1, <3>3
  <2>2. CASE ~HasExtension(path)
    BY <1>2, <2>2
  <2> QED BY <2>1, <2>2
<1> HIDE DEF a, b, x, l
<1>9. /\ a \in Seq(Seq(S)) /\ Len(a) = n /\ a[n] = x
      /\ \A i \in 1 .. n - 1 : a[i] = path[i]
  <2>1. /\ a \in Seq(Seq(S)) /\ Len(a) = n - 1 + 1 /\ a[n - 1 + 1] = x
        /\ \A i \in 1 .. n - 1 : a[i] = Front(path)[i]
    BY <1>2, <1>7, <1>8, AppendProperties
  <2> QED BY <1>1, <1>2, <2>1
<1>10. /\ b \in Seq(Seq(S)) /\ Len(b) = n - 1 /\ b[n - 1] = x
       /\ \A i \in 1 .. n - 2 : b[i] = path[i + 1]
  <2>1. /\ b \in Seq(Seq(S)) /\ Len(b) = n - 1 - 1 + 1 /\ b[n - 1 - 1 + 1] = x
        /\ \A i \in 1 .. n - 1 - 1 : b[i] = Front(rest)[i]
    BY <1>6, <1>7, <1>8, AppendProperties
  <2>2. n - 1 - 1 + 1 = n - 1 /\ n - 1 - 1 = n - 2 /\ \A i \in 1 .. n - 2 : i \in 1 .. n - 1
    BY <1>1
  <2> QED BY <1>3, <1>6, <2>1, <2>2
<1>11. a # <<>>
  <2>1. 1 \in DOMAIN a
    BY <1>1, <1>9
  <2> QED BY <2>1
<1>12. /\ Tail(a) \in Seq(Seq(S)) /\ Len(Tail(a)) = n - 1
       /\ \A i \in 1 .. n - 1 : Tail(a)[i] = a[i + 1]
  BY <1>9, <1>11, HeadTailProperties
<1>13. \A i \in 1 .. n - 1 : Tail(a)[i] = b[i]
  <2> TAKE i \in 1 .. n - 1
  <2>1. CASE i = n - 1
    <3>1. i + 1 = n
      BY <1>1, <2>1
    <3> QED BY <1>9, <1>10, <1>12, <2>1, <3>1
  <2>2. CASE i # n - 1
    <3>1. i \in 1 .. n - 2 /\ i + 1 \in 1 .. n - 1
      BY <1>1, <2>2
    <3> QED BY <1>9, <1>10, <1>12, <3>1
  <2> QED BY <2>1, <2>2
<1>14. Tail(a) = b
  BY <1>10, <1>12, <1>13, SeqEqual
<1>15. a[1] = path[1]
  BY <1>1, <1>9
<1> QED BY <1>14, <1>15 DEF a, b, rest

(* The provers do not know that a literal is a string.                     *)
Parts == STRING \cup {"pages", ".."}

LEMMA WithLiterals ==
  /\ Paths \subseteq Seq(Seq(Parts))
  /\ PagesDir \in Seq(Seq(Parts)) /\ Len(PagesDir) = 1 /\ PagesDir[1] = <<"pages">>
  /\ Up \in Seq(Parts)
<1>1. Paths \subseteq Seq(Seq(Parts))
  <2>1. STRING \subseteq Parts
    BY DEF Parts
  <2>2. Seq(STRING) \subseteq Seq(Parts)
    BY <2>1, SeqMonotonic
  <2> QED BY <2>2, SeqMonotonic DEF Paths
<1>2. "pages" \in Parts /\ ".." \in Parts
  BY DEF Parts
<1>3. <<"pages">> \in Seq(Parts) /\ Up \in Seq(Parts)
  BY <1>2 DEF Up
<1> DEFINE name == <<"pages">>
<1> HIDE DEF name
<1>4. <<name>> \in Seq(Seq(Parts)) /\ Len(<<name>>) = 1 /\ <<name>>[1] = name
  BY <1>3 DEF name
<1>5. PagesDir = <<name>>
  BY DEF PagesDir, name
<1> QED BY <1>1, <1>3, <1>4, <1>5 DEF name

(* The route a page has in the bundle is the one pages("pages") gives it,  *)
(* and render finds it from templates/ on.                                 *)
LEMMA BundledRoute ==
  ASSUME SiteAssumption, OneDot, NEW f \in Templates, IsPage(f), IsPrefix(PagesDir, f)
  PROVE  /\ JoinRoute(<<>>, TrimExtension(Relative(f, PagesDir)))
              = JoinRoute(<<>>, IF TrimExtension(f)[1] = PagesDir[1] THEN Tail(TrimExtension(f))
                                                                     ELSE TrimExtension(f))
         /\ TemplateName(<<<<>>>>, f) = TrimExtension(f)
         /\ WithHtml(TrimExtension(f)) = f /\ WithHtml(f) = f
<1> DEFINE n == Len(f)
<1>1. f \in Seq(Seq(Parts)) /\ f # <<>> /\ n \in Nat /\ Len(Last(f)) <= 2
  <2>1. f \in Seq(Seq(Parts))
    BY WithLiterals DEF SiteAssumption
  <2> QED BY <2>1 DEF SiteAssumption, OneDot
<1>2. WithHtml(TrimExtension(f)) = f /\ WithHtml(f) = f
  BY <1>1, TrimmedIsFound
<1>3. PagesDir \in Seq(Seq(Parts)) /\ Len(PagesDir) = 1 /\ PagesDir[1] = <<"pages">>
  BY WithLiterals
<1> HIDE DEF n
<1>4. 1 <= n /\ f[1] = PagesDir[1]
  <2>1. Len(PagesDir) <= n /\ \A i \in 1 .. Len(PagesDir) : PagesDir[i] = f[i]
    <3> DEFINE names == Seq(Parts)
               dir == PagesDir
    <3>1. f \in Seq(names) /\ dir \in Seq(names) /\ IsPrefix(dir, f)
      BY <1>1, <1>3
    <3> HIDE DEF names, dir
    <3>2. Len(dir) <= Len(f) /\ \A i \in 1 .. Len(dir) : dir[i] = f[i]
      BY <3>1, PrefixMeans
    <3> QED BY <3>2 DEF dir, n
  <2> QED BY <1>3, <2>1
<1>5. n # 1
  <2> SUFFICES ASSUME n = 1 PROVE FALSE
    OBVIOUS
  <2>1. Last(f) = <<"pages">>
    BY <1>3, <1>4 DEF Last, n
  <2>2. Len(<<"pages">>) = 1 /\ Len(Last(f)) > 1
    BY <1>1, Extended
  <2> QED BY <2>1, <2>2
<1>6. Relative(f, PagesDir) = Tail(f)
  <2>1. Relative(f, PagesDir) = SubSeq(f, 2, Len(f))
    BY <1>3 DEF Relative
  <2>2. Tail(f) = SubSeq(f, 2, Len(f))
    BY <1>1, TailIsSubSeq
  <2> QED BY <2>1, <2>2
<1>7. TrimExtension(f)[1] = PagesDir[1] /\ Tail(TrimExtension(f)) = TrimExtension(Tail(f))
  <2>1. n >= 2
    BY <1>1, <1>4, <1>5
  <2> QED BY <1>1, <1>4, <2>1, TrimTail DEF n
<1>8. TemplateName(<<<<>>>>, f) = TrimExtension(f)
  <2> DEFINE paths == <<<<>>>>
  <2>1. DOMAIN paths = {1} /\ paths[1] = <<>>
    OBVIOUS
  <2>2. IsPrefix(<<>>, f)
    <3>1. <<>> \in Seq(Seq(Parts)) /\ Len(<<>>) = 0
      OBVIOUS
    <3>2. Len(<<>>) <= Len(f) /\ \A i \in 1 .. Len(<<>>) : <<>>[i] = f[i]
      BY <1>1, <3>1
    <3> QED BY <1>1, <3>1, <3>2, PrefixMeans
  <2>3. Relative(f, <<>>) = f
    <3>1. Relative(f, <<>>) = SubSeq(f, 1, Len(f))
      BY DEF Relative
    <3> QED BY <1>1, <3>1, SubSeqFull
  <2> HIDE DEF paths
  <2>4. {i \in DOMAIN paths : IsPrefix(paths[i], f)} = {1}
    BY <2>1, <2>2
  <2>5. Min({1}) = 1
    BY MinLeast
  <2>6. TemplateName(paths, f) = TrimExtension(Relative(f, paths[1]))
    BY <2>4, <2>5 DEF TemplateName
  <2> QED BY <2>1, <2>3, <2>6 DEF paths
<1> QED BY <1>2, <1>6, <1>7, <1>8

(* Climbing out of n directories, and going down a path from there.        *)
LEMMA Climbed ==
  ASSUME NEW n \in Nat, NEW base \in Seq(Seq(Parts)), base # <<>>, base[1] # Up
  PROVE  LET ups == [i \in 1 .. n |-> Up]
             path == ups \o base
         IN  /\ path \in Seq(Seq(Parts)) /\ path # <<>> /\ Last(path) = Last(base)
             /\ Ups(path) = n /\ Relative(path, ups) = base
             /\ SubSeq(path, n + 1, Len(path)) = base
             /\ IF n = 0 THEN path = base ELSE path[1] = Up
<1> DEFINE ups == [i \in 1 .. n |-> Up]
           path == ups \o base
           m == Len(base)
<1>1. Up \in Seq(Parts)
  BY WithLiterals
<1>2. ups \in Seq(Seq(Parts)) /\ Len(ups) = n /\ \A i \in 1 .. n : ups[i] = Up
  BY <1>1
<1>3. m \in Nat /\ m # 0
  OBVIOUS
<1> HIDE DEF ups, m
<1>4. /\ path \in Seq(Seq(Parts)) /\ Len(path) = n + m
      /\ \A i \in 1 .. n + m : path[i] = IF i <= n THEN ups[i] ELSE base[i - n]
  <2>1. /\ path \in Seq(Seq(Parts)) /\ Len(path) = Len(ups) + Len(base)
        /\ \A i \in 1 .. Len(ups) + Len(base) :
             path[i] = IF i <= Len(ups) THEN ups[i] ELSE base[i - Len(ups)]
    BY <1>2, ConcatProperties
  <2> QED BY <1>2, <2>1 DEF m
<1> HIDE DEF path
<1>5. /\ \A i \in 1 .. n : path[i] = Up
      /\ \A i \in 1 .. m : path[n + i] = base[i]
  <2>1. \A i \in 1 .. m : n + i \in 1 .. n + m /\ ~(n + i <= n) /\ (n + i) - n = i
    BY <1>3
  <2> QED BY <1>2, <1>3, <1>4, <2>1
<1>6. path # <<>>
  <2>1. 1 \in DOMAIN path
    BY <1>3, <1>4
  <2> QED BY <2>1
<1>7. Last(path) = Last(base)
  <2>1. m \in 1 .. m
    BY <1>3
  <2> QED BY <1>4, <1>5, <2>1 DEF Last, m
<1>8. Ups(path) = n
  <2> DEFINE T == {k \in 0 .. Len(path) : \A i \in 1 .. k : path[i] = Up}
  <2>1. n \in T
    BY <1>3, <1>4, <1>5
  <2>2. ASSUME NEW k \in T PROVE k <= n
    <3>1. path[n + 1] # Up
      <4>1. 1 \in 1 .. m
        BY <1>3
      <4> QED BY <1>5, <4>1
    <3>2. k \in Nat /\ n + 1 \notin 1 .. k
      BY <1>4, <3>1
    <3> QED BY <3>2
  <2>3. T \in SUBSET Nat
    OBVIOUS
  <2> HIDE DEF T
  <2>4. Max(T) = n
    BY <2>1, <2>2, <2>3, MaxGreatest
  <2> QED BY <2>4 DEF Ups, T
<1>9. SubSeq(path, n + 1, Len(path)) = base
  <2> DEFINE rest == SubSeq(path, n + 1, n + m)
  <2>1. \A i \in n + 1 .. n + m : path[i] \in Seq(Parts)
    BY <1>3, <1>4
  <2>2. /\ rest \in Seq(Seq(Parts))
        /\ Len(rest) = IF n + 1 <= n + m THEN (n + m) - (n + 1) + 1 ELSE 0
        /\ \A i \in 1 .. (n + m) - (n + 1) + 1 : rest[i] = path[n + 1 + i - 1]
    BY <1>3, <2>1, SubSeqProperties
  <2> HIDE DEF rest
  <2>3. Len(rest) = m /\ \A i \in 1 .. m : rest[i] = base[i]
    <3>1. (n + m) - (n + 1) + 1 = m /\ n + 1 <= n + m /\ \A i \in 1 .. m : n + 1 + i - 1 = n + i
      BY <1>3
    <3> QED BY <1>5, <2>2, <3>1
  <2>4. rest = base
    BY <2>2, <2>3, SeqEqual DEF m
  <2> QED BY <1>4, <2>4 DEF rest
<1>10. Relative(path, ups) = base
  BY <1>2, <1>9 DEF Relative
<1>11. IF n = 0 THEN path = base ELSE path[1] = Up
  <2>1. CASE n = 0
    <3>1. SubSeq(path, n + 1, Len(path)) = path
      BY <1>4, <2>1, SubSeqFull
    <3> QED BY <1>9, <2>1, <3>1
  <2>2. CASE n # 0
    <3>1. 1 \in 1 .. n
      BY <2>2
    <3> QED BY <1>5, <2>2, <3>1
  <2> QED BY <2>1, <2>2
<1> QED BY <1>4, <1>6, <1>7, <1>8, <1>9, <1>10, <1>11 DEF path, ups

(* A page of the bundle is shown as from the file system, with a layout    *)
(* that is the file it names.                                              *)
LEMMA BundledPage ==
  ASSUME SiteAssumption, OneDot, RootedLayouts, NEW F \in SUBSET Templates, NEW f \in F,
         IsPage(f)
  PROVE  Render(F, <<<<>>>>, TrimExtension(f)) = RenderEmbedded({g \in F : IsPage(g)}, f)
<1> DEFINE embedded == {g \in F : IsPage(g)}
<1>1. \A t \in Templates : t \in Seq(Seq(Parts)) /\ t # <<>> /\ Len(Last(t)) <= 2 /\ t[1] # Up
  <2> TAKE t \in Templates
  <2>1. t \in Paths /\ t # <<>>
    BY DEF SiteAssumption
  <2>2. 1 \in DOMAIN t
    BY <2>1 DEF Paths
  <2>3. t[1] # Up
    BY <2>2 DEF SiteAssumption
  <2>4. t \in Seq(Seq(Parts))
    BY <2>1, WithLiterals
  <2> QED BY <2>1, <2>3, <2>4 DEF OneDot
<1>2. \A t \in Templates : IsPage(t) => WithHtml(TrimExtension(t)) = t /\ WithHtml(t) = t
  BY <1>1, TrimmedIsFound
<1>3. Render(F, <<<<>>>>, TrimExtension(f)) = Compose(f, LayoutFile(f), F)
  <2> DEFINE paths == <<<<>>>>
             found == {i \in DOMAIN paths : paths[i] \o WithHtml(TrimExtension(f)) \in F}
  <2>1. DOMAIN paths = {1} /\ paths[1] = <<>>
    OBVIOUS
  <2> HIDE DEF paths
  <2>2. paths[1] \o WithHtml(TrimExtension(f)) = f
    <3>1. f \in Seq(Seq(Parts)) /\ WithHtml(TrimExtension(f)) = f
      BY <1>1, <1>2
    <3> QED BY <2>1, <3>1, ConcatEmptySeq
  <2>3. found = {1}
    BY <2>1, <2>2
  <2> HIDE DEF found
  <2>4. Min(found) = 1 /\ found # {}
    BY <2>3, MinLeast
  <2> QED BY <2>2, <2>4 DEF Render, ShowFile, found, paths
<1>4. f \in embedded /\ WithHtml(f) = f
  BY <1>2
<1>5. CASE Layout[f] = NoPath
  BY <1>3, <1>4, <1>5 DEF RenderEmbedded, Compose
<1>6. CASE Layout[f] # NoPath
  <2> DEFINE n == Len(f) - 1
             ups == [i \in 1 .. n |-> Up]
             r == Layout[f]
             cs == Candidates(r)
             found == {i \in DOMAIN cs : cs[i] \in embedded}
  <2>1. PICK base \in Templates : IsPage(base) /\ r = ups \o base
    BY <1>6 DEF RootedLayouts
  <2>2. n \in Nat
    BY <1>1
  <2>3. /\ Front(f) \in Seq(Seq(Parts)) /\ Len(Front(f)) = n
    BY <1>1, FrontLast
  <2> HIDE DEF n
  <2>4. base \in Seq(Seq(Parts)) /\ base # <<>> /\ base[1] # Up
    BY <1>1
  <2>5. /\ r \in Seq(Seq(Parts)) /\ r # <<>> /\ Last(r) = Last(base)
        /\ Ups(r) = n /\ Relative(r, ups) = base
        /\ SubSeq(r, n + 1, Len(r)) = base
        /\ IF n = 0 THEN r = base ELSE r[1] = Up
    <3> DEFINE path == ups \o base
    <3>1. /\ path \in Seq(Seq(Parts)) /\ path # <<>> /\ Last(path) = Last(base)
          /\ Ups(path) = n /\ Relative(path, ups) = base
          /\ SubSeq(path, n + 1, Len(path)) = base
          /\ IF n = 0 THEN path = base ELSE path[1] = Up
      BY <2>2, <2>4, Climbed
    <3>2. r = path
      BY <2>1
    <3> HIDE DEF path, ups, r
    <3> QED BY <3>1, <3>2
  <2> HIDE DEF r
  <2>6. LayoutFile(f) = base
    <3>1. ~(n > Len(Front(f)))
      BY <2>2, <2>3
    <3>2. SubSeq(Front(f), 1, Len(Front(f)) - n) = <<>>
      <4>1. Len(Front(f)) - n = 0
        BY <2>2, <2>3
      <4> QED BY <4>1, SubSeqEmpty
    <3>3. LayoutFile(f) = <<>> \o base
      BY <2>5, <3>1, <3>2 DEF LayoutFile, r
    <3> QED BY <2>4, <3>3, ConcatEmptySeq
  <2>7. WithHtml(r) = r /\ WithHtml(TrimExtension(r)) = r
    <3>1. IsPage(r) /\ Len(Last(r)) <= 2
      BY <1>1, <2>1, <2>5 DEF IsPage, HasExtension, Extension
    <3> QED BY <2>5, <3>1, TrimmedIsFound
  <2>8. cs = <<r, r, base>>
    BY <1>2, <2>1, <2>5, <2>7 DEF Candidates
  <2>9. r \in Templates => r = base
    BY <1>1, <2>5
  <2> HIDE DEF cs
  <2>10. DOMAIN cs = 1 .. 3 /\ cs[1] = r /\ cs[2] = r /\ cs[3] = base
    BY <2>8
  <2>11. \A i \in DOMAIN cs : cs[i] = r \/ cs[i] = base
    BY <2>10
  <2>12. \A i \in found : cs[i] = base
    BY <2>9, <2>11
  <2>13. base \in F <=> found # {}
    <3>1. base \in F => 3 \in found
      BY <2>1, <2>10
    <3> QED BY <2>12, <3>1
  <2>14. found \in SUBSET Nat
    BY <2>10
  <2> DEFINE layout == IF found = {} THEN NoPath ELSE cs[Min(found)]
  <2>15. layout = IF base \in F THEN base ELSE NoPath
    <3>1. found # {} => Min(found) \in found
      BY <2>14, MinIn
    <3> QED BY <2>12, <2>13, <3>1
  <2>16. RenderEmbedded(embedded, f) = Compose(f, layout, embedded)
    BY <1>4, <1>6 DEF RenderEmbedded, cs, r
  <2> HIDE DEF layout
  <2>17. NoPath \notin embedded /\ (base \in F => base \in embedded)
    BY <2>1 DEF SiteAssumption
  <2>18. Compose(f, base, F) = Compose(f, layout, embedded)
    BY <1>6, <2>15, <2>17 DEF Compose
  <2> QED BY <1>3, <2>6, <2>16, <2>18
<1> QED BY <1>5, <1>6

(* A file without a zero byte, of a type both name, is sent as it is.      *)
LEMMA BundledFile ==
  ASSUME PlainPublic, NEW P, PublicOK(P), NEW f \in DOMAIN P
  PROVE  EmbeddedFile(P, f) = StaticFile(P, f)
<1>1. f \in Public /\ P[f] \in Bodies
  BY DEF PublicOK
<1>2. EmbeddedMimeFor(f) = MimeFor(f)
  BY <1>1 DEF EmbeddedMimeFor, MimeFor, PlainPublic
<1>3. Literal(P[f]) = P[f]
  <2>1. {i \in 1 .. Len(P[f]) : P[f][i] = 0} = {}
    BY <1>1, SiteAssumption DEF PlainPublic, SiteAssumption
  <2> QED BY <2>1 DEF Literal, SelectInSeq
<1> QED BY <1>2, <1>3 DEF EmbeddedFile, StaticFile

(* Where templates write their layouts from templates/ on, no name has two *)
(* dots and public files hold no zero byte: whatever was created, deleted  *)
(* and written before and since, the binary has the routes and gives the   *)
(* answers a run from the file system gave when it was built               *)
(* (generate_embedded_assets, embedded_pages, TemplateEngine::render).     *)
THEOREM BundleIsTheApp ==
  ASSUME OneDot, RootedLayouts, PlainPublic PROVE Spec => []BundleServesTheApp
<1>1. IInv => BundleServesTheApp
  <2> SUFFICES ASSUME IInv, bundle # NoBundle PROVE BundleServesTheApp
    BY DEF BundleServesTheApp
  <2> DEFINE F == bundle.files
             pages == {f \in F : IsPage(f) /\ IsPrefix(PagesDir, f)}
             route(f) == JoinRoute(<<>>, TrimExtension(Relative(f, PagesDir)))
             dev == PageHandlers(F, <<<<>>>>, PagesDir, <<>>)
  <2>1. F \subseteq Templates /\ PublicOK(bundle.public) /\ bundle = BundleOf(F, bundle.public)
    BY DEF IInv, Built
  <2>2. /\ bundle.templates = {f \in F : IsPage(f)}
        /\ bundle.routes = EmbeddedHandlers(pages)
        /\ \A f \in DOMAIN bundle.public : bundle.assets[f] = EmbeddedFile(bundle.public, f)
    <3>1. /\ BundleOf(F, bundle.public).templates = {f \in F : IsPage(f)}
          /\ BundleOf(F, bundle.public).routes = EmbeddedHandlers(pages)
          /\ BundleOf(F, bundle.public).assets
               = [f \in DOMAIN bundle.public |-> EmbeddedFile(bundle.public, f)]
      BY DEF BundleOf
    <3> QED BY <2>1, <3>1
  <2> HIDE DEF F
  <2>3. \A f \in pages :
          /\ TemplateName(<<<<>>>>, f) = TrimExtension(f)
          /\ WithHtml(TrimExtension(f)) = f
          /\ route(f) = JoinRoute(<<>>, IF TrimExtension(f)[1] = PagesDir[1]
                                        THEN Tail(TrimExtension(f)) ELSE TrimExtension(f))
    BY <2>1, BundledRoute, SiteAssumption
  <2>4. dev = {[route |-> route(f), template |-> TrimExtension(f), file |-> f] : f \in pages}
    BY <2>3 DEF PageHandlers
  <2>5. bundle.routes = {[route |-> route(f), template |-> f] : f \in pages}
    BY <2>2, <2>3 DEF EmbeddedHandlers
  <2>6. {h.route : h \in dev} = {h.route : h \in bundle.routes}
    <3> HIDE DEF pages, route, dev
    <3>1. {h.route : h \in dev} = {route(f) : f \in pages}
      <4>1. \A h \in dev : \E f \in pages : h.route = route(f)
        BY <2>4
      <4>2. \A f \in pages : \E h \in dev : h.route = route(f)
        <5> TAKE f \in pages
        <5>1. [route |-> route(f), template |-> TrimExtension(f), file |-> f] \in dev
          BY <2>4
        <5> QED BY <5>1
      <4> QED BY <4>1, <4>2
    <3>2. {h.route : h \in bundle.routes} = {route(f) : f \in pages}
      <4>1. \A h \in bundle.routes : \E f \in pages : h.route = route(f)
        BY <2>5
      <4>2. \A f \in pages : \E h \in bundle.routes : h.route = route(f)
        <5> TAKE f \in pages
        <5>1. [route |-> route(f), template |-> f] \in bundle.routes
          BY <2>5
        <5> QED BY <5>1
      <4> QED BY <4>1, <4>2
    <3> QED BY <3>1, <3>2
  <2>7. ASSUME NEW h \in dev, NEW e \in bundle.routes, WithHtml(h.template) = e.template
        PROVE  /\ h.route = e.route
               /\ Render(F, <<<<>>>>, h.template) = RenderEmbedded(bundle.templates, e.template)
    <3>1. PICK f \in pages : h = [route |-> route(f), template |-> TrimExtension(f), file |-> f]
      BY <2>4
    <3>2. PICK g \in pages : e = [route |-> route(g), template |-> g]
      BY <2>5
    <3>3. f = g
      BY <2>3, <2>7, <3>1, <3>2
    <3>4. Render(F, <<<<>>>>, TrimExtension(f)) = RenderEmbedded(bundle.templates, f)
      BY <2>1, <2>2, BundledPage, SiteAssumption
    <3> QED BY <3>1, <3>2, <3>3, <3>4
  <2>8. \A f \in DOMAIN bundle.public : bundle.assets[f] = StaticFile(bundle.public, f)
    BY <2>1, <2>2, BundledFile
  <2> QED BY <2>6, <2>7, <2>8 DEF BundleServesTheApp, F
<1> QED BY <1>1, SiteInductive, PTL
=============================================================================
