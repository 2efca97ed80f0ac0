---------------------------- MODULE RouteProofs ----------------------------
(***************************************************************************)
(* Proofs about TailRoute and about what it means for TailHandler: which   *)
(* targets canonical accepts, whatever their length; what may be sent to   *)
(* the backend, with which credential and query; what TAIL answers by      *)
(* itself; and that a later scrape never shows less than an earlier one.   *)
(***************************************************************************)
EXTENDS TailHandlerProofs, SequenceTheorems, WellFoundedInduction

----------------------------------------------------------------------------
(* path.Clean *)

\* Every non-empty set of naturals has a least element: the form of induction the
\* lemmas on recursive functions use.
LEMMA LeastNat ==
    ASSUME NEW T, T \subseteq Nat, T # {}
    PROVE  \E x \in T : \A y \in T : x <= y
<1> DEFINE R == OpToRel(<, Nat)
<1>1. IsWellFoundedOn(R, Nat)
    BY NatLessThanWellFounded, Zenon
<1>2. PICK x \in T : \A y \in T : ~(<<y, x>> \in R)
    BY <1>1, WFMin
<1>3. \A y \in T : ~(y < x)
    BY <1>2 DEF OpToRel
<1>. QED  BY <1>3

\* kept in Clean: what is left after each segment.
KeptFcn(path) ==
    CHOOSE f : f = [i \in 0..Len(path) |-> IF i = 0 THEN <<>> ELSE CleanSegment(f[i - 1], path[i])]

\* Clean is that function at the last segment.
LEMMA CleanKept ==
    ASSUME NEW path
    PROVE  Clean(path) = IF KeptFcn(path)[Len(path)] = <<>> THEN <<"">> ELSE KeptFcn(path)[Len(path)]
BY DEF Clean, KeptFcn

\* The recursion up to the m-th segment.
KeptUpTo(f, path, m) ==
    f = [i \in 0..m |-> IF i = 0 THEN <<>> ELSE CleanSegment(f[i - 1], path[i])]

\* There is such a function, however long the path: a shortest path without one
\* would be one segment longer than a path with one.
LEMMA KeptExists ==
    ASSUME NEW path, NEW n \in Nat
    PROVE  \E f : KeptUpTo(f, path, n)
<1> DEFINE Bad == {m \in Nat : ~\E f : KeptUpTo(f, path, m)}
<1>1. SUFFICES ASSUME Bad # {} PROVE FALSE
    OBVIOUS
<1>2. PICK m \in Bad : \A k \in Bad : m <= k
    BY <1>1, LeastNat
<1>3. CASE m = 0
  <2> DEFINE f == [i \in 0..m |-> <<>>]
  <2>1. KeptUpTo(f, path, m)
    BY <1>3 DEF KeptUpTo
  <2>. QED  BY <2>1
<1>4. CASE m # 0
  <2>1. m - 1 \in Nat /\ m - 1 \notin Bad
    BY <1>2, <1>4
  <2>2. PICK g : KeptUpTo(g, path, m - 1)
    BY <2>1
  <2> DEFINE f == [i \in 0..m |-> IF i = m THEN CleanSegment(g[m - 1], path[m]) ELSE g[i]]
  <2>3. \A i \in 0..(m - 1) : f[i] = g[i]
    BY <2>1
  <2>4. \A i \in 0..(m - 1) : g[i] = IF i = 0 THEN <<>> ELSE CleanSegment(g[i - 1], path[i])
    BY <2>2 DEF KeptUpTo
  <2>5. \A i \in 0..m : f[i] = IF i = 0 THEN <<>> ELSE CleanSegment(f[i - 1], path[i])
    <3> SUFFICES ASSUME NEW i \in 0..m
                 PROVE  f[i] = IF i = 0 THEN <<>> ELSE CleanSegment(f[i - 1], path[i])
      OBVIOUS
    <3>1. CASE i = m
      <4>1. f[i] = CleanSegment(g[m - 1], path[m])
        BY <3>1
      <4>2. f[i - 1] = g[m - 1]
        BY <2>1, <2>3, <3>1
      <4>. QED  BY <1>4, <3>1, <4>1, <4>2
    <3>2. CASE i # m
      <4>1. i \in 0..(m - 1)
        BY <3>2
      <4>2. i # 0 => f[i - 1] = g[i - 1]
        BY <2>3, <4>1
      <4>. QED  BY <2>3, <2>4, <4>1, <4>2
    <3>. QED  BY <3>1, <3>2
  <2>6. KeptUpTo(f, path, m)
    <3> HIDE DEF f
    <3>1. f = [i \in 0..m |-> f[i]]
      BY DEF f
    <3>. QED  BY <2>5, <3>1 DEF KeptUpTo
  <2>. QED  BY <2>6
<1>. QED  BY <1>3, <1>4

\* One step of the recursion.
LEMMA KeptSteps ==
    ASSUME NEW S, NEW path \in Seq(S)
    PROVE  /\ KeptFcn(path)[0] = <<>>
           /\ \A i \in 1..Len(path) :
                 KeptFcn(path)[i] = CleanSegment(KeptFcn(path)[i - 1], path[i])
<1>1. \E f : KeptUpTo(f, path, Len(path))
  <2>1. Len(path) \in Nat
    OBVIOUS
  <2>. QED  BY <2>1, KeptExists, Zenon
<1>2. KeptUpTo(KeptFcn(path), path, Len(path))
    BY <1>1 DEF KeptFcn, KeptUpTo
<1>3. Len(path) \in Nat
    OBVIOUS
<1> DEFINE f == KeptFcn(path)
<1> HIDE DEF f
<1>4. f = [i \in 0..Len(path) |-> IF i = 0 THEN <<>> ELSE CleanSegment(f[i - 1], path[i])]
    BY <1>2 DEF KeptUpTo, f
<1>5. \A i \in 0..Len(path) : f[i] = IF i = 0 THEN <<>> ELSE CleanSegment(f[i - 1], path[i])
    BY <1>4
<1>. QED  BY <1>3, <1>5 DEF f

\* A segment that Clean keeps.
PlainSegment(seg) == seg \notin {"", ".", ".."}
PlainPath(path) == \A i \in 1..Len(path) : PlainSegment(path[i])

\* Clean's step on one segment leaves a path of plain segments.
LEMMA SegmentPlain ==
    ASSUME NEW S, NEW kept \in Seq(S), PlainPath(kept), NEW seg \in S
    PROVE  CleanSegment(kept, seg) \in Seq(S) /\ PlainPath(CleanSegment(kept, seg))
<1> DEFINE next == CleanSegment(kept, seg)
<1>1. CASE seg \in {"", "."}
    BY <1>1 DEF CleanSegment
<1>2. CASE seg = ".." /\ kept = <<>>
    BY <1>2 DEF CleanSegment
<1>3. CASE seg = ".." /\ kept # <<>>
  <2>1. next = SubSeq(kept, 1, Len(kept) - 1)
    BY <1>3 DEF CleanSegment, Front
  <2>2. Len(kept) \in Nat /\ Len(kept) > 0
    BY <1>3
  <2>3. \A j \in 1..(Len(kept) - 1) : kept[j] \in S
    BY <2>2
  <2> HIDE DEF next
  <2>4. /\ next \in Seq(S)
        /\ Len(next) = IF 1 <= Len(kept) - 1 THEN Len(kept) - 1 - 1 + 1 ELSE 0
        /\ \A j \in 1..(Len(kept) - 1 - 1 + 1) : next[j] = kept[1 + j - 1]
    <3>1. Len(kept) - 1 \in Int /\ 1 \in Int
      BY <2>2
    <3>. QED  BY <2>1, <2>3, <3>1, SubSeqProperties
  <2>5. PlainPath(next)
    BY <2>2, <2>4 DEF PlainPath
  <2>. QED  BY <2>4, <2>5 DEF next
<1>4. CASE PlainSegment(seg)
  <2>1. next = Append(kept, seg)
    BY <1>4 DEF CleanSegment, PlainSegment
  <2> HIDE DEF next
  <2>2. /\ next \in Seq(S) /\ Len(next) = Len(kept) + 1
        /\ next[Len(kept) + 1] = seg
        /\ \A j \in 1..Len(kept) : next[j] = kept[j]
    BY <2>1, AppendProperties, Zenon
  <2>3. Len(kept) \in Nat
    OBVIOUS
  <2>4. PlainPath(next)
    <3>1. \A j \in 1..Len(kept) : PlainSegment(kept[j])
      BY DEF PlainPath
    <3>2. \A j \in 1..(Len(kept) + 1) : j \in 1..Len(kept) \/ j = Len(kept) + 1
      BY <2>3
    <3>3. \A j \in 1..(Len(kept) + 1) : PlainSegment(next[j])
      BY <1>4, <2>2, <3>1, <3>2, Zenon
    <3>. QED  BY <2>2, <3>3, Zenon DEF PlainPath
  <2>. QED  BY <2>2, <2>4 DEF next
<1>. QED  BY <1>1, <1>2, <1>3, <1>4 DEF PlainSegment

\* What is kept is at every point a path of plain segments.
LEMMA KeptPlain ==
    ASSUME NEW S, NEW path \in Seq(S), NEW i \in 0..Len(path)
    PROVE  KeptFcn(path)[i] \in Seq(S) /\ PlainPath(KeptFcn(path)[i])
<1> DEFINE kept == KeptFcn(path)
           Good(j) == kept[j] \in Seq(S) /\ PlainPath(kept[j])
           Bad == {j \in 0..Len(path) : ~Good(j)}
<1> HIDE DEF kept
<1>1. SUFFICES ASSUME Bad # {} PROVE FALSE
    BY DEF kept
<1>2. PICK m \in Bad : \A k \in Bad : m <= k
  <2>1. Bad \subseteq Nat
    OBVIOUS
  <2> HIDE DEF Bad
  <2>. QED  BY <1>1, <2>1, LeastNat
<1>3. kept[0] = <<>> /\ \A j \in 1..Len(path) : kept[j] = CleanSegment(kept[j - 1], path[j])
    BY KeptSteps DEF kept
<1>4. CASE m = 0
  <2>1. Good(0)
    BY <1>3 DEF PlainPath
  <2>. QED  BY <1>2, <1>4, <2>1
<1>5. CASE m # 0
  <2>1. m \in 1..Len(path) /\ m - 1 \in 0..Len(path) /\ m - 1 \notin Bad
    BY <1>2, <1>5
  <2>2. Good(m - 1)
    BY <2>1
  <2>3. kept[m] = CleanSegment(kept[m - 1], path[m]) /\ path[m] \in S
    BY <1>3, <2>1
  <2>4. Good(m)
    BY <2>2, <2>3, SegmentPlain
  <2>. QED  BY <1>2, <2>4
<1>. QED  BY <1>4, <1>5

\* A path of plain segments is kept segment by segment.
LEMMA PlainKept ==
    ASSUME NEW S, NEW path \in Seq(S), PlainPath(path)
    PROVE  KeptFcn(path)[Len(path)] = path
<1> DEFINE kept == KeptFcn(path)
           Bad == {j \in 0..Len(path) : kept[j] # SubSeq(path, 1, j)}
<1> HIDE DEF kept
<1>0. SubSeq(path, 1, Len(path)) = path /\ Len(path) \in 0..Len(path)
    OBVIOUS
<1>1. SUFFICES ASSUME Bad # {} PROVE FALSE
    BY <1>0 DEF kept
<1>2. PICK m \in Bad : \A k \in Bad : m <= k
  <2>1. Bad \subseteq Nat
    OBVIOUS
  <2> HIDE DEF Bad
  <2>. QED  BY <1>1, <2>1, LeastNat
<1>3. kept[0] = <<>> /\ \A j \in 1..Len(path) : kept[j] = CleanSegment(kept[j - 1], path[j])
    BY KeptSteps DEF kept
<1>4. CASE m = 0
  <2>1. SubSeq(path, 1, 0) = <<>>
    BY SubSeqEmpty
  <2>. QED  BY <1>2, <1>3, <1>4, <2>1
<1>5. CASE m # 0
  <2>1. m \in 1..Len(path) /\ m - 1 \in 0..Len(path) /\ m - 1 \notin Bad
    BY <1>2, <1>5
  <2>2. kept[m - 1] = SubSeq(path, 1, m - 1)
    BY <2>1
  <2>3. PlainSegment(path[m])
    BY <2>1 DEF PlainPath
  <2>4. kept[m] = Append(SubSeq(path, 1, m - 1), path[m])
    BY <1>3, <2>1, <2>2, <2>3 DEF CleanSegment, PlainSegment
  <2>5. Append(SubSeq(path, 1, m - 1), path[m]) = SubSeq(path, 1, m)
    BY <2>1
  <2>. QED  BY <1>2, <2>4, <2>5
<1>. QED  BY <1>4, <1>5

\* The path of no segments: its one segment is empty.
Root == <<"">>

\* Clean answers a path of plain segments, or the root.
LEMMA CleanResult ==
    ASSUME NEW S, NEW path \in Seq(S)
    PROVE  \/ Clean(path) = Root
           \/ Clean(path) \in Seq(S) \ {<<>>} /\ PlainPath(Clean(path))
<1> DEFINE kept == KeptFcn(path)[Len(path)]
<1>1. kept \in Seq(S) /\ PlainPath(kept)
    BY KeptPlain
<1>2. Clean(path) = IF kept = <<>> THEN Root ELSE kept
    BY CleanKept DEF Root
<1> HIDE DEF kept
<1>. QED  BY <1>1, <1>2

\* Clean leaves exactly the root and the paths of plain segments as they are:
\* no path with an empty segment, "." or ".." gets past canonical (path.Clean in
\* handler.go).
THEOREM CleanExactly ==
    ASSUME NEW S, NEW path \in Seq(S)
    PROVE  Clean(path) = path <=> path = Root \/ (path # <<>> /\ PlainPath(path))
<1>1. ASSUME Clean(path) = path PROVE path = Root \/ (path # <<>> /\ PlainPath(path))
    BY <1>1, CleanResult
<1>2. ASSUME path # <<>>, PlainPath(path) PROVE Clean(path) = path
    BY <1>2, PlainKept, CleanKept
<1>3. Clean(Root) = Root
  <2>1. Root \in Seq({""}) /\ Len(Root) = 1 /\ Root[1] = ""
    BY DEF Root
  <2>2. /\ KeptFcn(Root)[0] = <<>>
        /\ \A i \in 1..Len(Root) : KeptFcn(Root)[i] = CleanSegment(KeptFcn(Root)[i - 1], Root[i])
    BY <2>1, KeptSteps, Zenon
  <2>3. KeptFcn(Root)[1] = CleanSegment(KeptFcn(Root)[0], "")
    <3>0. Len(Root) = 1
      BY <2>1
    <3>1. 1 \in 1..Len(Root) /\ 1 - 1 = 0
      BY <3>0
    <3>2. KeptFcn(Root)[1] = CleanSegment(KeptFcn(Root)[1 - 1], Root[1])
      BY <2>2, <3>1, Zenon
    <3>. QED  BY <2>1, <3>1, <3>2, Zenon
  <2>4. CleanSegment(<<>>, "") = <<>>
    BY DEF CleanSegment
  <2>5. KeptFcn(Root)[1] = <<>>
    BY <2>2, <2>3, <2>4
  <2>. QED  BY <2>1, <2>5, CleanKept DEF Root
<1>. QED  BY <1>1, <1>2, <1>3

\* Cleaning twice is cleaning once: the comparison path.Clean(p) # p that
\* canonical makes has exactly the clean paths as its fixed points.
THEOREM CleanTwice ==
    ASSUME NEW S, NEW path \in Seq(S)
    PROVE  Clean(Clean(path)) = Clean(path)
<1>1. CASE Clean(path) = Root
  <2>1. Root \in Seq({""})
    BY DEF Root
  <2>. QED  BY <1>1, <2>1, CleanExactly
<1>2. CASE Clean(path) \in Seq(S) \ {<<>>} /\ PlainPath(Clean(path))
    BY <1>2, CleanExactly
<1>. QED  BY <1>1, <1>2, CleanResult

----------------------------------------------------------------------------
(* Which targets, credentials and routes ServeHTTP accepts *)

\* A segment written as it is meant: it has no escape and needs none.
Literal(seg) == Decode(seg) = seg /\ Encode(seg) = seg

\* canonical accepts exactly the origin-form targets whose segments are literal
\* and whose path is clean.
THEOREM CanonicalExactly ==
    ASSUME NEW S, NEW s, s.target \in Seq(S)
    PROVE  canonical(s) <=>
             /\ s.form = "origin"
             /\ s.target = Root \/ (s.target # <<>> /\ PlainPath(s.target))
             /\ \A i \in 1..Len(s.target) : Literal(s.target[i])
<1> DEFINE t == s.target
<1>1. t \in Seq(S) /\ t = [i \in 1..Len(t) |-> t[i]] /\ Len(t) \in Nat
    OBVIOUS
<1> HIDE DEF t
<1>2. ASSUME URLPath(s) = t, \/ RawPath(s) = <<>> /\ EscapedPath(s) = t
                             \/ \A i \in 1..Len(t) : Literal(t[i])
      PROVE  /\ EncodePath(t) = t /\ RawPath(s) = <<>> /\ EscapedPath(s) = t
             /\ \A i \in 1..Len(t) : Literal(t[i])
  <2>1. DecodePath(t) = t
    BY <1>2 DEF URLPath, t
  <2>2. \A i \in 1..Len(t) : Decode(t[i]) = t[i]
    BY <2>1, <1>1 DEF DecodePath
  <2>3. EncodePath(t) = t
    <3>1. CASE RawPath(s) = <<>> /\ EscapedPath(s) = t
      BY <1>2, <3>1 DEF EscapedPath
    <3>2. CASE \A i \in 1..Len(t) : Literal(t[i])
      BY <1>1, <3>2 DEF EncodePath, Literal
    <3>. QED  BY <1>2, <3>1, <3>2
  <2>4. \A i \in 1..Len(t) : Encode(t[i]) = t[i]
    BY <2>3, <1>1 DEF EncodePath
  <2>5. RawPath(s) = <<>> /\ EscapedPath(s) = t
    BY <1>2, <2>3 DEF RawPath, EscapedPath, t
  <2>. QED  BY <2>2, <2>3, <2>4, <2>5 DEF Literal
<1>3. ASSUME \A i \in 1..Len(t) : Literal(t[i]) PROVE URLPath(s) = t
  <2>1. DecodePath(t) = t
    BY <1>1, <1>3 DEF DecodePath, Literal
  <2>. QED  BY <2>1 DEF URLPath, t
<1>4. Clean(t) = t <=> t = Root \/ (t # <<>> /\ PlainPath(t))
    BY <1>1, CleanExactly
<1>5. ASSUME canonical(s)
      PROVE  /\ s.form = "origin" /\ Clean(t) = t
             /\ \A i \in 1..Len(t) : Literal(t[i])
  <2>1. URLPath(s) = t /\ RawPath(s) = <<>> /\ EscapedPath(s) = t
    BY <1>5 DEF canonical, t
  <2>2. s.form = "origin" /\ Clean(t) = t
    BY <1>5, <2>1 DEF canonical
  <2>. QED  BY <1>2, <2>1, <2>2
<1>6. ASSUME s.form = "origin", Clean(t) = t, \A i \in 1..Len(t) : Literal(t[i])
      PROVE  canonical(s)
  <2>1. URLPath(s) = t
    BY <1>3, <1>6
  <2>2. RawPath(s) = <<>> /\ EscapedPath(s) = t
    BY <1>2, <1>6, <2>1
  <2>. QED  BY <1>6, <2>1, <2>2 DEF canonical, t
<1>. QED  BY <1>4, <1>5, <1>6 DEF t

\* authorized accepts exactly one value of Authorization, the token.
LEMMA AuthorizedExactly ==
    ASSUME NEW s \in Shapes
    PROVE  authorized(s) <=> s.auths = <<Token>>
<1> DEFINE a == s.auths
<1>1. a \in Seq(STRING)
    BY ShapesAreRequests
<1> HIDE DEF a
<1>2. ASSUME Len(a) = 1, a[1] = Token PROVE a = <<Token>>
    BY <1>1, <1>2
<1>3. ASSUME a = <<Token>> PROVE Len(a) = 1 /\ a[1] = Token
    BY <1>3
<1>. QED  BY <1>2, <1>3 DEF authorized, a

\* The paths ServeHTTP compares with, and the segments they are made of.
Routed == Management \cup {Healthz, Models, <<"v1", "chat", "completions">>}
            \cup {<<"v1", n>> : n \in {"completions", "responses", "systemone", "embeddings"}}
Words == {"healthz", "pig", "metrics", "v1", "upstream-status", "admin", "predictive-policy",
          "predictive-profile", "attestation", "report", "models", "chat", "completions",
          "responses", "systemone", "embeddings"}

\* Every routed path, spelled as it is written, is canonical and is its own path.
LEMMA RoutedCanonical ==
    ASSUME NEW s \in Shapes, s.form = "origin", s.target \in Routed
    PROVE  canonical(s) /\ URLPath(s) = s.target
<1> DEFINE t == s.target
<1>1. t \in Seq(STRING)
    BY ShapesAreRequests
<1>2. /\ t # <<>>
      /\ \A i \in 1..Len(t) : t[i] \in Words
  <2>1. ASSUME NEW a \in Words, NEW b \in Words, NEW c \in Words, t \in {<<a>>, <<a, b>>, <<a, b, c>>}
        PROVE  t # <<>> /\ \A i \in 1..Len(t) : t[i] \in Words
    <3> HIDE DEF t, Words
    <3>1. CASE t = <<a>>
      BY <3>1
    <3>2. CASE t = <<a, b>>
      BY <3>2
    <3>3. CASE t = <<a, b, c>>
      BY <3>3
    <3>. QED  BY <2>1, <3>1, <3>2, <3>3
  <2>2. \/ t \in {<<"healthz">>}
        \/ (\E b \in Words : t \in {<<"v1", b>>, <<"pig", b>>})
        \/ (\E b, c \in Words : t \in {<<"v1", b, c>>, <<"admin", b, c>>})
    <3>1. {"metrics", "upstream-status", "models", "completions", "responses", "systemone", "embeddings",
           "v1", "predictive-policy", "predictive-profile", "attestation", "report", "chat"} \subseteq Words
      BY DEF Words
    <3>2. \/ t = <<"healthz">> \/ t = <<"pig", "metrics">>
          \/ \E b \in {"metrics", "upstream-status", "models", "completions", "responses", "systemone",
                        "embeddings"} : t = <<"v1", b>>
          \/ \E c \in {"predictive-policy", "predictive-profile"} : t = <<"admin", "v1", c>>
          \/ t = <<"v1", "attestation", "report">> \/ t = <<"v1", "chat", "completions">>
      BY DEF Routed, Management, Healthz, PigMetrics, V1Metrics, Upstream, Policy, Profile, Report, Models
    <3> HIDE DEF t
    <3>. QED  BY <3>1, <3>2, Zenon
  <2>3. \E a, b, c \in Words : t \in {<<a>>, <<a, b>>, <<a, b, c>>}
    <3>1. {"healthz", "v1", "pig", "admin"} \subseteq Words
      BY DEF Words
    <3> HIDE DEF t
    <3>. QED  BY <2>2, <3>1, Zenon
  <2>. QED  BY <2>1, <2>3
<1>3. \A w \in Words : PlainSegment(w) /\ Literal(w)
    BY DEF Words, PlainSegment, Literal, Decode, Encode
<1>4. PlainPath(t) /\ \A i \in 1..Len(t) : Literal(t[i])
    BY <1>2, <1>3, Zenon DEF PlainPath
<1>5. canonical(s)
    BY <1>1, <1>2, <1>4, CanonicalExactly
<1>. QED  BY <1>5 DEF canonical

----------------------------------------------------------------------------
\* The public routes, by the path of the request.
LEMMA ListedExactly ==
    ASSUME NEW s \in Shapes
    PROVE  /\ s.target = URLPath(s) => (Listed(s) <=> s.target \in Management \/ public(s))
           /\ Listed(s) => s.target \in Routed
           /\ Healthz \in Routed
<1>1. s.target = URLPath(s) => (Listed(s) <=> s.target \in Management \/ public(s))
    BY DEF Listed, public, generation
<1>2. Listed(s) => s.target \in Routed
    BY DEF Listed, Routed
<1>. QED  BY <1>1, <1>2 DEF Routed

\* ServeHTTP hands to forward only an authenticated request that is spelled as
\* an allowlisted route is written.
LEMMA ForwardedRoute ==
    ASSUME NEW s \in Shapes, Route(s).do = "forward"
    PROVE  /\ s.auths = <<Token>> /\ s.form = "origin" /\ URLPath(s) = s.target
           /\ Listed(s) /\ s.target \notin {PigMetrics, Upstream, Report}
<1>1. /\ canonical(s) /\ authorized(s)
      /\ URLPath(s) \in Management \/ public(s)
      /\ URLPath(s) \in Management => ManagementRoute(s).do = "forward"
    BY DEF Route, Reply, Do
<1>2. s.form = "origin" /\ URLPath(s) = s.target
    BY <1>1 DEF canonical
<1>3. s.auths = <<Token>>
    BY <1>1, AuthorizedExactly
<1>4. Listed(s)
    BY <1>1, <1>2, ListedExactly
<1>5. URLPath(s) \notin {PigMetrics, Upstream, Report}
  <2>1. ASSUME URLPath(s) \in {PigMetrics, Upstream, Report} PROVE ManagementRoute(s).do # "forward"
    <3>1. CASE s.method \notin Allowed(URLPath(s))
      BY <3>1 DEF ManagementRoute, Reply
    <3>2. CASE s.method \in Allowed(URLPath(s))
      BY <2>1, <3>2 DEF ManagementRoute, Reply, Do
    <3>. QED  BY <3>1, <3>2
  <2>2. {PigMetrics, Upstream, Report} \subseteq Management
    BY DEF Management
  <2>. QED  BY <1>1, <2>1, <2>2
<1>. QED  BY <1>2, <1>3, <1>4, <1>5

\* The kinds of request that the documentation tells apart.
Answers401(s) == s.form = "origin" /\ Listed(s) /\ s.auths # <<Token>>
Answers404(s) == s.form # "origin" \/ (s.target # Healthz /\ ~Listed(s))
Answers405(s) == /\ s.form = "origin" /\ s.target \in Management /\ s.auths = <<Token>>
                 /\ s.method \notin Allowed(s.target)

\* The status ServeHTTP itself answers each kind with.
LEMMA AnsweredRoute ==
    ASSUME NEW s \in Shapes
    PROVE  /\ s.form = "origin" /\ s.target = Healthz =>
                 Route(s) = Reply(IF s.method = "GET" THEN 200 ELSE 405)
           /\ Answers401(s) => Route(s) = Reply(401)
           /\ Answers405(s) => Route(s) = Reply(405)
           /\ Answers404(s) => Route(s) = Reply(404)
<1>1. ASSUME s.form = "origin", s.target = Healthz
      PROVE  Route(s) = Reply(IF s.method = "GET" THEN 200 ELSE 405)
  <2>1. canonical(s) /\ URLPath(s) = Healthz
    BY <1>1, ListedExactly, RoutedCanonical
  <2>. QED  BY <2>1 DEF Route
<1>2. Healthz \notin Management /\ (URLPath(s) = Healthz => ~public(s))
    BY DEF Healthz, Management, PigMetrics, V1Metrics, Upstream, Policy, Profile, Report,
           public, generation, Models
<1>3. ASSUME s.form = "origin", Listed(s)
      PROVE  /\ canonical(s) /\ URLPath(s) = s.target /\ URLPath(s) # Healthz
             /\ URLPath(s) \in Management \/ public(s)
  <2>1. canonical(s) /\ URLPath(s) = s.target
    BY <1>3, ListedExactly, RoutedCanonical
  <2>2. URLPath(s) \in Management \/ public(s)
    BY <1>3, <2>1, ListedExactly
  <2>. QED  BY <1>2, <2>1, <2>2
<1>4. ASSUME Answers401(s) PROVE Route(s) = Reply(401)
  <2>1. ~authorized(s)
    BY <1>4, AuthorizedExactly DEF Answers401
  <2>. QED  BY <1>3, <1>4, <2>1 DEF Answers401, Route
<1>5. ASSUME Answers405(s) PROVE Route(s) = Reply(405)
  <2>1. Listed(s) /\ authorized(s)
    BY <1>5, AuthorizedExactly DEF Answers405, Listed
  <2>2. /\ canonical(s) /\ URLPath(s) = s.target /\ URLPath(s) # Healthz
        /\ URLPath(s) \in Management /\ s.method \notin Allowed(URLPath(s))
    BY <1>3, <1>5, <2>1 DEF Answers405
  <2>3. ManagementRoute(s) = Reply(405)
    BY <2>2 DEF ManagementRoute
  <2>. QED  BY <2>1, <2>2, <2>3 DEF Route
<1>6. ASSUME Answers404(s) PROVE Route(s) = Reply(404)
  <2>1. CASE ~canonical(s)
    BY <2>1 DEF Route
  <2>2. CASE canonical(s)
    <3>1. s.form = "origin" /\ s.target = URLPath(s)
      BY <2>2 DEF canonical
    <3>2. URLPath(s) # Healthz /\ URLPath(s) \notin Management /\ ~public(s)
      BY <1>6, <3>1, ListedExactly DEF Answers404
    <3>. QED  BY <2>2, <3>2 DEF Route
  <2>. QED  BY <2>1, <2>2
<1>. QED  BY <1>1, <1>4, <1>5, <1>6

----------------------------------------------------------------------------
(* The routing decision in the states of the handler *)

\* Only what ServeHTTP hands to forward is ever on the wire, and an answer of
\* TAIL to a request that ServeHTTP answers itself is the answer decided on.
Sent == \A r \in Req : wire[r] > 0 => Routes[req[r]].do = "forward"
Decided ==
    \A r \in Req : reply[r].from = "tail" /\ Routes[req[r]].do = "reply" =>
                      reply[r].code = Routes[req[r]].code

RouteInv == Sent /\ Decided

\* A step that only answers r keeps them if its answer is the one decided on.
LEMMA AnswerStep ==
    ASSUME RouteInv, NEW r \in Req, req' = req, wire' = wire,
           \A q \in Req \ {r} : reply'[q] = reply[q],
           reply'[r].from = "tail" /\ Routes[req[r]].do = "reply" =>
              reply'[r].code = Routes[req[r]].code
    PROVE  RouteInv'
<1>1. Sent'
    BY DEF RouteInv, Sent
<1>2. Decided'
  <2> SUFFICES ASSUME NEW q \in Req, reply'[q].from = "tail", Routes[req[q]].do = "reply"
               PROVE  reply'[q].code = Routes[req[q]].code
    BY DEF Decided
  <2>1. CASE q = r
    BY <2>1
  <2>2. CASE q # r
    BY <2>2 DEF RouteInv, Decided
  <2>. QED  BY <2>1, <2>2
<1>. QED  BY <1>1, <1>2 DEF RouteInv

\* Every step keeps them: req changes only while nothing is sent or written.
LEMMA RouteStep ==
    ASSUME TypeOK, Local, RouteInv, NEW r \in Req, Step(r)
    PROVE  RouteInv'
<1> USE DEF TypeOK, Local, OnRoute, ReplyFollows, NotYetSent, RouteInv, Sent, Decided,
        Inside, Loading, NoReply, Unwritten, Goto, counters, history
<1>1. CASE \E s \in Shapes : Arrive(r, s)
    BY <1>1 DEF Arrive
<1>2. CASE ServeHTTP(r)
  <2>1. /\ req' = req /\ wire' = wire /\ \A q \in Req \ {r} : reply'[q] = reply[q]
        /\ Routes[req[r]].do = "reply" => reply'[r].code = Routes[req[r]].code
    BY <1>2 DEF ServeHTTP, Write
  <2>. QED  BY ONLY <2>1, RouteInv, AnswerStep
<1>3. CASE Send(r)
    BY <1>3 DEF Send, ProxyStep
<1>4. CASE attestation(r) \/ LoadUnavailable(r)
  <2>1. /\ req' = req /\ wire' = wire /\ \A q \in Req \ {r} : reply'[q] = reply[q]
        /\ Routes[req[r]].do # "reply"
    BY <1>4 DEF attestation, LoadUnavailable, Write
  <2>. QED  BY ONLY <2>1, RouteInv, AnswerStep
<1>5. CASE Answer(r)
    BY <1>5 DEF Answer, ProxyStep, Write
<1>6. CASE WriteUnavailable(r)
  <2>1. /\ reply'[r].from = "proxy" /\ \A q \in Req \ {r} : reply'[q] = reply[q]
        /\ req' = req /\ wire' = wire
    BY <1>6 DEF WriteUnavailable, ErrorStep, Write
  <2>. QED  BY ONLY <2>1, RouteInv, AnswerStep
<1>7. CASE \/ LoadInflight(r) \/ LoadForwarded(r) \/ AddInflight(r) \/ AddForwarded(r) \/ Leave(r)
           \/ ErrorHandler(r) \/ AddUnavailable(r)
    BY <1>7 DEF LoadInflight, LoadForwarded, AddInflight, AddForwarded, Leave, ErrorHandler,
        AddUnavailable, ErrorStep
<1>8. CASE \/ DialFails(r) \/ UploadFails(r) \/ ConnectionLost(r) \/ StreamEnds(r) \/ StreamBreaks(r)
           \/ ContextEnds(r)
    BY <1>8 DEF DialFails, UploadFails, ConnectionLost, StreamEnds, StreamBreaks, ContextEnds, GiveUp, ProxyStep
<1>9. CASE Environment(r) \/ Timeout(r)
    BY <1>9 DEF Environment, Stall, Resume, Disconnect, NoticeDisconnect, Timeout, ClientStep, EndContext
<1>. QED
    BY <1>1, <1>2, <1>3, <1>4, <1>5, <1>6, <1>7, <1>8, <1>9 DEF Step, HandlerStep, Transport

\* The routing invariant holds in every reachable state.
THEOREM RouteInvariance == Spec => [](IInv /\ RouteInv)
<1>1. Init => RouteInv
    BY DEF Init, RouteInv, Sent, Decided, NoReply
<1>2. IInv /\ RouteInv /\ [Next]_vars => RouteInv'
  <2> SUFFICES ASSUME IInv, RouteInv, [Next]_vars PROVE RouteInv'
    OBVIOUS
  <2>1. CASE UNCHANGED vars
    BY <2>1 DEF vars, RouteInv, Sent, Decided
  <2>2. CASE \E r \in Req : Step(r)
    BY <2>2, RouteStep DEF IInv
  <2>. QED  BY <2>1, <2>2 DEF Next, Step, AllOver
<1>. QED  BY <1>1, <1>2, InitIInv, NextIInv, PTL DEF Spec

\* The wire carries only authenticated requests spelled as the allowlist writes
\* them, for every set of request shapes that can arrive.
THEOREM OnlyListedReachBackend == Spec => []OnlyListedSpellings
<1>1. IInv /\ RouteInv => OnlyListedSpellings
  <2> SUFFICES ASSUME IInv, RouteInv, NEW r \in Req, wire[r] > 0
               PROVE  LET s == req[r]
                      IN /\ s.auths = <<Token>> /\ s.form = "origin"
                         /\ Listed(s) /\ s.target \notin {PigMetrics, Upstream, Report}
                         /\ Outbound(s).path = IF s.target = V1Metrics THEN Metrics ELSE s.target
    BY DEF OnlyListedSpellings
  <2>1. req[r] \in Shapes /\ Route(req[r]).do = "forward"
    BY RouteType DEF RouteInv, Sent, IInv, TypeOK
  <2>2. Outbound(req[r]).path = IF URLPath(req[r]) = V1Metrics THEN Metrics ELSE URLPath(req[r])
    BY DEF Outbound, Rewrite, ProxyClean, Handed
  <2>. QED  BY <2>1, <2>2, ForwardedRoute
<1>. QED  BY <1>1, RouteInvariance, PTL

\* The header after forward, the proxy and Rewrite, in this order: which names
\* are left, and that Authorization is set however it arrived.
LEMMA OutboundHeader ==
    ASSUME NEW s
    PROVE  /\ DOMAIN Outbound(s).header =
                 {"Authorization"} \cup (s.headers \ (s.connection \cup HopByHop \cup ForwardedBy))
           /\ Outbound(s).header["Authorization"] = <<Token>>
<1> DEFINE stripped == RemoveHopByHopHeaders(Header(s), s.connection)
           cleaned == Del(stripped, ForwardedBy)
           in == [Handed(s) EXCEPT !.header = RemoveHopByHopHeaders(@, s.connection)]
<1>1. Handed(s).header = Header(s)
    BY DEF Handed
<1>2. in.header = stripped
    BY <1>1 DEF Handed
<1>3. ProxyClean(in).header = cleaned
    BY <1>2 DEF ProxyClean, Handed
<1>4. Outbound(s).header = Set(cleaned, "Authorization", Token)
    BY <1>3 DEF Outbound, Rewrite, ProxyClean, Handed
<1>5. DOMAIN cleaned = DOMAIN Header(s) \ (s.connection \cup HopByHop \cup ForwardedBy)
    BY DEF RemoveHopByHopHeaders, Del, Restrict
<1>6. /\ DOMAIN Header(s) \ {"Authorization", "Connection"} = s.headers \ {"Authorization", "Connection"}
      /\ s.headers \subseteq DOMAIN Header(s)
    BY DEF Header
<1>7. "Connection" \in HopByHop
    BY DEF HopByHop
<1> HIDE DEF cleaned
<1>8. /\ DOMAIN Set(cleaned, "Authorization", Token) = DOMAIN cleaned \cup {"Authorization"}
      /\ Set(cleaned, "Authorization", Token)["Authorization"] = <<Token>>
    BY DEF Set
<1>9. DOMAIN cleaned \cup {"Authorization"} =
         {"Authorization"} \cup (s.headers \ (s.connection \cup HopByHop \cup ForwardedBy))
    BY <1>5, <1>6, <1>7
<1>. QED  BY <1>4, <1>8, <1>9

\* The backend gets the caller's own credential, even where forward has stripped
\* it as a header that Connection lists, and exactly the end-to-end headers, for
\* every request shape: the token Rewrite sets is the one value ServeHTTP has
\* accepted.
THEOREM CredentialIntact == Spec => []CredentialSurvives
<1>1. IInv /\ RouteInv => CredentialSurvives
  <2> SUFFICES ASSUME IInv, RouteInv, NEW r \in Req, wire[r] > 0
               PROVE  LET s == req[r]
                          header == Outbound(s).header
                          dropped == s.connection \cup HopByHop \cup ForwardedBy
                      IN /\ DOMAIN header = {"Authorization"} \cup (s.headers \ dropped)
                         /\ header["Authorization"] = s.auths /\ Len(s.auths) = 1
    BY DEF CredentialSurvives
  <2>1. req[r] \in Shapes /\ Route(req[r]).do = "forward"
    BY RouteType DEF RouteInv, Sent, IInv, TypeOK
  <2>2. req[r].auths = <<Token>>
    BY <2>1, ForwardedRoute
  <2>. QED  BY <2>2, OutboundHeader
<1>. QED  BY <1>1, RouteInvariance, PTL

\* Every status TAIL answers with of itself is the documented one.
THEOREM RepliesAsDocumented == Spec => []DocumentedReplies
<1>1. IInv /\ RouteInv => DocumentedReplies
  <2> SUFFICES ASSUME IInv, RouteInv, NEW r \in Req, reply[r].from = "tail"
               PROVE  LET s == req[r]
                          code == reply[r].code
                      IN /\ s.form = "origin" /\ s.target = Healthz =>
                               code = IF s.method = "GET" THEN 200 ELSE 405
                         /\ Answers401(s) => code = 401
                         /\ Answers405(s) => code = 405
                         /\ Answers404(s) => code = 404
    BY DEF DocumentedReplies, Answers401, Answers404, Answers405
  <2>1. req[r] \in Shapes /\ Routes[req[r]] = Route(req[r])
    BY RouteType DEF IInv, TypeOK
  <2>2. ASSUME NEW code, Route(req[r]) = Reply(code) PROVE reply[r].code = code
    BY <2>1, <2>2 DEF RouteInv, Decided, Reply
  <2>. QED  BY <2>1, <2>2, AnsweredRoute
<1>. QED  BY <1>1, RouteInvariance, PTL

----------------------------------------------------------------------------
(* Scrapes *)

\* What has been loaded is at most what the counters show by now; an earlier
\* scrape is over, so it changes no more, and what the later one loads after
\* its arrival is at least as much.
LoadedPast ==
    \A r \in Req : scrape[r].forwarded <= forwarded /\ scrape[r].unavailable <= unavailable
EarlierOver ==
    \A r \in Req : \A q \in earlier[r] : pc[q] = "done" /\ Scraping(r) /\ pc[r] # "idle"
LoadedInOrder ==
    \A r \in Req : \A q \in earlier[r] :
        /\ pc[r] \in {"loadUnavailable", "done"} => scrape[q].forwarded <= scrape[r].forwarded
        /\ pc[r] = "done" => scrape[q].unavailable <= scrape[r].unavailable
        /\ pc[r] \in {"loadUnavailable", "done"} => scrape[q].unavailable <= scrape[r].forwarded

ScrapeInv == LoadedPast /\ EarlierOver /\ LoadedInOrder

\* No failure is counted before its request was: the unavailable total is at most
\* the forwarded total.
LEMMA FailuresForwarded == IInv => unavailable <= forwarded
<1> SUFFICES ASSUME IInv PROVE unavailable <= forwarded
    OBVIOUS
<1>1. UnavailableSet \subseteq ForwardSet
  <2> SUFFICES ASSUME NEW r \in Req, Refused(r) \/ pc[r] = "refuse" PROVE Forwarding(r)
    BY DEF UnavailableSet, ForwardSet
  <2>. QED  BY DEF Refused, Forwarding, IInv, Local, ReplyFollows, OnRoute, Proxying, Inside, Over
<1>2. Cardinality(UnavailableSet) <= Cardinality(ForwardSet)
    BY <1>1, SetsFinite, FS_Subset
<1>. QED  BY <1>2 DEF IInv, TotalsExact, UnavailableSet, ForwardSet

\* The totals never go down.
LEMMA TotalsGrow ==
    ASSUME TypeOK, NEW r \in Req, Step(r)
    PROVE  /\ forwarded <= forwarded' /\ unavailable <= unavailable'
           /\ forwarded' \in Nat /\ unavailable' \in Nat
<1> USE DEF TypeOK, counters
<1>1. CASE AddForwarded(r) \/ AddUnavailable(r) \/ AddInflight(r) \/ Leave(r)
    BY <1>1 DEF AddForwarded, AddUnavailable, ErrorStep, AddInflight, Leave
<1>2. CASE QuietStep(r)
    BY <1>2 DEF QuietStep, Arrive, ServeHTTP, LoadInflight, LoadForwarded, LoadUnavailable,
        attestation, ErrorHandler, WriteUnavailable, ErrorStep, Transport, Send, DialFails,
        UploadFails, ConnectionLost, Answer, StreamEnds, StreamBreaks,
        ContextEnds, GiveUp, ProxyStep, Timeout, Environment, Stall, Resume, Disconnect,
        NoticeDisconnect, ClientStep, EndContext
<1>. QED  BY <1>1, <1>2 DEF Step, QuietStep, HandlerStep

\* A step that is neither an arrival nor a load leaves all scrapes alone, and
\* does not end one.
LEMMA ScrapesAlone ==
    ASSUME TypeOK, Local, NEW r \in Req, Step(r),
           ~\E s \in Shapes : Arrive(r, s),
           ~(LoadInflight(r) \/ LoadForwarded(r) \/ LoadUnavailable(r))
    PROVE  /\ scrape' = scrape /\ earlier' = earlier /\ req' = req
           /\ \A q \in Req \ {r} : pc'[q] = pc[q]
           /\ pc[r] = "done" => pc'[r] = "done"
           /\ pc'[r] = "idle" => pc[r] = "idle"
           /\ Scraping(r) /\ pc'[r] \in {"loadUnavailable", "done"} => pc'[r] = pc[r]
<1> USE DEF TypeOK, Local, OnRoute, Scraping, Inside, Loading, Goto, history
<1>1. CASE ServeHTTP(r)
    BY <1>1 DEF ServeHTTP
<1>2. CASE AddInflight(r) \/ AddForwarded(r) \/ Leave(r) \/ attestation(r)
    BY <1>2 DEF AddInflight, AddForwarded, Leave, attestation
<1>5. CASE ErrorHandler(r) \/ AddUnavailable(r) \/ WriteUnavailable(r)
    BY <1>5 DEF ErrorHandler, AddUnavailable, WriteUnavailable, ErrorStep
<1>3. CASE Transport(r) \/ ContextEnds(r)
    BY <1>3 DEF Transport, Send, DialFails, UploadFails, ConnectionLost, Answer, StreamEnds, StreamBreaks,
        ContextEnds, GiveUp, ProxyStep
<1>4. CASE Environment(r) \/ Timeout(r)
    BY <1>4 DEF Environment, Stall, Resume, Disconnect, NoticeDisconnect, Timeout, ClientStep,
        EndContext
<1>. QED  BY <1>1, <1>2, <1>3, <1>4, <1>5 DEF Step, HandlerStep

\* Every step keeps the facts about scrapes.
LEMMA ScrapeStep ==
    ASSUME TypeOK, Local, unavailable <= forwarded, ScrapeInv, NEW r \in Req, Step(r)
    PROVE  ScrapeInv'
<1> USE DEF TypeOK, ScrapeInv, LoadedPast, EarlierOver, LoadedInOrder
<1>1. forwarded <= forwarded' /\ unavailable <= unavailable'
    BY TotalsGrow
<1>2. /\ forwarded \in Nat /\ forwarded' \in Nat /\ unavailable \in Nat /\ unavailable' \in Nat
      /\ \A q \in Req : scrape[q].forwarded \in Nat /\ scrape[q].unavailable \in Nat
    <2>1. forwarded' \in Nat /\ unavailable' \in Nat
      BY TotalsGrow
    <2>. QED  BY <2>1
<1>3. CASE \E s \in Shapes : Arrive(r, s)
  <2>1. PICK s \in Shapes : Arrive(r, s)
    BY <1>3
  <2>2. /\ scrape' = scrape /\ pc[r] = "idle" /\ pc'[r] = "serve"
        /\ \A q \in Req \ {r} : pc'[q] = pc[q] /\ req'[q] = req[q] /\ earlier'[q] = earlier[q]
        /\ req'[r] = s
        /\ \A q \in earlier'[r] : q \in Req /\ pc[q] = "done" /\ Routes[s].do = "metrics"
    BY <2>1 DEF Arrive, Goto
  <2>3. LoadedPast'
    BY <1>1, <1>2, <2>2
  <2>4. EarlierOver'
    <3> SUFFICES ASSUME NEW p \in Req, NEW q \in earlier'[p]
                 PROVE  pc'[q] = "done" /\ Routes[req'[p]].do = "metrics" /\ pc'[p] # "idle"
      BY DEF Scraping, Routes
    <3>1. CASE p = r
      BY <2>2, <3>1
    <3>2. CASE p # r
      BY <2>2, <3>2 DEF Scraping
    <3>. QED  BY <3>1, <3>2
  <2>5. LoadedInOrder'
    BY <2>2
  <2>. QED  BY <2>3, <2>4, <2>5
<1>4. CASE LoadInflight(r) \/ LoadForwarded(r) \/ LoadUnavailable(r)
  <2>1. /\ earlier' = earlier /\ req' = req
        /\ \A q \in Req \ {r} : pc'[q] = pc[q] /\ scrape'[q] = scrape[q]
        /\ pc[r] \in {"loadInflight", "loadForwarded", "loadUnavailable"} /\ pc'[r] # "idle"
        /\ forwarded' = forwarded /\ unavailable' = unavailable
    BY <1>4 DEF LoadInflight, LoadForwarded, LoadUnavailable, Goto, history, counters
  <2>2. \/ /\ pc[r] = "loadInflight" /\ pc'[r] = "loadForwarded"
           /\ scrape'[r].forwarded = scrape[r].forwarded
           /\ scrape'[r].unavailable = scrape[r].unavailable
        \/ /\ pc[r] = "loadForwarded" /\ pc'[r] = "loadUnavailable"
           /\ scrape'[r].forwarded = forwarded
           /\ scrape'[r].unavailable = scrape[r].unavailable
        \/ /\ pc[r] = "loadUnavailable" /\ pc'[r] = "done"
           /\ scrape'[r].forwarded = scrape[r].forwarded
           /\ scrape'[r].unavailable = unavailable
    BY <1>4 DEF LoadInflight, LoadForwarded, LoadUnavailable, Goto
  <2>3. LoadedPast'
    BY <1>2, <2>1, <2>2
  <2>4. EarlierOver'
    BY <2>1 DEF Scraping
  <2>5. LoadedInOrder'
    <3> SUFFICES ASSUME NEW p \in Req, NEW q \in earlier[p]
                 PROVE  /\ pc'[p] \in {"loadUnavailable", "done"} =>
                             scrape'[q].forwarded <= scrape'[p].forwarded
                        /\ pc'[p] = "done" => scrape'[q].unavailable <= scrape'[p].unavailable
                        /\ pc'[p] \in {"loadUnavailable", "done"} =>
                             scrape'[q].unavailable <= scrape'[p].forwarded
      BY <2>1
    <3>1. q \in Req /\ q # r /\ scrape'[q] = scrape[q]
      BY <2>1
    <3>2. CASE p = r
      BY <1>2, <2>2, <3>1, <3>2
    <3>3. CASE p # r
      BY <2>1, <3>1, <3>3
    <3>. QED  BY <3>2, <3>3
  <2>. QED  BY <2>3, <2>4, <2>5
<1>5. CASE /\ ~\E s \in Shapes : Arrive(r, s)
           /\ ~(LoadInflight(r) \/ LoadForwarded(r) \/ LoadUnavailable(r))
  <2>1. /\ scrape' = scrape /\ earlier' = earlier /\ req' = req
        /\ \A q \in Req \ {r} : pc'[q] = pc[q]
        /\ pc[r] = "done" => pc'[r] = "done"
        /\ pc'[r] = "idle" => pc[r] = "idle"
        /\ Scraping(r) /\ pc'[r] \in {"loadUnavailable", "done"} => pc'[r] = pc[r]
    BY <1>5, ScrapesAlone
  <2>2. LoadedPast'
    BY <1>1, <1>2, <2>1
  <2>3. EarlierOver'
    BY <2>1 DEF Scraping
  <2>4. LoadedInOrder'
    BY <2>1
  <2>. QED  BY <2>2, <2>3, <2>4
<1>. QED  BY <1>3, <1>4, <1>5

\* A scrape that starts after another has ended never shows a smaller total, nor
\* fewer forwards than the other showed failures.
THEOREM ScrapesNeverFall == Spec => []ScrapesMonotone
<1>1. Init => ScrapeInv
    BY DEF Init, ScrapeInv, LoadedPast, EarlierOver, LoadedInOrder, NoLoad
<1>2. IInv /\ ScrapeInv /\ [Next]_vars => ScrapeInv'
  <2> SUFFICES ASSUME IInv, ScrapeInv, [Next]_vars PROVE ScrapeInv'
    OBVIOUS
  <2>1. CASE UNCHANGED vars
    BY <2>1 DEF vars, ScrapeInv, LoadedPast, EarlierOver, LoadedInOrder, Scraping
  <2>2. CASE \E r \in Req : Step(r)
    BY <2>2, ScrapeStep, FailuresForwarded DEF IInv
  <2>. QED  BY <2>1, <2>2 DEF Next, Step, AllOver
<1>3. ScrapeInv => ScrapesMonotone
    BY DEF ScrapeInv, LoadedInOrder, ScrapesMonotone
<1>. QED  BY <1>1, <1>2, <1>3, InitIInv, NextIInv, PTL DEF Spec
=============================================================================
