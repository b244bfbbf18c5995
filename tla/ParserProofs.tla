---------------------------- MODULE ParserProofs ----------------------------
(***************************************************************************)
(* Proofs about Parser, for any tokens, scenarios and cap on nesting.      *)
(*                                                                         *)
(* The argument: a step replaces the top frame by a list of calls, so each *)
(* of the two counts changes by what is in the list less what was on top.  *)
(* Most lists have no counted frame (Plain); the others put one there in   *)
(* the step that counts, and it is gone in the step that counts back.      *)
(***************************************************************************)
EXTENDS Parser, FiniteSetTheorems, FunctionTheorems, TLAPS

-----------------------------------------------------------------------------
(* Stacks, and counting the frames on them.                                *)

(* The frames that are counted.                                            *)
Special == {"leave", "block", "fields"}

(* A frame has a name.                                                     *)
IsFrame(x) == "f" \in DOMAIN x

(* A sequence of frames.                                                   *)
Frameful(s) == (\E S : s \in Seq(S)) /\ \A i \in 1 .. Len(s) : IsFrame(s[i])

(* Calls none of which is counted.                                         *)
Plain(s) == Frameful(s) /\ \A i \in 1 .. Len(s) : s[i].f \notin Special

(* How many frames of s have one of the names.                             *)
Count(s, names) == Cardinality({i \in DOMAIN s : s[i].f \in names})

(* What is used of a concatenation.                                        *)
LEMMA Concat ==
  ASSUME NEW s, NEW t, \E S : s \in Seq(S), \E T : t \in Seq(T)
  PROVE  /\ \E U : s \o t \in Seq(U)
         /\ Len(s) \in Nat /\ Len(t) \in Nat
         /\ DOMAIN s = 1 .. Len(s) /\ DOMAIN t = 1 .. Len(t)
         /\ Len(s \o t) = Len(s) + Len(t) /\ DOMAIN (s \o t) = 1 .. Len(s) + Len(t)
         /\ \A i \in 1 .. Len(s) + Len(t) : (s \o t)[i] = IF i <= Len(s) THEN s[i] ELSE t[i - Len(s)]
<1>1. PICK S : s \in Seq(S)
  OBVIOUS
<1>2. PICK T : t \in Seq(T)
  OBVIOUS
<1> DEFINE U == S \union T
<1>3. s \in Seq(U) /\ t \in Seq(U)
  BY <1>1, <1>2
<1> HIDE DEF U
<1>4. s \o t \in Seq(U)
  BY <1>3
<1>5. Len(s) \in Nat /\ Len(t) \in Nat /\ DOMAIN s = 1 .. Len(s) /\ DOMAIN t = 1 .. Len(t)
  BY <1>3
<1>6. Len(s \o t) = Len(s) + Len(t) /\ DOMAIN (s \o t) = 1 .. Len(s) + Len(t)
  BY <1>3, <1>4
<1>7. \A i \in 1 .. Len(s) + Len(t) : (s \o t)[i] = IF i <= Len(s) THEN s[i] ELSE t[i - Len(s)]
  BY <1>3
<1> QED BY <1>4, <1>5, <1>6, <1>7

(* Calls after calls are calls.                                            *)
LEMMA ConcatFrameful ==
  ASSUME NEW s, NEW t, Frameful(s), Frameful(t)
  PROVE  Frameful(s \o t)
<1>1. /\ \E U : s \o t \in Seq(U)
      /\ Len(s) \in Nat /\ Len(t) \in Nat
      /\ Len(s \o t) = Len(s) + Len(t)
      /\ \A i \in 1 .. Len(s) + Len(t) : (s \o t)[i] = IF i <= Len(s) THEN s[i] ELSE t[i - Len(s)]
  BY Concat DEF Frameful
<1>2. ASSUME NEW i \in 1 .. Len(s) + Len(t) PROVE IsFrame((s \o t)[i])
  <2>1. CASE i <= Len(s)
    BY <1>1, <2>1 DEF Frameful
  <2>2. CASE ~ (i <= Len(s))
    <3>1. i - Len(s) \in 1 .. Len(t)
      BY <1>1, <2>2
    <3> QED BY <1>1, <2>2, <3>1 DEF Frameful
  <2> QED BY <2>1, <2>2
<1> QED BY <1>1, <1>2 DEF Frameful

(* The count is a natural number.                                          *)
LEMMA CountIs ==
  ASSUME NEW s, Frameful(s), NEW names
  PROVE  /\ IsFiniteSet({i \in DOMAIN s : s[i].f \in names})
         /\ Count(s, names) \in Nat
<1>1. DOMAIN s = 1 .. Len(s) /\ Len(s) \in Nat
  BY DEF Frameful
<1>2. IsFiniteSet(1 .. Len(s))
  BY <1>1, FS_Interval
<1> DEFINE A == {i \in DOMAIN s : s[i].f \in names}
<1>3. A \subseteq 1 .. Len(s)
  BY <1>1
<1> HIDE DEF A
<1>4. IsFiniteSet(A)
  BY <1>2, <1>3, FS_Subset
<1>5. Cardinality(A) \in Nat
  BY <1>4, FS_CardinalityType
<1> QED BY <1>4, <1>5 DEF Count, A

(* Frames are counted list by list.                                        *)
LEMMA CountConcat ==
  ASSUME NEW s, NEW t, Frameful(s), Frameful(t), NEW names
  PROVE  Count(s \o t, names) = Count(s, names) + Count(t, names)
<1> DEFINE m == Len(s)
           n == Len(t)
           u == s \o t
           A == {i \in DOMAIN s : s[i].f \in names}
           B == {i \in DOMAIN t : t[i].f \in names}
           C == {i + m : i \in B}
<1>1. /\ m \in Nat /\ n \in Nat
      /\ DOMAIN s = 1 .. m /\ DOMAIN t = 1 .. n /\ DOMAIN u = 1 .. m + n
      /\ \A i \in 1 .. m + n : u[i] = IF i <= m THEN s[i] ELSE t[i - m]
  BY Concat DEF Frameful
<1>2. IsFiniteSet(A) /\ IsFiniteSet(B)
  BY CountIs
<1>3. \A i : i \in A <=> i \in 1 .. m /\ s[i].f \in names
  BY <1>1
<1>4. \A i : i \in B <=> i \in 1 .. n /\ t[i].f \in names
  BY <1>1
<1> DEFINE D == {i \in DOMAIN u : u[i].f \in names}
<1>5. D = A \union C
  <2>0. \A i : i \in D <=> i \in 1 .. m + n /\ u[i].f \in names
    BY <1>1
  <2>1. \A i : i \in C <=> \E j \in B : i = j + m
    OBVIOUS
  <2> HIDE DEF u, m, n, A, B, C, D
  <2>2. ASSUME NEW i \in D PROVE i \in A \union C
    <3>1. CASE i <= m
      BY <1>1, <1>3, <2>0, <3>1
    <3>2. CASE ~ (i <= m)
      <4>1. i - m \in 1 .. n /\ u[i] = t[i - m] /\ i = (i - m) + m
        BY <1>1, <2>0, <3>2
      <4>2. i - m \in B
        BY <1>4, <2>0, <4>1
      <4> QED BY <2>1, <4>1, <4>2
    <3> QED BY <3>1, <3>2
  <2>3. ASSUME NEW i \in A PROVE i \in D
    BY <1>1, <1>3, <2>0
  <2>4. ASSUME NEW i \in C PROVE i \in D
    <3>1. PICK j \in B : i = j + m
      BY <2>1
    <3>2. j \in 1 .. n /\ t[j].f \in names
      BY <1>4
    <3>3. i \in 1 .. m + n /\ ~ (i <= m) /\ i - m = j
      BY <1>1, <3>1, <3>2
    <3>4. u[i] = t[j]
      BY <1>1, <3>3
    <3> QED BY <2>0, <3>2, <3>3, <3>4
  <2> QED BY <2>2, <2>3, <2>4
<1>6. A \cap C = {}
  <2>1. \A i \in A : i <= m
    BY <1>1, <1>3
  <2>2. \A i \in C : i > m
    <3> SUFFICES ASSUME NEW j \in B PROVE j + m > m
      OBVIOUS
    <3>1. j \in 1 .. n
      BY <1>4
    <3> QED BY <1>1, <3>1
  <2>3. \A i \in A : i \in Int
    BY <1>1, <1>3
  <2> HIDE DEF A, C, m
  <2> QED BY <1>1, <2>1, <2>2, <2>3
<1>7. ExistsBijection(B, C)
  <2> DEFINE g == [i \in B |-> i + m]
  <2>1. g \in [B -> C]
    OBVIOUS
  <2>2. \A x, y \in B : x + m = y + m => x = y
    BY <1>1, <1>4
  <2>3. \A z \in C : \E x \in B : g[x] = z
    OBVIOUS
  <2>4. \A x \in B : g[x] = x + m
    OBVIOUS
  <2> HIDE DEF B, C, g, m
  <2>5. \A x, y \in B : g[x] = g[y] => x = y
    BY <2>2, <2>4
  <2>6. g \in Injection(B, C)
    BY <2>1, <2>5 DEF Injection, IsInjective
  <2>7. g \in Surjection(B, C)
    BY <2>1, <2>3 DEF Surjection
  <2> QED BY <2>6, <2>7 DEF ExistsBijection, Bijection
<1>8. Count(u, names) = Cardinality(D) /\ Count(s, names) = Cardinality(A) /\ Count(t, names) = Cardinality(B)
  BY DEF Count
<1> HIDE DEF A, B, C, D, u, m, n
<1>9. IsFiniteSet(C) /\ Cardinality(C) = Cardinality(B)
  BY <1>2, <1>7, FS_Bijection
<1>10. Cardinality(A \union C) = Cardinality(A) + Cardinality(C) - Cardinality({})
  BY <1>2, <1>6, <1>9, FS_Union
<1>11. Cardinality({}) = 0 /\ Cardinality(A) \in Nat /\ Cardinality(C) \in Nat
  BY <1>2, <1>9, FS_EmptySet, FS_CardinalityType
<1>12. Cardinality(D) = Cardinality(A) + Cardinality(B)
  BY <1>5, <1>9, <1>10, <1>11
<1> QED BY <1>8, <1>12 DEF u

(* A plain list has none of the frames that are counted.                   *)
LEMMA CountPlain ==
  ASSUME NEW s, Plain(s), NEW names, names \subseteq Special
  PROVE  Count(s, names) = 0
<1>1. {i \in DOMAIN s : s[i].f \in names} = {}
  <2>1. DOMAIN s = 1 .. Len(s)
    BY DEF Plain, Frameful
  <2> QED BY <2>1 DEF Plain
<1> QED BY <1>1, FS_EmptySet DEF Count

(* The count of a single frame.                                            *)
LEMMA CountOne ==
  ASSUME NEW x, IsFrame(x), NEW names
  PROVE  Frameful(<<x>>) /\ Count(<<x>>, names) = IF x.f \in names THEN 1 ELSE 0
<1>1. <<x>> \in Seq({x}) /\ Len(<<x>>) = 1 /\ DOMAIN <<x>> = {1} /\ <<x>>[1] = x
  OBVIOUS
<1>2. Frameful(<<x>>)
  <2> DEFINE t == <<x>>
  <2>1. t \in Seq({x}) /\ Len(t) = 1 /\ t[1] = x
    BY <1>1
  <2> HIDE DEF t
  <2>2. \A i \in 1 .. Len(t) : i = 1
    BY <2>1
  <2>3. \E S : t \in Seq(S)
    BY <2>1
  <2>4. \A i \in 1 .. Len(t) : IsFrame(t[i])
    BY <2>1, <2>2
  <2>5. Frameful(t)
    BY <2>3, <2>4 DEF Frameful
  <2> QED BY <2>5 DEF t
<1>3. CASE x.f \in names
  <2>1. {i \in DOMAIN <<x>> : <<x>>[i].f \in names} = {1}
    BY <1>1, <1>3
  <2>2. Cardinality({1}) = 1
    BY FS_Singleton
  <2> QED BY <1>2, <1>3, <2>1, <2>2 DEF Count
<1>4. CASE x.f \notin names
  <2>1. {i \in DOMAIN <<x>> : <<x>>[i].f \in names} = {}
    BY <1>1, <1>4
  <2> QED BY <1>2, <1>4, <2>1, FS_EmptySet DEF Count
<1> QED BY <1>3, <1>4

(* The count of a stack is that of its top and of what is below.           *)
LEMMA HeadTail ==
  ASSUME NEW s, Frameful(s), s # <<>>, NEW names
  PROVE  /\ IsFrame(Head(s)) /\ Frameful(Tail(s))
         /\ Count(s, names) = (IF Head(s).f \in names THEN 1 ELSE 0) + Count(Tail(s), names)
<1>1. PICK S : s \in Seq(S)
  BY DEF Frameful
<1>2. /\ Tail(s) \in Seq(S) /\ Len(s) \in Nat /\ Len(s) >= 1 /\ Len(Tail(s)) = Len(s) - 1
      /\ Head(s) = s[1] /\ \A i \in 1 .. Len(s) - 1 : Tail(s)[i] = s[i + 1]
  BY <1>1
<1>3. IsFrame(Head(s))
  BY <1>2 DEF Frameful
<1>4. Frameful(Tail(s))
  BY <1>2 DEF Frameful
<1>5. s = <<Head(s)>> \o Tail(s)
  BY <1>1
<1>6. Count(<<Head(s)>> \o Tail(s), names) = Count(<<Head(s)>>, names) + Count(Tail(s), names)
  BY <1>3, <1>4, CountOne, CountConcat
<1> QED BY <1>3, <1>4, <1>5, <1>6, CountOne

-----------------------------------------------------------------------------
(* The invariant, and steps that leave the counters alone.                 *)

(* The frames of blocks and records.                                       *)
ScopeFrames == {"block", "fields"}

(* What is needed of a typedef table.                                      *)
TableOf(t) == "starts" \in DOMAIN t /\ "names" \in DOMAIN t /\ \E S : t.starts \in Seq(S)

(* The inductive invariant.                                                *)
CallsInv ==
  /\ Frameful(stack)
  /\ TableOf(typedefs)
  /\ depth = Count(stack, {"leave"}) /\ depth <= MaxNesting
  /\ Len(typedefs.starts) = 1 + Count(stack, ScopeFrames)

(* No call is a plain list.                                                *)
LEMMA PlainNone == Plain(<<>>)
<1>1. <<>> \in Seq({}) /\ Len(<<>>) = 0
  OBVIOUS
<1>2. \E S : <<>> \in Seq(S)
  BY <1>1
<1> DEFINE e == <<>>
<1>3. Len(e) = 0 /\ \E S : e \in Seq(S)
  BY <1>1, <1>2
<1> HIDE DEF e
<1>4. Plain(e)
  BY <1>3 DEF Plain, Frameful
<1> QED BY <1>4 DEF e

(* One plain call.                                                         *)
LEMMA PlainOne ==
  ASSUME NEW x, IsFrame(x), x.f \notin Special
  PROVE  Plain(<<x>>)
<1>1. Frameful(<<x>>)
  BY CountOne
<1> DEFINE t == <<x>>
<1>2. Len(t) = 1 /\ t[1] = x
  OBVIOUS
<1> HIDE DEF t
<1>3. \A i \in 1 .. Len(t) : i = 1
  BY <1>2
<1>4. \A i \in 1 .. Len(t) : t[i].f \notin Special
  BY <1>2, <1>3
<1> QED BY <1>1, <1>4 DEF Plain, t

(* Plain calls after plain calls.                                          *)
LEMMA PlainConcat ==
  ASSUME NEW s, NEW t, Plain(s), Plain(t)
  PROVE  Plain(s \o t)
<1>1. Frameful(s \o t)
  BY ConcatFrameful DEF Plain
<1>2. /\ Len(s) \in Nat /\ Len(t) \in Nat
      /\ Len(s \o t) = Len(s) + Len(t)
      /\ \A i \in 1 .. Len(s) + Len(t) : (s \o t)[i] = IF i <= Len(s) THEN s[i] ELSE t[i - Len(s)]
  BY Concat DEF Plain, Frameful
<1>3. ASSUME NEW i \in 1 .. Len(s) + Len(t) PROVE (s \o t)[i].f \notin Special
  <2>1. CASE i <= Len(s)
    BY <1>2, <2>1 DEF Plain
  <2>2. CASE ~ (i <= Len(s))
    <3>1. i - Len(s) \in 1 .. Len(t)
      BY <1>2, <2>2
    <3> QED BY <1>2, <2>2, <3>1 DEF Plain
  <2> QED BY <2>1, <2>2
<1> QED BY <1>1, <1>2, <1>3 DEF Plain

(* Two plain calls.                                                        *)
LEMMA PlainTwo ==
  ASSUME NEW x, NEW y, IsFrame(x), x.f \notin Special, IsFrame(y), y.f \notin Special
  PROVE  Plain(<<x, y>>)
<1> DEFINE t == <<x, y>>
<1>1. t \in Seq({x, y}) /\ Len(t) = 2 /\ t[1] = x /\ t[2] = y
  OBVIOUS
<1> HIDE DEF t
<1>2. \A i \in 1 .. Len(t) : t[i] = x \/ t[i] = y
  BY <1>1
<1>3. \E S : t \in Seq(S)
  BY <1>1
<1>4. Plain(t)
  BY <1>2, <1>3 DEF Plain, Frameful
<1> QED BY <1>4 DEF t

(* Three plain calls.                                                      *)
LEMMA PlainThree ==
  ASSUME NEW x, NEW y, NEW z, IsFrame(x), x.f \notin Special, IsFrame(y), y.f \notin Special,
         IsFrame(z), z.f \notin Special
  PROVE  Plain(<<x, y, z>>)
<1>1. Plain(<<x>>) /\ Plain(<<y, z>>)
  BY PlainOne, PlainTwo
<1>2. <<x, y, z>> = <<x>> \o <<y, z>>
  OBVIOUS
<1> QED BY <1>1, <1>2, PlainConcat

(* Four plain calls.                                                       *)
LEMMA PlainFour ==
  ASSUME NEW x, NEW y, NEW z, NEW w, IsFrame(x), x.f \notin Special, IsFrame(y), y.f \notin Special,
         IsFrame(z), z.f \notin Special, IsFrame(w), w.f \notin Special
  PROVE  Plain(<<x, y, z, w>>)
<1>1. Plain(<<x, y>>) /\ Plain(<<z, w>>)
  BY PlainTwo
<1>2. <<x, y, z, w>> = <<x, y>> \o <<z, w>>
  OBVIOUS
<1> QED BY <1>1, <1>2, PlainConcat

(* What a step makes of the counts.                                         *)
LEMMA Spliced ==
  ASSUME Frameful(stack), stack # <<>>, NEW calls, Frameful(calls),
         stack' = calls \o Tail(stack), NEW names
  PROVE  /\ Frameful(stack')
         /\ Count(stack', names) + (IF Top \in names THEN 1 ELSE 0)
              = Count(calls, names) + Count(stack, names)
         /\ Count(stack', names) \in Nat /\ Count(stack, names) \in Nat /\ Count(calls, names) \in Nat
<1> DEFINE t == Tail(stack)
           h == IF Head(stack).f \in names THEN 1 ELSE 0
<1>1. Frameful(t) /\ Count(stack, names) = h + Count(t, names)
  BY HeadTail
<1>2. Frameful(calls \o t) /\ Count(calls \o t, names) = Count(calls, names) + Count(t, names)
  BY <1>1, ConcatFrameful, CountConcat
<1>3. Count(t, names) \in Nat /\ Count(calls, names) \in Nat /\ h \in {0, 1}
  BY <1>1, CountIs
<1>4. Top = Head(stack).f
  BY DEF Top
<1> DEFINE ct == Count(t, names)
           cc == Count(calls, names)
           ca == Count(stack', names)
           cs == Count(stack, names)
<1>5. ca = cc + ct /\ cs = h + ct /\ ct \in Nat /\ cc \in Nat
  BY <1>1, <1>2, <1>3
<1>6. (IF Top \in names THEN 1 ELSE 0) = h
  BY <1>4
<1> HIDE DEF ct, cc, ca, cs, h
<1>7. ca + h = cc + cs /\ ca \in Nat /\ cs \in Nat
  BY <1>3, <1>5
<1> QED BY <1>2, <1>5, <1>6, <1>7 DEF ca, cs, cc

(* An ordinary step: no frame that is counted comes or goes.                *)
Ordinary ==
  /\ stack # <<>> /\ Top \notin Special
  /\ \E calls : Plain(calls) /\ stack' = calls \o Tail(stack)
  /\ depth' = depth
  /\ TableOf(typedefs') /\ Len(typedefs'.starts) = Len(typedefs.starts)

(* An ordinary step preserves the invariant.                               *)
LEMMA OrdinaryKeeps ==
  ASSUME CallsInv, Ordinary
  PROVE  CallsInv'
<1>1. PICK calls : Plain(calls) /\ stack' = calls \o Tail(stack)
  BY DEF Ordinary
<1>2. Frameful(calls) /\ Count(calls, {"leave"}) = 0 /\ Count(calls, ScopeFrames) = 0
  BY <1>1, CountPlain DEF Plain, Special, ScopeFrames
<1>3. stack # <<>> /\ Frameful(stack) /\ Top \notin {"leave"} /\ Top \notin ScopeFrames
  BY DEF Ordinary, CallsInv, Special, ScopeFrames
<1>4. Frameful(stack')
  BY <1>1, <1>2, <1>3, Spliced
<1>5. Count(stack', {"leave"}) = Count(stack, {"leave"})
  BY <1>1, <1>2, <1>3, Spliced
<1>6. Count(stack', ScopeFrames) = Count(stack, ScopeFrames)
  BY <1>1, <1>2, <1>3, Spliced
<1>7. CallsInv' <=> /\ Frameful(stack')
                    /\ TableOf(typedefs')
                    /\ depth' = Count(stack', {"leave"}) /\ depth' <= MaxNesting
                    /\ Len(typedefs'.starts) = 1 + Count(stack', ScopeFrames)
  BY DEF CallsInv, Frameful, TableOf, Count, ScopeFrames, IsFrame
<1> QED BY <1>4, <1>5, <1>6, <1>7 DEF CallsInv, Ordinary

(* The same, its parts taken one by one.                                   *)
LEMMA OrdinaryStep ==
  ASSUME CallsInv, stack # <<>>, Top \notin Special, NEW calls, Plain(calls),
         stack' = calls \o Tail(stack), UNCHANGED <<depth, typedefs>>
  PROVE  CallsInv'
<1>1. Ordinary
  BY DEF Ordinary, CallsInv
<1> QED BY <1>1, OrdinaryKeeps

-----------------------------------------------------------------------------
(* Steps that count.                                                       *)

(* A step that keeps the balance of both counts preserves the invariant.   *)
LEMMA AnyStep ==
  ASSUME CallsInv, stack # <<>>, NEW calls, Frameful(calls), stack' = calls \o Tail(stack),
         depth' \in Int, depth' <= MaxNesting, TableOf(typedefs'),
         depth' + (IF Top \in {"leave"} THEN 1 ELSE 0) = depth + Count(calls, {"leave"}),
         Len(typedefs'.starts) + (IF Top \in ScopeFrames THEN 1 ELSE 0)
           = Len(typedefs.starts) + Count(calls, ScopeFrames)
  PROVE  CallsInv'
<1> DEFINE a == Count(stack', {"leave"})
           b == Count(stack, {"leave"})
           c == Count(calls, {"leave"})
           d == IF Top \in {"leave"} THEN 1 ELSE 0
           p == Count(stack', ScopeFrames)
           q == Count(stack, ScopeFrames)
           r == Count(calls, ScopeFrames)
           e == IF Top \in ScopeFrames THEN 1 ELSE 0
           k == Len(typedefs.starts)
           l == Len(typedefs'.starts)
<1>1. Frameful(stack)
  BY DEF CallsInv
<1>2. Frameful(stack') /\ a + d = c + b /\ a \in Nat /\ b \in Nat /\ c \in Nat
  BY <1>1, Spliced
<1>3. p + e = r + q /\ p \in Nat /\ q \in Nat /\ r \in Nat
  BY <1>1, Spliced
<1>4. d \in {0, 1} /\ e \in {0, 1}
  OBVIOUS
<1>5. depth = b /\ k = 1 + q /\ depth' + d = depth + c /\ l + e = k + r
  BY DEF CallsInv
<1>6. l \in Nat
  BY DEF TableOf
<1>10. depth' \in Int
  OBVIOUS
<1> HIDE DEF a, b, c, d, p, q, r, e, k, l
<1>7. depth' = a
  <2>1. depth = b /\ depth' + d = depth + c
    BY <1>5
  <2>2. depth' + d = a + d
    BY <1>2, <2>1
  <2>3. a \in Int /\ d \in Int
    BY <1>2, <1>4
  <2>4. \A x, y, z \in Int : x + z = y + z => x = y
    OBVIOUS
  <2> QED BY <1>10, <2>2, <2>3, <2>4
<1>8. l = 1 + p
  BY <1>3, <1>4, <1>5, <1>6
<1>9. CallsInv' <=> /\ Frameful(stack')
                    /\ TableOf(typedefs')
                    /\ depth' = Count(stack', {"leave"}) /\ depth' <= MaxNesting
                    /\ Len(typedefs'.starts) = 1 + Count(stack', ScopeFrames)
  BY DEF CallsInv, Frameful, TableOf, Count, ScopeFrames, IsFrame
<1> QED BY <1>2, <1>7, <1>8, <1>9 DEF a, l, p

(* What Nest does to the stack and the counters.                           *)
Nests(calls, after, refused) ==
  /\ typedefs' = typedefs
  /\ \/ depth < MaxNesting /\ depth' = depth + 1 /\ stack' = (calls \o <<Leave>> \o after) \o Tail(stack)
     \/ depth' = depth /\ stack' = refused \o Tail(stack)

(* Where the count goes up, a frame that takes it back is put below the    *)
(* calls; where it is refused, neither is done.                            *)
LEMMA NestStep ==
  ASSUME CallsInv, stack # <<>>, Top \notin Special,
         NEW calls, Plain(calls), NEW after, Plain(after), NEW refused, Plain(refused),
         Nests(calls, after, refused)
  PROVE  CallsInv'
<1>1. CASE depth' = depth /\ stack' = refused \o Tail(stack)
  BY <1>1, OrdinaryStep DEF Nests
<1>2. CASE depth < MaxNesting /\ depth' = depth + 1 /\ stack' = (calls \o <<Leave>> \o after) \o Tail(stack)
  <2>1. Frameful(<<Leave>>) /\ Count(<<Leave>>, {"leave"}) = 1 /\ Count(<<Leave>>, ScopeFrames) = 0
    <3>1. IsFrame(Leave) /\ Leave.f = "leave"
      BY DEF Leave, F, IsFrame
    <3> QED BY <3>1, CountOne DEF ScopeFrames
  <2>2. /\ Frameful(calls) /\ Count(calls, {"leave"}) = 0 /\ Count(calls, ScopeFrames) = 0
        /\ Frameful(after) /\ Count(after, {"leave"}) = 0 /\ Count(after, ScopeFrames) = 0
    BY CountPlain DEF Plain, Special, ScopeFrames
  <2> DEFINE u == calls \o <<Leave>>
             v == u \o after
  <2>3. Frameful(u) /\ Count(u, {"leave"}) = 1 /\ Count(u, ScopeFrames) = 0
    <3>1. Frameful(u) /\ Count(u, {"leave"}) = 0 + 1 /\ Count(u, ScopeFrames) = 0 + 0
      BY <2>1, <2>2, ConcatFrameful, CountConcat
    <3> HIDE DEF u
    <3> QED BY <3>1
  <2>4. Frameful(v) /\ Count(v, {"leave"}) = 1 /\ Count(v, ScopeFrames) = 0
    <3> HIDE DEF u
    <3>1. Frameful(v) /\ Count(v, {"leave"}) = 1 + 0 /\ Count(v, ScopeFrames) = 0 + 0
      BY <2>2, <2>3, ConcatFrameful, CountConcat
    <3> HIDE DEF v
    <3> QED BY <3>1
  <2>5. stack' = v \o Tail(stack)
    BY <1>2
  <2>6. depth \in Nat /\ TableOf(typedefs) /\ Len(typedefs.starts) \in Nat
    <3>1. Frameful(stack) /\ depth = Count(stack, {"leave"}) /\ TableOf(typedefs)
      BY DEF CallsInv
    <3>2. Count(stack, {"leave"}) \in Nat
      BY <3>1, CountIs
    <3>3. \E S : typedefs.starts \in Seq(S)
      BY <3>1 DEF TableOf
    <3>4. Len(typedefs.starts) \in Nat
      BY <3>3
    <3> QED BY <3>1, <3>2, <3>4
  <2>7. depth' \in Int /\ depth' <= MaxNesting
    BY <1>2, <2>6, MaxNestingAssumption
  <2>8. TableOf(typedefs') /\ Len(typedefs'.starts) = Len(typedefs.starts)
    BY <2>6 DEF Nests
  <2>9. Top \notin {"leave"} /\ Top \notin ScopeFrames
    BY DEF Special, ScopeFrames
  <2> HIDE DEF u, v
  <2>10. depth' + (IF Top \in {"leave"} THEN 1 ELSE 0) = depth + Count(v, {"leave"})
    BY <1>2, <2>4, <2>6, <2>9
  <2>11. Len(typedefs'.starts) + (IF Top \in ScopeFrames THEN 1 ELSE 0)
            = Len(typedefs.starts) + Count(v, ScopeFrames)
    BY <2>4, <2>6, <2>8, <2>9
  <2> QED BY <2>4, <2>5, <2>7, <2>8, <2>10, <2>11, AnyStep
<1> QED BY <1>1, <1>2 DEF Nests

(* The lists of calls that have a name are plain.                          *)
LEMMA Lists ==
  /\ \A level : Plain(UpTo(level))
  /\ Plain(Expression) /\ Plain(Assignment) /\ Plain(Conditional)
  /\ Plain(TypeName) /\ Plain(EndCall) /\ Plain(Statement)
  /\ \A place : Plain(Declaration(place))
  /\ \A typedef, names : Plain(EndDeclaration(typedef, names))
  /\ Plain(Condition) /\ Plain(ForClauses)
  /\ \A keyword \in Keywords : Plain(Parts(keyword))
<1>1. ASSUME NEW level PROVE Plain(UpTo(level))
  BY PlainTwo DEF UpTo, F, Rest, IsFrame, Special
<1>2. Plain(Expression) /\ Plain(Assignment) /\ Plain(Conditional)
  BY <1>1 DEF Expression, Assignment, Conditional
<1>3. Plain(TypeName)
  BY PlainTwo DEF TypeName, Specifiers, Declarator, IsFrame, Special
<1>4. Plain(EndCall)
  BY PlainThree DEF EndCall, Expect, Build, F, IsFrame, Special
<1>5. Plain(Statement)
  BY PlainOne DEF Statement, F, IsFrame, Special
<1>6. ASSUME NEW place PROVE Plain(Declaration(place))
  BY PlainTwo DEF Declaration, Specifiers, IsFrame, Special
<1>7. ASSUME NEW typedef, NEW names PROVE Plain(EndDeclaration(typedef, names))
  BY PlainTwo DEF EndDeclaration, Expect, IsFrame, Special
<1>8. ASSUME NEW token PROVE Plain(<<Expect(token)>>)
  BY PlainOne DEF Expect, IsFrame, Special
<1>9. ASSUME NEW node PROVE Plain(<<Build(node)>>)
  BY PlainOne DEF Build, IsFrame, Special
<1>10. Plain(Condition)
  BY <1>2, <1>8, PlainConcat DEF Condition
<1>11. Plain(<<Optional(";"), Expect(";"), Optional(")"), Expect(")")>>)
  BY PlainFour DEF Optional, Expect, IsFrame, Special
<1>12. Plain(ForClauses)
  BY <1>5, <1>9, <1>11, PlainConcat DEF ForClauses
<1>13. ASSUME NEW keyword \in Keywords PROVE Plain(Parts(keyword))
  <2>1. CASE keyword = "if"
    <3>1. Plain(<<F("else")>>)
      BY PlainOne DEF F, IsFrame, Special
    <3>2. Parts(keyword) = Condition \o Statement \o <<F("else")>>
      BY <2>1 DEF Parts
    <3> QED BY <1>5, <1>10, <3>1, <3>2, PlainConcat
  <2>2. CASE keyword \in {"while", "switch"}
    <3>1. Parts(keyword) = Condition \o Statement \o <<Build(<<keyword, "">>)>>
      BY <2>2 DEF Parts
    <3> QED BY <1>5, <1>9, <1>10, <3>1, PlainConcat
  <2>3. CASE keyword = "do"
    <3>1. Plain(<<Expect(";"), Build(<<"do", "">>)>>)
      BY PlainTwo DEF Expect, Build, IsFrame, Special
    <3>2. Parts(keyword) = Statement \o <<Expect("while")>> \o Condition
                           \o <<Expect(";"), Build(<<"do", "">>)>>
      BY <2>3 DEF Parts
    <3> QED BY <1>5, <1>8, <1>10, <3>1, <3>2, PlainConcat
  <2>4. CASE keyword = "case"
    <3>1. Parts(keyword) = Expression \o <<Expect(":")>> \o Statement \o <<Build(<<"case", "">>)>>
      BY <2>4 DEF Parts
    <3> QED BY <1>2, <1>5, <1>8, <1>9, <3>1, PlainConcat
  <2>5. CASE keyword = "default"
    <3>1. Parts(keyword) = <<Expect(":")>> \o Statement \o <<Build(<<"default", "">>)>>
      BY <2>5 DEF Parts
    <3> QED BY <1>5, <1>8, <1>9, <3>1, PlainConcat
  <2>6. CASE keyword = "goto"
    <3>1. Parts(keyword) = <<F("goto")>>
      BY <2>6 DEF Parts
    <3> QED BY <3>1, PlainOne DEF F, IsFrame, Special
  <2>7. CASE keyword = "for"
    <3>1. Parts(keyword) = <<Expect("("), F("for")>>
      BY <2>7 DEF Parts
    <3> QED BY <3>1, PlainTwo DEF Expect, F, IsFrame, Special
  <2>8. CASE keyword = "return"
    <3>1. Parts(keyword) = <<Optional(";"), Expect(";"), Build(<<"return", "">>)>>
      BY <2>8 DEF Parts
    <3> QED BY <3>1, PlainThree DEF Expect, Optional, Build, IsFrame, Special
  <2>9. CASE keyword \in {"break", "continue"}
    <3>1. Parts(keyword) = <<Expect(";"), Build(<<keyword, "">>)>>
      BY <2>9 DEF Parts
    <3> QED BY <3>1, PlainTwo DEF Expect, Build, IsFrame, Special
  <2> QED BY <2>1, <2>2, <2>3, <2>4, <2>5, <2>6, <2>7, <2>8, <2>9 DEF Keywords
<1> QED BY <1>1, <1>2, <1>3, <1>4, <1>5, <1>6, <1>7, <1>10, <1>12, <1>13

-----------------------------------------------------------------------------
(* Steps that open and close scopes.                                       *)

(* What the invariant says of the two counters.                            *)
LEMMA Counted ==
  ASSUME CallsInv
  PROVE  /\ TableOf(typedefs) /\ depth \in Nat /\ depth <= MaxNesting
         /\ Len(typedefs.starts) \in Nat /\ Len(typedefs.starts) >= 1
<1>1. Frameful(stack) /\ TableOf(typedefs)
  BY DEF CallsInv
<1>2. Count(stack, {"leave"}) \in Nat /\ Count(stack, ScopeFrames) \in Nat
  BY <1>1, CountIs
<1> QED BY <1>1, <1>2 DEF CallsInv

(* Recording names opens and closes no scope.                              *)
LEMMA AllRecordedKeepsStarts ==
  ASSUME NEW table, TableOf(table), NEW names
  PROVE  TableOf(Table!AllRecorded(table, names)) /\ Table!AllRecorded(table, names).starts = table.starts
<1> DEFINE new == Table!AllRecorded(table, names)
<1>1. PICK known : new = [table EXCEPT !.names = known]
  BY DEF Table!AllRecorded
<1> HIDE DEF new
<1>2. DOMAIN new = DOMAIN table /\ new.starts = table.starts
  BY <1>1 DEF TableOf
<1> QED BY <1>2 DEF TableOf, new

(* A scope opened for a block or record.                                   *)
LEMMA OpenStep ==
  ASSUME CallsInv, stack # <<>>, Top \notin Special,
         NEW frame, IsFrame(frame), frame.f \in ScopeFrames, stack' = <<frame>> \o Tail(stack),
         depth' = depth, typedefs' = Table!ScopePushed(typedefs)
  PROVE  CallsInv'
<1>1. Frameful(<<frame>>) /\ Count(<<frame>>, ScopeFrames) = 1
  BY CountOne
<1>2. Count(<<frame>>, {"leave"}) = 0
  <2>1. frame.f \notin {"leave"}
    BY DEF ScopeFrames
  <2> QED BY <2>1, CountOne
<1>3. TableOf(typedefs) /\ depth \in Nat /\ depth <= MaxNesting
  BY Counted
<1> DEFINE starts == typedefs.starts
           now == Append(starts, Len(typedefs.names))
<1>4. PICK S : starts \in Seq(S)
  BY <1>3 DEF TableOf
<1>5. /\ now \in Seq(S \union {Len(typedefs.names)})
      /\ Len(now) = Len(starts) + 1 /\ Len(starts) \in Nat
  <2>1. starts \in Seq(S \union {Len(typedefs.names)})
    BY <1>4
  <2> QED BY <2>1
<1>6. typedefs' = [typedefs EXCEPT !.starts = now]
  BY DEF Table!ScopePushed
<1> HIDE DEF starts, now
<1>7. DOMAIN typedefs' = DOMAIN typedefs /\ typedefs'.starts = now
  BY <1>3, <1>6 DEF TableOf
<1>8. TableOf(typedefs')
  BY <1>3, <1>5, <1>7 DEF TableOf
<1>9. Top \notin {"leave"} /\ Top \notin ScopeFrames
  BY DEF Special, ScopeFrames
<1>10. /\ depth' + (IF Top \in {"leave"} THEN 1 ELSE 0) = depth + Count(<<frame>>, {"leave"})
       /\ depth' \in Int /\ depth' <= MaxNesting
  BY <1>2, <1>3, <1>9
<1>11. Len(typedefs'.starts) + (IF Top \in ScopeFrames THEN 1 ELSE 0)
         = Len(typedefs.starts) + Count(<<frame>>, ScopeFrames)
  BY <1>1, <1>5, <1>7, <1>9 DEF starts
<1> QED BY <1>1, <1>8, <1>10, <1>11, AnyStep

(* A scope closed at its end.                                              *)
LEMMA CloseStep ==
  ASSUME CallsInv, stack # <<>>, Top \in ScopeFrames,
         NEW calls, Plain(calls), stack' = calls \o Tail(stack),
         depth' = depth, typedefs' = Table!ScopePopped(typedefs)
  PROVE  CallsInv'
<1>1. Frameful(calls) /\ Count(calls, ScopeFrames) = 0 /\ Count(calls, {"leave"}) = 0
  BY CountPlain DEF Plain, Special, ScopeFrames
<1>2. /\ TableOf(typedefs) /\ depth \in Nat /\ depth <= MaxNesting
      /\ Len(typedefs.starts) >= 1
  BY Counted
<1> DEFINE starts == typedefs.starts
           now == Table!Front(starts)
<1>3. PICK S : starts \in Seq(S)
  BY <1>2 DEF TableOf
<1>4. starts # <<>> /\ Len(starts) \in Nat
  BY <1>2, <1>3
<1>5. now \in Seq(S) /\ Len(now) = Len(starts) - 1
  <2>1. now = SubSeq(starts, 1, Len(starts) - 1)
    BY DEF Table!Front
  <2> HIDE DEF now
  <2> QED BY <1>2, <1>3, <1>4, <2>1
<1>6. typedefs' = [names |-> SubSeq(typedefs.names, 1, Table!Last(starts)), starts |-> now]
  BY <1>4 DEF Table!ScopePopped
<1> HIDE DEF starts, now
<1>7. TableOf(typedefs') /\ typedefs'.starts = now
  BY <1>5, <1>6 DEF TableOf
<1>8. Top \notin {"leave"}
  BY DEF ScopeFrames
<1>9. /\ depth' + (IF Top \in {"leave"} THEN 1 ELSE 0) = depth + Count(calls, {"leave"})
      /\ depth' \in Int /\ depth' <= MaxNesting
  BY <1>1, <1>2, <1>8
<1>10. Len(typedefs'.starts) + (IF Top \in ScopeFrames THEN 1 ELSE 0)
         = Len(typedefs.starts) + Count(calls, ScopeFrames)
  BY <1>1, <1>4, <1>5, <1>7 DEF starts
<1> QED BY <1>1, <1>7, <1>9, <1>10, AnyStep

(* The loop of a block or record goes round.                               *)
LEMMA AgainStep ==
  ASSUME CallsInv, stack # <<>>, Top \in ScopeFrames,
         NEW calls, Plain(calls), NEW frame, IsFrame(frame), frame.f \in ScopeFrames,
         stack' = (calls \o <<frame>>) \o Tail(stack), UNCHANGED <<depth, typedefs>>
  PROVE  CallsInv'
<1>1. Frameful(calls) /\ Count(calls, ScopeFrames) = 0 /\ Count(calls, {"leave"}) = 0
  BY CountPlain DEF Plain, Special, ScopeFrames
<1>2. Frameful(<<frame>>) /\ Count(<<frame>>, ScopeFrames) = 1
  BY CountOne
<1>3. Count(<<frame>>, {"leave"}) = 0
  <2>1. frame.f \notin {"leave"}
    BY DEF ScopeFrames
  <2> QED BY <2>1, CountOne
<1> DEFINE u == calls \o <<frame>>
<1>4. Frameful(u) /\ Count(u, ScopeFrames) = 0 + 1 /\ Count(u, {"leave"}) = 0 + 0
  BY <1>1, <1>2, <1>3, ConcatFrameful, CountConcat
<1>5. TableOf(typedefs) /\ depth \in Nat /\ depth <= MaxNesting /\ Len(typedefs.starts) \in Nat
  BY Counted
<1>6. Top \notin {"leave"}
  BY DEF ScopeFrames
<1>7. TableOf(typedefs') /\ typedefs'.starts = typedefs.starts
  BY <1>5
<1> HIDE DEF u
<1>8. /\ depth' + (IF Top \in {"leave"} THEN 1 ELSE 0) = depth + Count(u, {"leave"})
      /\ depth' \in Int /\ depth' <= MaxNesting
  BY <1>4, <1>5, <1>6
<1>9. Len(typedefs'.starts) + (IF Top \in ScopeFrames THEN 1 ELSE 0)
         = Len(typedefs.starts) + Count(u, ScopeFrames)
  BY <1>4, <1>5, <1>7
<1>10. stack' = u \o Tail(stack)
  BY DEF u
<1> QED BY <1>4, <1>7, <1>8, <1>9, <1>10, AnyStep

(* A list of two.                                                          *)
LEMMA PairIs ==
  ASSUME NEW T, NEW a \in Seq(T), NEW b \in Seq(T), NEW c \in Seq(T),
         Len(a) = 2, Len(b) = 1, Len(c) = 1, a[1] = b[1], a[2] = c[1]
  PROVE  a = b \o c
<1>0. /\ Len(b \o c) = Len(b) + Len(c)
      /\ \A i \in 1 .. Len(b) + Len(c) : (b \o c)[i] = IF i <= Len(b) THEN b[i] ELSE c[i - Len(b)]
  BY Concat
<1>1. b \o c \in Seq(T) /\ Len(b \o c) = 2
  <2>1. b \o c \in Seq(T)
    OBVIOUS
  <2> QED BY <1>0, <2>1
<1>2. (b \o c)[1] = b[1] /\ (b \o c)[2] = c[1]
  <2>1. 1 \in 1 .. Len(b) + Len(c) /\ 2 \in 1 .. Len(b) + Len(c)
    OBVIOUS
  <2>2. (b \o c)[1] = b[1]
    BY <1>0, <2>1
  <2>3. (b \o c)[2] = c[2 - 1]
    BY <1>0, <2>1
  <2> QED BY <2>2, <2>3
<1>3. \A i \in 1 .. 2 : i = 1 \/ i = 2
  OBVIOUS
<1>4. \A i \in 1 .. 2 : a[i] = (b \o c)[i]
  BY <1>2, <1>3
<1> QED BY <1>1, <1>4

(* The last call of a list by itself.                                      *)
LEMMA SplitLast ==
  ASSUME NEW s, \E S : s \in Seq(S), NEW x, NEW y
  PROVE  s \o <<x, y>> = (s \o <<x>>) \o <<y>>
<1>1. PICK S : s \in Seq(S)
  OBVIOUS
<1> DEFINE T == S \union {x, y}
           a == <<x, y>>
           b == <<x>>
           c == <<y>>
<1>2. s \in Seq(T) /\ a \in Seq(T) /\ b \in Seq(T) /\ c \in Seq(T)
  BY <1>1
<1>3. a = b \o c
  <2>1. a \in Seq(T) /\ Len(a) = 2 /\ a[1] = x /\ a[2] = y
    BY <1>2
  <2>2. Len(b) = 1 /\ b[1] = x
    OBVIOUS
  <2>3. Len(c) = 1 /\ c[1] = y
    OBVIOUS
  <2> HIDE DEF T, a, b, c
  <2>4. a = b \o c
    BY <1>2, <2>1, <2>2, <2>3, PairIs
  <2> QED BY <2>4
<1> HIDE DEF T, a, b, c
<1>4. s \o (b \o c) = (s \o b) \o c
  BY <1>2
<1> QED BY <1>3, <1>4 DEF a, b, c

-----------------------------------------------------------------------------
(* Expressions.                                                            *)

(* The functions that parse expressions.                                   *)
LEMMA ExpressionSteps ==
  ASSUME CallsInv, ParseExpression
  PROVE  CallsInv'
<1>1. CASE BeginCast
  <2>1. Plain(<<Expect(")"), F("cast operand")>>)
    BY PlainTwo DEF Expect, F, IsFrame, Special
  <2>2. Plain(TypeName \o <<Expect(")"), F("cast operand")>>)
    BY Lists, <2>1, PlainConcat
  <2>3. /\ stack # <<>> /\ Top \notin Special /\ UNCHANGED <<depth, typedefs>>
        /\ stack' = (TypeName \o <<Expect(")"), F("cast operand")>>) \o Tail(stack)
    BY <1>1 DEF BeginCast, Ready, Go, NotNested, Special, Top
  <2> QED
    BY <2>2, <2>3, OrdinaryStep
<1>2. CASE CastOperand
  <2>1. Plain(<<F("cast")>>)
    BY PlainOne DEF F, IsFrame, Special
  <2>2. Plain(<<BuildIf(<<"cast", "()">>)>>)
    BY PlainOne DEF BuildIf, IsFrame, Special
  <2>3. /\ stack # <<>> /\ Top \notin Special
        /\ Nests(<<F("cast")>>, <<BuildIf(<<"cast", "()">>)>>, <<>>)
    BY <1>2 DEF CastOperand, Ready, Nest, Nests, Go, Complain, Nested, Special, Top
  <2> QED
    BY <2>1, <2>2, PlainNone, <2>3, NestStep
<1>3. CASE UnaryOperator
  <2>1. Plain(<<F("unary")>>)
    BY PlainOne DEF F, IsFrame, Special
  <2>2. Plain(<<BuildIf(<<"unary", Head(ahead)>>)>>)
    BY PlainOne DEF BuildIf, IsFrame, Special
  <2>3. /\ stack # <<>> /\ Top \notin Special
        /\ Nests(<<F("unary")>>, <<BuildIf(<<"unary", Head(ahead)>>)>>, <<>>)
    BY <1>3 DEF UnaryOperator, Ready, Nest, Nests, Go, Complain, Nested, Special, Top, AtUnary, Top
  <2> QED
    BY <2>1, <2>2, PlainNone, <2>3, NestStep
<1>4. CASE BeginSizeof
  <2>1. Plain(<<F("sizeof")>>)
    BY PlainOne DEF F, IsFrame, Special
  <2>2. /\ stack # <<>> /\ Top \notin Special /\ UNCHANGED <<depth, typedefs>>
        /\ stack' = <<F("sizeof")>> \o Tail(stack)
    BY <1>4 DEF BeginSizeof, Ready, Go, NotNested, Special, Top, AtUnary, Top
  <2> QED
    BY <2>1, <2>2, OrdinaryStep
<1>5. CASE SizeofType
  <2>1. Plain(<<Expect(")"), Build(SizeofNode)>>)
    BY PlainTwo DEF Expect, Build, IsFrame, Special
  <2>2. Plain(TypeName \o <<Expect(")"), Build(SizeofNode)>>)
    BY Lists, <2>1, PlainConcat
  <2>3. /\ stack # <<>> /\ Top \notin Special /\ UNCHANGED <<depth, typedefs>>
        /\ stack' = (TypeName \o <<Expect(")"), Build(SizeofNode)>>) \o Tail(stack)
    BY <1>5 DEF SizeofType, Ready, Go, NotNested, Special, Top
  <2> QED
    BY <2>2, <2>3, OrdinaryStep
<1>6. CASE SizeofExpression
  <2>1. Plain(<<Expect(")"), BuildIf(SizeofNode)>>)
    BY PlainTwo DEF Expect, BuildIf, IsFrame, Special
  <2>2. Plain(<<F("unary")>>)
    BY PlainOne DEF F, IsFrame, Special
  <2>3. Plain(<<BuildIf(SizeofNode)>>)
    BY PlainOne DEF BuildIf, IsFrame, Special
  <2>4. /\ stack # <<>> /\ Top \notin Special
        /\ \/ Nests(Expression, <<Expect(")"), BuildIf(SizeofNode)>>, <<>>)
           \/ Nests(<<F("unary")>>, <<BuildIf(SizeofNode)>>, <<>>)
    BY <1>6 DEF SizeofExpression, Ready, Nest, Nests, Go, Complain, Nested, Special, Top
  <2> QED
    BY Lists, <2>1, PlainNone, <2>2, <2>3, <2>4, NestStep
<1>7. CASE Operand
  <2>1. Plain(<<F("postfix")>>)
    BY PlainOne DEF F, IsFrame, Special
  <2>2. /\ stack # <<>> /\ Top \notin Special /\ UNCHANGED <<depth, typedefs>>
        /\ stack' = <<F("postfix")>> \o Tail(stack)
    BY <1>7 DEF Operand, Ready, Go, NotNested, Special, Top, AtUnary, Top
  <2> QED
    BY <2>1, <2>2, OrdinaryStep
<1>8. CASE Parenthesized
  <2>1. Plain(<<Expect(")"), F("postfix")>>)
    BY PlainTwo DEF Expect, F, IsFrame, Special
  <2>2. /\ stack # <<>> /\ Top \notin Special
        /\ Nests(Expression, <<Expect(")"), F("postfix")>>, <<>>)
    BY <1>8 DEF Parenthesized, Ready, Nest, Nests, Go, Complain, Nested, Special, Top, AtUnary, Top
  <2> QED
    BY Lists, <2>1, PlainNone, <2>2, NestStep
<1>9. CASE NoExpression
  <2>1. /\ stack # <<>> /\ Top \notin Special /\ UNCHANGED <<depth, typedefs>>
        /\ stack' = <<>> \o Tail(stack)
    BY <1>9 DEF NoExpression, Ready, Go, NotNested, Special, Top, AtUnary, Complain
  <2> QED
    BY PlainNone, <2>1, OrdinaryStep
<1>10. CASE Subscript
  <2>1. Plain(<<Expect("]"), Build(<<"subscript", "[]">>), F("postfix")>>)
    BY PlainThree DEF Expect, Build, F, IsFrame, Special
  <2>2. /\ stack # <<>> /\ Top \notin Special
        /\ Nests(Expression, <<Expect("]"), Build(<<"subscript", "[]">>), F("postfix")>>, <<>>)
    BY <1>10 DEF Subscript, Ready, Nest, Nests, Go, Complain, Nested, Special, Top, AtPostfix, Top
  <2> QED
    BY Lists, <2>1, PlainNone, <2>2, NestStep
<1>11. CASE BeginCall
  <2>1. Plain(<<F("arguments")>>)
    BY PlainOne DEF F, IsFrame, Special
  <2>2. /\ stack # <<>> /\ Top \notin Special /\ UNCHANGED <<depth, typedefs>>
        /\ stack' = <<F("arguments")>> \o Tail(stack)
    BY <1>11 DEF BeginCall, Ready, Go, NotNested, Special, Top, AtPostfix, Top
  <2> QED
    BY <2>1, <2>2, OrdinaryStep
<1>12. CASE Arguments
  <2>1. Plain(<<F("more arguments")>>)
    BY PlainOne DEF F, IsFrame, Special
  <2>2. /\ stack # <<>> /\ Top \notin Special
        /\ \/ Nests(Assignment, <<F("more arguments")>>, EndCall)
           \/ (stack' = EndCall \o Tail(stack) /\ UNCHANGED <<depth, typedefs>>)
    BY <1>12 DEF Arguments, Ready, Nest, Nests, Go, Complain, Nested, Special, Top, Argument
  <2> QED
    BY Lists, <2>1, <2>2, NestStep, OrdinaryStep
<1>13. CASE MoreArguments
  <2>1. Plain(<<F("argument")>>)
    BY PlainOne DEF F, IsFrame, Special
  <2>2. /\ stack # <<>> /\ Top \notin Special /\ UNCHANGED <<depth, typedefs>>
        /\ \/ stack' = <<F("argument")>> \o Tail(stack)
          \/ stack' = EndCall \o Tail(stack)
    BY <1>13 DEF MoreArguments, Ready, Go, NotNested, Special, Top
  <2> QED
    BY <2>1, Lists, <2>2, OrdinaryStep
<1>14. CASE NextArgument
  <2>1. Plain(<<F("more arguments")>>)
    BY PlainOne DEF F, IsFrame, Special
  <2>2. /\ stack # <<>> /\ Top \notin Special
        /\ Nests(Assignment, <<F("more arguments")>>, EndCall)
    BY <1>14 DEF NextArgument, Ready, Nest, Nests, Go, Complain, Nested, Special, Top, Argument
  <2> QED
    BY Lists, <2>1, <2>2, NestStep
<1>15. CASE Member
  <2>1. Plain(<<[f |-> "member", node |-> <<"member", Head(ahead)>>]>>)
    BY PlainOne DEF IsFrame, Special
  <2>2. /\ stack # <<>> /\ Top \notin Special /\ UNCHANGED <<depth, typedefs>>
        /\ stack' = <<[f |-> "member", node |-> <<"member", Head(ahead)>>]>> \o Tail(stack)
    BY <1>15 DEF Member, Ready, Go, NotNested, Special, Top, AtPostfix, Top
  <2> QED
    BY <2>1, <2>2, OrdinaryStep
<1>16. CASE MemberName
  <2>1. Plain(<<F("postfix")>>)
    BY PlainOne DEF F, IsFrame, Special
  <2>2. /\ stack # <<>> /\ Top \notin Special /\ UNCHANGED <<depth, typedefs>>
        /\ \/ stack' = <<F("postfix")>> \o Tail(stack)
          \/ stack' = <<>> \o Tail(stack)
    BY <1>16 DEF MemberName, Ready, Go, NotNested, Special, Top, Complain
  <2> QED
    BY <2>1, PlainNone, <2>2, OrdinaryStep
<1>17. CASE PostIncrement
  <2>1. Plain(<<F("postfix")>>)
    BY PlainOne DEF F, IsFrame, Special
  <2>2. /\ stack # <<>> /\ Top \notin Special /\ UNCHANGED <<depth, typedefs>>
        /\ stack' = <<F("postfix")>> \o Tail(stack)
    BY <1>17 DEF PostIncrement, Ready, Go, NotNested, Special, Top, AtPostfix, Top
  <2> QED
    BY <2>1, <2>2, OrdinaryStep
<1>18. CASE EndPostfix
  <2>1. /\ stack # <<>> /\ Top \notin Special /\ UNCHANGED <<depth, typedefs>>
        /\ stack' = <<>> \o Tail(stack)
    BY <1>18 DEF EndPostfix, Ready, Go, NotNested, Special, Top
  <2> QED
    BY PlainNone, <2>1, OrdinaryStep
<1>19. CASE NoOperator
  <2>1. /\ stack # <<>> /\ Top \notin Special /\ UNCHANGED <<depth, typedefs>>
        /\ stack' = <<>> \o Tail(stack)
    BY <1>19 DEF NoOperator, Ready, Go, NotNested, Special, Top
  <2> QED
    BY PlainNone, <2>1, OrdinaryStep
<1>20. CASE BinaryOperator
  <2>1. PICK level \in DOMAIN Levels \ {ConditionalLevel, AssignmentLevel} :
           /\ OperatorHere(level)
           /\ Go(1, UpTo(level - 1) \o <<Join(Head(ahead), level, Head(stack).to)>>, <<>>)
    BY <1>20 DEF BinaryOperator
  <2>2. Plain(<<Join(Head(ahead), level, Head(stack).to)>>)
    BY PlainOne DEF Join, IsFrame, Special
  <2>3. Plain(UpTo(level - 1) \o <<Join(Head(ahead), level, Head(stack).to)>>)
    BY <2>2, Lists, PlainConcat
  <2>4. /\ stack # <<>> /\ Top \notin Special /\ UNCHANGED <<depth, typedefs>>
        /\ stack' = (UpTo(level - 1) \o <<Join(Head(ahead), level, Head(stack).to)>>) \o Tail(stack)
    BY <1>20, <2>1 DEF BinaryOperator, OperatorHere, Ready, Go, NotNested, Special, Top
  <2> QED
    BY <2>3, <2>4, OrdinaryStep
<1>21. CASE JoinOperands
  <2>1. Plain(<<Rest(Head(stack).level, Head(stack).to)>>)
    BY PlainOne DEF Rest, IsFrame, Special
  <2>2. Plain(<<Rest(Head(stack).level + 1, Head(stack).to)>>)
    BY PlainOne DEF Rest, IsFrame, Special
  <2>3. /\ stack # <<>> /\ Top \notin Special /\ UNCHANGED <<depth, typedefs>>
        /\ \/ stack' = <<Rest(Head(stack).level, Head(stack).to)>> \o Tail(stack)
          \/ stack' = <<Rest(Head(stack).level + 1, Head(stack).to)>> \o Tail(stack)
    BY <1>21 DEF JoinOperands, Ready, Go, NotNested, Special, Top
  <2> QED
    BY <2>1, <2>2, <2>3, OrdinaryStep
<1>22. CASE Question
  <2>1. Plain(<<Expect(":"), [f |-> "else operand", to |-> Head(stack).to]>>)
    BY PlainTwo DEF Expect, IsFrame, Special
  <2>2. Plain(Expression \o <<Expect(":"), [f |-> "else operand", to |-> Head(stack).to]>>)
    BY Lists, <2>1, PlainConcat
  <2>3. Plain(<<Rest(AssignmentLevel, Head(stack).to)>>)
    BY PlainOne DEF Rest, IsFrame, Special
  <2>4. /\ stack # <<>> /\ Top \notin Special /\ UNCHANGED <<depth, typedefs>>
        /\ \/ stack' = (Expression \o <<Expect(":"), [f |-> "else operand", to |-> Head(stack).to]>>) \o Tail(stack)
          \/ stack' = <<Rest(AssignmentLevel, Head(stack).to)>> \o Tail(stack)
    BY <1>22 DEF Question, Ready, Go, NotNested, Special, Top, OperatorHere
  <2> QED
    BY <2>2, <2>3, <2>4, OrdinaryStep
<1>23. CASE ElseOperand
  <2>1. Plain(<<Build(<<"conditional", "?">>), Rest(AssignmentLevel, Head(stack).to)>>)
    BY PlainTwo DEF Build, Rest, IsFrame, Special
  <2>2. Plain(<<Rest(AssignmentLevel, Head(stack).to)>>)
    BY PlainOne DEF Rest, IsFrame, Special
  <2>3. /\ stack # <<>> /\ Top \notin Special
        /\ Nests(Conditional, <<Build(<<"conditional", "?">>), Rest(AssignmentLevel, Head(stack).to)>>, <<Rest(AssignmentLevel, Head(stack).to)>>)
    BY <1>23 DEF ElseOperand, Ready, Nest, Nests, Go, Complain, Nested, Special, Top
  <2> QED
    BY Lists, <2>1, <2>2, <2>3, NestStep
<1>24. CASE Assign
  <2>1. Plain(<<[f |-> "assigned", node |-> <<"binary", Head(ahead)>>], Rest(CommaLevel, Head(stack).to)>>)
    BY PlainTwo DEF Rest, IsFrame, Special
  <2>2. Plain(<<Rest(CommaLevel, Head(stack).to)>>)
    BY PlainOne DEF Rest, IsFrame, Special
  <2>3. /\ stack # <<>> /\ Top \notin Special
        /\ Nests(Assignment, <<[f |-> "assigned", node |-> <<"binary", Head(ahead)>>], Rest(CommaLevel, Head(stack).to)>>, <<Rest(CommaLevel, Head(stack).to)>>)
    BY <1>24 DEF Assign, Ready, Nest, Nests, Go, Complain, Nested, Special, Top, OperatorHere
  <2> QED
    BY Lists, <2>1, <2>2, <2>3, NestStep
<1>25. CASE Assigned
  <2>1. /\ stack # <<>> /\ Top \notin Special /\ UNCHANGED <<depth, typedefs>>
        /\ stack' = <<>> \o Tail(stack)
    BY <1>25 DEF Assigned, Ready, Go, NotNested, Special, Top
  <2> QED
    BY PlainNone, <2>1, OrdinaryStep
<1>26. CASE OptionalExpression
  <2>1. /\ stack # <<>> /\ Top \notin Special /\ UNCHANGED <<depth, typedefs>>
        /\ \/ stack' = <<>> \o Tail(stack)
          \/ stack' = Expression \o Tail(stack)
    BY <1>26 DEF OptionalExpression, Ready, Go, NotNested, Special, Top
  <2> QED
    BY PlainNone, Lists, <2>1, OrdinaryStep
<1> QED
  BY <1>1, <1>2, <1>3, <1>4, <1>5, <1>6, <1>7, <1>8, <1>9, <1>10, <1>11, <1>12, <1>13, <1>14, <1>15, <1>16, <1>17, <1>18, <1>19, <1>20, <1>21, <1>22, <1>23, <1>24, <1>25, <1>26 DEF ParseExpression

-----------------------------------------------------------------------------
(* Declarations.                                                           *)

(* The functions that parse declarations.                                  *)
LEMMA DeclarationSteps ==
  ASSUME CallsInv, ParseDeclaration
  PROVE  CallsInv'
<1>1. CASE Specifier
  <2>1. IsFrame(Head(stack)) /\ Head(stack).f = "specifiers" /\ stack # <<>>
    BY <1>1, HeadTail DEF CallsInv, Specifier, AtSpecifier, Ready, Top
  <2>2. IsFrame(SpecifierSeen) /\ SpecifierSeen.f = "specifiers"
    BY <2>1 DEF SpecifierSeen, IsFrame
  <2>3. Plain(<<SpecifierSeen>>)
    BY <2>2, PlainOne DEF Special
  <2>4. Plain(<<F("tag")>>) /\ Plain(<<F("enum tag")>>)
    BY PlainOne DEF F, IsFrame, Special
  <2>5. PICK first \in {<<F("tag")>>, <<F("enum tag")>>, <<>>} :
             stack' = (first \o <<SpecifierSeen>>) \o Tail(stack)
    BY <1>1 DEF Specifier, Go
  <2>6. Plain(first \o <<SpecifierSeen>>)
    BY <2>3, <2>4, PlainNone, PlainConcat
  <2>7. Top \notin Special /\ UNCHANGED <<depth, typedefs>>
    BY <1>1, <2>1 DEF Specifier, NotNested, Top, Special
  <2> QED
    BY <2>1, <2>5, <2>6, <2>7, OrdinaryStep
<1>2. CASE EndSpecifiers
  <2>1. /\ stack # <<>> /\ Top \notin Special /\ UNCHANGED <<depth, typedefs>>
        /\ stack' = <<>> \o Tail(stack)
    BY <1>2 DEF EndSpecifiers, Ready, Go, NotNested, Special, Top, Complain
  <2> QED
    BY PlainNone, <2>1, OrdinaryStep
<1>3. CASE Tag
  <2>1. Plain(<<[f |-> "record", tagged |-> TRUE]>>)
    BY PlainOne DEF IsFrame, Special
  <2>2. Plain(<<[f |-> "record", tagged |-> FALSE]>>)
    BY PlainOne DEF IsFrame, Special
  <2>3. /\ stack # <<>> /\ Top \notin Special /\ UNCHANGED <<depth, typedefs>>
        /\ \/ stack' = <<[f |-> "record", tagged |-> TRUE]>> \o Tail(stack)
          \/ stack' = <<[f |-> "record", tagged |-> FALSE]>> \o Tail(stack)
    BY <1>3 DEF Tag, Ready, Go, NotNested, Special, Top
  <2> QED
    BY <2>1, <2>2, <2>3, OrdinaryStep
<1>4. CASE Record
  <2>1. CASE At("{")
    <3>1. /\ stack # <<>> /\ Top = "record" /\ depth' = depth
          /\ typedefs' = Table!ScopePushed(typedefs) /\ stack' = <<F("fields")>> \o Tail(stack)
      BY <1>4, <2>1 DEF Record, Ready, Go
    <3> QED
      BY <3>1, OpenStep DEF ScopeFrames, F, IsFrame, Special
  <2>2. CASE ~ At("{")
    <3>1. /\ stack # <<>> /\ Top \notin Special /\ UNCHANGED <<depth, typedefs>>
          /\ stack' = <<>> \o Tail(stack)
      BY <1>4, <2>2 DEF Record, Ready, Go, Complain, Special
    <3> QED
      BY <3>1, PlainNone, OrdinaryStep
  <2> QED
    BY <2>1, <2>2
<1>5. CASE Field
  <2>1. Plain(<<F("recover")>>)
    BY PlainOne DEF F, IsFrame, Special
  <2>2. Plain(Declaration("inner") \o <<F("recover")>>)
    BY <2>1, Lists, PlainConcat
  <2>3. /\ stack # <<>> /\ Top = "fields" /\ UNCHANGED <<depth, typedefs>>
        /\ stack' = (Declaration("inner") \o <<F("recover"), F("fields")>>) \o Tail(stack)
    BY <1>5 DEF Field, Ready, Go, NotNested
  <2>4. Declaration("inner") \o <<F("recover"), F("fields")>>
          = (Declaration("inner") \o <<F("recover")>>) \o <<F("fields")>>
    <3>1. \E S : Declaration("inner") \in Seq(S)
      BY Lists DEF Plain, Frameful
    <3> QED
      BY <3>1, SplitLast
  <2>5. IsFrame(F("fields")) /\ F("fields").f = "fields"
    BY DEF F, IsFrame
  <2>6. F("fields").f \in ScopeFrames /\ Top \in ScopeFrames
    BY <2>3, <2>5 DEF ScopeFrames
  <2> QED
    BY <2>2, <2>3, <2>4, <2>5, <2>6, AgainStep
<1>6. CASE EndFields
  <2>1. Plain(<<Expect("}")>>)
    BY PlainOne DEF Expect, IsFrame, Special
  <2>2. /\ stack # <<>> /\ Top \in ScopeFrames /\ depth' = depth
        /\ typedefs' = Table!ScopePopped(typedefs) /\ stack' = <<Expect("}")>> \o Tail(stack)
    BY <1>6 DEF EndFields, Ready, Go, ScopeFrames
  <2> QED
    BY <2>1, <2>2, CloseStep
<1>7. CASE EnumTag
  <2>1. Plain(<<F("enum")>>)
    BY PlainOne DEF F, IsFrame, Special
  <2>2. /\ stack # <<>> /\ Top \notin Special /\ UNCHANGED <<depth, typedefs>>
        /\ stack' = <<F("enum")>> \o Tail(stack)
    BY <1>7 DEF EnumTag, Ready, Go, NotNested, Special, Top
  <2> QED
    BY <2>1, <2>2, OrdinaryStep
<1>8. CASE Enum
  <2>1. Plain(<<Enumerators(1)>>)
    BY PlainOne DEF Enumerators, IsFrame, Special
  <2>2. /\ stack # <<>> /\ Top \notin Special /\ UNCHANGED <<depth, typedefs>>
        /\ \/ stack' = <<Enumerators(1)>> \o Tail(stack)
          \/ stack' = <<>> \o Tail(stack)
    BY <1>8 DEF Enum, Ready, Go, NotNested, Special, Top
  <2> QED
    BY <2>1, PlainNone, <2>2, OrdinaryStep
<1>9. CASE SkipEnumerator
  <2>1. Plain(<<>>) /\ \A open : Plain(<<Enumerators(open)>>)
    BY PlainNone, PlainOne DEF Enumerators, IsFrame, Special
  <2>2. /\ stack # <<>> /\ Top \notin Special /\ UNCHANGED <<depth, typedefs>>
        /\ \/ stack' = <<>> \o Tail(stack)
           \/ \E open : stack' = <<Enumerators(open)>> \o Tail(stack)
    BY <1>9 DEF SkipEnumerator, Ready, Go, Complain, NotNested, Special
  <2> QED
    BY <2>1, <2>2, OrdinaryStep
<1>10. CASE Pointer
  <2>0. IsFrame(Head(stack)) /\ Head(stack).f = Top /\ Top \notin Special
    BY <1>10, HeadTail DEF CallsInv, Top, Special, Ready, Pointer
  <2>1. Plain(<<F("pointer"), Head(stack)>>)
    BY <2>0, PlainTwo DEF F, IsFrame, Special
  <2>2. /\ stack # <<>> /\ Top \notin Special /\ UNCHANGED <<depth, typedefs>>
        /\ stack' = <<F("pointer"), Head(stack)>> \o Tail(stack)
    BY <1>10 DEF Pointer, Ready, Go, NotNested, Special, Top
  <2> QED
    BY <2>1, <2>2, OrdinaryStep
<1>11. CASE PointerQualifier
  <2>1. Plain(<<F("pointer")>>)
    BY PlainOne DEF F, IsFrame, Special
  <2>2. /\ stack # <<>> /\ Top \notin Special /\ UNCHANGED <<depth, typedefs>>
        /\ \/ stack' = <<F("pointer")>> \o Tail(stack)
          \/ stack' = <<>> \o Tail(stack)
    BY <1>11 DEF PointerQualifier, Ready, Go, NotNested, Special, Top
  <2> QED
    BY <2>1, PlainNone, <2>2, OrdinaryStep
<1>12. CASE DirectDeclarator
  <2>0. IsFrame(Head(stack)) /\ Head(stack).f = Top /\ Top \notin Special
    BY <1>12, HeadTail DEF CallsInv, Top, Special, Ready, DirectDeclarator, Complain
  <2>1. Plain(<<DirectPart(Head(ahead), FALSE)>>)
    BY PlainOne DEF DirectPart, IsFrame, Special
  <2>2. Plain(<<Head(stack), F("group")>>)
    BY <2>0, PlainTwo DEF F, IsFrame, Special
  <2>3. Plain(<<DirectPart(NoName, FALSE)>>)
    BY PlainOne DEF DirectPart, IsFrame, Special
  <2>4. /\ stack # <<>> /\ Top \notin Special /\ UNCHANGED <<depth, typedefs>>
        /\ \/ stack' = <<DirectPart(Head(ahead), FALSE)>> \o Tail(stack)
          \/ stack' = <<Head(stack), F("group")>> \o Tail(stack)
          \/ stack' = <<DirectPart(NoName, FALSE)>> \o Tail(stack)
          \/ stack' = <<>> \o Tail(stack)
    BY <1>12 DEF DirectDeclarator, Ready, Go, NotNested, Special, Top, Complain
  <2> QED
    BY <2>1, <2>2, <2>3, PlainNone, <2>4, OrdinaryStep
<1>13. CASE Group
  <2>1. Plain(<<Expect(")"), DirectPart(found.name, found.function)>>)
    BY PlainTwo DEF Expect, DirectPart, IsFrame, Special
  <2>2. /\ stack # <<>> /\ Top \notin Special /\ UNCHANGED <<depth, typedefs>>
        /\ stack' = <<Expect(")"), DirectPart(found.name, found.function)>> \o Tail(stack)
    BY <1>13 DEF Group, Ready, Go, NotNested, Special, Top
  <2> QED
    BY <2>1, <2>2, OrdinaryStep
<1>14. CASE Suffix
  <2>1. IsFrame(Head(stack)) /\ Head(stack).f = "direct part" /\ stack # <<>>
    BY <1>14, HeadTail DEF CallsInv, Suffix, Ready, Top
  <2>2. Top \notin Special /\ UNCHANGED <<depth, typedefs>>
    BY <1>14 DEF Suffix, Ready, Special
  <2> DEFINE called == [Head(stack) EXCEPT !.function = TRUE]
  <2>3. IsFrame(called) /\ called.f = "direct part"
    BY <2>1 DEF IsFrame
  <2>4. /\ \/ stack' = <<F("parameters"), called>> \o Tail(stack)
           \/ stack' = <<Optional("]"), Expect("]"), Head(stack)>> \o Tail(stack)
           \/ stack' = <<>> \o Tail(stack)
    BY <1>14 DEF Suffix, Go
  <2> HIDE DEF called
  <2>5. Plain(<<F("parameters"), called>>)
    BY <2>3, PlainTwo DEF F, IsFrame, Special
  <2>6. Plain(<<Optional("]"), Expect("]"), Head(stack)>>)
    BY <2>1, PlainThree DEF Optional, Expect, IsFrame, Special
  <2> QED
    BY <2>1, <2>2, <2>4, <2>5, <2>6, PlainNone, OrdinaryStep
<1>15. CASE ParameterList
  <2>1. Plain(<<Expect(")")>>)
    BY PlainOne DEF Expect, IsFrame, Special
  <2>2. Plain(<<F("parameter")>>)
    BY PlainOne DEF F, IsFrame, Special
  <2>3. /\ stack # <<>> /\ Top \notin Special /\ UNCHANGED <<depth, typedefs>>
        /\ \/ stack' = <<Expect(")")>> \o Tail(stack)
          \/ stack' = <<F("parameter")>> \o Tail(stack)
    BY <1>15 DEF ParameterList, Ready, Go, NotNested, Special, Top
  <2> QED
    BY <2>1, <2>2, <2>3, OrdinaryStep
<1>16. CASE Parameter
  <2>1. Plain(<<Expect(")")>>)
    BY PlainOne DEF Expect, IsFrame, Special
  <2>2. Plain(<<Specifiers, F("parameter declarator")>>)
    BY PlainTwo DEF F, Specifiers, IsFrame, Special
  <2>3. /\ stack # <<>> /\ Top \notin Special /\ UNCHANGED <<depth, typedefs>>
        /\ \/ stack' = <<Expect(")")>> \o Tail(stack)
          \/ stack' = <<Specifiers, F("parameter declarator")>> \o Tail(stack)
    BY <1>16 DEF Parameter, Ready, Go, NotNested, Special, Top
  <2> QED
    BY <2>1, <2>2, <2>3, OrdinaryStep
<1>17. CASE ParameterDeclarator
  <2>1. Plain(<<Declarator(TRUE), F("more parameters")>>)
    BY PlainTwo DEF F, Declarator, IsFrame, Special
  <2>2. Plain(<<F("synchronize"), Expect(")")>>)
    BY PlainTwo DEF Expect, F, IsFrame, Special
  <2>3. /\ stack # <<>> /\ Top \notin Special /\ UNCHANGED <<depth, typedefs>>
        /\ \/ stack' = <<Declarator(TRUE), F("more parameters")>> \o Tail(stack)
          \/ stack' = <<F("synchronize"), Expect(")")>> \o Tail(stack)
    BY <1>17 DEF ParameterDeclarator, Ready, Go, NotNested, Special, Top
  <2> QED
    BY <2>1, <2>2, <2>3, OrdinaryStep
<1>18. CASE MoreParameters
  <2>1. Plain(<<F("parameter")>>)
    BY PlainOne DEF F, IsFrame, Special
  <2>2. Plain(<<Expect(")")>>)
    BY PlainOne DEF Expect, IsFrame, Special
  <2>3. /\ stack # <<>> /\ Top \notin Special /\ UNCHANGED <<depth, typedefs>>
        /\ \/ stack' = <<F("parameter")>> \o Tail(stack)
          \/ stack' = <<Expect(")")>> \o Tail(stack)
    BY <1>18 DEF MoreParameters, Ready, Go, NotNested, Special, Top
  <2> QED
    BY <2>1, <2>2, <2>3, OrdinaryStep
<1>19. CASE BeginDeclaration
  <2>1. Plain(<<Declarator(FALSE), Declared(Head(stack).place, found.typedef, <<>>)>>)
    BY PlainTwo DEF Declarator, Declared, IsFrame, Special
  <2>2. /\ stack # <<>> /\ Top \notin Special /\ UNCHANGED <<depth, typedefs>>
        /\ \/ stack' = <<>> \o Tail(stack)
          \/ stack' = <<Declarator(FALSE), Declared(Head(stack).place, found.typedef, <<>>)>> \o Tail(stack)
    BY <1>19 DEF BeginDeclaration, Ready, Go, NotNested, Special, Top
  <2> QED
    BY PlainNone, <2>1, <2>2, OrdinaryStep
<1>20. CASE AfterDeclarator
  <2> DEFINE d == Head(stack)
             names == IF found.name = NoName THEN d.names ELSE Append(d.names, found.name)
  <2>1. Plain(EndDeclaration(d.typedef, d.names))
    BY Lists
  <2>2. Plain(<<F("compound"), Build(<<"function", "">>)>>)
    BY PlainTwo DEF F, Build, IsFrame, Special
  <2>3. \A ns : Plain(<<MoreDeclarators(d.typedef, ns)>>)
    BY PlainOne DEF MoreDeclarators, IsFrame, Special
  <2>4. \A ns : Plain(<<F("initializer"), MoreDeclarators(d.typedef, ns)>>)
    BY PlainTwo DEF F, MoreDeclarators, IsFrame, Special
  <2>5. \A ns : Plain(Assignment \o <<F("initializer"), MoreDeclarators(d.typedef, ns)>>)
    BY <2>4, Lists, PlainConcat
  <2>6. /\ stack # <<>> /\ Top \notin Special /\ UNCHANGED <<depth, typedefs>>
    BY <1>20 DEF AfterDeclarator, Ready, NotNested, Special
  <2>7. \/ stack' = EndDeclaration(d.typedef, d.names) \o Tail(stack)
        \/ stack' = <<>> \o Tail(stack)
        \/ stack' = <<F("compound"), Build(<<"function", "">>)>> \o Tail(stack)
        \/ stack' = (Assignment \o <<F("initializer"), MoreDeclarators(d.typedef, names)>>) \o Tail(stack)
        \/ stack' = <<MoreDeclarators(d.typedef, names)>> \o Tail(stack)
    BY <1>20 DEF AfterDeclarator, Go
  <2> HIDE DEF d, names
  <2> QED
    BY <2>1, <2>2, <2>3, <2>5, <2>6, <2>7, PlainNone, OrdinaryStep
<1>21. CASE Initializer
  <2>1. /\ stack # <<>> /\ Top \notin Special /\ UNCHANGED <<depth, typedefs>>
        /\ stack' = <<>> \o Tail(stack)
    BY <1>21 DEF Initializer, Ready, Go, NotNested, Special, Top, Complain
  <2> QED
    BY PlainNone, <2>1, OrdinaryStep
<1>22. CASE NextDeclarator
  <2>1. Plain(<<Declarator(FALSE), Declared("later", Head(stack).typedef, Head(stack).names)>>)
    BY PlainTwo DEF Declarator, Declared, IsFrame, Special
  <2>2. /\ stack # <<>> /\ Top \notin Special /\ UNCHANGED <<depth, typedefs>>
        /\ \/ stack' = <<Declarator(FALSE), Declared("later", Head(stack).typedef, Head(stack).names)>> \o Tail(stack)
          \/ stack' = EndDeclaration(Head(stack).typedef, Head(stack).names) \o Tail(stack)
    BY <1>22 DEF NextDeclarator, Ready, Go, NotNested, Special, Top
  <2> QED
    BY <2>1, Lists, <2>2, OrdinaryStep
<1>23. CASE RecordNames
  <2>1. /\ stack # <<>> /\ Top \notin Special /\ depth' = depth /\ stack' = <<>> \o Tail(stack)
        /\ \/ typedefs' = Table!AllRecorded(typedefs, Head(stack).names)
           \/ typedefs' = typedefs
    BY <1>23 DEF RecordNames, Ready, Go, Special
  <2>2. TableOf(typedefs)
    BY DEF CallsInv
  <2>3. TableOf(typedefs') /\ Len(typedefs'.starts) = Len(typedefs.starts)
    BY <2>1, <2>2, AllRecordedKeepsStarts
  <2>4. Ordinary
    BY <2>1, <2>3, PlainNone DEF Ordinary
  <2> QED
    BY <2>4, OrdinaryKeeps
<1> QED
  BY <1>1, <1>2, <1>3, <1>4, <1>5, <1>6, <1>7, <1>8, <1>9, <1>10, <1>11, <1>12, <1>13, <1>14, <1>15, <1>16, <1>17, <1>18, <1>19, <1>20, <1>21, <1>22, <1>23 DEF ParseDeclaration

-----------------------------------------------------------------------------
(* Statements and the translation unit.                                    *)

(* The functions that parse statements.                                    *)
LEMMA StatementSteps ==
  ASSUME CallsInv, ParseStatement
  PROVE  CallsInv'
<1>1. CASE Compound
  <2>1. /\ stack # <<>> /\ Top = "compound" /\ depth' = depth
        /\ typedefs' = Table!ScopePushed(typedefs) /\ stack' = <<F("block")>> \o Tail(stack)
    BY <1>1 DEF Compound, Ready, Go
  <2> QED
    BY <2>1, OpenStep DEF ScopeFrames, F, IsFrame, Special
<1>2. CASE BlockItem
  <2>1. Plain(<<F("recover")>>) /\ Plain(<<F("statement")>>)
    BY PlainOne DEF F, IsFrame, Special
  <2>2. PICK item \in {Declaration("inner"), <<F("statement")>>} :
             stack' = (item \o <<F("recover"), F("block")>>) \o Tail(stack)
    BY <1>2 DEF BlockItem, Go
  <2>3. /\ stack # <<>> /\ Top = "block" /\ UNCHANGED <<depth, typedefs>>
    BY <1>2 DEF BlockItem, Ready, NotNested
  <2>4. Plain(item)
    BY <2>1, Lists
  <2>5. Plain(item \o <<F("recover")>>)
    BY <2>1, <2>4, PlainConcat
  <2>6. item \o <<F("recover"), F("block")>> = (item \o <<F("recover")>>) \o <<F("block")>>
    BY <2>4, SplitLast DEF Plain, Frameful
  <2>7. IsFrame(F("block")) /\ F("block").f = "block"
    BY DEF F, IsFrame
  <2>8. F("block").f \in ScopeFrames /\ Top \in ScopeFrames
    BY <2>3, <2>7 DEF ScopeFrames
  <2> QED
    BY <2>2, <2>3, <2>5, <2>6, <2>7, <2>8, AgainStep
<1>3. CASE EndCompound
  <2>1. Plain(<<Expect("}"), Build(<<"compound", "}">>)>>)
    BY PlainTwo DEF Expect, Build, IsFrame, Special
  <2>2. /\ stack # <<>> /\ Top \in ScopeFrames /\ depth' = depth
        /\ typedefs' = Table!ScopePopped(typedefs)
        /\ stack' = <<Expect("}"), Build(<<"compound", "}">>)>> \o Tail(stack)
    BY <1>3 DEF EndCompound, Ready, Go, ScopeFrames
  <2> QED
    BY <2>1, <2>2, CloseStep
<1>4. CASE KeywordStatement
  <2>1. /\ stack # <<>> /\ Top \notin Special /\ UNCHANGED <<depth, typedefs>>
        /\ Head(ahead) \in Keywords /\ stack' = Parts(Head(ahead)) \o Tail(stack)
    BY <1>4 DEF KeywordStatement, Ready, Go, NotNested, Special
  <2> QED
    BY <2>1, Lists, OrdinaryStep
<1>5. CASE LabeledStatement
  <2>1. Plain(<<Expect(":")>>)
    BY PlainOne DEF Expect, IsFrame, Special
  <2>2. Plain(<<Build(<<"label", Head(ahead)>>)>>)
    BY PlainOne DEF Build, IsFrame, Special
  <2>3. Plain(<<Expect(":")>> \o Statement \o <<Build(<<"label", Head(ahead)>>)>>)
    BY <2>1, Lists, <2>2, PlainConcat
  <2>4. /\ stack # <<>> /\ Top \notin Special /\ UNCHANGED <<depth, typedefs>>
        /\ stack' = (<<Expect(":")>> \o Statement \o <<Build(<<"label", Head(ahead)>>)>>) \o Tail(stack)
    BY <1>5 DEF LabeledStatement, Ready, Go, NotNested, Special, Top
  <2> QED
    BY <2>3, <2>4, OrdinaryStep
<1>6. CASE BlockStatement
  <2>1. Plain(<<F("compound")>>)
    BY PlainOne DEF F, IsFrame, Special
  <2>2. /\ stack # <<>> /\ Top \notin Special /\ UNCHANGED <<depth, typedefs>>
        /\ stack' = <<F("compound")>> \o Tail(stack)
    BY <1>6 DEF BlockStatement, Ready, Go, NotNested, Special, Top
  <2> QED
    BY <2>1, <2>2, OrdinaryStep
<1>7. CASE EmptyStatement
  <2>1. /\ stack # <<>> /\ Top \notin Special /\ UNCHANGED <<depth, typedefs>>
        /\ stack' = <<>> \o Tail(stack)
    BY <1>7 DEF EmptyStatement, Ready, Go, NotNested, Special, Top
  <2> QED
    BY PlainNone, <2>1, OrdinaryStep
<1>8. CASE ExpressionStatement
  <2>1. Plain(<<F("expression statement")>>)
    BY PlainOne DEF F, IsFrame, Special
  <2>2. Plain(Expression \o <<F("expression statement")>>)
    BY Lists, <2>1, PlainConcat
  <2>3. /\ stack # <<>> /\ Top \notin Special /\ UNCHANGED <<depth, typedefs>>
        /\ stack' = (Expression \o <<F("expression statement")>>) \o Tail(stack)
    BY <1>8 DEF ExpressionStatement, Ready, Go, NotNested, Special, Top
  <2> QED
    BY <2>2, <2>3, OrdinaryStep
<1>9. CASE EndExpressionStatement
  <2>1. Plain(<<Expect(";"), Build(<<"expression", "">>)>>)
    BY PlainTwo DEF Expect, Build, IsFrame, Special
  <2>2. /\ stack # <<>> /\ Top \notin Special /\ UNCHANGED <<depth, typedefs>>
        /\ \/ stack' = <<Expect(";"), Build(<<"expression", "">>)>> \o Tail(stack)
          \/ stack' = <<>> \o Tail(stack)
    BY <1>9 DEF EndExpressionStatement, Ready, Go, NotNested, Special, Top
  <2> QED
    BY <2>1, PlainNone, <2>2, OrdinaryStep
<1>10. CASE Else
  <2>1. Plain(<<Build(<<"if", "else">>)>>)
    BY PlainOne DEF Build, IsFrame, Special
  <2>2. Plain(Statement \o <<Build(<<"if", "else">>)>>)
    BY Lists, <2>1, PlainConcat
  <2>3. Plain(<<Build(<<"if", "">>)>>)
    BY PlainOne DEF Build, IsFrame, Special
  <2>4. /\ stack # <<>> /\ Top \notin Special /\ UNCHANGED <<depth, typedefs>>
        /\ \/ stack' = (Statement \o <<Build(<<"if", "else">>)>>) \o Tail(stack)
          \/ stack' = <<Build(<<"if", "">>)>> \o Tail(stack)
    BY <1>10 DEF Else, Ready, Go, NotNested, Special, Top
  <2> QED
    BY <2>2, <2>3, <2>4, OrdinaryStep
<1>11. CASE Goto
  <2>1. Plain(<<Expect(";"), Build(<<"goto", "">>)>>)
    BY PlainTwo DEF Expect, Build, IsFrame, Special
  <2>2. /\ stack # <<>> /\ Top \notin Special /\ UNCHANGED <<depth, typedefs>>
        /\ stack' = <<Expect(";"), Build(<<"goto", "">>)>> \o Tail(stack)
    BY <1>11 DEF Goto, Ready, Go, NotNested, Special, Top, Complain
  <2> QED
    BY <2>1, <2>2, OrdinaryStep
<1>12. CASE For
  <2>1. Plain(Declaration("inner") \o ForClauses)
    BY Lists, PlainConcat
  <2>2. Plain(<<Expect(";"), Build(<<"expression", "">>)>>)
    BY PlainTwo DEF Expect, Build, IsFrame, Special
  <2>3. Plain(Expression \o <<Expect(";"), Build(<<"expression", "">>)>> \o ForClauses)
    BY Lists, <2>2, PlainConcat
  <2>4. /\ stack # <<>> /\ Top \notin Special /\ UNCHANGED <<depth, typedefs>>
        /\ \/ stack' = (Declaration("inner") \o ForClauses) \o Tail(stack)
          \/ stack' = ForClauses \o Tail(stack)
          \/ stack' = (Expression \o <<Expect(";"), Build(<<"expression", "">>)>> \o ForClauses) \o Tail(stack)
    BY <1>12 DEF For, Ready, Go, NotNested, Special, Top
  <2> QED
    BY <2>1, Lists, <2>3, <2>4, OrdinaryStep
<1> QED
  BY <1>1, <1>2, <1>3, <1>4, <1>5, <1>6, <1>7, <1>8, <1>9, <1>10, <1>11, <1>12 DEF ParseStatement

(* The loop over external declarations, and recovery.                      *)
LEMMA UnitSteps ==
  ASSUME CallsInv, ParseUnit
  PROVE  CallsInv'
<1>1. CASE ExternalDeclaration
  <2>1. Plain(<<F("recover unit"), F("unit")>>)
    BY PlainTwo DEF F, IsFrame, Special
  <2>2. Plain(Declaration("file") \o <<F("recover unit"), F("unit")>>)
    BY Lists, <2>1, PlainConcat
  <2>3. /\ stack # <<>> /\ Top \notin Special /\ UNCHANGED <<depth, typedefs>>
        /\ stack' = (Declaration("file") \o <<F("recover unit"), F("unit")>>) \o Tail(stack)
    BY <1>1 DEF ExternalDeclaration, Ready, Go, NotNested, Special, Top
  <2> QED
    BY <2>2, <2>3, OrdinaryStep
<1>2. CASE PreprocessorLine
  <2>1. Plain(<<F("line"), F("unit")>>)
    BY PlainTwo DEF F, IsFrame, Special
  <2>2. Plain(<<F("line")>>)
    BY PlainOne DEF F, IsFrame, Special
  <2>3. /\ stack # <<>> /\ Top \notin Special /\ UNCHANGED <<depth, typedefs>>
        /\ \/ stack' = <<F("line"), F("unit")>> \o Tail(stack)
          \/ stack' = <<>> \o Tail(stack)
          \/ stack' = <<F("line")>> \o Tail(stack)
    BY <1>2 DEF PreprocessorLine, Ready, Go, NotNested, Special, Top
  <2> QED
    BY <2>1, PlainNone, <2>2, <2>3, OrdinaryStep
<1>3. CASE RecoverUnit
  <2>1. Plain(<<F("synchronize"), F("brace")>>)
    BY PlainTwo DEF F, IsFrame, Special
  <2>2. /\ stack # <<>> /\ Top \notin Special /\ UNCHANGED <<depth, typedefs>>
        /\ \/ stack' = <<>> \o Tail(stack)
          \/ stack' = <<F("synchronize"), F("brace")>> \o Tail(stack)
    BY <1>3 DEF RecoverUnit, Ready, Go, NotNested, Special, Top
  <2> QED
    BY PlainNone, <2>1, <2>2, OrdinaryStep
<1>4. CASE SkipBrace
  <2>1. /\ stack # <<>> /\ Top \notin Special /\ UNCHANGED <<depth, typedefs>>
        /\ stack' = <<>> \o Tail(stack)
    BY <1>4 DEF SkipBrace, Ready, Go, NotNested, Special, Top
  <2> QED
    BY PlainNone, <2>1, OrdinaryStep
<1>5. CASE EndOfUnit
  <2>1. /\ stack # <<>> /\ Top \notin Special /\ UNCHANGED <<depth, typedefs>>
        /\ stack' = <<>> \o Tail(stack)
    BY <1>5 DEF EndOfUnit, Ready, Go, NotNested, Special, Top
  <2> QED
    BY PlainNone, <2>1, OrdinaryStep
<1>6. CASE Recover
  <2>1. Plain(<<F("synchronize")>>)
    BY PlainOne DEF F, IsFrame, Special
  <2>2. /\ stack # <<>> /\ Top \notin Special /\ UNCHANGED <<depth, typedefs>>
        /\ \/ stack' = <<>> \o Tail(stack)
          \/ stack' = <<F("synchronize")>> \o Tail(stack)
    BY <1>6 DEF Recover, Ready, Go, NotNested, Special, Top
  <2> QED
    BY PlainNone, <2>1, <2>2, OrdinaryStep
<1>7. CASE Synchronize
  <2>1. Plain(<<F("synchronize")>>)
    BY PlainOne DEF F, IsFrame, Special
  <2>2. /\ stack # <<>> /\ Top \notin Special /\ UNCHANGED <<depth, typedefs>>
        /\ \/ stack' = <<>> \o Tail(stack)
          \/ stack' = <<F("synchronize")>> \o Tail(stack)
    BY <1>7 DEF Synchronize, Ready, Go, NotNested, Special, Top
  <2> QED
    BY PlainNone, <2>1, <2>2, OrdinaryStep
<1> QED
  BY <1>1, <1>2, <1>3, <1>4, <1>5, <1>6, <1>7 DEF ParseUnit

-----------------------------------------------------------------------------
(* The theorems.                                                           *)

(* The count is taken back.                                                *)
LEMMA LeaveStep ==
  ASSUME CallsInv, LeaveNesting
  PROVE  CallsInv'
<1>1. /\ stack # <<>> /\ Top = "leave" /\ depth' = depth - 1 /\ UNCHANGED typedefs
      /\ stack' = <<>> \o Tail(stack)
  BY DEF LeaveNesting, Ready, Go
<1>2. Plain(<<>>)
  BY PlainNone
<1> DEFINE none == <<>>
<1>3. Plain(none) /\ stack' = none \o Tail(stack)
  BY <1>1, <1>2
<1> HIDE DEF none
<1>4. Frameful(none) /\ Count(none, ScopeFrames) = 0 /\ Count(none, {"leave"}) = 0
  BY <1>3, CountPlain DEF Plain, Special, ScopeFrames
<1>5. TableOf(typedefs) /\ depth \in Nat /\ depth <= MaxNesting /\ Len(typedefs.starts) \in Nat
  BY Counted
<1>6. Top \in {"leave"} /\ Top \notin ScopeFrames
  BY <1>1 DEF ScopeFrames
<1>7. TableOf(typedefs') /\ typedefs'.starts = typedefs.starts
  BY <1>1, <1>5
<1>8. /\ depth' + (IF Top \in {"leave"} THEN 1 ELSE 0) = depth + Count(none, {"leave"})
      /\ depth' \in Int /\ depth' <= MaxNesting
  BY <1>1, <1>4, <1>5, <1>6, MaxNestingAssumption
<1>9. Len(typedefs'.starts) + (IF Top \in ScopeFrames THEN 1 ELSE 0)
         = Len(typedefs.starts) + Count(none, ScopeFrames)
  BY <1>4, <1>5, <1>6, <1>7
<1> QED BY <1>1, <1>3, <1>4, <1>7, <1>8, <1>9, AnyStep

(* The steps of several functions.                                         *)
LEMMA CommonSteps ==
  ASSUME CallsInv, ExpectToken \/ BuildNode \/ BuildOverOperand
  PROVE  CallsInv'
<1>1. /\ stack # <<>> /\ Top \notin Special /\ UNCHANGED <<depth, typedefs>>
      /\ stack' = <<>> \o Tail(stack)
  BY DEF ExpectToken, BuildNode, BuildOverOperand, Ready, Go, Complain, NotNested, Special
<1> QED BY <1>1, PlainNone, OrdinaryStep

(* The invariant: at every moment of a parse both counters are what the    *)
(* calls in progress make of them.                                         *)
THEOREM CallsAreCounted == Spec => []CallsInv
<1>1. Init => CallsInv
  <2> SUFFICES ASSUME Init PROVE CallsInv
    OBVIOUS
  <2>1. stack = <<F("unit")>> /\ depth = 0 /\ typedefs = [names |-> Builtins, starts |-> <<0>>]
    BY DEF Init, Table!Seeded
  <2>2. Plain(stack)
    BY <2>1, PlainOne DEF F, IsFrame, Special
  <2>3. Count(stack, {"leave"}) = 0 /\ Count(stack, ScopeFrames) = 0 /\ Frameful(stack)
    BY <2>2, CountPlain DEF Plain, Special, ScopeFrames
  <2> DEFINE zero == <<0>>
  <2>4. zero \in Seq({0}) /\ Len(zero) = 1 /\ typedefs.starts = zero
    BY <2>1
  <2>5. TableOf(typedefs)
    BY <2>1, <2>4 DEF TableOf
  <2> HIDE DEF zero
  <2> QED BY <2>1, <2>3, <2>4, <2>5, MaxNestingAssumption DEF CallsInv
<1>2. CallsInv /\ [Next]_vars => CallsInv'
  <2> SUFFICES ASSUME CallsInv, [Next]_vars PROVE CallsInv'
    OBVIOUS
  <2>1. CASE UNCHANGED <<stack, depth, typedefs>>
    BY <2>1 DEF CallsInv, Frameful, TableOf, Count, IsFrame, ScopeFrames
  <2>2. CASE Lex
    BY <2>1, <2>2 DEF Lex, parser
  <2>3. CASE LeaveNesting
    BY <2>3, LeaveStep
  <2>4. CASE ExpectToken \/ BuildNode \/ BuildOverOperand
    BY <2>4, CommonSteps
  <2>5. CASE ParseExpression
    BY <2>5, ExpressionSteps
  <2>6. CASE ParseDeclaration
    BY <2>6, DeclarationSteps
  <2>7. CASE ParseStatement
    BY <2>7, StatementSteps
  <2>8. CASE ParseUnit
    BY <2>8, UnitSteps
  <2>9. CASE UNCHANGED vars
    BY <2>1, <2>9 DEF vars, parser
  <2> QED
    BY <2>2, <2>3, <2>4, <2>5, <2>6, <2>7, <2>8, <2>9 DEF Next
<1> QED BY <1>1, <1>2, PTL DEF Spec

(* For any tokens, scenarios and cap: expression_depth counts exactly the  *)
(* nested expressions in progress and the typedef table has one mark for   *)
(* every block and record in progress, whatever errors there were.         *)
THEOREM CountsFollow == Spec => []CountsFollowCalls
<1>1. CallsInv => CountsFollowCalls
  BY DEF CallsInv, CountsFollowCalls, Frames, Count, ScopeFrames
<1> QED BY <1>1, CallsAreCounted, PTL

(* The count stays between 0 and CC_MAX_EXPRESSION_NESTING: the check      *)
(* before each increment and the decrements after it suffice.              *)
THEOREM NestingIsBounded == Spec => [](depth \in 0 .. MaxNesting)
<1>1. CallsInv => depth \in 0 .. MaxNesting
  BY Counted, MaxNestingAssumption
<1> QED BY <1>1, CallsAreCounted, PTL
=============================================================================
