---------------------------- MODULE CodegenProofs ----------------------------
(***************************************************************************)
(* Proofs about Codegen, for function bodies of every height and any       *)
(* values of the conditions: what semantic analysis accepts is lowered,    *)
(* and a body it says always returns never reaches its end.                *)
(*                                                                         *)
(* The walks over a statement are functions defined by its height.  That   *)
(* the definitions define is shown first; then the facts about walks are   *)
(* shown by height, each from those about the children.                    *)
(***************************************************************************)
EXTENDS Codegen, SequenceTheorems, WellFoundedInduction, TLAPS

-----------------------------------------------------------------------------
(* Induction, over sets of numbers.                                        *)

(* A set of numbers that is not empty has a least one.                      *)
LEMMA LeastNumber ==
  ASSUME NEW T \in SUBSET Nat, T # {}
  PROVE  \E x \in T : \A y \in T : x <= y
<1> DEFINE R == OpToRel(<, Nat)
<1>1. IsWellFoundedOn(R, Nat)
  BY NatLessThanWellFounded
<1>2. \A x, y \in Nat : <<x, y>> \in R <=> x < y
  BY DEF OpToRel
<1> HIDE DEF R
<1>3. PICK x \in T : \A y \in T : ~ (<<y, x>> \in R)
  BY <1>1, WFMin, Zenon
<1>4. ASSUME NEW y \in T PROVE x <= y
  <2>1. x \in Nat /\ y \in Nat
    OBVIOUS
  <2>2. ~ (y < x)
    BY <1>2, <1>3, <2>1
  <2> QED BY <2>1, <2>2
<1> QED BY <1>4

(* Induction up to n, over a set.                                           *)
LEMMA UpTo ==
  ASSUME NEW n \in Nat, NEW T, 0 \in T, \A k \in 1 .. n : k - 1 \in T => k \in T
  PROVE  \A k \in 0 .. n : k \in T
<1> DEFINE Bad == {k \in 0 .. n : k \notin T}
<1>1. ASSUME Bad # {} PROVE FALSE
  <2>1. PICK k \in Bad : \A j \in Bad : k <= j
    <3>1. Bad \in SUBSET Nat
      OBVIOUS
    <3> HIDE DEF Bad
    <3> QED BY <1>1, <3>1, LeastNumber
  <2>2. k \in 0 .. n /\ k \notin T /\ k # 0
    OBVIOUS
  <2>3. k \in 1 .. n /\ k - 1 \in 0 .. n /\ ~(k <= k - 1)
    BY <2>2
  <2>4. k - 1 \notin Bad
    <3> HIDE DEF Bad
    <3> QED BY <2>1, <2>3
  <2> QED BY <2>2, <2>3, <2>4
<1> QED BY <1>1

-----------------------------------------------------------------------------
(* The functions defined by height: Statement, Visiting, Collecting and     *)
(* Lowering.  Each is the last of its beginnings.                           *)

(* The recursion of Statement has a solution up to every n.                 *)
LEMMA StatementBegins ==
  ASSUME NEW n \in Nat, n <= Height
  PROVE  \E f : f = [m \in 0 .. n |-> IF m = 0 THEN {} ELSE StatementsOver(f[m - 1])]
<1> DEFINE Step(m, below) == IF m = 0 THEN {} ELSE StatementsOver(below)
           Is(f, k) == f = [m \in 0 .. k |-> Step(m, f[m - 1])]
           T == {k \in Nat : \E f : Is(f, k)}
<1>1. \A a, b : Step(0, a) = Step(0, b)
  OBVIOUS
<1> HIDE DEF Step
<1>2. 0 \in T
  <2> DEFINE f == [m \in 0 .. 0 |-> Step(m, {})]
  <2>1. \A m \in 0 .. 0 : m = 0
    OBVIOUS
  <2>2. \A m \in 0 .. 0 : f[m] = Step(m, f[m - 1])
    BY <1>1, <2>1
  <2>3. f = [m \in 0 .. 0 |-> Step(m, f[m - 1])]
    BY <2>2
  <2> QED BY <2>3
<1>3. ASSUME NEW k \in 1 .. n, k - 1 \in T PROVE k \in T
  <2>1. PICK v : Is(v, k - 1)
    BY <1>3
  <2>2. \A m \in 0 .. k - 1 : v[m] = Step(m, v[m - 1])
    BY <2>1
  <2> DEFINE w == [m \in 0 .. k |-> IF m = k THEN Step(k, v[k - 1]) ELSE v[m]]
  <2>3. ASSUME NEW m \in 0 .. k PROVE w[m] = Step(m, w[m - 1])
    <3>1. CASE m = 0
      <4>1. m \in 0 .. k - 1 /\ m # k
        BY <3>1
      <4>2. w[m] = Step(m, v[m - 1])
        BY <2>2, <4>1
      <4> HIDE DEF w
      <4> QED BY <1>1, <3>1, <4>2
    <3>2. CASE m # 0
      <4>1. m - 1 \in 0 .. k /\ m - 1 # k
        BY <3>2
      <4>2. w[m - 1] = v[m - 1]
        BY <4>1
      <4>3. CASE m = k
        BY <4>2, <4>3
      <4>4. CASE m # k
        <5>1. m \in 0 .. k - 1
          BY <4>4
        <5>2. w[m] = v[m]
          BY <4>4
        <5> HIDE DEF w
        <5> QED BY <2>2, <4>2, <5>1, <5>2
      <4> QED BY <4>3, <4>4
    <3> QED BY <3>1, <3>2
  <2>4. w = [m \in 0 .. k |-> w[m]]
    OBVIOUS
  <2> HIDE DEF w
  <2>5. Is(w, k)
    BY <2>3, <2>4
  <2> QED BY <2>5
<1>4. n \in T
  <2>1. \A k \in 0 .. n : k \in T
    <3> HIDE DEF T
    <3> QED BY <1>2, <1>3, UpTo
  <2> QED BY <2>1
<1> QED BY <1>4 DEF Step

(* So Statement itself satisfies its recursion.                             *)
LEMMA StatementIs ==
  \A n \in 0 .. Height : Statement[n] = IF n = 0 THEN {} ELSE StatementsOver(Statement[n - 1])
<1> DEFINE Step(m, below) == IF m = 0 THEN {} ELSE StatementsOver(below)
           Is(f) == f = [m \in 0 .. Height |-> Step(m, f[m - 1])]
<1>1. \E f : Is(f)
  <2>1. Height \in Nat /\ Height <= Height
    BY HeightAssumption
  <2>2. \E f : f = [m \in 0 .. Height |-> IF m = 0 THEN {} ELSE StatementsOver(f[m - 1])]
    BY <2>1, StatementBegins
  <2> QED BY <2>2
<1>2. Statement = CHOOSE f : Is(f)
  BY DEF Statement
<1>3. Is(Statement)
  <2> HIDE DEF Is
  <2> QED BY <1>1, <1>2
<1> HIDE DEF Step
<1>4. \A n \in 0 .. Height : Statement[n] = Step(n, Statement[n - 1])
  BY <1>3
<1> QED BY <1>4 DEF Step

(* No statement is without height.                                          *)
LEMMA NoStatementOfHeightZero == Statement[0] = {}
<1>1. 0 \in 0 .. Height
  BY HeightAssumption
<1> QED BY <1>1, StatementIs

(* The same for Visiting: a beginning up to every n.                        *)
LEMMA VisitingBegins ==
  ASSUME NEW n \in Nat, n <= Height
  PROVE  \E f : f = [m \in 0 .. n |-> VisitsOver(Statement[m], f[m - 1])]
<1> DEFINE Step(m, below) == VisitsOver(Statement[m], below)
           Is(f, k) == f = [m \in 0 .. k |-> Step(m, f[m - 1])]
           T == {k \in Nat : \E f : Is(f, k)}
<1>1. \A a, b : Step(0, a) = Step(0, b)
  BY NoStatementOfHeightZero DEF VisitsOver
<1> HIDE DEF Step
<1>2. 0 \in T
  <2> DEFINE f == [m \in 0 .. 0 |-> Step(m, {})]
  <2>1. \A m \in 0 .. 0 : m = 0
    OBVIOUS
  <2>2. \A m \in 0 .. 0 : f[m] = Step(m, f[m - 1])
    BY <1>1, <2>1
  <2>3. f = [m \in 0 .. 0 |-> Step(m, f[m - 1])]
    BY <2>2
  <2> QED BY <2>3
<1>3. ASSUME NEW k \in 1 .. n, k - 1 \in T PROVE k \in T
  <2>1. PICK v : Is(v, k - 1)
    BY <1>3
  <2>2. \A m \in 0 .. k - 1 : v[m] = Step(m, v[m - 1])
    BY <2>1
  <2> DEFINE w == [m \in 0 .. k |-> IF m = k THEN Step(k, v[k - 1]) ELSE v[m]]
  <2>3. ASSUME NEW m \in 0 .. k PROVE w[m] = Step(m, w[m - 1])
    <3>1. CASE m = 0
      <4>1. m \in 0 .. k - 1 /\ m # k
        BY <3>1
      <4>2. w[m] = Step(m, v[m - 1])
        BY <2>2, <4>1
      <4> HIDE DEF w
      <4> QED BY <1>1, <3>1, <4>2
    <3>2. CASE m # 0
      <4>1. m - 1 \in 0 .. k /\ m - 1 # k
        BY <3>2
      <4>2. w[m - 1] = v[m - 1]
        BY <4>1
      <4>3. CASE m = k
        BY <4>2, <4>3
      <4>4. CASE m # k
        <5>1. m \in 0 .. k - 1
          BY <4>4
        <5>2. w[m] = v[m]
          BY <4>4
        <5> HIDE DEF w
        <5> QED BY <2>2, <4>2, <5>1, <5>2
      <4> QED BY <4>3, <4>4
    <3> QED BY <3>1, <3>2
  <2>4. w = [m \in 0 .. k |-> w[m]]
    OBVIOUS
  <2> HIDE DEF w
  <2>5. Is(w, k)
    BY <2>3, <2>4
  <2> QED BY <2>5
<1>4. n \in T
  <2>1. \A k \in 0 .. n : k \in T
    <3> HIDE DEF T
    <3> QED BY <1>2, <1>3, UpTo
  <2> QED BY <2>1
<1> QED BY <1>4 DEF Step

(* Visiting satisfies its recursion.                                        *)
LEMMA VisitingIs ==
  \A n \in 0 .. Height : Visiting[n] = VisitsOver(Statement[n], Visiting[n - 1])
<1> DEFINE Step(m, below) == VisitsOver(Statement[m], below)
           Is(f) == f = [m \in 0 .. Height |-> Step(m, f[m - 1])]
<1>1. \E f : Is(f)
  <2>1. Height \in Nat /\ Height <= Height
    BY HeightAssumption
  <2>2. \E f : f = [m \in 0 .. Height |-> VisitsOver(Statement[m], f[m - 1])]
    BY <2>1, VisitingBegins
  <2> QED BY <2>2
<1>2. Visiting = CHOOSE f : Is(f)
  BY DEF Visiting
<1>3. Is(Visiting)
  <2> HIDE DEF Is
  <2> QED BY <1>1, <1>2
<1> HIDE DEF Step
<1>4. \A n \in 0 .. Height : Visiting[n] = Step(n, Visiting[n - 1])
  BY <1>3
<1> QED BY <1>4 DEF Step

(* The same for Collecting: a beginning up to every n.                      *)
LEMMA CollectingBegins ==
  ASSUME NEW n \in Nat, n <= Height
  PROVE  \E f : f = [m \in 0 .. n |-> CollectsOver(Statement[m], f[m - 1])]
<1> DEFINE Step(m, below) == CollectsOver(Statement[m], below)
           Is(f, k) == f = [m \in 0 .. k |-> Step(m, f[m - 1])]
           T == {k \in Nat : \E f : Is(f, k)}
<1>1. \A a, b : Step(0, a) = Step(0, b)
  BY NoStatementOfHeightZero DEF CollectsOver
<1> HIDE DEF Step
<1>2. 0 \in T
  <2> DEFINE f == [m \in 0 .. 0 |-> Step(m, {})]
  <2>1. \A m \in 0 .. 0 : m = 0
    OBVIOUS
  <2>2. \A m \in 0 .. 0 : f[m] = Step(m, f[m - 1])
    BY <1>1, <2>1
  <2>3. f = [m \in 0 .. 0 |-> Step(m, f[m - 1])]
    BY <2>2
  <2> QED BY <2>3
<1>3. ASSUME NEW k \in 1 .. n, k - 1 \in T PROVE k \in T
  <2>1. PICK v : Is(v, k - 1)
    BY <1>3
  <2>2. \A m \in 0 .. k - 1 : v[m] = Step(m, v[m - 1])
    BY <2>1
  <2> DEFINE w == [m \in 0 .. k |-> IF m = k THEN Step(k, v[k - 1]) ELSE v[m]]
  <2>3. ASSUME NEW m \in 0 .. k PROVE w[m] = Step(m, w[m - 1])
    <3>1. CASE m = 0
      <4>1. m \in 0 .. k - 1 /\ m # k
        BY <3>1
      <4>2. w[m] = Step(m, v[m - 1])
        BY <2>2, <4>1
      <4> HIDE DEF w
      <4> QED BY <1>1, <3>1, <4>2
    <3>2. CASE m # 0
      <4>1. m - 1 \in 0 .. k /\ m - 1 # k
        BY <3>2
      <4>2. w[m - 1] = v[m - 1]
        BY <4>1
      <4>3. CASE m = k
        BY <4>2, <4>3
      <4>4. CASE m # k
        <5>1. m \in 0 .. k - 1
          BY <4>4
        <5>2. w[m] = v[m]
          BY <4>4
        <5> HIDE DEF w
        <5> QED BY <2>2, <4>2, <5>1, <5>2
      <4> QED BY <4>3, <4>4
    <3> QED BY <3>1, <3>2
  <2>4. w = [m \in 0 .. k |-> w[m]]
    OBVIOUS
  <2> HIDE DEF w
  <2>5. Is(w, k)
    BY <2>3, <2>4
  <2> QED BY <2>5
<1>4. n \in T
  <2>1. \A k \in 0 .. n : k \in T
    <3> HIDE DEF T
    <3> QED BY <1>2, <1>3, UpTo
  <2> QED BY <2>1
<1> QED BY <1>4 DEF Step

(* Collecting satisfies its recursion.                                      *)
LEMMA CollectingIs ==
  \A n \in 0 .. Height : Collecting[n] = CollectsOver(Statement[n], Collecting[n - 1])
<1> DEFINE Step(m, below) == CollectsOver(Statement[m], below)
           Is(f) == f = [m \in 0 .. Height |-> Step(m, f[m - 1])]
<1>1. \E f : Is(f)
  <2>1. Height \in Nat /\ Height <= Height
    BY HeightAssumption
  <2>2. \E f : f = [m \in 0 .. Height |-> CollectsOver(Statement[m], f[m - 1])]
    BY <2>1, CollectingBegins
  <2> QED BY <2>2
<1>2. Collecting = CHOOSE f : Is(f)
  BY DEF Collecting
<1>3. Is(Collecting)
  <2> HIDE DEF Is
  <2> QED BY <1>1, <1>2
<1> HIDE DEF Step
<1>4. \A n \in 0 .. Height : Collecting[n] = Step(n, Collecting[n - 1])
  BY <1>3
<1> QED BY <1>4 DEF Step

(* The same for Lowering: a beginning up to every n.                        *)
LEMMA LoweringBegins ==
  ASSUME NEW n \in Nat, n <= Height
  PROVE  \E f : f = [m \in 0 .. n |-> LowersOver(Statement[m], f[m - 1])]
<1> DEFINE Step(m, below) == LowersOver(Statement[m], below)
           Is(f, k) == f = [m \in 0 .. k |-> Step(m, f[m - 1])]
           T == {k \in Nat : \E f : Is(f, k)}
<1>1. \A a, b : Step(0, a) = Step(0, b)
  BY NoStatementOfHeightZero DEF LowersOver
<1> HIDE DEF Step
<1>2. 0 \in T
  <2> DEFINE f == [m \in 0 .. 0 |-> Step(m, {})]
  <2>1. \A m \in 0 .. 0 : m = 0
    OBVIOUS
  <2>2. \A m \in 0 .. 0 : f[m] = Step(m, f[m - 1])
    BY <1>1, <2>1
  <2>3. f = [m \in 0 .. 0 |-> Step(m, f[m - 1])]
    BY <2>2
  <2> QED BY <2>3
<1>3. ASSUME NEW k \in 1 .. n, k - 1 \in T PROVE k \in T
  <2>1. PICK v : Is(v, k - 1)
    BY <1>3
  <2>2. \A m \in 0 .. k - 1 : v[m] = Step(m, v[m - 1])
    BY <2>1
  <2> DEFINE w == [m \in 0 .. k |-> IF m = k THEN Step(k, v[k - 1]) ELSE v[m]]
  <2>3. ASSUME NEW m \in 0 .. k PROVE w[m] = Step(m, w[m - 1])
    <3>1. CASE m = 0
      <4>1. m \in 0 .. k - 1 /\ m # k
        BY <3>1
      <4>2. w[m] = Step(m, v[m - 1])
        BY <2>2, <4>1
      <4> HIDE DEF w
      <4> QED BY <1>1, <3>1, <4>2
    <3>2. CASE m # 0
      <4>1. m - 1 \in 0 .. k /\ m - 1 # k
        BY <3>2
      <4>2. w[m - 1] = v[m - 1]
        BY <4>1
      <4>3. CASE m = k
        BY <4>2, <4>3
      <4>4. CASE m # k
        <5>1. m \in 0 .. k - 1
          BY <4>4
        <5>2. w[m] = v[m]
          BY <4>4
        <5> HIDE DEF w
        <5> QED BY <2>2, <4>2, <5>1, <5>2
      <4> QED BY <4>3, <4>4
    <3> QED BY <3>1, <3>2
  <2>4. w = [m \in 0 .. k |-> w[m]]
    OBVIOUS
  <2> HIDE DEF w
  <2>5. Is(w, k)
    BY <2>3, <2>4
  <2> QED BY <2>5
<1>4. n \in T
  <2>1. \A k \in 0 .. n : k \in T
    <3> HIDE DEF T
    <3> QED BY <1>2, <1>3, UpTo
  <2> QED BY <2>1
<1> QED BY <1>4 DEF Step

(* Lowering satisfies its recursion.                                        *)
LEMMA LoweringIs ==
  \A n \in 0 .. Height : Lowering[n] = LowersOver(Statement[n], Lowering[n - 1])
<1> DEFINE Step(m, below) == LowersOver(Statement[m], below)
           Is(f) == f = [m \in 0 .. Height |-> Step(m, f[m - 1])]
<1>1. \E f : Is(f)
  <2>1. Height \in Nat /\ Height <= Height
    BY HeightAssumption
  <2>2. \E f : f = [m \in 0 .. Height |-> LowersOver(Statement[m], f[m - 1])]
    BY <2>1, LoweringBegins
  <2> QED BY <2>2
<1>2. Lowering = CHOOSE f : Is(f)
  BY DEF Lowering
<1>3. Is(Lowering)
  <2> HIDE DEF Is
  <2> QED BY <1>1, <1>2
<1> HIDE DEF Step
<1>4. \A n \in 0 .. Height : Lowering[n] = Step(n, Lowering[n - 1])
  BY <1>3
<1> QED BY <1>4 DEF Step

-----------------------------------------------------------------------------
(* A walk through children is one walk after the other.                     *)

Stages(w, X, walks, x) ==
  /\ w \in [0 .. Len(walks) -> X]
  /\ w[0] = x
  /\ \A k \in 1 .. Len(walks) : w[k] = walks[k][w[k - 1]]

(* Walking one after the other over X, the stages are all in X.             *)
LEMMA StagesExist ==
  ASSUME NEW X, NEW walks, NEW x \in X, Len(walks) \in Nat,
         \A k \in 1 .. Len(walks) : \A y \in X : walks[k][y] \in X
  PROVE  \E w : Stages(w, X, walks, x)
<1> DEFINE n == Len(walks)
           Upto(w, m) == /\ w \in [0 .. m -> X]
                         /\ w[0] = x
                         /\ \A k \in 1 .. m : w[k] = walks[k][w[k - 1]]
           T == {m \in 0 .. n : \E w : Upto(w, m)}
<1>0. n \in Nat
  OBVIOUS
<1>1. 0 \in T
  <2> DEFINE w == [i \in 0 .. 0 |-> x]
  <2>1. w \in [0 .. 0 -> X] /\ w[0] = x
    OBVIOUS
  <2>2. \A k \in 1 .. 0 : FALSE
    OBVIOUS
  <2> HIDE DEF w
  <2>3. Upto(w, 0)
    BY <2>1, <2>2
  <2> QED BY <1>0, <2>3
<1>2. ASSUME NEW m \in 1 .. n, m - 1 \in T PROVE m \in T
  <2>1. PICK v : Upto(v, m - 1)
    BY <1>2
  <2>2. m \in Nat /\ m - 1 \in 0 .. m - 1
    BY <1>0
  <2> DEFINE w == [i \in 0 .. m |-> IF i = m THEN walks[m][v[m - 1]] ELSE v[i]]
  <2>3. \A i \in 0 .. m : w[i] \in X
    <3>1. v[m - 1] \in X
      BY <2>1, <2>2
    <3>2. walks[m][v[m - 1]] \in X
      BY <3>1
    <3>3. \A i \in 0 .. m : i # m => i \in 0 .. m - 1
      BY <2>2
    <3> QED BY <2>1, <3>2, <3>3
  <2>4. w[0] = x
    <3>1. 0 \in 0 .. m /\ 0 # m
      BY <2>2
    <3> QED BY <2>1, <3>1
  <2>5. ASSUME NEW k \in 1 .. m PROVE w[k] = walks[k][w[k - 1]]
    <3>1. k - 1 \in 0 .. m /\ k \in 0 .. m /\ k - 1 # m /\ (k # m => k \in 1 .. m - 1)
      BY <2>2
    <3>2. w[k - 1] = v[k - 1]
      BY <3>1
    <3>3. CASE k = m
      BY <3>1, <3>2, <3>3
    <3>4. CASE k # m
      BY <2>1, <3>1, <3>2, <3>4
    <3> QED BY <3>3, <3>4
  <2>6. w \in [0 .. m -> X]
    BY <2>3
  <2> HIDE DEF w
  <2>7. Upto(w, m)
    BY <2>4, <2>5, <2>6
  <2> QED BY <2>7
<1>3. n \in T
  <2>1. \A k \in 0 .. n : k \in T
    <3> HIDE DEF T, n
    <3> QED BY <1>0, <1>1, <1>2, UpTo
  <2>2. n \in 0 .. n
    BY <1>0
  <2> QED BY <2>1, <2>2
<1> QED BY <1>3 DEF Stages

(* Through is the last of the stages.                                       *)
LEMMA ThroughIs ==
  ASSUME NEW X, NEW walks, NEW x \in X, Len(walks) \in Nat,
         \A k \in 1 .. Len(walks) : \A y \in X : walks[k][y] \in X
  PROVE  \E w : Stages(w, X, walks, x) /\ Through(walks, x) = w[Len(walks)]
<1> DEFINE n == Len(walks)
           Turned(f, k) == walks[k][f[k - 1]]
           Fills(f) == f = [k \in 0 .. n |-> IF k = 0 THEN x ELSE Turned(f, k)]
           after == CHOOSE f : Fills(f)
<1>0. n \in Nat
  OBVIOUS
<1>1. Through(walks, x) = after[n]
  BY DEF Through
<1>2. PICK w : Stages(w, X, walks, x)
  BY StagesExist
<1>3. /\ w \in [0 .. n -> X] /\ w[0] = x
      /\ \A k \in 1 .. n : w[k] = Turned(w, k)
  BY <1>2 DEF Stages
<1>4. \A k \in 0 .. n : k # 0 => k \in 1 .. n
  BY <1>0
<1> HIDE DEF Turned
<1>5. Fills(w)
  <2>1. w = [k \in 0 .. n |-> w[k]]
    BY <1>3
  <2>2. \A k \in 0 .. n : w[k] = IF k = 0 THEN x ELSE Turned(w, k)
    BY <1>3, <1>4
  <2> QED BY <2>1, <2>2
<1>6. Fills(after)
  <2> HIDE DEF Fills
  <2> QED BY <1>5
<1> HIDE DEF after
<1>7. \A k \in 0 .. n : after[k] = IF k = 0 THEN x ELSE Turned(after, k)
  BY <1>6
<1> DEFINE T == {k \in 0 .. n : after[k] = w[k]}
<1>8. 0 \in T
  BY <1>0, <1>3, <1>7
<1>9. ASSUME NEW k \in 1 .. n, k - 1 \in T PROVE k \in T
  <2>1. k \in 0 .. n /\ k # 0
    BY <1>0
  <2>2. Turned(after, k) = Turned(w, k)
    BY <1>9 DEF Turned
  <2> QED BY <1>3, <1>7, <2>1, <2>2
<1>10. after[n] = w[n]
  <2>1. \A k \in 0 .. n : k \in T
    <3> HIDE DEF T, n
    <3> QED BY <1>0, <1>8, <1>9, UpTo
  <2>2. n \in 0 .. n
    BY <1>0
  <2> QED BY <2>1, <2>2
<1> QED BY <1>1, <1>2, <1>10

-----------------------------------------------------------------------------
(* The shapes of statements.                                                *)

(* A statement that is one of the children of statements of height n.       *)
Inner(n) == Statement[n - 1]

(* The fields of a statement, and the shape its kind demands.               *)
LEMMA StatementShape ==
  ASSUME NEW n \in 1 .. Height, NEW s \in Statement[n]
  PROVE  /\ s.kind \in Kinds
         /\ s.arg \in Args
         /\ s.kids \in Seq(Inner(n) \union Expressions)
         /\ Shaped(s)
<1>1. Statement[n] = StatementsOver(Statement[n - 1])
  <2>1. n \in 0 .. Height /\ n # 0
    BY HeightAssumption
  <2> QED BY <2>1, StatementIs
<1> QED BY <1>1 DEF StatementsOver, Inner

(* A statement is not an expression.                                        *)
LEMMA StatementsAreNot ==
  ASSUME NEW n \in 0 .. Height, NEW s \in Statement[n]
  PROVE  ~ IsExpression(s)
<1>1. CASE n = 0
  BY <1>1, NoStatementOfHeightZero
<1>2. CASE n # 0
  <2>1. n \in 1 .. Height
    BY <1>2
  <2>2. s.kind \in Kinds
    BY <2>1, StatementShape
  <2> QED BY <2>2 DEF Kinds, IsExpression
<1> QED BY <1>1, <1>2

(* The children of a statement are statements that are less high, or        *)
(* expressions.                                                             *)
LEMMA Children ==
  ASSUME NEW n \in 1 .. Height, NEW s \in Statement[n]
  PROVE  /\ Len(s.kids) \in Nat
         /\ DOMAIN s.kids = 1 .. Len(s.kids)
         /\ \A i \in 1 .. Len(s.kids) : IsExpression(s.kids[i]) \/ s.kids[i] \in Inner(n)
<1>1. s.kids \in Seq(Inner(n) \union Expressions)
  BY StatementShape
<1>2. \A e \in Expressions : IsExpression(e)
  BY DEF Expressions, IsExpression
<1>3. Len(s.kids) \in Nat /\ DOMAIN s.kids = 1 .. Len(s.kids)
  BY <1>1
<1>4. \A i \in 1 .. Len(s.kids) : s.kids[i] \in Inner(n) \union Expressions
  BY <1>1
<1> QED BY <1>2, <1>3, <1>4

(* All children of a compound statement are statements.                     *)
LEMMA CompoundShape ==
  ASSUME NEW n \in 1 .. Height, NEW s \in Statement[n], s.kind = "compound"
  PROVE  \A i \in 1 .. Len(s.kids) : s.kids[i] \in Inner(n)
BY StatementShape, Children DEF Shaped

(* The branches of an if statement are statements.                          *)
LEMMA IfShape ==
  ASSUME NEW n \in 1 .. Height, NEW s \in Statement[n], s.kind = "if"
  PROVE  /\ Len(s.kids) \in {2, 3}
         /\ s.kids[2] \in Inner(n)
         /\ Len(s.kids) > 2 => s.kids[3] \in Inner(n)
<1>1. Shaped(s)
  BY StatementShape
<1>2. Len(s.kids) \in {2, 3} /\ {i \in DOMAIN s.kids : IsExpression(s.kids[i])} = {1}
  BY <1>1 DEF Shaped
<1>3. \A i \in 2 .. Len(s.kids) : s.kids[i] \in Inner(n)
  BY <1>2, Children
<1> QED BY <1>2, <1>3

(* The body of a while or a switch is a statement.                          *)
LEMMA LoopShape ==
  ASSUME NEW n \in 1 .. Height, NEW s \in Statement[n], s.kind \in {"while", "switch"}
  PROVE  Len(s.kids) = 2 /\ s.kids[2] \in Inner(n)
<1>1. Shaped(s)
  BY StatementShape
<1>2. Len(s.kids) = 2 /\ {i \in DOMAIN s.kids : IsExpression(s.kids[i])} = {1}
  BY <1>1 DEF Shaped
<1> QED BY <1>2, Children

(* So is the body of a do.                                                  *)
LEMMA DoShape ==
  ASSUME NEW n \in 1 .. Height, NEW s \in Statement[n], s.kind = "do"
  PROVE  Len(s.kids) = 2 /\ s.kids[1] \in Inner(n)
<1>1. Shaped(s)
  BY StatementShape
<1>2. Len(s.kids) = 2 /\ {i \in DOMAIN s.kids : IsExpression(s.kids[i])} = {2}
  BY <1>1 DEF Shaped
<1> QED BY <1>2, Children

(* So are the initial statement and the body of a for.                      *)
LEMMA ForShape ==
  ASSUME NEW n \in 1 .. Height, NEW s \in Statement[n], s.kind = "for"
  PROVE  /\ Len(s.kids) \in 2 .. 4
         /\ s.kids[1] \in Inner(n)
         /\ s.kids[1].kind \in {"expression", "empty"}
         /\ s.kids[Len(s.kids)] \in Inner(n)
<1>1. Shaped(s)
  BY StatementShape
<1> DEFINE m == Len(s.kids)
<1>2. /\ m \in 2 .. 4
      /\ {i \in DOMAIN s.kids : IsExpression(s.kids[i])} = 2 .. m - 1
      /\ s.kids[1].kind \in {"expression", "empty"}
  BY <1>1 DEF Shaped
<1>3. DOMAIN s.kids = 1 .. m
  BY Children
<1> HIDE DEF m
<1>4. 1 \in 1 .. m /\ m \in 1 .. m /\ 1 \notin 2 .. m - 1 /\ m \notin 2 .. m - 1
  BY <1>2
<1>5. ~ IsExpression(s.kids[1]) /\ ~ IsExpression(s.kids[m])
  BY <1>2, <1>3, <1>4
<1>6. s.kids[1] \in Inner(n) /\ s.kids[m] \in Inner(n)
  BY <1>4, <1>5, Children DEF m
<1> QED BY <1>2, <1>6 DEF m

(* So is what a case, a default or a label stands before.                   *)
LEMMA LabelledShape ==
  ASSUME NEW n \in 1 .. Height, NEW s \in Statement[n], s.kind \in {"case", "default", "label"}
  PROVE  Len(s.kids) = 1 /\ s.kids[1] \in Inner(n)
<1>1. Shaped(s)
  BY StatementShape
<1>2. Len(s.kids) = 1 /\ {i \in DOMAIN s.kids : IsExpression(s.kids[i])} = {}
  BY <1>1 DEF Shaped
<1> QED BY <1>2, Children

(* What is a statement of a height is one of every greater height.          *)
LEMMA HigherStatements ==
  \A n \in 1 .. Height : Statement[n - 1] \subseteq Statement[n]
<1> DEFINE T == {n \in 0 .. Height : n > 0 => Statement[n - 1] \subseteq Statement[n]}
<1>1. 0 \in T
  BY HeightAssumption
<1>2. ASSUME NEW n \in 1 .. Height, n - 1 \in T PROVE n \in T
  <2>1. n \in 0 .. Height /\ n # 0 /\ n - 1 \in 0 .. Height /\ n \in 1 .. Height
    BY HeightAssumption
  <2>2. Statement[n] = StatementsOver(Statement[n - 1])
    BY <2>1, StatementIs
  <2>3. CASE n = 1
    BY <2>1, <2>3, NoStatementOfHeightZero
  <2>4. CASE n # 1
    <3>1. n - 1 \in 1 .. Height /\ n - 1 > 0
      BY <2>1, <2>4, HeightAssumption
    <3>2. Statement[n - 1] = StatementsOver(Statement[n - 1 - 1])
      BY <2>1, <3>1, StatementIs
    <3>3. Statement[n - 1 - 1] \subseteq Statement[n - 1]
      BY <1>2, <3>1
    <3>4. ASSUME NEW A, NEW B, A \subseteq B
          PROVE  StatementsOver(A) \subseteq StatementsOver(B)
      <4>1. Seq(A \union Expressions) \subseteq Seq(B \union Expressions)
        BY <3>4, SeqMonotonic
      <4> QED BY <4>1 DEF StatementsOver
    <3>5. Statement[n - 1] \subseteq Statement[n]
      BY <2>2, <3>2, <3>3, <3>4
    <3> QED BY <2>1, <3>5
  <2> QED BY <2>3, <2>4
<1>3. \A n \in 0 .. Height : n \in T
  <2> HIDE DEF T
  <2> QED BY <1>1, <1>2, UpTo, HeightAssumption
<1> QED BY <1>3

(* A statement of a height is one of every greater height.                  *)
LEMMA StatementsAreHigher ==
  ASSUME NEW n \in 0 .. Height, NEW m \in n .. Height
  PROVE  Statement[n] \subseteq Statement[m]
<1> DEFINE T == {k \in 0 .. Height - n : Statement[n] \subseteq Statement[n + k]}
<1>1. Height - n \in Nat
  BY HeightAssumption
<1>2. 0 \in T
  BY <1>1
<1>3. ASSUME NEW k \in 1 .. Height - n, k - 1 \in T PROVE k \in T
  <2>1. n + k \in 1 .. Height /\ n + k - 1 = n + (k - 1) /\ k \in 0 .. Height - n
    BY HeightAssumption
  <2>2. Statement[n + (k - 1)] \subseteq Statement[n + k]
    BY <2>1, HigherStatements
  <2> QED BY <1>3, <2>1, <2>2
<1>4. \A k \in 0 .. Height - n : k \in T
  <2> HIDE DEF T
  <2> QED BY <1>1, <1>2, <1>3, UpTo
<1>5. m - n \in T /\ n + (m - n) = m
  <2>1. m - n \in 0 .. Height - n
    BY HeightAssumption
  <2> QED BY <1>4, <2>1, HeightAssumption
<1> QED BY <1>5

(* So is one of the greatest.                                               *)
LEMMA StatementsAreHigh ==
  ASSUME NEW n \in 0 .. Height
  PROVE  Statement[n] \subseteq Statement[Height]
<1>1. Height \in n .. Height
  BY HeightAssumption
<1> QED BY <1>1, StatementsAreHigher

-----------------------------------------------------------------------------
(* Semantic analysis comes out of a statement at the depth it went in, with *)
(* all that it had reported.                                                *)

Kept(c, d) ==
  /\ d.breakDepth = c.breakDepth
  /\ d.loopDepth = c.loopDepth
  /\ Len(d.switches) = Len(c.switches)
  /\ c.reported \subseteq d.reported

Visits == {f \in [Contexts -> Contexts] : \A c \in Contexts : Kept(c, f[c])}

Record == [values : SUBSET Args, hasDefault : BOOLEAN]

(* The fields of the visitor's context.                                     *)
LEMMA ContextFields ==
  ASSUME NEW c \in Contexts
  PROVE  /\ c.breakDepth \in Nat /\ c.loopDepth \in Nat
         /\ c.switches \in Seq(Record) /\ Len(c.switches) \in Nat
         /\ c.labels \subseteq Args /\ c.gotos \subseteq Args
         /\ c.reported \subseteq Problems /\ c.returns \in BOOLEAN
<1>1. /\ c.breakDepth \in Nat /\ c.loopDepth \in Nat
      /\ c.switches \in Seq(Record)
      /\ c.labels \subseteq Args /\ c.gotos \subseteq Args
      /\ c.reported \subseteq Problems /\ c.returns \in BOOLEAN
  BY DEF Contexts, Record
<1>2. Len(c.switches) \in Nat
  BY <1>1, LenProperties
<1> QED BY <1>1, <1>2

(* What is kept twice is kept.                                              *)
LEMMA KeptTransitively ==
  ASSUME NEW c, NEW d, NEW e, Kept(c, d), Kept(d, e)
  PROVE  Kept(c, e)
BY DEF Kept

(* Returning changes nothing but whether the statement returns.             *)
LEMMA ReturningKeeps ==
  ASSUME NEW c \in Contexts, NEW b \in BOOLEAN
  PROVE  /\ Returning(c, b) \in Contexts
         /\ Kept(c, Returning(c, b))
         /\ Returning(c, b).returns = b
         /\ Returning(c, b).reported = c.reported
BY DEF Returning, Contexts, Kept

(* A report is only added to what was reported.                             *)
LEMMA ReportingKeeps ==
  ASSUME NEW c \in Contexts, NEW b, NEW p \in Problems
  PROVE  /\ ReportedIf(c, b, p) \in Contexts
         /\ Kept(c, ReportedIf(c, b, p))
         /\ ReportedIf(c, b, p).switches = c.switches
         /\ b => p \in ReportedIf(c, b, p).reported
BY DEF ReportedIf, Reported, Contexts, Kept

(* The problems named in the rules are problems.                            *)
LEMMA ProblemsAre ==
  /\ "case outside a switch" \in Problems /\ "duplicate case" \in Problems
  /\ "case of no integer type" \in Problems /\ "case not constant" \in Problems
  /\ "default outside a switch" \in Problems /\ "duplicate default" \in Problems
  /\ "redefinition of label" \in Problems /\ "undefined label" \in Problems
  /\ "break outside" \in Problems /\ "continue outside" \in Problems
BY DEF Problems

(* One of the switches' records replaced.                                   *)
LEMMA RecordReplaced ==
  ASSUME NEW c \in Contexts, NEW q \in Seq(Record), Len(q) = Len(c.switches)
  PROVE  [c EXCEPT !.switches = q] \in Contexts /\ Kept(c, [c EXCEPT !.switches = q])
BY DEF Contexts, Kept, Record

(* Recording a case keeps what there is.                                    *)
LEMMA RecordCaseKeeps ==
  ASSUME NEW c \in Contexts, NEW v \in Args
  PROVE  RecordCase(c, v) \in Contexts /\ Kept(c, RecordCase(c, v))
<1>1. CASE c.switches = <<>>
  BY <1>1 DEF RecordCase, Kept
<1>2. CASE c.switches # <<>>
  <2> DEFINE top == Len(c.switches)
             d == ReportedIf(c, v \in c.switches[top].values, "duplicate case")
             e == [d.switches[top] EXCEPT !.values = d.switches[top].values \union {v}]
             q == [d.switches EXCEPT ![top] = e]
  <2>1. RecordCase(c, v) = [d EXCEPT !.switches = q]
    <3>1. RecordCase(c, v) = [d EXCEPT !.switches[top].values = @ \union {v}]
      BY <1>2, Zenon DEF RecordCase
    <3> HIDE DEF d, top
    <3> QED BY <3>1
  <2>2. d \in Contexts /\ Kept(c, d) /\ d.switches = c.switches
    BY ReportingKeeps, ProblemsAre
  <2>3. c.switches \in Seq(Record)
    BY ContextFields
  <2>4. top \in 1 .. Len(c.switches)
    BY <1>2, <2>3, EmptySeq, LenProperties
  <2> HIDE DEF d
  <2>5. d.switches[top] \in Record
    BY <2>2, <2>3, <2>4, ElementOfSeq
  <2>6. e \in Record
    BY <2>5 DEF Record
  <2> HIDE DEF e
  <2>7. q \in Seq(Record) /\ Len(q) = Len(d.switches)
    BY <2>2, <2>3, <2>4, <2>6, ExceptSeq
  <2> HIDE DEF q
  <2>8. [d EXCEPT !.switches = q] \in Contexts /\ Kept(d, [d EXCEPT !.switches = q])
    BY <2>2, <2>7, RecordReplaced
  <2> QED BY <2>1, <2>2, <2>8, KeptTransitively
<1> QED BY <1>1, <1>2

(* So does the label of a case, which is reported when it is not constant.  *)
LEMMA VisitCaseKeeps ==
  ASSUME NEW c \in Contexts, NEW v \in Args
  PROVE  /\ VisitCase(c, v) \in Contexts /\ Kept(c, VisitCase(c, v))
         /\ v = "" => VisitCase(c, v).reported # {}
<1> DEFINE d == ReportedIf(c, c.switches = <<>>, "case outside a switch")
           e == ReportedIf(d, v \in Mistyped, "case of no integer type")
           f == ReportedIf(e, TRUE, "case not constant")
<1>1. d \in Contexts /\ Kept(c, d)
  BY ReportingKeeps, ProblemsAre
<1>2. VisitCase(c, v) = IF v = "" THEN f ELSE RecordCase(e, v)
  BY DEF VisitCase, ReportedIf
<1> HIDE DEF d
<1>3. e \in Contexts /\ Kept(d, e)
  BY <1>1, ReportingKeeps, ProblemsAre
<1> HIDE DEF e
<1>4. Kept(c, e)
  BY <1>1, <1>3, KeptTransitively
<1>5. f \in Contexts /\ Kept(e, f) /\ f.reported # {}
  BY <1>3, ReportingKeeps, ProblemsAre
<1>6. RecordCase(e, v) \in Contexts /\ Kept(e, RecordCase(e, v))
  BY <1>3, RecordCaseKeeps
<1> HIDE DEF f
<1>7. Kept(c, f) /\ Kept(c, RecordCase(e, v))
  BY <1>4, <1>5, <1>6, KeptTransitively
<1> QED BY <1>2, <1>5, <1>6, <1>7

(* The same for a default.                                                  *)
LEMMA RecordDefaultKeeps ==
  ASSUME NEW c \in Contexts
  PROVE  RecordDefault(c) \in Contexts /\ Kept(c, RecordDefault(c))
<1>1. CASE c.switches = <<>>
  <2>1. RecordDefault(c) = ReportedIf(c, TRUE, "default outside a switch")
    BY <1>1 DEF RecordDefault, ReportedIf
  <2> QED BY <2>1, ReportingKeeps, ProblemsAre
<1>2. CASE c.switches # <<>>
  <2> DEFINE top == Len(c.switches)
             d == ReportedIf(c, c.switches[top].hasDefault, "duplicate default")
             q == [d.switches EXCEPT ![top] = [@ EXCEPT !.hasDefault = TRUE]]
  <2>1. RecordDefault(c) = [d EXCEPT !.switches = q]
    BY <1>2 DEF RecordDefault
  <2>2. d \in Contexts /\ Kept(c, d) /\ d.switches = c.switches
    BY ReportingKeeps, ProblemsAre
  <2>3. c.switches \in Seq(Record)
    BY ContextFields
  <2>4. top \in 1 .. Len(c.switches)
    BY <1>2, <2>3, EmptySeq, LenProperties
  <2> HIDE DEF d
  <2>5. d.switches[top] \in Record
    BY <2>2, <2>3, <2>4, ElementOfSeq
  <2>6. [d.switches[top] EXCEPT !.hasDefault = TRUE] \in Record
    BY <2>5 DEF Record
  <2>7. q \in Seq(Record) /\ Len(q) = Len(d.switches)
    BY <2>2, <2>3, <2>4, <2>6, ExceptSeq
  <2> HIDE DEF q
  <2>8. [d EXCEPT !.switches = q] \in Contexts /\ Kept(d, [d EXCEPT !.switches = q])
    BY <2>2, <2>7, RecordReplaced
  <2> QED BY <2>1, <2>2, <2>8, KeptTransitively
<1> QED BY <1>1, <1>2

(* Recording a label keeps what there is.                                   *)
LEMMA RecordLabelKeeps ==
  ASSUME NEW c \in Contexts, NEW name \in Args
  PROVE  RecordLabel(c, name) \in Contexts /\ Kept(c, RecordLabel(c, name))
<1> DEFINE d == ReportedIf(c, name \in c.labels, "redefinition of label")
<1>1. d \in Contexts /\ Kept(c, d)
  BY ReportingKeeps, ProblemsAre
<1>2. RecordLabel(c, name) = [d EXCEPT !.labels = @ \union {name}]
  BY DEF RecordLabel
<1> HIDE DEF d
<1>3. [d EXCEPT !.labels = @ \union {name}] \in Contexts
  BY <1>1 DEF Contexts
<1>4. Kept(d, [d EXCEPT !.labels = @ \union {name}])
  BY <1>1 DEF Contexts, Kept
<1> QED BY <1>1, <1>2, <1>3, <1>4, KeptTransitively

(* Into the body of a loop or a switch, through it, and out again.          *)
LEMMA EnteredIs ==
  ASSUME NEW c \in Contexts, NEW kind
  PROVE  /\ Entered(c, kind) \in Contexts
         /\ Entered(c, kind).breakDepth = c.breakDepth + 1
         /\ Entered(c, kind).loopDepth = IF kind = "switch" THEN c.loopDepth ELSE c.loopDepth + 1
         /\ Len(Entered(c, kind).switches) =
                IF kind = "switch" THEN Len(c.switches) + 1 ELSE Len(c.switches)
         /\ Entered(c, kind).reported = c.reported
<1>1. c.breakDepth + 1 \in Nat /\ c.loopDepth + 1 \in Nat /\ c.switches \in Seq(Record)
  BY ContextFields
<1>2. CASE kind = "switch"
  <2> DEFINE q == Append(c.switches, NoRecord)
  <2>1. Entered(c, kind) = [c EXCEPT !.breakDepth = @ + 1, !.switches = q]
    BY <1>2 DEF Entered
  <2>2. NoRecord \in Record
    BY DEF NoRecord, Record
  <2>3. q \in Seq(Record) /\ Len(q) = Len(c.switches) + 1
    BY <1>1, <2>2, AppendProperties
  <2> HIDE DEF q
  <2> QED BY <1>1, <1>2, <2>1, <2>3 DEF Contexts, Record
<1>3. CASE kind # "switch"
  <2>1. Entered(c, kind) = [c EXCEPT !.breakDepth = @ + 1, !.loopDepth = @ + 1]
    BY <1>3 DEF Entered
  <2> QED BY <1>1, <1>3, <2>1 DEF Contexts
<1> QED BY <1>2, <1>3

(* Leaving a body undoes what entering it did.                              *)
LEMMA LeftIs ==
  ASSUME NEW c \in Contexts, NEW kind, NEW d \in Contexts, Kept(Entered(c, kind), d)
  PROVE  Left(d, kind) \in Contexts /\ Kept(c, Left(d, kind)) /\ Left(d, kind).reported = d.reported
<1>1. /\ c.breakDepth \in Nat /\ c.loopDepth \in Nat /\ Len(c.switches) \in Nat
      /\ d.switches \in Seq(Record)
  BY ContextFields
<1>2. /\ d.breakDepth = c.breakDepth + 1
      /\ d.loopDepth = IF kind = "switch" THEN c.loopDepth ELSE c.loopDepth + 1
      /\ Len(d.switches) = IF kind = "switch" THEN Len(c.switches) + 1 ELSE Len(c.switches)
      /\ c.reported \subseteq d.reported
  BY EnteredIs DEF Kept
<1>3. d.breakDepth - 1 = c.breakDepth
  BY <1>1, <1>2
<1>4. CASE kind = "switch"
  <2> DEFINE q == SubSeq(d.switches, 1, Len(d.switches) - 1)
  <2>1. Left(d, kind) = [d EXCEPT !.breakDepth = @ - 1, !.switches = q]
    BY <1>4 DEF Left
  <2>2. Len(d.switches) - 1 = Len(c.switches)
    BY <1>1, <1>2, <1>4
  <2>3. q \in Seq(Record) /\ Len(q) = Len(c.switches)
    <3> DEFINE m == Len(c.switches)
    <3>1. q = SubSeq(d.switches, 1, m) /\ m \in Nat /\ Len(d.switches) = m + 1
      BY <1>1, <1>2, <1>4, <2>2
    <3>2. \A i \in 1 .. m : d.switches[i] \in Record
      BY <1>1, <3>1, ElementOfSeq
    <3> HIDE DEF q, m
    <3>3. q \in Seq(Record) /\ Len(q) = IF 1 <= m THEN m - 1 + 1 ELSE 0
      BY <3>1, <3>2, SubSeqProperties
    <3> QED BY <3>1, <3>3 DEF m
  <2> HIDE DEF q
  <2> QED BY <1>1, <1>2, <1>3, <1>4, <2>1, <2>3 DEF Contexts, Record, Kept
<1>5. CASE kind # "switch"
  <2>1. Left(d, kind) = [d EXCEPT !.breakDepth = @ - 1, !.loopDepth = @ - 1]
    BY <1>5 DEF Left
  <2>2. d.loopDepth - 1 = c.loopDepth
    BY <1>1, <1>2, <1>5
  <2> QED BY <1>1, <1>2, <1>3, <1>5, <2>1, <2>2 DEF Contexts, Kept
<1> QED BY <1>4, <1>5

-----------------------------------------------------------------------------
(* The visitor, by the height of the statement.                             *)

VisitsInner(n, inner) == \A t \in Inner(n) : inner[t] \in Visits

(* The visit of a child keeps what there is.                                *)
LEMMA ChildVisited ==
  ASSUME NEW n, NEW inner, VisitsInner(n, inner), NEW s, NEW i, s.kids[i] \in Inner(n),
         NEW c \in Contexts
  PROVE  /\ VisitChild(c, s, i, inner) \in Contexts
         /\ Kept(c, VisitChild(c, s, i, inner))
<1>1. inner[s.kids[i]] \in Visits
  BY DEF VisitsInner
<1> DEFINE f == inner[s.kids[i]]
<1>2. VisitChild(c, s, i, inner) = f[c]
  BY DEF VisitChild
<1> HIDE DEF f
<1>3. f \in Visits
  BY <1>1 DEF f
<1> QED BY <1>2, <1>3 DEF Visits

(* The walk through a sequence of statements.                               *)
Walks(s, inner) == [i \in DOMAIN s.kids |-> inner[s.kids[i]]]

(* The walks of the children of a compound statement are visits of          *)
(* statements.                                                              *)
LEMMA WalksAre ==
  ASSUME NEW n \in 1 .. Height, NEW s \in Statement[n], s.kind = "compound", NEW inner
  PROVE  /\ Len(Walks(s, inner)) = Len(s.kids)
         /\ Len(s.kids) \in Nat
         /\ \A i \in 1 .. Len(s.kids) : Walks(s, inner)[i] = inner[s.kids[i]]
<1>1. Len(s.kids) \in Nat /\ DOMAIN s.kids = 1 .. Len(s.kids)
  BY Children
<1> DEFINE m == Len(s.kids)
<1> HIDE DEF m
<1>2. Walks(s, inner) = [i \in 1 .. m |-> inner[s.kids[i]]] /\ m \in Nat
  BY <1>1 DEF Walks, m
<1>3. Len(Walks(s, inner)) = m
  BY <1>2
<1>4. \A i \in 1 .. m : Walks(s, inner)[i] = inner[s.kids[i]]
  BY <1>2
<1> QED BY <1>1, <1>3, <1>4 DEF m

VisitedThrough(w, s, c, inner) ==
  /\ w \in [0 .. Len(s.kids) -> Contexts]
  /\ w[0] = Returning(c, FALSE)
  /\ \A k \in 1 .. Len(s.kids) : w[k] = VisitChild(w[k - 1], s, k, inner)
  /\ \A k \in 1 .. Len(s.kids) : Kept(w[k - 1], w[k])
  /\ \A k \in 0 .. Len(s.kids) : Kept(c, w[k])
  /\ VisitStatement(c, s, inner) = w[Len(s.kids)]

(* The visit of a compound statement, child by child.                       *)
LEMMA CompoundVisited ==
  ASSUME NEW n \in 1 .. Height, NEW s \in Statement[n], s.kind = "compound",
         NEW inner, VisitsInner(n, inner), NEW c \in Contexts
  PROVE  \E w : VisitedThrough(w, s, c, inner)
<1> DEFINE m == Len(s.kids)
           start == Returning(c, FALSE)
           walks == Walks(s, inner)
<1>1. /\ Len(walks) = m /\ m \in Nat
      /\ \A i \in 1 .. m : walks[i] = inner[s.kids[i]]
  BY WalksAre
<1>2. \A i \in 1 .. m : s.kids[i] \in Inner(n)
  BY CompoundShape
<1>3. start \in Contexts /\ Kept(c, start)
  BY ReturningKeeps
<1>4. VisitStatement(c, s, inner) = Through(walks, start)
  BY DEF VisitStatement, Walks
<1>5. ASSUME NEW i \in 1 .. m, NEW d \in Contexts
      PROVE  /\ walks[i][d] \in Contexts /\ Kept(d, walks[i][d])
             /\ walks[i][d] = VisitChild(d, s, i, inner)
  <2>1. VisitChild(d, s, i, inner) \in Contexts /\ Kept(d, VisitChild(d, s, i, inner))
    BY <1>2, ChildVisited
  <2>2. walks[i][d] = VisitChild(d, s, i, inner)
    BY <1>1 DEF VisitChild
  <2> QED BY <2>1, <2>2
<1> HIDE DEF walks, start
<1>6. PICK w : Stages(w, Contexts, walks, start) /\ Through(walks, start) = w[Len(walks)]
  <2>1. Len(walks) \in Nat /\ \A k \in 1 .. Len(walks) : \A y \in Contexts : walks[k][y] \in Contexts
    BY <1>1, <1>5
  <2> QED BY <1>3, <2>1, ThroughIs
<1>7. /\ w \in [0 .. m -> Contexts] /\ w[0] = start
      /\ \A k \in 1 .. m : w[k] = walks[k][w[k - 1]]
  BY <1>1, <1>6 DEF Stages
<1>8. \A k \in 1 .. m : w[k - 1] \in Contexts
  <2>1. \A k \in 1 .. m : k - 1 \in 0 .. m
    BY <1>1
  <2> QED BY <1>7, <2>1
<1>9. \A k \in 1 .. m : w[k] = VisitChild(w[k - 1], s, k, inner) /\ Kept(w[k - 1], w[k])
  BY <1>5, <1>7, <1>8
<1> DEFINE T == {k \in 0 .. m : Kept(c, w[k])}
<1>10. 0 \in T
  BY <1>1, <1>3, <1>7
<1>11. ASSUME NEW k \in 1 .. m, k - 1 \in T PROVE k \in T
  <2>1. k \in 0 .. m
    BY <1>1
  <2>2. Kept(c, w[k - 1]) /\ Kept(w[k - 1], w[k])
    BY <1>9, <1>11
  <2> QED BY <2>1, <2>2, KeptTransitively
<1>12. \A k \in 0 .. m : k \in T
  <2> HIDE DEF T, m
  <2> QED BY <1>1, <1>10, <1>11, UpTo
<1>13. VisitedThrough(w, s, c, inner)
  BY <1>1, <1>4, <1>6, <1>7, <1>9, <1>12 DEF VisitedThrough, start
<1> QED BY <1>13

(* The visit of a body: a loop or a switch does not return.                 *)
LEMMA BodyVisited ==
  ASSUME NEW n, NEW inner, VisitsInner(n, inner), NEW s, NEW i, s.kids[i] \in Inner(n),
         NEW c \in Contexts
  PROVE  /\ VisitBody(c, s, i, inner) \in Contexts
         /\ Kept(c, VisitBody(c, s, i, inner))
         /\ VisitBody(c, s, i, inner).reported =
              VisitChild(Entered(c, s.kind), s, i, inner).reported
         /\ VisitBody(c, s, i, inner).returns = FALSE
<1> DEFINE e == Entered(c, s.kind)
           d == VisitChild(e, s, i, inner)
           l == Left(d, s.kind)
<1>1. e \in Contexts
  BY EnteredIs
<1>2. d \in Contexts /\ Kept(e, d)
  <2> HIDE DEF e
  <2> QED BY <1>1, ChildVisited
<1>3. l \in Contexts /\ Kept(c, l) /\ l.reported = d.reported
  <2> HIDE DEF d
  <2> QED BY <1>2, LeftIs
<1>4. VisitBody(c, s, i, inner) = Returning(l, FALSE)
  BY DEF VisitBody
<1> HIDE DEF l
<1>5. Returning(l, FALSE) \in Contexts /\ Kept(l, Returning(l, FALSE))
      /\ Returning(l, FALSE).returns = FALSE /\ Returning(l, FALSE).reported = l.reported
  BY <1>3, ReturningKeeps
<1>6. Kept(c, Returning(l, FALSE))
  BY <1>3, <1>5, KeptTransitively
<1> QED BY <1>3, <1>4, <1>5, <1>6

(* The visit of an if statement keeps what there is.                        *)
LEMMA IfVisited ==
  ASSUME NEW n \in 1 .. Height, NEW s \in Statement[n], s.kind = "if",
         NEW inner, VisitsInner(n, inner), NEW c \in Contexts
  PROVE  VisitIf(c, s, inner) \in Contexts /\ Kept(c, VisitIf(c, s, inner))
<1> DEFINE hasElse == Len(s.kids) > 2
           then == VisitChild(c, s, 2, inner)
           else == IF hasElse THEN VisitChild(then, s, 3, inner) ELSE then
           b == BothReturn(hasElse, then.returns, else.returns)
<1>1. then \in Contexts /\ Kept(c, then)
  BY IfShape, ChildVisited
<1> HIDE DEF then
<1>2. else \in Contexts /\ Kept(c, else)
  <2>1. CASE ~ hasElse
    BY <1>1, <2>1
  <2>2. CASE hasElse
    <3>1. s.kids[3] \in Inner(n)
      BY <2>2, IfShape
    <3>2. VisitChild(then, s, 3, inner) \in Contexts /\ Kept(then, VisitChild(then, s, 3, inner))
      BY <1>1, <3>1, ChildVisited
    <3> QED BY <1>1, <2>2, <3>2, KeptTransitively
  <2> QED BY <2>1, <2>2
<1>3. VisitIf(c, s, inner) = Returning(else, b)
  BY DEF VisitIf, then
<1>4. b \in BOOLEAN
  BY <1>1, <1>2, ContextFields DEF BothReturn
<1> HIDE DEF else, b
<1>5. Returning(else, b) \in Contexts /\ Kept(else, Returning(else, b))
  BY <1>2, <1>4, ReturningKeeps
<1> QED BY <1>2, <1>3, <1>5, KeptTransitively

(* The visit of every kind of statement keeps what there is.                *)
LEMMA StatementVisited ==
  ASSUME NEW n \in 1 .. Height, NEW s \in Statement[n],
         NEW inner, VisitsInner(n, inner), NEW c \in Contexts
  PROVE  VisitStatement(c, s, inner) \in Contexts /\ Kept(c, VisitStatement(c, s, inner))
<1> DEFINE v == VisitStatement(c, s, inner)
           Good == v \in Contexts /\ Kept(c, v)
<1> SUFFICES Good
  OBVIOUS
<1>0. s.kind \in Kinds /\ s.arg \in Args
  BY StatementShape
<1>1. CASE s.kind = "compound"
  <2>1. PICK w : VisitedThrough(w, s, c, inner)
    BY <1>1, CompoundVisited
  <2>2. Len(s.kids) \in 0 .. Len(s.kids)
    BY Children
  <2> QED BY <2>1, <2>2 DEF VisitedThrough
<1>2. CASE s.kind = "if"
  <2>1. v = VisitIf(c, s, inner)
    BY <1>2 DEF VisitStatement
  <2> QED BY <1>2, <2>1, IfVisited
<1>3. CASE s.kind \in {"while", "for", "switch"}
  <2>1. v = VisitBody(c, s, Len(s.kids), inner)
    BY <1>3 DEF VisitStatement
  <2>2. s.kids[Len(s.kids)] \in Inner(n)
    BY <1>3, LoopShape, ForShape
  <2> QED BY <2>1, <2>2, BodyVisited
<1>4. CASE s.kind = "do"
  <2> DEFINE i == 1
  <2>1. v = VisitBody(c, s, i, inner)
    BY <1>4 DEF VisitStatement
  <2>2. s.kids[i] \in Inner(n)
    BY <1>4, DoShape
  <2> HIDE DEF i
  <2> QED BY <2>1, <2>2, BodyVisited
<1>5. CASE s.kind \in {"case", "default", "label"}
  <2> DEFINE d == CASE s.kind = "case" -> VisitCase(c, s.arg)
                    [] s.kind = "default" -> RecordDefault(c)
                    [] s.kind = "label" -> RecordLabel(c, s.arg)
  <2>1. v = VisitChild(d, s, 1, inner)
    BY <1>5 DEF VisitStatement
  <2>2. d \in Contexts /\ Kept(c, d)
    BY <1>0, <1>5, VisitCaseKeeps, RecordDefaultKeeps, RecordLabelKeeps
  <2> HIDE DEF d
  <2>3. VisitChild(d, s, 1, inner) \in Contexts /\ Kept(d, VisitChild(d, s, 1, inner))
    BY <1>5, <2>2, LabelledShape, ChildVisited
  <2> QED BY <2>1, <2>2, <2>3, KeptTransitively
<1>6. CASE s.kind = "goto"
  <2> DEFINE d == [c EXCEPT !.gotos = @ \union {s.arg}]
  <2>1. v = Returning(d, FALSE)
    BY <1>6 DEF VisitStatement
  <2>2. d \in Contexts /\ Kept(c, d)
    BY <1>0 DEF Contexts, Kept
  <2> HIDE DEF d
  <2>3. Returning(d, FALSE) \in Contexts /\ Kept(d, Returning(d, FALSE))
    BY <2>2, ReturningKeeps
  <2> QED BY <2>1, <2>2, <2>3, KeptTransitively
<1>7. CASE s.kind = "return"
  <2>1. v = Returning(c, TRUE)
    BY <1>7 DEF VisitStatement
  <2> QED BY <2>1, ReturningKeeps
<1>8. CASE s.kind \in {"break", "continue"}
  <2> DEFINE d == CASE s.kind = "break" -> ReportedIf(c, c.breakDepth = 0, "break outside")
                    [] s.kind = "continue" -> ReportedIf(c, c.loopDepth = 0, "continue outside")
  <2>1. v = Returning(d, FALSE)
    BY <1>8 DEF VisitStatement
  <2>2. d \in Contexts /\ Kept(c, d)
    BY <1>8, ReportingKeeps, ProblemsAre
  <2> HIDE DEF d
  <2>3. Returning(d, FALSE) \in Contexts /\ Kept(d, Returning(d, FALSE))
    BY <2>2, ReturningKeeps
  <2> QED BY <2>1, <2>2, <2>3, KeptTransitively
<1>9. CASE s.kind \in {"expression", "empty"}
  <2>1. v = Returning(c, FALSE)
    BY <1>9 DEF VisitStatement
  <2> QED BY <2>1, ReturningKeeps
<1>10. \/ s.kind = "compound" \/ s.kind = "if" \/ s.kind \in {"while", "for", "switch"}
       \/ s.kind = "do" \/ s.kind \in {"case", "default", "label"} \/ s.kind = "goto"
       \/ s.kind = "return" \/ s.kind \in {"break", "continue"}
       \/ s.kind \in {"expression", "empty"}
  BY <1>0 DEF Kinds
<1> HIDE DEF Good
<1> QED BY <1>1, <1>2, <1>3, <1>4, <1>5, <1>6, <1>7, <1>8, <1>9, <1>10, Zenon

(* A visit of height n is one step of cc_visit_statement over those below.  *)
LEMMA VisitingStep ==
  ASSUME NEW n \in 0 .. Height, NEW s \in Statement[n], NEW c \in Contexts
  PROVE  Visiting[n][s][c] = VisitStatement(c, s, Visiting[n - 1])
<1> DEFINE below == Visiting[n - 1]
           f == Visiting[n]
<1>1. f = VisitsOver(Statement[n], below)
  BY VisitingIs
<1> HIDE DEF f, below
<1>2. f[s] = [d \in Contexts |-> VisitStatement(d, s, below)]
  BY <1>1 DEF VisitsOver
<1>3. f[s][c] = VisitStatement(c, s, below)
  BY <1>2
<1> QED BY <1>3 DEF f, below

(* Every visit keeps what there is, by the height of the statement.         *)
LEMMA VisitsKeep ==
  \A n \in 0 .. Height : \A s \in Statement[n] : Visiting[n][s] \in Visits
<1> DEFINE T == {n \in 0 .. Height : \A s \in Statement[n] : Visiting[n][s] \in Visits}
<1>1. 0 \in T
  BY NoStatementOfHeightZero, HeightAssumption
<1>2. ASSUME NEW n \in 1 .. Height, n - 1 \in T PROVE n \in T
  <2>1. n \in 0 .. Height
    BY HeightAssumption
  <2>2. VisitsInner(n, Visiting[n - 1])
    BY <1>2 DEF VisitsInner, Inner
  <2>3. ASSUME NEW s \in Statement[n] PROVE Visiting[n][s] \in Visits
    <3>1. Visiting[n][s] = [d \in Contexts |-> VisitStatement(d, s, Visiting[n - 1])]
      BY <2>1, VisitingIs DEF VisitsOver
    <3>2. \A d \in Contexts : VisitStatement(d, s, Visiting[n - 1]) \in Contexts
                              /\ Kept(d, VisitStatement(d, s, Visiting[n - 1]))
      BY <2>2, StatementVisited
    <3> QED BY <3>1, <3>2 DEF Visits
  <2> QED BY <2>1, <2>3
<1>3. \A n \in 0 .. Height : n \in T
  <2> HIDE DEF T
  <2> QED BY <1>1, <1>2, UpTo, HeightAssumption
<1> QED BY <1>3

-----------------------------------------------------------------------------
(* Labels and instructions.                                                 *)

(* The label behind an if statement, where its branches meet.               *)
Merge(label) == label.prefix = "if.end"

(* An instruction of a statement, whose merge labels are the statement's    *)
(* own: numbered from lo up to hi.                                          *)
Own(lo, hi) ==
  {i \in Instructions :
     /\ i.op # "endfunc"
     /\ Merge(i.to) => lo <= i.to.number /\ i.to.number < hi
     /\ Merge(i.else) => lo <= i.else.number /\ i.else.number < hi}

(* The place of a child is a place.                                         *)
LEMMA PlacesAre ==
  /\ <<>> \in Places
  /\ \A p \in Places, i \in Nat : Child(p, i) \in Places
<1>1. <<>> \in Seq(Nat)
  BY EmptySeq
<1>2. \A p \in Seq(Nat), i \in Nat : Append(p, i) \in Seq(Nat)
  BY AppendProperties
<1> QED BY <1>1, <1>2 DEF Places, Child

(* A label made from a number has the number and its prefix.                *)
LEMMA FreshIs ==
  ASSUME NEW prefix \in Prefixes, NEW n \in Nat
  PROVE  /\ Fresh(prefix, n) \in Labels
         /\ Fresh(prefix, n).number = n
         /\ Fresh(prefix, n).prefix = prefix
BY PlacesAre DEF Fresh, Labels, Args

(* None of the other labels is a merge label.                               *)
LEMMA NamesAre ==
  /\ NoLabel \in Labels /\ ~ Merge(NoLabel)
  /\ \A a \in Args : UserLabel(a) \in Labels /\ ~ Merge(UserLabel(a))
  /\ \A p \in Places : CaseLabel(p) \in Labels /\ ~ Merge(CaseLabel(p))
  /\ \A p \in Places : DefaultLabel(p) \in Labels /\ ~ Merge(DefaultLabel(p))
BY PlacesAre DEF NoLabel, UserLabel, CaseLabel, DefaultLabel, Labels, Args, Prefixes, Merge

(* A label an instruction of the statement may name.                        *)
OwnLabels(lo, hi) ==
  {l \in Labels : Merge(l) => lo <= l.number /\ l.number < hi}

(* Instructions over own labels are own instructions.                       *)
LEMMA InstructionsAre ==
  ASSUME NEW lo \in Nat, NEW hi \in Nat, NEW p \in Places, NEW v \in Args,
         NEW to \in OwnLabels(lo, hi), NEW else \in OwnLabels(lo, hi)
  PROVE  /\ Mark(to) \in Own(lo, hi)
         /\ Jump(to) \in Own(lo, hi)
         /\ Eval(p) \in Own(lo, hi)
         /\ CJump(p, to, else) \in Own(lo, hi)
         /\ JumpIfEqual(p, v, to, else) \in Own(lo, hi)
         /\ Ret \in Own(lo, hi)
<1>1. NoLabel \in OwnLabels(lo, hi)
  BY NamesAre DEF OwnLabels
<1>2. <<>> \in Places /\ "" \in Args
  BY PlacesAre DEF Args
<1>3. ASSUME NEW op \in {"label", "jump", "eval", "cjump", "cmp", "ret"}, NEW q \in Places,
             NEW u \in Args, NEW t \in OwnLabels(lo, hi), NEW e \in OwnLabels(lo, hi)
      PROVE  Instruction(op, q, u, t, e) \in Own(lo, hi)
  <2> DEFINE i == Instruction(op, q, u, t, e)
  <2>1. i.op = op /\ i.place = q /\ i.value = u /\ i.to = t /\ i.else = e /\ i \in Instructions
    BY DEF Instruction, Instructions, OwnLabels
  <2> HIDE DEF i
  <2>2. i.op # "endfunc"
    BY <2>1
  <2>3. /\ Merge(i.to) => lo <= i.to.number /\ i.to.number < hi
        /\ Merge(i.else) => lo <= i.else.number /\ i.else.number < hi
    BY <2>1 DEF OwnLabels
  <2>4. i \in Instructions /\ i.to.number \in Nat /\ i.else.number \in Nat
    BY <2>1 DEF OwnLabels, Labels
  <2>5. i \in Own(lo, hi)
    BY <2>2, <2>3, <2>4 DEF Own
  <2> QED BY <2>5 DEF i
<1> QED BY <1>1, <1>2, <1>3 DEF Mark, Jump, Eval, CJump, JumpIfEqual, Ret

(* A few elements of a set are a sequence over it.                          *)
LEMMA FewInstructions ==
  ASSUME NEW S
  PROVE  /\ <<>> \in Seq(S)
         /\ \A a \in S : <<a>> \in Seq(S) /\ Len(<<a>>) = 1
         /\ \A a, b \in S : <<a, b>> \in Seq(S) /\ Len(<<a, b>>) = 2
         /\ \A a, b, c \in S : <<a, b, c>> \in Seq(S) /\ Len(<<a, b, c>>) = 3
         /\ \A a, b, c, d \in S : <<a, b, c, d>> \in Seq(S) /\ Len(<<a, b, c, d>>) = 4
         /\ \A a, b, c, d, e \in S : <<a, b, c, d, e>> \in Seq(S) /\ Len(<<a, b, c, d, e>>) = 5
OBVIOUS

-----------------------------------------------------------------------------
(* The generator's context.                                                 *)

Targeted == [break : Labels, continue : Labels]

(* No entry of the stack of targets is a merge label.                       *)
Tidy ==
  {g \in Generators :
     \A k \in 1 .. Len(g.control) : ~ Merge(g.control[k].break) /\ ~ Merge(g.control[k].continue)}

(* The generator went on from g to w.                                       *)
Grown(g, w) ==
  /\ w \in Tidy
  /\ g.labelCounter <= w.labelCounter
  /\ \E s \in Seq(Own(g.labelCounter, w.labelCounter)) : w.code = g.code \o s
  /\ g.reported => w.reported

(* The fields of a tidy generator.                                          *)
LEMMA GeneratorFields ==
  ASSUME NEW g \in Tidy
  PROVE  /\ g \in Generators
         /\ g.code \in Seq(Instructions) /\ Len(g.code) \in Nat
         /\ g.labelCounter \in Nat
         /\ g.control \in Seq(Targeted) /\ Len(g.control) \in Nat
         /\ g.reported \in BOOLEAN
<1>1. /\ g \in Generators /\ g.code \in Seq(Instructions) /\ g.labelCounter \in Nat
      /\ g.control \in Seq(Targeted) /\ g.reported \in BOOLEAN
  BY DEF Tidy, Generators, Targeted
<1> QED BY <1>1, LenProperties

(* A wider interval has more own instructions.                              *)
LEMMA WiderOwn ==
  ASSUME NEW lo \in Nat, NEW hi \in Nat, NEW l \in Nat, NEW h \in Nat, l <= lo, hi <= h
  PROVE  Seq(Own(lo, hi)) \subseteq Seq(Own(l, h))
<1>1. Own(lo, hi) \subseteq Own(l, h)
  <2>1. \A i \in Instructions : i.to.number \in Nat /\ i.else.number \in Nat
    BY DEF Instructions, Labels
  <2>2. ASSUME NEW i \in Own(lo, hi) PROVE i \in Own(l, h)
    <3>1. i \in Instructions /\ i.to.number \in Nat /\ i.else.number \in Nat
      BY <2>1 DEF Own
    <3> DEFINE x == i.to.number
               y == i.else.number
    <3>2. Merge(i.to) => lo <= x /\ x < hi
      BY DEF Own
    <3>3. Merge(i.else) => lo <= y /\ y < hi
      BY DEF Own
    <3>4. i.op # "endfunc"
      BY DEF Own
    <3> HIDE DEF x, y
    <3>5. (Merge(i.to) => l <= x /\ x < h) /\ (Merge(i.else) => l <= y /\ y < h)
      BY <3>1, <3>2, <3>3 DEF x, y
    <3> QED BY <3>1, <3>4, <3>5 DEF Own, x, y
  <2> QED BY <2>2
<1> QED BY <1>1, SeqMonotonic

(* Own instructions are instructions.                                       *)
LEMMA OwnAreInstructions ==
  ASSUME NEW lo, NEW hi
  PROVE  Seq(Own(lo, hi)) \subseteq Seq(Instructions)
<1>1. Own(lo, hi) \subseteq Instructions
  BY DEF Own
<1> QED BY <1>1, SeqMonotonic

(* To do nothing is to go on.                                               *)
LEMMA GrownAtFirst ==
  ASSUME NEW g \in Tidy
  PROVE  Grown(g, g)
<1>1. <<>> \in Seq(Own(g.labelCounter, g.labelCounter)) /\ g.code = g.code \o <<>>
  BY GeneratorFields, EmptySeq, ConcatEmptySeq
<1>2. g.labelCounter <= g.labelCounter
  BY GeneratorFields
<1> QED BY <1>1, <1>2 DEF Grown

(* To go on twice is to go on.                                              *)
LEMMA GrownTransitively ==
  ASSUME NEW g \in Tidy, NEW h, NEW w, Grown(g, h), Grown(h, w)
  PROVE  Grown(g, w)
<1> DEFINE a == g.labelCounter
           b == h.labelCounter
           c == w.labelCounter
<1>1. h \in Tidy /\ w \in Tidy
  BY DEF Grown
<1>2. a \in Nat /\ b \in Nat /\ c \in Nat /\ a <= b /\ b <= c
  BY <1>1, GeneratorFields DEF Grown
<1>3. PICK s \in Seq(Own(a, b)) : h.code = g.code \o s
  BY DEF Grown
<1>4. PICK t \in Seq(Own(b, c)) : w.code = h.code \o t
  BY DEF Grown
<1> HIDE DEF a, b, c
<1>5. s \in Seq(Own(a, c)) /\ t \in Seq(Own(a, c))
  <2>1. a <= a /\ c <= c
    BY <1>2
  <2> QED BY <1>2, <1>3, <1>4, <2>1, WiderOwn
<1>6. s \o t \in Seq(Own(a, c))
  BY <1>5, ConcatProperties
<1>7. (g.code \o s) \o t = g.code \o (s \o t)
  <2> DEFINE d == g.code
  <2>1. s \in Seq(Instructions) /\ t \in Seq(Instructions)
    BY <1>5, OwnAreInstructions
  <2>2. d \in Seq(Instructions)
    BY GeneratorFields
  <2> HIDE DEF d
  <2>3. (d \o s) \o t = d \o (s \o t)
    BY <2>1, <2>2, SMT
  <2> QED BY <2>3 DEF d
<1>8. w.code = g.code \o (s \o t)
  BY <1>3, <1>4, <1>7
<1>9. a <= c
  BY <1>2
<1>10. g.reported => w.reported
  BY DEF Grown
<1> QED BY <1>1, <1>6, <1>8, <1>9, <1>10 DEF Grown, a, c

(* What a step of the generator leaves alone.                               *)
LEMMA Emitting ==
  ASSUME NEW g \in Tidy, NEW h, Grown(g, h), NEW s \in Seq(Own(g.labelCounter, h.labelCounter))
  PROVE  /\ Grown(g, Emit(h, s))
         /\ Emit(h, s).code = h.code \o s
         /\ Emit(h, s).labelCounter = h.labelCounter
         /\ Emit(h, s).control = h.control
         /\ Emit(h, s).reported = h.reported
<1> DEFINE w == Emit(h, s)
           a == g.labelCounter
           b == h.labelCounter
           c == h.code \o s
<1>1. h \in Tidy /\ h \in Generators /\ a \in Nat /\ b \in Nat /\ a <= b
  BY GeneratorFields DEF Grown
<1>2. h.code \in Seq(Instructions) /\ s \in Seq(Instructions)
  BY <1>1, GeneratorFields, OwnAreInstructions
<1>3. c \in Seq(Instructions)
  BY <1>2, ConcatProperties
<1>4. w = [h EXCEPT !.code = c]
  BY DEF Emit
<1>5. PICK t \in Seq(Own(a, b)) : h.code = g.code \o t
  BY DEF Grown
<1>6. t \o s \in Seq(Own(a, b))
  BY <1>5, ConcatProperties
<1>7. (g.code \o t) \o s = g.code \o (t \o s)
  <2> DEFINE d == g.code
  <2>1. t \in Seq(Instructions)
    BY <1>5, OwnAreInstructions
  <2>2. d \in Seq(Instructions)
    BY GeneratorFields
  <2> HIDE DEF d
  <2>3. (d \o t) \o s = d \o (t \o s)
    BY <1>2, <2>1, <2>2, SMT
  <2> QED BY <2>3 DEF d
<1>8. c = g.code \o (t \o s)
  BY <1>5, <1>7
<1>10. g.reported => h.reported
  BY DEF Grown
<1> HIDE DEF w, c
<1>11. w \in Generators
  BY <1>1, <1>3, <1>4 DEF Generators
<1>12. w.code = c /\ w.labelCounter = b /\ w.control = h.control /\ w.reported = h.reported
  BY <1>1, <1>4 DEF Generators
<1> HIDE DEF a, b
<1>13. w \in Tidy
  BY <1>1, <1>11, <1>12 DEF Tidy
<1>14. \E r \in Seq(Own(a, b)) : w.code = g.code \o r
  BY <1>6, <1>8, <1>12
<1>15. a <= w.labelCounter /\ (g.reported => w.reported)
  BY <1>1, <1>10, <1>12
<1>16. Grown(g, w)
  BY <1>12, <1>13, <1>14, <1>15 DEF Grown, a
<1> QED BY <1>12, <1>16 DEF w, b, c

(* Numbering labels is to go on.                                            *)
LEMMA Numbering ==
  ASSUME NEW g \in Tidy, NEW h, Grown(g, h), NEW n \in Nat
  PROVE  /\ Grown(g, NewLabels(h, n))
         /\ NewLabels(h, n).code = h.code
         /\ NewLabels(h, n).labelCounter = h.labelCounter + n
         /\ NewLabels(h, n).control = h.control
         /\ NewLabels(h, n).reported = h.reported
<1> DEFINE w == NewLabels(h, n)
           a == g.labelCounter
           b == h.labelCounter
           c == b + n
<1>1. h \in Tidy /\ h \in Generators /\ a \in Nat /\ b \in Nat /\ a <= b
  BY GeneratorFields DEF Grown
<1>2. c \in Nat /\ b <= c /\ a <= c
  BY <1>1
<1>3. w = [h EXCEPT !.labelCounter = c]
  BY DEF NewLabels
<1>4. PICK t \in Seq(Own(a, b)) : h.code = g.code \o t
  BY DEF Grown
<1>5. g.reported => h.reported
  BY DEF Grown
<1> HIDE DEF w, c
<1>6. w \in Generators
  BY <1>1, <1>2, <1>3 DEF Generators
<1>7. w.code = h.code /\ w.labelCounter = c /\ w.control = h.control /\ w.reported = h.reported
  BY <1>1, <1>3 DEF Generators
<1> HIDE DEF a, b
<1>8. w \in Tidy
  BY <1>1, <1>6, <1>7 DEF Tidy
<1>9. t \in Seq(Own(a, c))
  <2>1. a <= a
    BY <1>1
  <2> QED BY <1>1, <1>2, <2>1, WiderOwn
<1>10. Grown(g, w)
  BY <1>2, <1>4, <1>5, <1>7, <1>8, <1>9 DEF Grown, a
<1> QED BY <1>7, <1>10 DEF w, b, c

(* So is to report.                                                         *)
LEMMA Reporting ==
  ASSUME NEW g \in Tidy
  PROVE  Grown(g, [g EXCEPT !.reported = TRUE])
         /\ [g EXCEPT !.reported = TRUE].control = g.control
<1> DEFINE w == [g EXCEPT !.reported = TRUE]
           a == g.labelCounter
<1>1. g \in Generators /\ a \in Nat
  BY GeneratorFields
<1>2. w \in Generators /\ w.code = g.code /\ w.labelCounter = a /\ w.control = g.control
      /\ w.reported
  BY <1>1 DEF Generators
<1> HIDE DEF w
<1>3. w \in Tidy
  BY <1>2 DEF Tidy
<1>4. <<>> \in Seq(Own(a, a)) /\ g.code = g.code \o <<>>
  BY GeneratorFields, EmptySeq, ConcatEmptySeq
<1>5. \E s \in Seq(Own(a, a)) : w.code = g.code \o s
  BY <1>2, <1>4
<1>6. a <= a
  BY <1>1
<1>7. Grown(g, w)
  BY <1>2, <1>3, <1>5, <1>6 DEF Grown
<1> QED BY <1>2, <1>7 DEF w

(* Pushing targets that are no merge labels is to go on.                    *)
LEMMA Pushing ==
  ASSUME NEW g \in Tidy, NEW h, Grown(g, h), NEW break \in Labels, NEW continue \in Labels,
         ~ Merge(break), ~ Merge(continue)
  PROVE  /\ Grown(g, PushControl(h, break, continue))
         /\ PushControl(h, break, continue).code = h.code
         /\ PushControl(h, break, continue).labelCounter = h.labelCounter
         /\ PushControl(h, break, continue).control =
              Append(h.control, [break |-> break, continue |-> continue])
         /\ PushControl(h, break, continue).reported = h.reported
<1> DEFINE w == PushControl(h, break, continue)
           a == g.labelCounter
           b == h.labelCounter
           e == [break |-> break, continue |-> continue]
           q == Append(h.control, e)
<1>1. h \in Tidy /\ h \in Generators /\ a \in Nat /\ b \in Nat /\ a <= b
  BY GeneratorFields DEF Grown
<1>2. e \in Targeted /\ e.break = break /\ e.continue = continue
  BY DEF Targeted
<1>3. w = [h EXCEPT !.control = q]
  BY DEF PushControl
<1>4. h.control \in Seq(Targeted) /\ Len(h.control) \in Nat
  BY <1>1, GeneratorFields
<1> HIDE DEF e
<1>5. /\ q \in Seq(Targeted) /\ Len(q) = Len(h.control) + 1
      /\ \A i \in 1 .. Len(h.control) : q[i] = h.control[i]
      /\ q[Len(h.control) + 1] = e
  BY <1>2, <1>4, AppendProperties
<1>6. (\E s \in Seq(Own(a, b)) : h.code = g.code \o s) /\ (g.reported => h.reported)
  BY DEF Grown
<1> HIDE DEF w, q
<1>7. w \in Generators
  BY <1>1, <1>3, <1>5 DEF Generators, Targeted
<1>8. w.code = h.code /\ w.labelCounter = b /\ w.control = q /\ w.reported = h.reported
  BY <1>1, <1>3 DEF Generators
<1>9. \A k \in 1 .. Len(q) : ~ Merge(q[k].break) /\ ~ Merge(q[k].continue)
  <2>1. \A k \in 1 .. Len(h.control) :
           ~ Merge(h.control[k].break) /\ ~ Merge(h.control[k].continue)
    BY <1>1 DEF Tidy
  <2>2. \A k \in 1 .. Len(q) : k \in 1 .. Len(h.control) \/ k = Len(h.control) + 1
    BY <1>4, <1>5
  <2> QED BY <1>2, <1>5, <2>1, <2>2
<1>10. w \in Tidy
  BY <1>7, <1>8, <1>9 DEF Tidy
<1> HIDE DEF a, b
<1>11. Grown(g, w)
  BY <1>1, <1>6, <1>8, <1>10 DEF Grown, a
<1> QED BY <1>8, <1>11 DEF w, q, e, b

(* A sequence without its last element.                                     *)
LEMMA AllButLast ==
  ASSUME NEW S, NEW s \in Seq(S), NEW e \in S
  PROVE  SubSeq(Append(s, e), 1, Len(Append(s, e)) - 1) = s
<1>1. Len(Append(s, e)) - 1 = Len(s)
  OBVIOUS
<1>2. SubSeq(Append(s, e), 1, Len(s)) = s
  OBVIOUS
<1> QED BY <1>1, <1>2

(* The entry pushed around a body is popped behind it.                      *)
LEMMA Popping ==
  ASSUME NEW g \in Tidy, NEW w, Grown(g, w), NEW entry \in Targeted,
         w.control = Append(g.control, entry)
  PROVE  /\ Grown(g, PopControl(w))
         /\ PopControl(w).code = w.code
         /\ PopControl(w).labelCounter = w.labelCounter
         /\ PopControl(w).control = g.control
         /\ PopControl(w).reported = w.reported
<1> DEFINE p == PopControl(w)
           a == g.labelCounter
           b == w.labelCounter
           m == Len(g.control)
           q == SubSeq(w.control, 1, Len(w.control) - 1)
<1>1. w \in Tidy /\ w \in Generators /\ a \in Nat /\ b \in Nat /\ a <= b
  BY GeneratorFields DEF Grown
<1>2. g.control \in Seq(Targeted) /\ m \in Nat
  BY GeneratorFields
<1>3. /\ w.control \in Seq(Targeted) /\ w.control # <<>> /\ Len(w.control) = m + 1
      /\ \A i \in 1 .. m : w.control[i] = g.control[i]
  BY <1>2, AppendProperties
<1>4. p = [w EXCEPT !.control = q]
  BY <1>3 DEF PopControl
<1>5. q = g.control
  <2> DEFINE t == g.control
  <2> HIDE DEF t
  <2>1. t \in Seq(Targeted) /\ w.control = Append(t, entry)
    BY <1>2 DEF t
  <2>2. SubSeq(Append(t, entry), 1, Len(Append(t, entry)) - 1) = t
    BY <2>1, AllButLast
  <2> QED BY <2>1, <2>2 DEF t
<1>6. (\E s \in Seq(Own(a, b)) : w.code = g.code \o s) /\ (g.reported => w.reported)
  BY DEF Grown
<1> HIDE DEF p, q
<1>7. p \in Generators
  BY <1>1, <1>2, <1>4, <1>5 DEF Generators, Targeted
<1>8. p.code = w.code /\ p.labelCounter = b /\ p.control = g.control /\ p.reported = w.reported
  BY <1>1, <1>4, <1>5 DEF Generators
<1>9. p \in Tidy
  BY <1>7, <1>8 DEF Tidy
<1> HIDE DEF a, b
<1>10. Grown(g, p)
  BY <1>1, <1>6, <1>8, <1>9 DEF Grown, a
<1> QED BY <1>8, <1>10 DEF p, b

-----------------------------------------------------------------------------
(* Lowering, by the kind of the statement.                                  *)

LowersInner(n, inner) ==
  \A t \in Inner(n) : \A p \in Places : \A h \in Tidy :
     Grown(h, inner[t][p][h]) /\ inner[t][p][h].control = h.control

(* To lower a child is to go on, with the same targets behind it.           *)
LEMMA ChildLowered ==
  ASSUME NEW n, NEW inner, LowersInner(n, inner), NEW s, NEW i \in Nat, s.kids[i] \in Inner(n),
         NEW place \in Places, NEW g \in Tidy, NEW h, Grown(g, h)
  PROVE  /\ Grown(h, LowerChild(h, s, place, i, inner))
         /\ Grown(g, LowerChild(h, s, place, i, inner))
         /\ LowerChild(h, s, place, i, inner).control = h.control
<1>1. h \in Tidy
  BY DEF Grown
<1>2. Child(place, i) \in Places
  BY PlacesAre
<1> DEFINE w == LowerChild(h, s, place, i, inner)
<1>3. Grown(h, w) /\ w.control = h.control
  BY <1>1, <1>2 DEF LowersInner, LowerChild
<1> HIDE DEF w
<1>4. Grown(g, w)
  BY <1>1, <1>3, GrownTransitively
<1> QED BY <1>3, <1>4 DEF w

(* A numbered label with another prefix is own in every interval.           *)
LEMMA PlainFresh ==
  ASSUME NEW prefix \in Prefixes \ {"", "if.end"}, NEW n \in Nat, NEW lo, NEW hi
  PROVE  /\ Fresh(prefix, n) \in Labels
         /\ Fresh(prefix, n) \in OwnLabels(lo, hi)
         /\ ~ Merge(Fresh(prefix, n))
         /\ Fresh(prefix, n) # NoLabel
<1>1. Fresh(prefix, n) \in Labels /\ Fresh(prefix, n).prefix = prefix
  BY FreshIs
<1>2. NoLabel.prefix = ""
  BY DEF NoLabel
<1> QED BY <1>1, <1>2 DEF OwnLabels, Merge

(* A merge label is own where its number is.                                *)
LEMMA MergeFresh ==
  ASSUME NEW n \in Nat, NEW lo \in Nat, NEW hi \in Nat, lo <= n, n < hi
  PROVE  Fresh("if.end", n) \in OwnLabels(lo, hi)
<1>1. "if.end" \in Prefixes
  BY DEF Prefixes
<1>2. Fresh("if.end", n) \in Labels /\ Fresh("if.end", n).number = n
  BY <1>1, FreshIs
<1> QED BY <1>2 DEF OwnLabels

(* Labels without a number are own in every interval.                       *)
LEMMA NamesAreOwn ==
  ASSUME NEW lo, NEW hi
  PROVE  /\ NoLabel \in OwnLabels(lo, hi)
         /\ \A a \in Args : UserLabel(a) \in OwnLabels(lo, hi)
         /\ \A p \in Places : CaseLabel(p) \in OwnLabels(lo, hi)
         /\ \A p \in Places : DefaultLabel(p) \in OwnLabels(lo, hi)
BY NamesAre DEF OwnLabels

(* A generator behind g, before the body of a loop or a switch.             *)
Surrounds(head, g, kind) ==
  /\ Grown(g, head)
  /\ head.reported = g.reported
  /\ \E entry \in Targeted :
        /\ head.control = Append(g.control, entry)
        /\ entry.break # NoLabel
        /\ kind # "switch" => entry.continue # NoLabel

(* The generator w behind a statement with a body, the i-th child, lowered  *)
(* from g.                                                                  *)
BodyLowered(g, w, s, place, i, inner) ==
  /\ Grown(g, w)
  /\ w.control = g.control
  /\ \E head : /\ Surrounds(head, g, s.kind)
               /\ w.reported = LowerChild(head, s, place, i, inner).reported

(* What is pushed surrounds the body.                                       *)
LEMMA PushedIsSurrounded ==
  ASSUME NEW g \in Tidy, NEW h, Grown(g, h), h.reported = g.reported, h.control = g.control,
         NEW break \in Labels, NEW continue \in Labels, NEW kind,
         ~ Merge(break), ~ Merge(continue),
         break # NoLabel, kind # "switch" => continue # NoLabel
  PROVE  Surrounds(PushControl(h, break, continue), g, kind)
<1> DEFINE w == PushControl(h, break, continue)
           entry == [break |-> break, continue |-> continue]
<1>1. entry \in Targeted /\ entry.break = break /\ entry.continue = continue
  BY DEF Targeted
<1>2. Grown(g, w) /\ w.control = Append(h.control, entry) /\ w.reported = h.reported
  BY Pushing
<1> HIDE DEF w, entry
<1> QED BY <1>1, <1>2 DEF Surrounds, w

(* What surrounds a body still does when more is emitted.                   *)
LEMMA SurroundsFurther ==
  ASSUME NEW g \in Tidy, NEW h, NEW kind, Surrounds(h, g, kind),
         NEW s \in Seq(Own(g.labelCounter, h.labelCounter))
  PROVE  Surrounds(Emit(h, s), g, kind)
<1> DEFINE w == Emit(h, s)
<1>1. Grown(g, h)
  BY DEF Surrounds
<1>2. Grown(g, w) /\ w.control = h.control /\ w.reported = h.reported
  BY <1>1, Emitting
<1> HIDE DEF w
<1> QED BY <1>2 DEF Surrounds, w

(* Behind the body, the entry is popped.                                    *)
LEMMA BodyIsLowered ==
  ASSUME NEW s, NEW i, NEW inner, NEW place, NEW g \in Tidy, NEW head, Surrounds(head, g, s.kind),
         NEW e, Grown(g, e), e.control = head.control,
         e.reported = LowerChild(head, s, place, i, inner).reported
  PROVE  BodyLowered(g, PopControl(e), s, place, i, inner)
<1> DEFINE w == PopControl(e)
<1>1. PICK entry \in Targeted : head.control = Append(g.control, entry)
  BY DEF Surrounds
<1>2. Grown(g, w) /\ w.control = g.control /\ w.reported = e.reported
  BY <1>1, Popping
<1> HIDE DEF w
<1>3. BodyLowered(g, w, s, place, i, inner)
  BY <1>2 DEF BodyLowered
<1> QED BY <1>3 DEF w

(* When all that is left is to emit the loop's end.                         *)
LEMMA LoopIsLowered ==
  ASSUME NEW n, NEW inner, LowersInner(n, inner), NEW s, NEW i \in Nat, s.kids[i] \in Inner(n),
         NEW place \in Places, NEW g \in Tidy, NEW head, Surrounds(head, g, s.kind),
         NEW tail \in Seq(Own(g.labelCounter, LowerChild(head, s, place, i, inner).labelCounter))
  PROVE  BodyLowered(g, PopControl(Emit(LowerChild(head, s, place, i, inner), tail)),
                     s, place, i, inner)
<1> DEFINE b == LowerChild(head, s, place, i, inner)
           e == Emit(b, tail)
<1>1. Grown(g, b) /\ b.control = head.control
  <2>1. Grown(g, head)
    BY DEF Surrounds
  <2> QED BY <2>1, ChildLowered
<1>2. tail \in Seq(Own(g.labelCounter, b.labelCounter))
  OBVIOUS
<1>3. Grown(g, e) /\ e.control = b.control /\ e.reported = b.reported
  <2> HIDE DEF b
  <2> QED BY <1>1, <1>2, Emitting
<1> HIDE DEF e
<1>4. BodyLowered(g, PopControl(e), s, place, i, inner)
  BY <1>1, <1>3, BodyIsLowered
<1> QED BY <1>4 DEF e

(* The prefixes used below are prefixes, and none is that of merge labels.  *)
LEMMA PrefixesAre ==
  /\ "while.cond" \in Prefixes \ {"", "if.end"} /\ "while.body" \in Prefixes \ {"", "if.end"}
  /\ "while.end" \in Prefixes \ {"", "if.end"} /\ "do.body" \in Prefixes \ {"", "if.end"}
  /\ "do.cond" \in Prefixes \ {"", "if.end"} /\ "do.end" \in Prefixes \ {"", "if.end"}
  /\ "for.cond" \in Prefixes \ {"", "if.end"} /\ "for.body" \in Prefixes \ {"", "if.end"}
  /\ "for.iter" \in Prefixes \ {"", "if.end"} /\ "for.end" \in Prefixes \ {"", "if.end"}
  /\ "if.then" \in Prefixes \ {"", "if.end"} /\ "if.else" \in Prefixes \ {"", "if.end"}
  /\ "switch.dispatch" \in Prefixes \ {"", "if.end"} /\ "switch.end" \in Prefixes \ {"", "if.end"}
  /\ "switch.check" \in Prefixes \ {"", "if.end"}
BY DEF Prefixes

(* To lower a while is to go on, and its body is lowered with its targets.  *)
LEMMA WhileLowered ==
  ASSUME NEW n \in 1 .. Height, NEW s \in Statement[n], s.kind = "while",
         NEW inner, LowersInner(n, inner), NEW place \in Places, NEW g \in Tidy
  PROVE  BodyLowered(g, LowerWhile(g, s, place, inner), s, place, 2, inner)
<1> DEFINE a == g.labelCounter
           cond == Fresh("while.cond", a)
           body == Fresh("while.body", a + 1)
           end  == Fresh("while.end", a + 2)
           p == Child(place, 1)
           h1 == NewLabels(g, 3)
           h2 == PushControl(h1, end, cond)
           opening == <<Jump(cond), Mark(cond), Eval(p), CJump(p, body, end), Mark(body)>>
           closing == <<Jump(cond), Mark(end)>>
           head == Emit(h2, opening)
           b == LowerChild(head, s, place, 2, inner)
<1>1. LowerWhile(g, s, place, inner) = PopControl(Emit(b, closing))
  BY DEF LowerWhile
<1>2. s.kids[2] \in Inner(n) /\ 2 \in Nat /\ s.kind # "switch"
  BY LoopShape
<1>3. a \in Nat /\ a + 1 \in Nat /\ a + 2 \in Nat
  BY GeneratorFields
<1>4. p \in Places
  BY PlacesAre
<1>5. cond \in Labels /\ end \in Labels /\ ~ Merge(cond) /\ ~ Merge(end)
      /\ cond # NoLabel /\ end # NoLabel
  BY <1>3, PlainFresh, PrefixesAre
<1>6. ASSUME NEW hi \in Nat
      PROVE  opening \in Seq(Own(a, hi)) /\ closing \in Seq(Own(a, hi))
  <2> DEFINE S == Own(a, hi)
  <2>1. cond \in OwnLabels(a, hi) /\ body \in OwnLabels(a, hi) /\ end \in OwnLabels(a, hi)
    BY <1>3, PlainFresh, PrefixesAre
  <2> HIDE DEF a, cond, body, end, p
  <2>2. /\ Jump(cond) \in S /\ Mark(cond) \in S /\ Eval(p) \in S
        /\ CJump(p, body, end) \in S /\ Mark(body) \in S /\ Mark(end) \in S
    <3>1. "" \in Args
      BY DEF Args
    <3> QED BY <1>3, <1>4, <2>1, <3>1, InstructionsAre
  <2> HIDE DEF S
  <2>3. opening \in Seq(S) /\ closing \in Seq(S)
    BY <2>2, FewInstructions
  <2> QED BY <2>3 DEF S
<1> HIDE DEF cond, end, body, opening, closing, p
<1>7. Grown(g, h1) /\ h1.control = g.control /\ h1.reported = g.reported
  <2>1. Grown(g, g) /\ 3 \in Nat
    BY GrownAtFirst
  <2> QED BY <2>1, Numbering
<1> HIDE DEF h1
<1>8. Surrounds(h2, g, s.kind)
  BY <1>2, <1>5, <1>7, PushedIsSurrounded
<1> HIDE DEF h2
<1>9. h2.labelCounter \in Nat
  BY <1>8, GeneratorFields DEF Surrounds, Grown
<1>10. Surrounds(head, g, s.kind)
  <2>1. opening \in Seq(Own(g.labelCounter, h2.labelCounter))
    BY <1>6, <1>9
  <2> QED BY <1>8, <2>1, SurroundsFurther
<1> HIDE DEF head
<1>11. b.labelCounter \in Nat
  <2>1. Grown(g, b)
    BY <1>2, <1>10, ChildLowered DEF Surrounds
  <2> QED BY <2>1, GeneratorFields DEF Grown
<1>12. closing \in Seq(Own(g.labelCounter, b.labelCounter))
  BY <1>6, <1>11
<1>13. BodyLowered(g, PopControl(Emit(b, closing)), s, place, 2, inner)
  <2> DEFINE i == 2
  <2>1. s.kids[i] \in Inner(n) /\ i \in Nat
        /\ closing \in Seq(Own(g.labelCounter, LowerChild(head, s, place, i, inner).labelCounter))
    BY <1>2, <1>12
  <2> HIDE DEF i
  <2>2. BodyLowered(g, PopControl(Emit(LowerChild(head, s, place, i, inner), closing)),
                    s, place, i, inner)
    BY <1>10, <2>1, LoopIsLowered
  <2> QED BY <2>2 DEF i
<1> QED BY <1>1, <1>13

(* The same for a do.                                                       *)
LEMMA DoLowered ==
  ASSUME NEW n \in 1 .. Height, NEW s \in Statement[n], s.kind = "do",
         NEW inner, LowersInner(n, inner), NEW place \in Places, NEW g \in Tidy
  PROVE  BodyLowered(g, LowerDoWhile(g, s, place, inner), s, place, 1, inner)
<1> DEFINE a == g.labelCounter
           body == Fresh("do.body", a)
           cond == Fresh("do.cond", a + 1)
           end  == Fresh("do.end", a + 2)
           p == Child(place, 2)
           h1 == NewLabels(g, 3)
           h2 == PushControl(h1, end, cond)
           opening == <<Mark(body)>>
           closing == <<Mark(cond), Eval(p), CJump(p, body, end), Mark(end)>>
           head == Emit(h2, opening)
           b == LowerChild(head, s, place, 1, inner)
<1>1. LowerDoWhile(g, s, place, inner) = PopControl(Emit(b, closing))
  BY DEF LowerDoWhile
<1>2. s.kids[1] \in Inner(n) /\ 1 \in Nat /\ s.kind # "switch"
  BY DoShape
<1>3. a \in Nat /\ a + 1 \in Nat /\ a + 2 \in Nat
  BY GeneratorFields
<1>4. p \in Places
  BY PlacesAre
<1>5. cond \in Labels /\ end \in Labels /\ ~ Merge(cond) /\ ~ Merge(end)
      /\ cond # NoLabel /\ end # NoLabel
  BY <1>3, PlainFresh, PrefixesAre
<1>6. ASSUME NEW hi \in Nat
      PROVE  opening \in Seq(Own(a, hi)) /\ closing \in Seq(Own(a, hi))
  <2> DEFINE S == Own(a, hi)
  <2>1. cond \in OwnLabels(a, hi) /\ body \in OwnLabels(a, hi) /\ end \in OwnLabels(a, hi)
    BY <1>3, PlainFresh, PrefixesAre
  <2> HIDE DEF a, cond, body, end, p
  <2>2. /\ Mark(cond) \in S /\ Eval(p) \in S
        /\ CJump(p, body, end) \in S /\ Mark(body) \in S /\ Mark(end) \in S
    <3>1. "" \in Args
      BY DEF Args
    <3> QED BY <1>3, <1>4, <2>1, <3>1, InstructionsAre
  <2> HIDE DEF S
  <2>3. opening \in Seq(S) /\ closing \in Seq(S)
    BY <2>2, FewInstructions
  <2> QED BY <2>3 DEF S
<1> HIDE DEF cond, end, body, opening, closing, p
<1>7. Grown(g, h1) /\ h1.control = g.control /\ h1.reported = g.reported
  <2>1. Grown(g, g) /\ 3 \in Nat
    BY GrownAtFirst
  <2> QED BY <2>1, Numbering
<1> HIDE DEF h1
<1>8. Surrounds(h2, g, s.kind)
  BY <1>2, <1>5, <1>7, PushedIsSurrounded
<1> HIDE DEF h2
<1>9. h2.labelCounter \in Nat
  BY <1>8, GeneratorFields DEF Surrounds, Grown
<1>10. Surrounds(head, g, s.kind)
  <2>1. opening \in Seq(Own(g.labelCounter, h2.labelCounter))
    BY <1>6, <1>9
  <2> QED BY <1>8, <2>1, SurroundsFurther
<1> HIDE DEF head
<1>11. b.labelCounter \in Nat
  <2>1. Grown(g, b)
    BY <1>2, <1>10, ChildLowered DEF Surrounds
  <2> QED BY <2>1, GeneratorFields DEF Grown
<1>12. closing \in Seq(Own(g.labelCounter, b.labelCounter))
  BY <1>6, <1>11
<1>13. BodyLowered(g, PopControl(Emit(b, closing)), s, place, 1, inner)
  <2> DEFINE i == 1
  <2>1. s.kids[i] \in Inner(n) /\ i \in Nat
        /\ closing \in Seq(Own(g.labelCounter, LowerChild(head, s, place, i, inner).labelCounter))
    BY <1>2, <1>12
  <2> HIDE DEF i
  <2>2. BodyLowered(g, PopControl(Emit(LowerChild(head, s, place, i, inner), closing)),
                    s, place, i, inner)
    BY <1>10, <2>1, LoopIsLowered
  <2> QED BY <2>2 DEF i
<1> QED BY <1>1, <1>13

(* The same for a for.                                                      *)
LEMMA ForLowered ==
  ASSUME NEW n \in 1 .. Height, NEW s \in Statement[n], s.kind = "for",
         NEW inner, LowersInner(n, inner), NEW place \in Places, NEW g \in Tidy
  PROVE  /\ Grown(g, LowerChild(g, s, place, 1, inner))
         /\ LowerChild(g, s, place, 1, inner).control = g.control
         /\ BodyLowered(LowerChild(g, s, place, 1, inner), LowerFor(g, s, place, inner),
                        s, place, Len(s.kids), inner)
<1> DEFINE init == LowerChild(g, s, place, 1, inner)
           a == init.labelCounter
           middle == MiddleCount(s)
           cond == Fresh("for.cond", a)
           body == Fresh("for.body", a + 1)
           iter == Fresh("for.iter", a + 2)
           end  == Fresh("for.end", a + 3)
           p == Child(place, 2)
           q == Child(place, 3)
           i == Len(s.kids)
           h1 == NewLabels(init, 4)
           h2 == PushControl(h1, end, iter)
           test == IF middle > 1 THEN <<Eval(p), CJump(p, body, end)>> ELSE <<Jump(body)>>
           step == IF middle > 2 THEN <<Eval(q)>> ELSE <<>>
           opening == <<Jump(cond), Mark(cond)>> \o test \o <<Mark(body)>>
           closing == <<Jump(iter), Mark(iter)>> \o step \o <<Jump(cond), Mark(end)>>
           head == Emit(h2, opening)
           b == LowerChild(head, s, place, i, inner)
<1>1. LowerFor(g, s, place, inner) = PopControl(Emit(b, closing))
  BY DEF LowerFor
<1>2. s.kids[1] \in Inner(n) /\ s.kids[i] \in Inner(n) /\ i \in Nat /\ 1 \in Nat /\ s.kind # "switch"
  BY ForShape
<1>3. Grown(g, init) /\ init.control = g.control
  <2> DEFINE o == 1
  <2>1. s.kids[o] \in Inner(n) /\ o \in Nat /\ Grown(g, g)
    BY <1>2, GrownAtFirst
  <2> HIDE DEF o
  <2>2. Grown(g, LowerChild(g, s, place, o, inner))
        /\ LowerChild(g, s, place, o, inner).control = g.control
    BY <2>1, ChildLowered
  <2> QED BY <2>2 DEF o
<1> HIDE DEF init
<1>4. init \in Tidy /\ a \in Nat /\ a + 1 \in Nat /\ a + 2 \in Nat /\ a + 3 \in Nat
  <2>1. init \in Tidy
    BY <1>3 DEF Grown
  <2> QED BY <2>1, GeneratorFields
<1>5. p \in Places /\ q \in Places
  BY PlacesAre
<1>6. iter \in Labels /\ end \in Labels /\ ~ Merge(iter) /\ ~ Merge(end)
      /\ iter # NoLabel /\ end # NoLabel
  BY <1>4, PlainFresh, PrefixesAre
<1>7. ASSUME NEW hi \in Nat
      PROVE  opening \in Seq(Own(a, hi)) /\ closing \in Seq(Own(a, hi))
  <2> DEFINE S == Own(a, hi)
  <2>1. cond \in OwnLabels(a, hi) /\ body \in OwnLabels(a, hi) /\ end \in OwnLabels(a, hi)
        /\ iter \in OwnLabels(a, hi)
    BY <1>4, PlainFresh, PrefixesAre
  <2> HIDE DEF a, cond, body, iter, end, p, q, middle
  <2>2. /\ Jump(cond) \in S /\ Mark(cond) \in S /\ Eval(p) \in S /\ Eval(q) \in S
        /\ CJump(p, body, end) \in S /\ Mark(body) \in S /\ Mark(end) \in S
        /\ Jump(iter) \in S /\ Mark(iter) \in S /\ Jump(body) \in S
    <3>1. "" \in Args
      BY DEF Args
    <3> QED BY <1>4, <1>5, <2>1, <3>1, InstructionsAre
  <2> HIDE DEF S
  <2>3. /\ <<Jump(cond), Mark(cond)>> \in Seq(S) /\ <<Mark(body)>> \in Seq(S)
        /\ <<Jump(iter), Mark(iter)>> \in Seq(S) /\ <<Jump(cond), Mark(end)>> \in Seq(S)
        /\ test \in Seq(S) /\ step \in Seq(S)
    BY <2>2, FewInstructions
  <2> HIDE DEF test, step
  <2>4. <<Jump(cond), Mark(cond)>> \o test \in Seq(S) /\ <<Jump(iter), Mark(iter)>> \o step \in Seq(S)
    BY <2>3, ConcatProperties
  <2>5. opening \in Seq(S) /\ closing \in Seq(S)
    BY <2>3, <2>4, ConcatProperties
  <2> QED BY <2>5 DEF S
<1> HIDE DEF cond, end, body, iter, opening, closing, p, q, i
<1>8. Grown(init, h1) /\ h1.control = init.control /\ h1.reported = init.reported
  <2>1. Grown(init, init) /\ 4 \in Nat
    BY <1>4, GrownAtFirst
  <2> QED BY <1>4, <2>1, Numbering
<1> HIDE DEF h1
<1>9. Surrounds(h2, init, s.kind)
  BY <1>2, <1>4, <1>6, <1>8, PushedIsSurrounded
<1> HIDE DEF h2
<1>10. h2.labelCounter \in Nat
  BY <1>9, GeneratorFields DEF Surrounds, Grown
<1>11. Surrounds(head, init, s.kind)
  <2>1. opening \in Seq(Own(init.labelCounter, h2.labelCounter))
    BY <1>7, <1>10
  <2> QED BY <1>4, <1>9, <2>1, SurroundsFurther
<1> HIDE DEF head
<1>12. b.labelCounter \in Nat
  <2>1. Grown(init, head)
    BY <1>11 DEF Surrounds
  <2>2. Grown(init, b)
    BY <1>2, <1>4, <2>1, ChildLowered
  <2> QED BY <2>2, GeneratorFields DEF Grown
<1>13. closing \in Seq(Own(init.labelCounter, b.labelCounter))
  BY <1>7, <1>12
<1>14. BodyLowered(init, PopControl(Emit(b, closing)), s, place, i, inner)
  BY <1>2, <1>4, <1>11, <1>13, LoopIsLowered
<1> QED BY <1>1, <1>3, <1>14 DEF init, i

-----------------------------------------------------------------------------
(* The layout of a switch, and its chain of comparisons.                    *)

Located == [place : Places, value : Args]

(* Noting a case or a default keeps the layout a layout.                    *)
LEMMA NotedIs ==
  ASSUME NEW l \in Layouts, NEW s, s.arg \in Args, NEW place \in Places
  PROVE  Noted(l, s, place) \in Layouts
<1>1. l.cases \in Seq(Located) /\ l.defaults \in Seq(Places)
  BY DEF Layouts, Located
<1> DEFINE e == [place |-> place, value |-> s.arg]
           q == Append(l.cases, e)
           d == IF l.defaults = <<>> THEN <<place>> ELSE l.defaults
<1>2. e \in Located
  BY DEF Located
<1> HIDE DEF e
<1>3. q \in Seq(Located)
  BY <1>1, <1>2, AppendProperties
<1>4. d \in Seq(Places)
  BY <1>1, FewInstructions
<1> HIDE DEF q, d
<1>5. /\ [l EXCEPT !.cases = q] \in Layouts /\ [l EXCEPT !.defaults = d] \in Layouts
      /\ [l EXCEPT !.unfolded = TRUE] \in Layouts
  BY <1>3, <1>4 DEF Layouts, Located
<1>6. \/ Noted(l, s, place) = [l EXCEPT !.unfolded = TRUE]
      \/ Noted(l, s, place) = [l EXCEPT !.cases = q]
      \/ Noted(l, s, place) = [l EXCEPT !.defaults = d]
      \/ Noted(l, s, place) = l
  BY DEF Noted, q, d, e
<1> QED BY <1>5, <1>6

(* So does collecting from a statement, when it does for those below.       *)
LEMMA CollectFromIs ==
  ASSUME NEW n \in 1 .. Height, NEW s \in Statement[n], NEW inner,
         \A t \in Inner(n) : \A p \in Places : \A l \in Layouts : inner[t][p][l] \in Layouts,
         NEW place \in Places, NEW layout \in Layouts
  PROVE  CollectFrom(layout, s, place, inner) \in Layouts
<1> DEFINE m == Len(s.kids)
           walk(i) == IF IsExpression(s.kids[i]) THEN [l \in Layouts |-> l]
                      ELSE inner[s.kids[i]][Child(place, i)]
           walks == [i \in DOMAIN s.kids |-> walk(i)]
           start == Noted(layout, s, place)
<1>1. m \in Nat /\ DOMAIN s.kids = 1 .. m
  BY Children
<1>2. start \in Layouts
  BY StatementShape, NotedIs
<1>3. ASSUME NEW i \in 1 .. m, NEW l \in Layouts PROVE walk(i)[l] \in Layouts
  <2>1. CASE IsExpression(s.kids[i])
    BY <2>1
  <2>2. CASE ~ IsExpression(s.kids[i])
    <3>1. s.kids[i] \in Inner(n)
      BY <2>2, Children
    <3>2. Child(place, i) \in Places
      BY <1>1, PlacesAre
    <3> QED BY <2>2, <3>1, <3>2
  <2> QED BY <2>1, <2>2
<1>4. CollectFrom(layout, s, place, inner) = IF s.kind = "switch" THEN layout
                                             ELSE Through(walks, start)
  BY DEF CollectFrom
<1> HIDE DEF walk, m, start
<1>5. Len(walks) = m /\ \A i \in 1 .. m : walks[i] = walk(i)
  BY <1>1
<1> HIDE DEF walks
<1>6. Through(walks, start) \in Layouts
  <2>1. Len(walks) \in Nat /\ \A k \in 1 .. Len(walks) : \A y \in Layouts : walks[k][y] \in Layouts
    BY <1>1, <1>3, <1>5
  <2>2. PICK w : Stages(w, Layouts, walks, start) /\ Through(walks, start) = w[Len(walks)]
    BY <1>2, <2>1, ThroughIs
  <2>3. w \in [0 .. Len(walks) -> Layouts] /\ Len(walks) \in 0 .. Len(walks)
    BY <2>1, <2>2 DEF Stages
  <2> QED BY <2>2, <2>3
<1> QED BY <1>4, <1>6

(* So does collecting, by the height of the statement.                      *)
LEMMA CollectingIsTyped ==
  \A n \in 0 .. Height : \A s \in Statement[n] : \A p \in Places : \A l \in Layouts :
     Collecting[n][s][p][l] \in Layouts
<1> DEFINE Typed(n) == \A s \in Statement[n] : \A p \in Places : \A l \in Layouts :
                         Collecting[n][s][p][l] \in Layouts
           T == {n \in 0 .. Height : Typed(n)}
<1>1. 0 \in T
  BY NoStatementOfHeightZero, HeightAssumption
<1>2. ASSUME NEW n \in 1 .. Height, n - 1 \in T PROVE n \in T
  <2>1. n \in 0 .. Height
    BY HeightAssumption
  <2> DEFINE below == Collecting[n - 1]
             f == Collecting[n]
  <2>2. \A t \in Inner(n) : \A p \in Places : \A l \in Layouts : below[t][p][l] \in Layouts
    BY <1>2 DEF Inner
  <2>3. f = CollectsOver(Statement[n], below)
    BY <2>1, CollectingIs
  <2> HIDE DEF f, below
  <2>4. ASSUME NEW s \in Statement[n], NEW p \in Places, NEW l \in Layouts
        PROVE  f[s][p][l] \in Layouts
    <3>1. f[s] = [q \in Places |-> [k \in Layouts |-> CollectFrom(k, s, q, below)]]
      BY <2>3 DEF CollectsOver
    <3>2. f[s][p][l] = CollectFrom(l, s, p, below)
      BY <3>1
    <3> QED BY <2>2, <3>2, CollectFromIs
  <2>5. Typed(n)
    BY <2>4 DEF f
  <2> QED BY <2>1, <2>5
<1>3. \A n \in 0 .. Height : n \in T
  <2> HIDE DEF T
  <2> QED BY <1>1, <1>2, UpTo, HeightAssumption
<1> QED BY <1>3

(* What is collected is a layout.                                           *)
LEMMA CollectedIs ==
  ASSUME NEW body \in Statement[Height], NEW place \in Places
  PROVE  /\ Collected(body, place).cases \in Seq(Located)
         /\ Collected(body, place).defaults \in Seq(Places)
<1>1. Height \in 0 .. Height
  BY HeightAssumption
<1>2. EmptyLayout \in Layouts
  BY EmptySeq DEF EmptyLayout, Layouts
<1>3. Collected(body, place) \in Layouts
  BY <1>1, <1>2, CollectingIsTyped DEF Collected
<1> QED BY <1>3 DEF Layouts, Located

(* The chain of comparisons consists of own instructions.                   *)
LEMMA DispatchIs ==
  ASSUME NEW cases \in Seq(Located), NEW value \in Places, NEW n \in Nat,
         NEW lo \in Nat, NEW hi \in Nat, NEW otherwise \in OwnLabels(lo, hi)
  PROVE  Dispatch(cases, otherwise, value, n) \in Seq(Own(lo, hi))
<1> DEFINE m == Len(cases)
           check(i) == Fresh("switch.check", n + i - 1)
           to(i) == CaseLabel(cases[i].place)
           else(i) == IF i < m THEN check(i) ELSE otherwise
           compare(i) == JumpIfEqual(value, cases[i].value, to(i), else(i))
           at(k) == IF k % 2 = 1 THEN compare((k + 1) \div 2) ELSE Mark(check(k \div 2))
           S == Own(lo, hi)
<1>1. Dispatch(cases, otherwise, value, n) =
        IF cases = <<>> THEN <<Jump(otherwise)>> ELSE [k \in 1 .. 2 * m - 1 |-> at(k)]
  BY DEF Dispatch
<1>2. m \in Nat /\ (cases # <<>> => m > 0)
  BY LenProperties, EmptySeq
<1>3. "" \in Args /\ <<>> \in Places
  BY PlacesAre DEF Args
<1>4. ASSUME NEW i \in 1 .. m PROVE check(i) \in OwnLabels(lo, hi)
  <2>1. n + i - 1 \in Nat
    BY <1>2
  <2> QED BY <2>1, PlainFresh, PrefixesAre
<1>5. ASSUME NEW i \in 1 .. m PROVE compare(i) \in S
  <2>1. cases[i].place \in Places /\ cases[i].value \in Args
    <3>1. cases[i] \in Located
      BY ElementOfSeq
    <3> QED BY <3>1 DEF Located
  <2>2. to(i) \in OwnLabels(lo, hi)
    BY <2>1, NamesAreOwn
  <2>3. else(i) \in OwnLabels(lo, hi)
    <3> HIDE DEF check
    <3> QED BY <1>4
  <2> HIDE DEF to, else
  <2> QED BY <2>1, <2>2, <2>3, InstructionsAre
<1>6. ASSUME NEW i \in 1 .. m PROVE Mark(check(i)) \in S
  <2> HIDE DEF check
  <2> QED BY <1>3, <1>4, InstructionsAre
<1>7. Jump(otherwise) \in S
  BY <1>3, InstructionsAre
<1> HIDE DEF compare, check, m, S
<1>8. ASSUME cases # <<>>, NEW k \in 1 .. 2 * m - 1 PROVE at(k) \in S
  <2>1. CASE k % 2 = 1
    <3>1. (k + 1) \div 2 \in 1 .. m
      BY <1>2, <1>8, <2>1
    <3> QED BY <1>5, <2>1, <3>1
  <2>2. CASE k % 2 # 1
    <3>1. k \div 2 \in 1 .. m
      BY <1>2, <1>8, <2>2
    <3> QED BY <1>6, <2>2, <3>1
  <2> QED BY <2>1, <2>2
<1>9. CASE cases = <<>>
  BY <1>1, <1>7, <1>9, FewInstructions DEF S
<1>10. CASE cases # <<>>
  <2> DEFINE z == 2 * m - 1
  <2>1. z \in Nat
    BY <1>2, <1>10
  <2>2. \A k \in 1 .. z : at(k) \in S
    BY <1>8, <1>10
  <2> HIDE DEF at, z
  <2>3. [k \in 1 .. z |-> at(k)] \in Seq(S)
    BY <2>1, <2>2
  <2> QED BY <1>1, <1>10, <2>3 DEF S, z
<1> QED BY <1>9, <1>10

(* To lower a switch is to go on, and its body is lowered with its target.  *)
LEMMA SwitchLowered ==
  ASSUME NEW n \in 1 .. Height, NEW s \in Statement[n], s.kind = "switch",
         NEW inner, LowersInner(n, inner), NEW place \in Places, NEW g \in Tidy
  PROVE  /\ Grown(g, LowerSwitch(g, s, place, inner))
         /\ LowerSwitch(g, s, place, inner).control = g.control
         /\ ~ Collected(s.kids[2], Child(place, 2)).unfolded
              => BodyLowered(g, LowerSwitch(g, s, place, inner), s, place, 2, inner)
<1> DEFINE a == g.labelCounter
           value == Child(place, 1)
           i == 2
           dispatch == Fresh("switch.dispatch", a)
           end == Fresh("switch.end", a + 1)
           layout == Collected(s.kids[i], Child(place, i))
           cases == layout.cases
           otherwise == IF layout.defaults = <<>> THEN end ELSE DefaultLabel(layout.defaults[1])
           h1 == NewLabels(g, 2)
           h2 == PushControl(h1, end, NoLabel)
           opening == <<Eval(value), Jump(dispatch)>>
           middle == <<Jump(end), Mark(dispatch)>>
           head == Emit(h2, opening)
           b == LowerChild(head, s, place, i, inner)
           c == Emit(b, middle)
           k == IF layout.cases = <<>> THEN 0 ELSE Len(layout.cases) - 1
           d == NewLabels(c, k)
           closing == Dispatch(cases, otherwise, value, c.labelCounter) \o <<Mark(end)>>
           e == Emit(d, closing)
           w == PopControl(e)
<1>1. LowerSwitch(g, s, place, inner) = IF layout.unfolded THEN [w EXCEPT !.reported = TRUE] ELSE w
  BY DEF LowerSwitch
<1>2. s.kids[i] \in Inner(n) /\ i \in Nat /\ s.kids[i] \in Statement[Height]
  <2>1. n - 1 \in 0 .. Height /\ s.kids[2] \in Inner(n)
    BY LoopShape, HeightAssumption
  <2> QED BY <2>1, StatementsAreHigh DEF Inner
<1>3. a \in Nat /\ a + 1 \in Nat
  BY GeneratorFields
<1>4. value \in Places /\ Child(place, i) \in Places
  BY PlacesAre
<1>5. cases \in Seq(Located) /\ layout.defaults \in Seq(Places) /\ Len(cases) \in Nat
  <2>1. cases \in Seq(Located) /\ layout.defaults \in Seq(Places)
    BY <1>2, <1>4, CollectedIs
  <2> QED BY <2>1, LenProperties
<1>6. k \in Nat
  BY <1>5, EmptySeq
<1>7. end \in Labels /\ ~ Merge(end) /\ end # NoLabel /\ NoLabel \in Labels /\ ~ Merge(NoLabel)
  BY <1>3, PlainFresh, PrefixesAre, NamesAre
<1>8. ASSUME NEW hi \in Nat
      PROVE  /\ opening \in Seq(Own(a, hi)) /\ middle \in Seq(Own(a, hi))
             /\ <<Mark(end)>> \in Seq(Own(a, hi))
             /\ otherwise \in OwnLabels(a, hi)
  <2> DEFINE S == Own(a, hi)
  <2>1. end \in OwnLabels(a, hi) /\ dispatch \in OwnLabels(a, hi)
    BY <1>3, PlainFresh, PrefixesAre
  <2>2. otherwise \in OwnLabels(a, hi)
    <3> DEFINE f == layout.defaults
    <3>1. f \in Seq(Places)
      BY <1>5
    <3> HIDE DEF f
    <3>2. f # <<>> => f[1] \in Places
      BY <3>1
    <3>3. f # <<>> => DefaultLabel(f[1]) \in OwnLabels(a, hi)
      BY <3>2, NamesAreOwn
    <3> QED BY <2>1, <3>3 DEF f
  <2> HIDE DEF a, end, dispatch, value
  <2>3. /\ Eval(value) \in S /\ Jump(dispatch) \in S /\ Jump(end) \in S
        /\ Mark(dispatch) \in S /\ Mark(end) \in S
    <3>1. "" \in Args
      BY DEF Args
    <3> QED BY <1>3, <1>4, <2>1, <3>1, InstructionsAre
  <2> HIDE DEF S
  <2>4. opening \in Seq(S) /\ middle \in Seq(S) /\ <<Mark(end)>> \in Seq(S)
    BY <2>3, FewInstructions
  <2> QED BY <2>2, <2>4 DEF S
<1> HIDE DEF end, dispatch, otherwise, opening, middle, value, i, k, cases
<1>9. Grown(g, h1) /\ h1.control = g.control /\ h1.reported = g.reported
  <2>1. Grown(g, g) /\ 2 \in Nat
    BY GrownAtFirst
  <2> QED BY <2>1, Numbering
<1> HIDE DEF h1
<1>10. Surrounds(h2, g, s.kind)
  BY <1>7, <1>9, PushedIsSurrounded
<1> HIDE DEF h2
<1>11. h2.labelCounter \in Nat
  BY <1>10, GeneratorFields DEF Surrounds, Grown
<1>12. Surrounds(head, g, s.kind)
  <2>1. opening \in Seq(Own(g.labelCounter, h2.labelCounter))
    BY <1>8, <1>11
  <2> QED BY <1>10, <2>1, SurroundsFurther
<1> HIDE DEF head
<1>13. Grown(g, b) /\ b.control = head.control
  <2>1. Grown(g, head)
    BY <1>12 DEF Surrounds
  <2> QED BY <1>2, <2>1, ChildLowered
<1>14. b.labelCounter \in Nat
  BY <1>13, GeneratorFields DEF Grown
<1>15. /\ Grown(g, c) /\ c.control = b.control /\ c.reported = b.reported
       /\ c.labelCounter \in Nat
  <2>1. middle \in Seq(Own(g.labelCounter, b.labelCounter))
    BY <1>8, <1>14
  <2> HIDE DEF b
  <2>2. /\ Grown(g, c) /\ c.control = b.control /\ c.reported = b.reported
        /\ c.labelCounter = b.labelCounter
    BY <1>13, <2>1, Emitting
  <2> QED BY <1>14, <2>2
<1>16. /\ Grown(g, d) /\ d.control = c.control /\ d.reported = c.reported
       /\ d.labelCounter \in Nat
  <2> HIDE DEF c
  <2>1. /\ Grown(g, d) /\ d.control = c.control /\ d.reported = c.reported
        /\ d.labelCounter = c.labelCounter + k
    BY <1>6, <1>15, Numbering
  <2> QED BY <1>6, <1>15, <2>1
<1> HIDE DEF c, d
<1>17. Grown(g, e) /\ e.control = d.control /\ e.reported = d.reported
  <2>1. Dispatch(cases, otherwise, value, c.labelCounter) \in Seq(Own(a, d.labelCounter))
    BY <1>3, <1>4, <1>5, <1>8, <1>15, <1>16, DispatchIs DEF cases
  <2>2. <<Mark(end)>> \in Seq(Own(a, d.labelCounter))
    BY <1>8, <1>16
  <2>3. closing \in Seq(Own(g.labelCounter, d.labelCounter))
    BY <2>1, <2>2, ConcatProperties
  <2> HIDE DEF closing
  <2> QED BY <1>16, <2>3, Emitting
<1> HIDE DEF e
<1>18. BodyLowered(g, w, s, place, i, inner)
  BY <1>12, <1>13, <1>15, <1>16, <1>17, BodyIsLowered
<1> HIDE DEF w
<1>19. Grown(g, w) /\ w.control = g.control /\ w \in Tidy
  BY <1>18 DEF BodyLowered, Grown
<1>20. Grown(w, [w EXCEPT !.reported = TRUE]) /\ [w EXCEPT !.reported = TRUE].control = w.control
  BY <1>19, Reporting
<1>21. Grown(g, [w EXCEPT !.reported = TRUE])
  BY <1>19, <1>20, GrownTransitively
<1> QED BY <1>1, <1>18, <1>19, <1>20, <1>21 DEF i

(* The parts of an if statement: the generator before its first branch,     *)
(* behind it, before its second, and behind the whole.                      *)
IfParts(test, yes, other, no, w, g, s, place, inner) ==
  LET a == g.labelCounter
      hasElse == Len(s.kids) > 2
      merge == Fresh("if.end", a + 1)
      then == Fresh("if.then", a)
      else == IF hasElse THEN Fresh("if.else", a + 2) ELSE merge
  IN  /\ test = Emit(NewLabels(g, IF hasElse THEN 3 ELSE 2),
                     <<Eval(Child(place, 1)), CJump(Child(place, 1), then, else), Mark(then)>>)
      /\ yes = Emit(LowerChild(test, s, place, 2, inner), <<Jump(merge)>>)
      /\ other = Emit(yes, <<Mark(else)>>)
      /\ hasElse => no = Emit(LowerChild(other, s, place, 3, inner), <<Jump(merge)>>)
      /\ ~ hasElse => no = yes
      /\ w = Emit(no, <<Mark(merge)>>)

(* How far they are: a branch is lowered from a generator that reported      *)
(* what the one before reported, with the same targets.                     *)
IfGrown(test, yes, other, no, w, g, s, place, inner) ==
  /\ Grown(g, test) /\ test.control = g.control /\ test.reported = g.reported
  /\ g.labelCounter + 2 <= test.labelCounter
  /\ Grown(g, yes) /\ yes.control = g.control
  /\ yes.reported = LowerChild(test, s, place, 2, inner).reported
  /\ Grown(g, other) /\ other.control = g.control /\ other.reported = yes.reported
  /\ g.labelCounter + 2 <= other.labelCounter
  /\ Grown(g, no) /\ no.control = g.control
  /\ Len(s.kids) > 2 => no.reported = LowerChild(other, s, place, 3, inner).reported
  /\ ~ (Len(s.kids) > 2) => no.reported = yes.reported
  /\ Grown(g, w) /\ w.control = g.control /\ w.reported = no.reported

(* To lower an if is to go on, through the generators IfParts names.        *)
LEMMA IfLowered ==
  ASSUME NEW n \in 1 .. Height, NEW s \in Statement[n], s.kind = "if",
         NEW inner, LowersInner(n, inner), NEW place \in Places, NEW g \in Tidy
  PROVE  \E test, yes, other, no :
            /\ IfParts(test, yes, other, no, LowerIf(g, s, place, inner), g, s, place, inner)
            /\ IfGrown(test, yes, other, no, LowerIf(g, s, place, inner), g, s, place, inner)
<1> DEFINE a == g.labelCounter
           hasElse == Len(s.kids) > 2
           k == IF hasElse THEN 3 ELSE 2
           p == Child(place, 1)
           merge == Fresh("if.end", a + 1)
           then == Fresh("if.then", a)
           else == IF hasElse THEN Fresh("if.else", a + 2) ELSE merge
           h1 == NewLabels(g, k)
           test == Emit(h1, <<Eval(p), CJump(p, then, else), Mark(then)>>)
           b2 == LowerChild(test, s, place, 2, inner)
           yes == Emit(b2, <<Jump(merge)>>)
           other == Emit(yes, <<Mark(else)>>)
           b3 == LowerChild(other, s, place, 3, inner)
           no == IF hasElse THEN Emit(b3, <<Jump(merge)>>) ELSE yes
           w == Emit(no, <<Mark(merge)>>)
<1>1. LowerIf(g, s, place, inner) = w
  BY DEF LowerIf
<1>2. IfParts(test, yes, other, no, w, g, s, place, inner)
  BY DEF IfParts
<1>3. s.kids[2] \in Inner(n) /\ (hasElse => s.kids[3] \in Inner(n)) /\ 2 \in Nat /\ 3 \in Nat
  BY IfShape
<1>4. a \in Nat /\ k \in Nat /\ a + 1 < a + k /\ a + 1 \in Nat /\ a + 2 \in Nat /\ a <= a + 1
  BY GeneratorFields
<1>5. p \in Places
  BY PlacesAre
<1>6. ASSUME NEW hi \in Nat, a + k <= hi
      PROVE  /\ <<Eval(p), CJump(p, then, else), Mark(then)>> \in Seq(Own(a, hi))
             /\ <<Jump(merge)>> \in Seq(Own(a, hi)) /\ <<Mark(else)>> \in Seq(Own(a, hi))
             /\ <<Mark(merge)>> \in Seq(Own(a, hi))
  <2> DEFINE S == Own(a, hi)
  <2>1. a + 1 < hi
    BY <1>4, <1>6
  <2>2. merge \in OwnLabels(a, hi) /\ then \in OwnLabels(a, hi)
    BY <1>4, <2>1, MergeFresh, PlainFresh, PrefixesAre
  <2>3. else \in OwnLabels(a, hi)
    <3>1. Fresh("if.else", a + 2) \in OwnLabels(a, hi)
      BY <1>4, PlainFresh, PrefixesAre
    <3> HIDE DEF merge
    <3> QED BY <2>2, <3>1
  <2> HIDE DEF merge, then, else, p, a
  <2>4. /\ Eval(p) \in S /\ CJump(p, then, else) \in S /\ Mark(then) \in S
        /\ Jump(merge) \in S /\ Mark(else) \in S /\ Mark(merge) \in S
    <3>1. "" \in Args
      BY DEF Args
    <3> QED BY <1>4, <1>5, <2>2, <2>3, <3>1, InstructionsAre
  <2> HIDE DEF S
  <2>5. /\ <<Eval(p), CJump(p, then, else), Mark(then)>> \in Seq(S)
        /\ <<Jump(merge)>> \in Seq(S) /\ <<Mark(else)>> \in Seq(S)
        /\ <<Mark(merge)>> \in Seq(S)
    BY <2>4, FewInstructions
  <2> QED BY <2>5 DEF S
<1> HIDE DEF p, merge, then, else, k, hasElse
<1>7. /\ Grown(g, h1) /\ h1.control = g.control /\ h1.reported = g.reported
      /\ h1.labelCounter = a + k
  <2>1. Grown(g, g)
    BY GrownAtFirst
  <2> QED BY <1>4, <2>1, Numbering
<1> HIDE DEF h1
<1> DEFINE Few == {<<Jump(merge)>>, <<Mark(else)>>, <<Mark(merge)>>,
                   <<Eval(p), CJump(p, then, else), Mark(then)>>}
           Far(h) == Grown(g, h) /\ a + k <= h.labelCounter /\ h.control = g.control
<1>8. ASSUME NEW h, Far(h), NEW instr \in Few
      PROVE  Far(Emit(h, instr)) /\ Emit(h, instr).reported = h.reported
  <2>1. h \in Tidy /\ h.labelCounter \in Nat
    BY <1>8, GeneratorFields DEF Grown
  <2>2. instr \in Seq(Own(g.labelCounter, h.labelCounter))
    BY <1>6, <1>8, <2>1
  <2>3. /\ Grown(g, Emit(h, instr)) /\ Emit(h, instr).control = h.control
        /\ Emit(h, instr).reported = h.reported
        /\ Emit(h, instr).labelCounter = h.labelCounter
    BY <1>8, <2>2, Emitting
  <2> QED BY <1>8, <2>3
<1>9. ASSUME NEW h, Far(h), NEW i \in Nat, s.kids[i] \in Inner(n)
      PROVE  Far(LowerChild(h, s, place, i, inner))
  <2> DEFINE c == LowerChild(h, s, place, i, inner)
  <2>1. Grown(h, c) /\ Grown(g, c) /\ c.control = h.control
    BY <1>9, ChildLowered
  <2> HIDE DEF c
  <2>2. c \in Tidy /\ c.labelCounter \in Nat /\ h.labelCounter \in Nat
        /\ h.labelCounter <= c.labelCounter
    BY <1>9, <2>1, GeneratorFields DEF Grown
  <2>3. a + k <= c.labelCounter
    BY <1>4, <1>9, <2>2
  <2>4. Far(c)
    BY <1>9, <2>1, <2>3
  <2> QED BY <2>4 DEF c
<1>10. Far(h1)
  BY <1>4, <1>7
<1> HIDE DEF Far
<1>11. Far(test) /\ test.reported = h1.reported
  BY <1>8, <1>10
<1> HIDE DEF test
<1>12. Far(b2)
  BY <1>3, <1>9, <1>11
<1> HIDE DEF b2
<1>13. Far(yes) /\ yes.reported = b2.reported
  BY <1>8, <1>12
<1> HIDE DEF yes
<1>14. Far(other) /\ other.reported = yes.reported
  BY <1>8, <1>13
<1> HIDE DEF other
<1>15. hasElse => Far(b3)
  BY <1>3, <1>9, <1>14
<1> HIDE DEF b3
<1>16. /\ Far(no)
       /\ hasElse => no.reported = b3.reported
       /\ ~ hasElse => no.reported = yes.reported
  <2>1. CASE hasElse
    BY <1>8, <1>15, <2>1
  <2>2. CASE ~ hasElse
    BY <1>13, <2>2
  <2> QED BY <2>1, <2>2
<1> HIDE DEF no
<1>17. Far(w) /\ w.reported = no.reported
  BY <1>8, <1>16
<1> HIDE DEF w
<1>18. ASSUME NEW h, Far(h) PROVE Grown(g, h) /\ h.control = g.control /\ a + 2 <= h.labelCounter
  <2>1. h.labelCounter \in Nat
    BY <1>18, GeneratorFields DEF Far, Grown
  <2>2. k >= 2
    BY DEF k
  <2> QED BY <1>4, <1>18, <2>1, <2>2 DEF Far
<1>19. IfGrown(test, yes, other, no, w, g, s, place, inner)
  BY <1>7, <1>11, <1>13, <1>14, <1>16, <1>17, <1>18 DEF IfGrown, b2, b3, hasElse
<1> QED BY <1>1, <1>2, <1>19

-----------------------------------------------------------------------------
(* Lowering the other kinds of statements.                                  *)

(* A set of numbers up to m that is not empty has a greatest one.           *)
LEMMA GreatestNumber ==
  ASSUME NEW m \in Nat, NEW T \in SUBSET (1 .. m), T # {}
  PROVE  \E x \in T : \A y \in T : y <= x
<1> DEFINE R == {m - x : x \in T}
<1>1. R \in SUBSET Nat /\ R # {}
  <2>1. \A x \in T : m - x \in Nat
    OBVIOUS
  <2>2. PICK x \in T : TRUE
    OBVIOUS
  <2>3. m - x \in R
    OBVIOUS
  <2> QED BY <2>1, <2>3
<1>2. PICK r \in R : \A q \in R : r <= q
  <2> HIDE DEF R
  <2> QED BY <1>1, LeastNumber
<1>3. PICK x \in T : r = m - x
  OBVIOUS
<1>4. ASSUME NEW y \in T PROVE y <= x
  <2>1. m - x <= m - y
    BY <1>2, <1>3
  <2>2. x \in Int /\ y \in Int
    OBVIOUS
  <2> HIDE DEF R
  <2> QED BY <2>1, <2>2
<1> QED BY <1>4

(* The stack has a target of the kind.                                      *)
HasTarget(control, kind) == \E k \in 1 .. Len(control) : control[k][kind] # NoLabel

(* There is a current label of a kind when the stack has a target of the    *)
(* kind.                                                                    *)
LEMMA CurrentIs ==
  ASSUME NEW g \in Tidy, NEW kind \in {"break", "continue"}
  PROVE  /\ CurrentLabel(g, kind) \in Labels
         /\ ~ Merge(CurrentLabel(g, kind))
         /\ HasTarget(g.control, kind) => CurrentLabel(g, kind) # NoLabel
<1> DEFINE q == g.control
           with == {i \in DOMAIN q : q[i][kind] # NoLabel}
           Innermost(i) == i \in with /\ \A j \in with : j <= i
           innermost == CHOOSE i \in with : \A j \in with : j <= i
<1>1. q \in Seq(Targeted) /\ Len(q) \in Nat /\ DOMAIN q = 1 .. Len(q)
  <2>1. q \in Seq(Targeted)
    BY GeneratorFields
  <2> QED BY <2>1, LenProperties
<1>2. \A i \in 1 .. Len(q) : ~ Merge(q[i].break) /\ ~ Merge(q[i].continue)
  BY DEF Tidy
<1>3. CurrentLabel(g, kind) = IF with = {} THEN NoLabel ELSE q[innermost][kind]
  BY DEF CurrentLabel
<1> HIDE DEF q
<1>4. CASE with = {}
  <2>1. ~ HasTarget(q, kind)
    BY <1>1, <1>4 DEF HasTarget
  <2> QED BY <1>3, <1>4, <2>1, NamesAre DEF q
<1>5. CASE with # {}
  <2>1. \E i \in with : \A j \in with : j <= i
    <3>1. with \in SUBSET (1 .. Len(q))
      BY <1>1
    <3> HIDE DEF with
    <3> QED BY <1>1, <1>5, <3>1, GreatestNumber
  <2>2. innermost \in with
    <3> HIDE DEF with
    <3> QED BY <2>1
  <2> HIDE DEF innermost
  <2>3. innermost \in 1 .. Len(q) /\ q[innermost][kind] # NoLabel
    BY <1>1, <2>2
  <2>4. q[innermost] \in Targeted
    BY <1>1, <2>3, ElementOfSeq
  <2>5. q[innermost].break \in Labels /\ q[innermost].continue \in Labels
    BY <2>4 DEF Targeted
  <2>6. q[innermost][kind] \in Labels /\ ~ Merge(q[innermost][kind])
    <3>1. CASE kind = "break"
      BY <1>2, <2>3, <2>5, <3>1
    <3>2. CASE kind = "continue"
      BY <1>2, <2>3, <2>5, <3>2
    <3> QED BY <3>1, <3>2
  <2> QED BY <1>3, <1>5, <2>3, <2>6
<1> QED BY <1>4, <1>5

(* One more own instruction is to go on.                                    *)
LEMMA OneMore ==
  ASSUME NEW g \in Tidy, NEW i \in Own(g.labelCounter, g.labelCounter)
  PROVE  /\ Grown(g, Emit(g, <<i>>))
         /\ Emit(g, <<i>>).control = g.control
         /\ Emit(g, <<i>>).reported = g.reported
<1>1. <<i>> \in Seq(Own(g.labelCounter, g.labelCounter))
  BY FewInstructions
<1>2. Grown(g, g)
  BY GrownAtFirst
<1> QED BY <1>1, <1>2, Emitting

(* A break or a continue reports only when there is no target.              *)
LEMMA JumpOutLowered ==
  ASSUME NEW g \in Tidy, NEW kind \in {"break", "continue"}
  PROVE  /\ Grown(g, JumpOut(g, kind))
         /\ JumpOut(g, kind).control = g.control
         /\ HasTarget(g.control, kind) => JumpOut(g, kind).reported = g.reported
<1> DEFINE l == CurrentLabel(g, kind)
           a == g.labelCounter
<1>1. l \in Labels /\ ~ Merge(l) /\ (HasTarget(g.control, kind) => l # NoLabel)
  BY CurrentIs
<1>2. JumpOut(g, kind) = IF l = NoLabel THEN [g EXCEPT !.reported = TRUE] ELSE Emit(g, <<Jump(l)>>)
  BY DEF JumpOut
<1> HIDE DEF l
<1>3. CASE l = NoLabel
  BY <1>1, <1>2, <1>3, Reporting
<1>4. CASE l # NoLabel
  <2>1. l \in OwnLabels(a, a) /\ a \in Nat /\ <<>> \in Places /\ "" \in Args
    BY <1>1, GeneratorFields, PlacesAre DEF OwnLabels, Args
  <2>2. Jump(l) \in Own(a, a)
    <3> HIDE DEF a
    <3> QED BY <2>1, InstructionsAre
  <2>3. /\ Grown(g, Emit(g, <<Jump(l)>>)) /\ Emit(g, <<Jump(l)>>).control = g.control
        /\ Emit(g, <<Jump(l)>>).reported = g.reported
    BY <2>2, OneMore
  <2> QED BY <1>2, <1>4, <2>3
<1> QED BY <1>3, <1>4

LoweredThrough(w, s, place, g, inner) ==
  /\ w \in [0 .. Len(s.kids) -> Tidy]
  /\ w[0] = g
  /\ \A k \in 1 .. Len(s.kids) : w[k] = LowerChild(w[k - 1], s, place, k, inner)
  /\ \A k \in 0 .. Len(s.kids) : Grown(g, w[k]) /\ w[k].control = g.control
  /\ LowerCompound(g, s, place, inner) = w[Len(s.kids)]

(* To lower a compound statement is to go on, child by child.               *)
LEMMA CompoundLowered ==
  ASSUME NEW n \in 1 .. Height, NEW s \in Statement[n], s.kind = "compound",
         NEW inner, LowersInner(n, inner), NEW place \in Places, NEW g \in Tidy
  PROVE  \E w : LoweredThrough(w, s, place, g, inner)
<1> DEFINE m == Len(s.kids)
           walks == [i \in DOMAIN s.kids |-> inner[s.kids[i]][Child(place, i)]]
<1>1. m \in Nat /\ DOMAIN s.kids = 1 .. m
  BY Children
<1>2. \A i \in 1 .. m : s.kids[i] \in Inner(n) /\ i \in Nat
  BY <1>1, CompoundShape
<1>3. LowerCompound(g, s, place, inner) = Through(walks, g)
  BY DEF LowerCompound
<1> HIDE DEF m
<1>4. Len(walks) = m /\ \A i \in 1 .. m : walks[i] = inner[s.kids[i]][Child(place, i)]
  BY <1>1
<1> HIDE DEF walks
<1>5. ASSUME NEW i \in 1 .. m, NEW h \in Tidy
      PROVE  /\ walks[i][h] \in Tidy /\ Grown(h, walks[i][h])
             /\ walks[i][h].control = h.control
             /\ walks[i][h] = LowerChild(h, s, place, i, inner)
  <2> DEFINE c == LowerChild(h, s, place, i, inner)
  <2>1. c = walks[i][h]
    BY <1>4 DEF LowerChild
  <2>2. Grown(h, c) /\ c.control = h.control
    <3>1. Grown(h, h)
      BY GrownAtFirst
    <3> QED BY <1>2, <3>1, ChildLowered
  <2> HIDE DEF c
  <2>3. c \in Tidy
    BY <2>2 DEF Grown
  <2> QED BY <2>1, <2>2, <2>3 DEF c
<1>6. PICK w : Stages(w, Tidy, walks, g) /\ Through(walks, g) = w[Len(walks)]
  <2>1. Len(walks) \in Nat /\ \A k \in 1 .. Len(walks) : \A y \in Tidy : walks[k][y] \in Tidy
    BY <1>1, <1>4, <1>5
  <2> QED BY <2>1, ThroughIs
<1>7. /\ w \in [0 .. m -> Tidy] /\ w[0] = g
      /\ \A k \in 1 .. m : w[k] = walks[k][w[k - 1]]
  BY <1>4, <1>6 DEF Stages
<1>8. \A k \in 1 .. m : w[k - 1] \in Tidy
  <2>1. \A k \in 1 .. m : k - 1 \in 0 .. m
    BY <1>1
  <2> QED BY <1>7, <2>1
<1>9. \A k \in 1 .. m : /\ w[k] = LowerChild(w[k - 1], s, place, k, inner)
                        /\ Grown(w[k - 1], w[k]) /\ w[k].control = w[k - 1].control
  BY <1>5, <1>7, <1>8
<1> DEFINE T == {k \in 0 .. m : Grown(g, w[k]) /\ w[k].control = g.control}
<1>10. 0 \in T
  BY <1>1, <1>7, GrownAtFirst
<1>11. ASSUME NEW k \in 1 .. m, k - 1 \in T PROVE k \in T
  <2>1. k \in 0 .. m
    BY <1>1
  <2>2. Grown(g, w[k - 1]) /\ Grown(w[k - 1], w[k]) /\ w[k].control = g.control
    BY <1>9, <1>11
  <2> QED BY <2>1, <2>2, GrownTransitively
<1>12. \A k \in 0 .. m : k \in T
  <2> HIDE DEF T
  <2> QED BY <1>1, <1>10, <1>11, UpTo
<1>13. LoweredThrough(w, s, place, g, inner)
  BY <1>3, <1>4, <1>6, <1>7, <1>9, <1>12 DEF LoweredThrough, m
<1> QED BY <1>13

(* The label before a labelled statement.                                   *)
LabelOf(s, place) ==
  CASE s.kind = "case" -> CaseLabel(place)
    [] s.kind = "default" -> DefaultLabel(place)
    [] s.kind = "label" -> UserLabel(s.arg)

LabelledFrom(g, s, place) == Emit(g, <<Mark(LabelOf(s, place))>>)

(* A labelled statement is lowered behind its label.                        *)
LEMMA LabelledLowered ==
  ASSUME NEW n \in 1 .. Height, NEW s \in Statement[n], s.kind \in {"case", "default", "label"},
         NEW inner, LowersInner(n, inner), NEW place \in Places, NEW g \in Tidy
  PROVE  /\ LowerStatement(g, s, place, inner) =
              LowerChild(LabelledFrom(g, s, place), s, place, 1, inner)
         /\ Grown(g, LabelledFrom(g, s, place))
         /\ LabelledFrom(g, s, place).control = g.control
         /\ LabelledFrom(g, s, place).reported = g.reported
         /\ Grown(g, LowerStatement(g, s, place, inner))
         /\ LowerStatement(g, s, place, inner).control = g.control
<1> DEFINE a == g.labelCounter
           l == LabelOf(s, place)
           h == Emit(g, <<Mark(l)>>)
           i == 1
           w == LowerChild(h, s, place, i, inner)
<1>1. LowerStatement(g, s, place, inner) = w
  BY DEF LowerStatement, LabelOf
<1>2. s.arg \in Args /\ s.kids[i] \in Inner(n) /\ i \in Nat
  BY StatementShape, LabelledShape
<1>3. l \in OwnLabels(a, a)
  BY <1>2, NamesAreOwn DEF LabelOf
<1> HIDE DEF l
<1>4. Mark(l) \in Own(a, a)
  <2>1. a \in Nat /\ <<>> \in Places /\ "" \in Args
    BY GeneratorFields, PlacesAre DEF Args
  <2> HIDE DEF a
  <2> QED BY <1>3, <2>1, InstructionsAre
<1>5. Grown(g, h) /\ h.control = g.control /\ h.reported = g.reported
  BY <1>4, OneMore
<1> HIDE DEF h, i
<1>6. Grown(g, w) /\ w.control = h.control
  BY <1>2, <1>5, ChildLowered
<1> QED BY <1>1, <1>5, <1>6 DEF h, l, i, LabelledFrom

(* To lower a return is to go on.                                           *)
LEMMA ReturnLowered ==
  ASSUME NEW n \in 1 .. Height, NEW s \in Statement[n], NEW place \in Places, NEW g \in Tidy
  PROVE  LET e == [i \in DOMAIN s.kids |-> Eval(Child(place, i))] \o <<Ret>>
         IN  /\ Grown(g, Emit(g, e)) /\ Emit(g, e).control = g.control
             /\ Emit(g, e).reported = g.reported
<1> DEFINE a == g.labelCounter
           q == [i \in DOMAIN s.kids |-> Eval(Child(place, i))]
           e == q \o <<Ret>>
           m == Len(s.kids)
<1>1. m \in Nat /\ DOMAIN s.kids = 1 .. m
  BY Children
<1>9. a \in Nat /\ <<>> \in Places /\ "" \in Args
  BY GeneratorFields, PlacesAre DEF Args
<1>2. NoLabel \in OwnLabels(a, a)
  BY NamesAreOwn
<1> HIDE DEF m, a
<1>3. \A i \in 1 .. m : Eval(Child(place, i)) \in Own(a, a)
  <2>1. \A i \in 1 .. m : i \in Nat
    BY <1>1
  <2>2. \A i \in 1 .. m : Child(place, i) \in Places
    BY <2>1, PlacesAre
  <2> QED BY <1>2, <1>9, <2>2, InstructionsAre
<1>4. q \in Seq(Own(a, a))
  <2> DEFINE S == Own(a, a)
             evals(i) == Eval(Child(place, i))
  <2>1. \A i \in 1 .. m : evals(i) \in S
    BY <1>3
  <2> HIDE DEF S, evals
  <2>2. [i \in 1 .. m |-> evals(i)] \in Seq(S)
    BY <1>1, <2>1
  <2> QED BY <1>1, <2>2 DEF S, evals
<1>5. <<Ret>> \in Seq(Own(a, a))
  <2>1. Ret \in Own(a, a)
    BY <1>2, <1>9, InstructionsAre
  <2> QED BY <2>1, FewInstructions
<1> HIDE DEF q
<1>6. e \in Seq(Own(g.labelCounter, g.labelCounter))
  BY <1>4, <1>5, ConcatProperties DEF a
<1> HIDE DEF e
<1>7. Grown(g, g)
  BY GrownAtFirst
<1>8. Grown(g, Emit(g, e)) /\ Emit(g, e).control = g.control /\ Emit(g, e).reported = g.reported
  BY <1>6, <1>7, Emitting
<1> QED BY <1>8 DEF e, q

(* So is to lower a statement without statements in it.                     *)
LEMMA LeafLowered ==
  ASSUME NEW n \in 1 .. Height, NEW s \in Statement[n],
         s.kind \in {"goto", "return", "expression", "empty"},
         NEW inner, NEW place \in Places, NEW g \in Tidy
  PROVE  /\ Grown(g, LowerStatement(g, s, place, inner))
         /\ LowerStatement(g, s, place, inner).control = g.control
         /\ LowerStatement(g, s, place, inner).reported = g.reported
<1> DEFINE a == g.labelCounter
           w == LowerStatement(g, s, place, inner)
           Good == Grown(g, w) /\ w.control = g.control /\ w.reported = g.reported
<1> SUFFICES Good
  OBVIOUS
<1>1. a \in Nat /\ <<>> \in Places /\ "" \in Args /\ s.arg \in Args
  BY GeneratorFields, PlacesAre, StatementShape DEF Args
<1>2. CASE s.kind = "goto"
  <2>1. w = Emit(g, <<Jump(UserLabel(s.arg))>>)
    BY <1>2 DEF LowerStatement
  <2>2. UserLabel(s.arg) \in OwnLabels(a, a)
    BY <1>1, NamesAreOwn
  <2> HIDE DEF a
  <2>3. Jump(UserLabel(s.arg)) \in Own(a, a)
    BY <1>1, <2>2, InstructionsAre
  <2> QED BY <2>1, <2>3, OneMore DEF a
<1>3. CASE s.kind = "return"
  <2>1. w = Emit(g, [i \in DOMAIN s.kids |-> Eval(Child(place, i))] \o <<Ret>>)
    BY <1>3 DEF LowerStatement
  <2> QED BY <2>1, ReturnLowered
<1>4. CASE s.kind = "expression"
  <2>1. w = Emit(g, <<Eval(Child(place, 1))>>)
    BY <1>4 DEF LowerStatement
  <2>2. NoLabel \in OwnLabels(a, a) /\ Child(place, 1) \in Places
    BY NamesAreOwn, PlacesAre
  <2> HIDE DEF a
  <2>3. Eval(Child(place, 1)) \in Own(a, a)
    BY <1>1, <2>2, InstructionsAre
  <2> QED BY <2>1, <2>3, OneMore DEF a
<1>5. CASE s.kind = "empty"
  <2>1. w = g
    BY <1>5 DEF LowerStatement
  <2> QED BY <2>1, GrownAtFirst
<1> QED BY <1>2, <1>3, <1>4, <1>5

(* To lower any statement is to go on, with the same targets behind it.     *)
LEMMA StatementLowered ==
  ASSUME NEW n \in 1 .. Height, NEW s \in Statement[n],
         NEW inner, LowersInner(n, inner), NEW place \in Places, NEW g \in Tidy
  PROVE  /\ Grown(g, LowerStatement(g, s, place, inner))
         /\ LowerStatement(g, s, place, inner).control = g.control
<1> DEFINE w == LowerStatement(g, s, place, inner)
           Good == Grown(g, w) /\ w.control = g.control
<1> SUFFICES Good
  OBVIOUS
<1>1. CASE s.kind = "compound"
  <2>1. w = LowerCompound(g, s, place, inner)
    BY <1>1 DEF LowerStatement
  <2>2. PICK v : LoweredThrough(v, s, place, g, inner)
    BY <1>1, CompoundLowered
  <2>3. Len(s.kids) \in 0 .. Len(s.kids)
    BY Children
  <2> QED BY <2>1, <2>2, <2>3 DEF LoweredThrough
<1>2. CASE s.kind = "if"
  <2>1. w = LowerIf(g, s, place, inner)
    BY <1>2 DEF LowerStatement
  <2> QED BY <1>2, <2>1, IfLowered DEF IfGrown
<1>3. CASE s.kind = "while"
  <2>1. w = LowerWhile(g, s, place, inner)
    BY <1>3 DEF LowerStatement
  <2> QED BY <1>3, <2>1, WhileLowered DEF BodyLowered
<1>4. CASE s.kind = "do"
  <2>1. w = LowerDoWhile(g, s, place, inner)
    BY <1>4 DEF LowerStatement
  <2> QED BY <1>4, <2>1, DoLowered DEF BodyLowered
<1>5. CASE s.kind = "switch"
  <2>1. w = LowerSwitch(g, s, place, inner)
    BY <1>5 DEF LowerStatement
  <2> QED BY <1>5, <2>1, SwitchLowered
<1>6. CASE s.kind = "for"
  <2>1. w = LowerFor(g, s, place, inner)
    BY <1>6 DEF LowerStatement
  <2> DEFINE init == LowerChild(g, s, place, 1, inner)
  <2>2. Grown(g, init) /\ init.control = g.control /\ Grown(init, w) /\ w.control = init.control
    BY <1>6, <2>1, ForLowered DEF BodyLowered
  <2> HIDE DEF init, w
  <2> QED BY <2>2, GrownTransitively
<1>7. CASE s.kind \in {"case", "default", "label"}
  BY <1>7, LabelledLowered
<1>8. CASE s.kind \in {"goto", "return", "expression", "empty"}
  BY <1>8, LeafLowered
<1>9. CASE s.kind \in {"break", "continue"}
  <2>1. w = JumpOut(g, s.kind)
    BY <1>9 DEF LowerStatement
  <2> QED BY <1>9, <2>1, JumpOutLowered
<1>10. \/ s.kind = "compound" \/ s.kind = "if" \/ s.kind = "while" \/ s.kind = "do"
       \/ s.kind = "switch" \/ s.kind = "for" \/ s.kind \in {"case", "default", "label"}
       \/ s.kind \in {"goto", "return", "expression", "empty"}
       \/ s.kind \in {"break", "continue"}
  BY StatementShape DEF Kinds
<1> HIDE DEF Good
<1> QED BY <1>1, <1>2, <1>3, <1>4, <1>5, <1>6, <1>7, <1>8, <1>9, <1>10, Zenon

(* A lowering of height n is one step of cc_codegen_statement over those    *)
(* below.                                                                   *)
LEMMA LoweringStep ==
  ASSUME NEW n \in 0 .. Height, NEW s \in Statement[n], NEW place \in Places, NEW g \in Generators
  PROVE  Lowering[n][s][place][g] = LowerStatement(g, s, place, Lowering[n - 1])
<1> DEFINE below == Lowering[n - 1]
           f == Lowering[n]
<1>1. f = LowersOver(Statement[n], below)
  BY LoweringIs
<1> HIDE DEF f, below
<1>2. f[s] = [p \in Places |-> [h \in Generators |-> LowerStatement(h, s, p, below)]]
  BY <1>1 DEF LowersOver
<1>3. f[s][place][g] = LowerStatement(g, s, place, below)
  BY <1>2
<1> QED BY <1>3 DEF f, below

(* Every lowering goes on, by the height of the statement.                  *)
LEMMA LoweringGrows ==
  \A n \in 0 .. Height : \A s \in Statement[n] : \A p \in Places : \A g \in Tidy :
     Grown(g, Lowering[n][s][p][g]) /\ Lowering[n][s][p][g].control = g.control
<1> DEFINE Grows(n) ==
             \A s \in Statement[n] : \A p \in Places : \A g \in Tidy :
                Grown(g, Lowering[n][s][p][g]) /\ Lowering[n][s][p][g].control = g.control
           T == {n \in 0 .. Height : Grows(n)}
<1>1. 0 \in T
  BY NoStatementOfHeightZero, HeightAssumption
<1>2. ASSUME NEW n \in 1 .. Height, n - 1 \in T PROVE n \in T
  <2>1. n \in 0 .. Height
    BY HeightAssumption
  <2>2. LowersInner(n, Lowering[n - 1])
    BY <1>2 DEF LowersInner, Inner
  <2>3. ASSUME NEW s \in Statement[n], NEW p \in Places, NEW g \in Tidy
        PROVE  Grown(g, Lowering[n][s][p][g]) /\ Lowering[n][s][p][g].control = g.control
    <3>1. g \in Generators
      BY GeneratorFields
    <3>2. Lowering[n][s][p][g] = LowerStatement(g, s, p, Lowering[n - 1])
      BY <2>1, <3>1, LoweringStep
    <3> QED BY <2>2, <3>2, StatementLowered
  <2>4. Grows(n)
    BY <2>3
  <2> QED BY <2>1, <2>4
<1>3. \A n \in 0 .. Height : n \in T
  <2> HIDE DEF T
  <2> QED BY <1>1, <1>2, UpTo, HeightAssumption
<1> QED BY <1>3

-----------------------------------------------------------------------------
(* The labels of the cases in a body semantic analysis has nothing to       *)
(* report about are constants, so the generator's walk over it finds no     *)
(* other.                                                                   *)

(* Nothing was reported.                                                    *)
Silent(c) == c.reported = {}

(* What was silent at the end was silent before.                            *)
LEMMA SilentBefore ==
  ASSUME NEW c, NEW d, Kept(c, d), Silent(d)
  PROVE  Silent(c)
BY DEF Kept, Silent

Folded == {l \in Layouts : ~ l.unfolded}

(* What is known of two walks over the statements less high than n.         *)
Folding(n, visits, collects) ==
  \A t \in Inner(n) : \A c \in Contexts : Silent(visits[t][c]) =>
     \A p \in Places : \A l \in Folded : collects[t][p][l] \in Folded

FoldedInner(n, visits) ==
  \A t \in Inner(n) : \A c \in Contexts : Silent(visits[t][c]) =>
     \A p \in Places : ~ Collected(t, p).unfolded

(* The statements in a statement that is visited without a report are       *)
(* visited without one, from some context.                                  *)
LEMMA ChildrenSilent ==
  ASSUME NEW n \in 1 .. Height, NEW s \in Statement[n],
         NEW visits, VisitsInner(n, visits), visits = Visiting[n - 1],
         NEW c \in Contexts, Silent(VisitStatement(c, s, visits)),
         NEW i \in 1 .. Len(s.kids), ~ IsExpression(s.kids[i])
  PROVE  \E d \in Contexts : Silent(visits[s.kids[i]][d])
<1> DEFINE v == VisitStatement(c, s, visits)
           Good == \E d \in Contexts : Silent(visits[s.kids[i]][d])
<1> SUFFICES Good
  OBVIOUS
<1>0. s.kids[i] \in Inner(n) /\ Len(s.kids) \in Nat /\ Shaped(s)
  BY Children, StatementShape
<1>a. ASSUME NEW d \in Contexts, Silent(VisitChild(d, s, i, visits)) PROVE Good
  BY <1>a DEF VisitChild
<1>1. CASE s.kind = "compound"
  <2>1. PICK w : VisitedThrough(w, s, c, visits)
    BY <1>1, CompoundVisited
  <2> DEFINE m == Len(s.kids)
             Silents == {k \in 0 .. m : Silent(w[m - k])}
  <2>2. m \in Nat /\ 0 \in Silents
    BY <1>0, <2>1 DEF VisitedThrough
  <2>3. ASSUME NEW k \in 1 .. m, k - 1 \in Silents PROVE k \in Silents
    <3>1. k \in 0 .. m /\ m - (k - 1) \in 1 .. m /\ m - (k - 1) - 1 = m - k
      BY <2>2
    <3>2. Kept(w[m - (k - 1) - 1], w[m - (k - 1)])
      BY <2>1, <3>1 DEF VisitedThrough
    <3>3. Silent(w[m - k])
      BY <2>3, <3>1, <3>2, SilentBefore
    <3> QED BY <3>1, <3>3
  <2>4. \A k \in 0 .. m : k \in Silents
    <3> HIDE DEF Silents, m
    <3> QED BY <2>2, <2>3, UpTo
  <2>5. m - i \in 0 .. m /\ m - (m - i) = i /\ i - 1 \in 0 .. m
    BY <2>2
  <2>6. Silent(w[i])
    BY <2>4, <2>5
  <2>7. w[i] = VisitChild(w[i - 1], s, i, visits) /\ w[i - 1] \in Contexts
    BY <2>1, <2>5 DEF VisitedThrough
  <2> QED BY <1>a, <2>6, <2>7
<1>2. CASE s.kind = "if"
  <2> DEFINE hasElse == Len(s.kids) > 2
             then == VisitChild(c, s, 2, visits)
             else == IF hasElse THEN VisitChild(then, s, 3, visits) ELSE then
             b == BothReturn(hasElse, then.returns, else.returns)
  <2>1. then \in Contexts
    BY <1>2, IfShape, ChildVisited
  <2>2. hasElse => /\ VisitChild(then, s, 3, visits) \in Contexts
                   /\ Kept(then, VisitChild(then, s, 3, visits))
    <3> HIDE DEF then
    <3> QED BY <1>2, <2>1, IfShape, ChildVisited
  <2>3. v = Returning(else, b)
    BY <1>2 DEF VisitStatement, VisitIf
  <2>4. i \in {2, 3} /\ (i = 3 => hasElse)
    <3>1. Len(s.kids) \in {2, 3} /\ {k \in DOMAIN s.kids : IsExpression(s.kids[k])} = {1}
      BY <1>0, <1>2 DEF Shaped
    <3> QED BY <3>1, Children
  <2> HIDE DEF then
  <2>5. else \in Contexts /\ Kept(then, else)
    BY <2>1, <2>2 DEF Kept
  <2>6. Silent(else)
    BY <2>3 DEF Silent, Returning
  <2>7. Silent(then)
    BY <2>5, <2>6, SilentBefore
  <2>8. CASE i = 2
    BY <1>a, <2>7, <2>8 DEF then
  <2>9. CASE i = 3
    BY <1>a, <2>1, <2>4, <2>6, <2>9
  <2> QED BY <2>4, <2>8, <2>9
<1>3. ASSUME v = VisitBody(c, s, i, visits) PROVE Good
  <2>1. v.reported = VisitChild(Entered(c, s.kind), s, i, visits).reported
    <3>1. s.kids[i] \in Inner(n)
      BY <1>0
    <3>2. VisitBody(c, s, i, visits).reported = VisitChild(Entered(c, s.kind), s, i, visits).reported
      <4>1. VisitsInner(n, visits) /\ c \in Contexts
        OBVIOUS
      <4> QED BY ONLY <3>1, <4>1, BodyVisited
    <3> QED BY ONLY <1>3, <3>2
  <2>2. Entered(c, s.kind) \in Contexts
    BY EnteredIs
  <2> QED BY <1>a, <2>1, <2>2 DEF Silent
<1>4. CASE s.kind \in {"while", "switch", "do"}
  <2>1. i = (IF s.kind = "do" THEN 1 ELSE Len(s.kids))
    <3>1. Len(s.kids) = 2
          /\ {k \in DOMAIN s.kids : IsExpression(s.kids[k])} = {IF s.kind = "do" THEN 2 ELSE 1}
      BY <1>0, <1>4 DEF Shaped
    <3> QED BY <3>1, Children
  <2>2. v = VisitBody(c, s, i, visits)
    BY <1>4, <2>1 DEF VisitStatement
  <2> QED BY <1>3, <2>2
<1>5. CASE s.kind = "for"
  <2>1. i = 1 \/ i = Len(s.kids)
    <3>1. {k \in DOMAIN s.kids : IsExpression(s.kids[k])} = 2 .. Len(s.kids) - 1
      BY <1>0, <1>5 DEF Shaped
    <3> QED BY <1>0, <3>1, Children
  <2>2. CASE i = Len(s.kids)
    <3>1. v = VisitBody(c, s, i, visits)
      BY <1>5, <2>2 DEF VisitStatement
    <3> QED BY <1>3, <3>1
  <2>3. CASE i = 1
    <3> DEFINE t == s.kids[i]
    <3>1. t.kind \in {"expression", "empty"} /\ t \in Statement[n - 1] /\ n - 1 \in 0 .. Height
      BY <1>5, <2>3, ForShape, HeightAssumption DEF Inner
    <3> HIDE DEF t
    <3>2. EmptyContext \in Contexts /\ Silent(EmptyContext)
      BY EmptySeq DEF EmptyContext, Silent, Contexts
    <3>3. Visiting[n - 1][t][EmptyContext] = VisitStatement(EmptyContext, t, Visiting[n - 1 - 1])
      BY <3>1, <3>2, VisitingStep
    <3>4. VisitStatement(EmptyContext, t, Visiting[n - 1 - 1]) = Returning(EmptyContext, FALSE)
      BY <3>1 DEF VisitStatement
    <3>5. Silent(visits[t][EmptyContext])
      BY <3>2, <3>3, <3>4 DEF Silent, Returning
    <3> QED BY <3>2, <3>5 DEF t
  <2> QED BY <2>1, <2>2, <2>3
<1>6. CASE s.kind \in {"case", "default", "label"}
  <2> DEFINE d == CASE s.kind = "case" -> VisitCase(c, s.arg)
                    [] s.kind = "default" -> RecordDefault(c)
                    [] s.kind = "label" -> RecordLabel(c, s.arg)
  <2>1. i = 1
    BY <1>6, LabelledShape
  <2>2. v = VisitChild(d, s, i, visits)
    BY <1>6, <2>1 DEF VisitStatement
  <2>3. d \in Contexts
    BY <1>6, StatementShape, VisitCaseKeeps, RecordDefaultKeeps, RecordLabelKeeps
  <2> QED BY <1>a, <2>2, <2>3
<1>7. CASE s.kind \in {"goto", "return", "expression", "empty", "break", "continue"}
  <2>1. {k \in DOMAIN s.kids : IsExpression(s.kids[k])} = 1 .. Len(s.kids)
    <3>1. Len(s.kids) \in Nat /\ DOMAIN s.kids = 1 .. Len(s.kids)
      BY Children
    <3>2. CASE s.kind \in {"goto", "empty", "break", "continue"}
      <4>1. Len(s.kids) = 0
        BY <1>0, <3>2 DEF Shaped
      <4> QED BY <3>1, <4>1
    <3>3. CASE s.kind = "expression"
      BY <1>0, <3>3 DEF Shaped
    <3>4. CASE s.kind = "return"
      BY <1>0, <3>4 DEF Shaped
    <3> QED BY <1>7, <3>2, <3>3, <3>4
  <2> QED BY <2>1
<1>8. \/ s.kind = "compound" \/ s.kind = "if" \/ s.kind \in {"while", "switch", "do"}
      \/ s.kind = "for" \/ s.kind \in {"case", "default", "label"}
      \/ s.kind \in {"goto", "return", "expression", "empty", "break", "continue"}
  BY StatementShape DEF Kinds
<1> HIDE DEF Good
<1> QED BY <1>1, <1>2, <1>4, <1>5, <1>6, <1>7, <1>8, Zenon

(* A case that is visited without a report is noted as a constant.          *)
LEMMA NotedFolded ==
  ASSUME NEW n \in 1 .. Height, NEW s \in Statement[n],
         NEW visits, VisitsInner(n, visits),
         NEW c \in Contexts, Silent(VisitStatement(c, s, visits)),
         NEW l \in Folded, NEW place \in Places
  PROVE  Noted(l, s, place) \in Folded
<1>1. Noted(l, s, place) \in Layouts
  BY StatementShape, NotedIs DEF Folded
<1>2. CASE s.kind = "case" /\ s.arg = ""
  <2> DEFINE d == VisitCase(c, s.arg)
  <2>1. VisitStatement(c, s, visits) = VisitChild(d, s, 1, visits)
    BY <1>2 DEF VisitStatement
  <2>2. d \in Contexts /\ d.reported # {}
    BY <1>2, StatementShape, VisitCaseKeeps
  <2> HIDE DEF d
  <2>3. Kept(d, VisitChild(d, s, 1, visits))
    BY <1>2, <2>2, LabelledShape, ChildVisited
  <2>4. Silent(d)
    BY <2>1, <2>3, SilentBefore
  <2> QED BY <2>2, <2>4 DEF Silent
<1>3. CASE ~ (s.kind = "case" /\ s.arg = "")
  <2>1. Noted(l, s, place).unfolded = l.unfolded
    BY <1>3 DEF Noted, Folded, Layouts
  <2> QED BY <1>1, <2>1 DEF Folded
<1> QED BY <1>2, <1>3

(* So is what the walk over a statement collects, when it is for those      *)
(* below.                                                                   *)
LEMMA CollectFromFolded ==
  ASSUME NEW n \in 1 .. Height, NEW s \in Statement[n],
         NEW visits, VisitsInner(n, visits), visits = Visiting[n - 1],
         NEW inner, Folding(n, visits, inner),
         NEW c \in Contexts, Silent(VisitStatement(c, s, visits)),
         NEW place \in Places, NEW layout \in Folded
  PROVE  CollectFrom(layout, s, place, inner) \in Folded
<1> DEFINE m == Len(s.kids)
           walk(i) == IF IsExpression(s.kids[i]) THEN [l \in Layouts |-> l]
                      ELSE inner[s.kids[i]][Child(place, i)]
           walks == [i \in DOMAIN s.kids |-> walk(i)]
           start == Noted(layout, s, place)
<1>1. m \in Nat /\ DOMAIN s.kids = 1 .. m
  BY Children
<1>2. start \in Folded
  BY NotedFolded
<1>3. ASSUME NEW i \in 1 .. m, NEW l \in Folded PROVE walk(i)[l] \in Folded
  <2>1. CASE IsExpression(s.kids[i])
    BY <2>1 DEF Folded
  <2>2. CASE ~ IsExpression(s.kids[i])
    <3>1. s.kids[i] \in Inner(n)
      BY <2>2, Children
    <3>2. Child(place, i) \in Places
      BY <1>1, PlacesAre
    <3>3. PICK d \in Contexts : Silent(visits[s.kids[i]][d])
      BY <2>2, ChildrenSilent
    <3> QED BY <2>2, <3>1, <3>2, <3>3 DEF Folding
  <2> QED BY <2>1, <2>2
<1>4. CollectFrom(layout, s, place, inner) = IF s.kind = "switch" THEN layout
                                             ELSE Through(walks, start)
  BY DEF CollectFrom
<1> HIDE DEF walk, m, start
<1>5. Len(walks) = m /\ \A i \in 1 .. m : walks[i] = walk(i)
  BY <1>1
<1> HIDE DEF walks
<1>6. Through(walks, start) \in Folded
  <2>1. Len(walks) \in Nat /\ \A k \in 1 .. Len(walks) : \A y \in Folded : walks[k][y] \in Folded
    BY <1>1, <1>3, <1>5
  <2>2. PICK w : Stages(w, Folded, walks, start) /\ Through(walks, start) = w[Len(walks)]
    BY <1>2, <2>1, ThroughIs
  <2>3. w \in [0 .. Len(walks) -> Folded] /\ Len(walks) \in 0 .. Len(walks)
    BY <2>1, <2>2 DEF Stages
  <2> QED BY <2>2, <2>3
<1> QED BY <1>4, <1>6

(* A collection over statements of a height is one step of                  *)
(* cc_collect_switch_layout over those below.                               *)
LEMMA CollectingStep ==
  ASSUME NEW n \in 0 .. Height, NEW s \in Statement[n], NEW p \in Places, NEW l \in Layouts
  PROVE  Collecting[n][s][p][l] = CollectFrom(l, s, p, Collecting[n - 1])
<1> DEFINE below == Collecting[n - 1]
           f == Collecting[n]
<1>1. f = CollectsOver(Statement[n], below)
  BY CollectingIs
<1> HIDE DEF f, below
<1>2. f[s] = [q \in Places |-> [k \in Layouts |-> CollectFrom(k, s, q, below)]]
  BY <1>1 DEF CollectsOver
<1>3. f[s][p][l] = CollectFrom(l, s, p, below)
  BY <1>2
<1> QED BY <1>3 DEF f, below

(* So is what is collected from any statement, as high as the collection    *)
(* may think it is.                                                         *)
LEMMA CollectingFolds ==
  \A n \in 0 .. Height : \A m \in n .. Height :
  \A s \in Statement[n] : \A c \in Contexts : Silent(Visiting[n][s][c]) =>
     \A p \in Places : \A l \in Folded : Collecting[m][s][p][l] \in Folded
<1> DEFINE Folds(n, m) ==
             \A s \in Statement[n] : \A c \in Contexts : Silent(Visiting[n][s][c]) =>
                \A p \in Places : \A l \in Folded : Collecting[m][s][p][l] \in Folded
           T == {n \in 0 .. Height : \A m \in n .. Height : Folds(n, m)}
<1>1. 0 \in T
  BY NoStatementOfHeightZero, HeightAssumption
<1>2. ASSUME NEW n \in 1 .. Height, n - 1 \in T PROVE n \in T
  <2>1. n \in 0 .. Height /\ n - 1 \in 0 .. Height
    BY HeightAssumption
  <2>2. ASSUME NEW m \in n .. Height PROVE Folds(n, m)
    <3> DEFINE visits == Visiting[n - 1]
               inner == Collecting[m - 1]
    <3>1. m \in 0 .. Height /\ m - 1 \in n - 1 .. Height
      BY <2>1, HeightAssumption
    <3>2. VisitsInner(n, visits)
      BY <2>1, VisitsKeep DEF VisitsInner, Inner
    <3>3. Folding(n, visits, inner)
      BY <1>2, <3>1 DEF Folding, Inner
    <3>4. ASSUME NEW s \in Statement[n], NEW c \in Contexts, Silent(Visiting[n][s][c]),
                 NEW p \in Places, NEW l \in Folded
          PROVE  Collecting[m][s][p][l] \in Folded
      <4>1. Visiting[n][s][c] = VisitStatement(c, s, visits)
        BY <2>1, VisitingStep
      <4>2. s \in Statement[m] /\ l \in Layouts
        BY <2>1, StatementsAreHigher DEF Folded
      <4>3. Collecting[m][s][p][l] = CollectFrom(l, s, p, inner)
        BY <3>1, <4>2, CollectingStep
      <4>4. visits = Visiting[n - 1]
        OBVIOUS
      <4> HIDE DEF visits, inner
      <4>5. Silent(VisitStatement(c, s, visits))
        BY <3>4, <4>1
      <4>6. CollectFrom(l, s, p, inner) \in Folded
        BY <3>2, <3>3, <4>4, <4>5, CollectFromFolded
      <4> QED BY <4>3, <4>6
    <3> QED BY <3>4
  <2> QED BY <2>1, <2>2
<1>3. \A n \in 0 .. Height : n \in T
  <2> HIDE DEF T
  <2> QED BY <1>1, <1>2, UpTo, HeightAssumption
<1> QED BY <1>3

(* What is collected from a body that is visited without a report has       *)
(* constants only.                                                          *)
LEMMA VisitedFolds ==
  ASSUME NEW n \in 0 .. Height, NEW t \in Statement[n], NEW c \in Contexts,
         Silent(Visiting[n][t][c]), NEW p \in Places
  PROVE  ~ Collected(t, p).unfolded
<1>1. Height \in n .. Height
  BY HeightAssumption
<1>2. EmptyLayout \in Folded
  BY EmptySeq DEF EmptyLayout, Layouts, Folded
<1>3. Collected(t, p) \in Folded
  BY <1>1, <1>2, CollectingFolds DEF Collected
<1> QED BY <1>3 DEF Folded

(* So has that of a loop or a switch.                                       *)
LEMMA BodyFolded ==
  ASSUME NEW n, NEW visits, VisitsInner(n, visits), FoldedInner(n, visits),
         NEW s, NEW i, s.kids[i] \in Inner(n), NEW p \in Places,
         NEW c \in Contexts, Silent(VisitBody(c, s, i, visits))
  PROVE  ~ Collected(s.kids[i], p).unfolded
<1> DEFINE e == Entered(c, s.kind)
<1>1. e \in Contexts
  BY EnteredIs
<1>2. VisitBody(c, s, i, visits).reported = VisitChild(e, s, i, visits).reported
  BY BodyVisited
<1> HIDE DEF e
<1>3. Silent(visits[s.kids[i]][e])
  BY <1>2 DEF Silent, VisitChild
<1> QED BY <1>1, <1>3 DEF FoldedInner

-----------------------------------------------------------------------------
(* What semantic analysis has nothing to report about, the generator lowers *)
(* without a report: as deep as the one is in loops and switches, the other *)
(* has targets.                                                             *)

Matching(c, control) ==
  /\ c.breakDepth > 0 => HasTarget(control, "break")
  /\ c.loopDepth > 0 => HasTarget(control, "continue")

(* What is known of the walks over the children.                            *)
JointInner(n, visits, lowers) ==
  \A t \in Inner(n) : \A p \in Places : \A g \in Tidy : \A c \in Contexts :
     Matching(c, g.control) /\ Silent(visits[t][c]) /\ ~ g.reported => ~ lowers[t][p][g].reported

(* Targets that match the depths still do when more is kept.                *)
LEMMA MatchingKept ==
  ASSUME NEW c, NEW d, Kept(c, d), NEW control, Matching(c, control)
  PROVE  Matching(d, control)
BY DEF Kept, Matching

(* A child accepted by the visitor is lowered without a report.             *)
LEMMA ChildJoint ==
  ASSUME NEW n, NEW visits, NEW lowers, JointInner(n, visits, lowers),
         NEW s, NEW i \in Nat, s.kids[i] \in Inner(n), NEW place \in Places,
         NEW g \in Tidy, NEW c \in Contexts, Matching(c, g.control),
         Silent(VisitChild(c, s, i, visits)), ~ g.reported
  PROVE  ~ LowerChild(g, s, place, i, lowers).reported
<1>1. Child(place, i) \in Places
  BY PlacesAre
<1>2. Silent(visits[s.kids[i]][c])
  BY DEF VisitChild
<1>3. ~ lowers[s.kids[i]][Child(place, i)][g].reported
  BY <1>1, <1>2 DEF JointInner
<1> QED BY <1>3 DEF LowerChild

(* Inside a loop or a switch, both are one deeper.                          *)
LEMMA EnteredMatches ==
  ASSUME NEW g \in Tidy, NEW head, NEW kind, Surrounds(head, g, kind),
         NEW c \in Contexts, Matching(c, g.control)
  PROVE  Matching(Entered(c, kind), head.control)
<1>1. PICK entry \in Targeted : /\ head.control = Append(g.control, entry)
                                /\ entry.break # NoLabel
                                /\ kind # "switch" => entry.continue # NoLabel
  BY DEF Surrounds
<1> DEFINE q == g.control
           r == Append(q, entry)
           m == Len(q)
<1>2. q \in Seq(Targeted) /\ m \in Nat
  BY GeneratorFields
<1> HIDE DEF q
<1>3. Len(r) = m + 1 /\ r[m + 1] = entry /\ \A k \in 1 .. m : r[k] = q[k]
  BY <1>2, AppendProperties
<1> HIDE DEF m, r
<1>4. m + 1 \in 1 .. Len(r) /\ \A k \in 1 .. m : k \in 1 .. Len(r)
  BY <1>2, <1>3
<1>5. HasTarget(r, "break")
  <2>1. r[m + 1]["break"] # NoLabel
    BY <1>1, <1>3
  <2> QED BY <1>4, <2>1 DEF HasTarget
<1>6. kind # "switch" => HasTarget(r, "continue")
  <2>1. kind # "switch" => r[m + 1]["continue"] # NoLabel
    BY <1>1, <1>3
  <2> QED BY <1>4, <2>1 DEF HasTarget
<1>7. HasTarget(q, "continue") => HasTarget(r, "continue")
  BY <1>3, <1>4 DEF HasTarget, m
<1>8. kind = "switch" => Entered(c, kind).loopDepth = c.loopDepth
  BY EnteredIs
<1> DEFINE e == Entered(c, kind)
<1> HIDE DEF e
<1>9. kind = "switch" => (e.loopDepth > 0 => HasTarget(q, "continue"))
  BY <1>8 DEF Matching, q, e
<1>10. Matching(e, r)
  BY <1>5, <1>6, <1>7, <1>9 DEF Matching
<1> QED BY <1>1, <1>10 DEF e, r, q

(* So is the body of a loop or a switch.                                    *)
LEMMA BodyJoint ==
  ASSUME NEW n, NEW visits, VisitsInner(n, visits), NEW lowers, JointInner(n, visits, lowers),
         NEW s, NEW i \in Nat, s.kids[i] \in Inner(n), NEW place \in Places,
         NEW g \in Tidy, NEW w, BodyLowered(g, w, s, place, i, lowers),
         NEW c \in Contexts, Matching(c, g.control),
         Silent(VisitBody(c, s, i, visits)), ~ g.reported
  PROVE  ~ w.reported
<1>1. PICK head : /\ Surrounds(head, g, s.kind)
                  /\ w.reported = LowerChild(head, s, place, i, lowers).reported
  BY DEF BodyLowered
<1> DEFINE e == Entered(c, s.kind)
<1>2. e \in Contexts
  BY EnteredIs
<1>3. Matching(e, head.control)
  BY <1>1, EnteredMatches
<1>4. Silent(VisitChild(e, s, i, visits))
  <2>1. VisitBody(c, s, i, visits).reported = VisitChild(e, s, i, visits).reported
    BY BodyVisited
  <2> QED BY <2>1 DEF Silent
<1>5. head \in Tidy /\ ~ head.reported
  BY <1>1 DEF Surrounds, Grown
<1> HIDE DEF e
<1>6. ~ LowerChild(head, s, place, i, lowers).reported
  BY <1>2, <1>3, <1>4, <1>5, ChildJoint
<1> QED BY <1>1, <1>6

(* So is a compound statement, when its children are.                       *)
LEMMA CompoundJoint ==
  ASSUME NEW n \in 1 .. Height, NEW s \in Statement[n], s.kind = "compound",
         NEW visits, VisitsInner(n, visits), NEW lowers, LowersInner(n, lowers),
         JointInner(n, visits, lowers),
         NEW place \in Places, NEW g \in Tidy, NEW c \in Contexts, Matching(c, g.control),
         Silent(VisitStatement(c, s, visits)), ~ g.reported
  PROVE  ~ LowerCompound(g, s, place, lowers).reported
<1> DEFINE m == Len(s.kids)
<1>1. m \in Nat /\ m \in 0 .. m
  BY Children
<1>2. PICK v : VisitedThrough(v, s, c, visits)
  BY CompoundVisited
<1>3. PICK w : LoweredThrough(w, s, place, g, lowers)
  BY CompoundLowered
<1> HIDE DEF m
<1>4. /\ v \in [0 .. m -> Contexts] /\ VisitStatement(c, s, visits) = v[m]
      /\ \A k \in 1 .. m : v[k] = VisitChild(v[k - 1], s, k, visits)
      /\ \A k \in 1 .. m : Kept(v[k - 1], v[k])
      /\ \A k \in 0 .. m : Kept(c, v[k])
  BY <1>2 DEF VisitedThrough, m
<1>5. /\ w \in [0 .. m -> Tidy] /\ w[0] = g /\ LowerCompound(g, s, place, lowers) = w[m]
      /\ \A k \in 1 .. m : w[k] = LowerChild(w[k - 1], s, place, k, lowers)
      /\ \A k \in 0 .. m : w[k].control = g.control
  BY <1>3 DEF LoweredThrough, m
<1>6. \A k \in 0 .. m : Silent(v[k])
  <2> DEFINE T == {j \in 0 .. m : Silent(v[m - j])}
  <2>1. 0 \in T
    BY <1>1, <1>4
  <2>2. ASSUME NEW j \in 1 .. m, j - 1 \in T PROVE j \in T
    <3>1. m - (j - 1) \in 1 .. m /\ m - (j - 1) - 1 = m - j /\ j \in 0 .. m
      BY <1>1
    <3>2. Silent(v[m - (j - 1)]) /\ Kept(v[m - j], v[m - (j - 1)])
      BY <1>4, <2>2, <3>1
    <3> QED BY <3>1, <3>2, SilentBefore
  <2>3. \A j \in 0 .. m : j \in T
    <3> HIDE DEF T
    <3> QED BY <1>1, <2>1, <2>2, UpTo
  <2>4. ASSUME NEW k \in 0 .. m PROVE Silent(v[k])
    <3>1. m - k \in 0 .. m /\ m - (m - k) = k
      BY <1>1
    <3>2. m - k \in T
      BY <2>3, <3>1
    <3> QED BY <3>1, <3>2
  <2> QED BY <2>4
<1> DEFINE T == {k \in 0 .. m : ~ w[k].reported}
<1>7. 0 \in T
  BY <1>1, <1>5
<1>8. ASSUME NEW k \in 1 .. m, k - 1 \in T PROVE k \in T
  <2> DEFINE x == v[k - 1]
             y == w[k - 1]
  <2>1. k \in 0 .. m /\ k - 1 \in 0 .. m /\ k \in Nat
    BY <1>1
  <2>2. x \in Contexts /\ y \in Tidy /\ y.control = g.control /\ ~ y.reported /\ Kept(c, x)
    BY <1>4, <1>5, <1>8, <2>1
  <2>3. s.kids[k] \in Inner(n)
    BY CompoundShape DEF m
  <2>4. Silent(VisitChild(x, s, k, visits))
    BY <1>4, <1>6, <2>1
  <2>5. w[k] = LowerChild(y, s, place, k, lowers)
    BY <1>5
  <2> HIDE DEF x, y
  <2>6. Matching(x, y.control)
    BY <2>2, MatchingKept
  <2>7. ~ LowerChild(y, s, place, k, lowers).reported
    BY <2>1, <2>2, <2>3, <2>4, <2>6, ChildJoint
  <2> QED BY <2>1, <2>5, <2>7
<1>9. \A k \in 0 .. m : k \in T
  <2> HIDE DEF T
  <2> QED BY <1>1, <1>7, <1>8, UpTo
<1> QED BY <1>1, <1>5, <1>9

(* So is an if statement, when its branches are.                            *)
LEMMA IfJoint ==
  ASSUME NEW n \in 1 .. Height, NEW s \in Statement[n], s.kind = "if",
         NEW visits, VisitsInner(n, visits), NEW lowers, LowersInner(n, lowers),
         JointInner(n, visits, lowers),
         NEW place \in Places, NEW g \in Tidy, NEW c \in Contexts, Matching(c, g.control),
         Silent(VisitIf(c, s, visits)), ~ g.reported
  PROVE  ~ LowerIf(g, s, place, lowers).reported
<1> DEFINE hasElse == Len(s.kids) > 2
           i == 2
           j == 3
           then == VisitChild(c, s, i, visits)
           else == VisitChild(then, s, j, visits)
           last == IF hasElse THEN else ELSE then
           w == LowerIf(g, s, place, lowers)
<1>1. s.kids[i] \in Inner(n) /\ (hasElse => s.kids[j] \in Inner(n)) /\ i \in Nat /\ j \in Nat
  BY IfShape
<1>2. VisitIf(c, s, visits) = Returning(last, BothReturn(hasElse, then.returns, last.returns))
  BY DEF VisitIf
<1>3. PICK test, yes, other, no : IfGrown(test, yes, other, no, w, g, s, place, lowers)
  BY IfLowered
<1>4. /\ test \in Tidy /\ test.control = g.control /\ test.reported = g.reported
      /\ yes.reported = LowerChild(test, s, place, i, lowers).reported
      /\ other \in Tidy /\ other.control = g.control /\ other.reported = yes.reported
      /\ hasElse => no.reported = LowerChild(other, s, place, j, lowers).reported
      /\ ~ hasElse => no.reported = yes.reported
      /\ w.reported = no.reported
  BY <1>3 DEF IfGrown, Grown
<1> HIDE DEF w, hasElse, i, j
<1>5. then \in Contexts /\ Kept(c, then)
  BY <1>1, ChildVisited
<1>6. hasElse => else \in Contexts /\ Kept(then, else)
  <2> HIDE DEF then
  <2> QED BY <1>1, <1>5, ChildVisited
<1> HIDE DEF then, else
<1>7. Silent(last)
  <2> DEFINE b == BothReturn(hasElse, then.returns, last.returns)
  <2>1. last \in Contexts
    BY <1>5, <1>6
  <2>2. b \in BOOLEAN
    BY <1>5, <2>1, ContextFields DEF BothReturn
  <2> HIDE DEF b, last
  <2>3. Returning(last, b).reported = last.reported
    BY <2>1, <2>2, ReturningKeeps
  <2> QED BY <1>2, <2>3 DEF Silent, b, last
<1>8. Silent(then)
  BY <1>6, <1>7, SilentBefore
<1>9. ~ yes.reported
  <2>1. Matching(c, test.control) /\ ~ test.reported
    BY <1>4
  <2> QED BY <1>1, <1>4, <1>8, <2>1, ChildJoint DEF then
<1>10. hasElse => ~ no.reported
  <2>1. ASSUME hasElse PROVE ~ no.reported
    <3>1. Matching(then, other.control) /\ ~ other.reported /\ Silent(else)
      BY <1>4, <1>5, <1>7, <1>9, <2>1, MatchingKept
    <3>2. ~ LowerChild(other, s, place, j, lowers).reported
      BY <1>1, <1>4, <1>5, <2>1, <3>1, ChildJoint DEF else
    <3> QED BY <1>4, <2>1, <3>2
  <2> QED BY <2>1
<1> QED BY <1>4, <1>9, <1>10 DEF w

(* The initial statement of a for statement, which is not visited, is an    *)
(* expression or empty: its lowering reports nothing.                       *)
QuietInner(n, lowers) ==
  \A t \in Inner(n) : \A p \in Places : \A g \in Tidy :
     t.kind \in {"expression", "empty"} => lowers[t][p][g].reported = g.reported

(* To lower an expression statement or an empty one reports nothing.        *)
LEMMA QuietLowering ==
  \A n \in 1 .. Height : QuietInner(n, Lowering[n - 1])
<1>1. ASSUME NEW n \in 1 .. Height, NEW t \in Inner(n), NEW p \in Places, NEW g \in Tidy,
             t.kind \in {"expression", "empty"}
      PROVE  Lowering[n - 1][t][p][g].reported = g.reported
  <2> DEFINE m == n - 1
  <2>1. m \in 0 .. Height /\ t \in Statement[m]
    BY HeightAssumption DEF Inner
  <2> HIDE DEF m
  <2>2. m \in 1 .. Height
    BY <2>1, NoStatementOfHeightZero
  <2>3. Lowering[m][t][p][g] = LowerStatement(g, t, p, Lowering[m - 1])
    BY <2>1, GeneratorFields, LoweringStep
  <2>4. LowerStatement(g, t, p, Lowering[m - 1]).reported = g.reported
    BY <1>1, <2>1, <2>2, LeafLowered
  <2> QED BY <2>3, <2>4 DEF m
<1> QED BY <1>1 DEF QuietInner

(* A statement of any kind the visitor accepts is lowered without a report. *)
LEMMA StatementJoint ==
  ASSUME NEW n \in 1 .. Height, NEW s \in Statement[n],
         NEW visits, VisitsInner(n, visits), NEW lowers, LowersInner(n, lowers),
         QuietInner(n, lowers), JointInner(n, visits, lowers), FoldedInner(n, visits),
         NEW place \in Places, NEW g \in Tidy, NEW c \in Contexts, Matching(c, g.control),
         Silent(VisitStatement(c, s, visits)), ~ g.reported
  PROVE  ~ LowerStatement(g, s, place, lowers).reported
<1> DEFINE w == LowerStatement(g, s, place, lowers)
           v == VisitStatement(c, s, visits)
           Good == ~ w.reported
<1> SUFFICES Good
  OBVIOUS
<1>1. CASE s.kind = "compound"
  <2>1. w = LowerCompound(g, s, place, lowers)
    BY <1>1 DEF LowerStatement
  <2> QED BY <1>1, <2>1, CompoundJoint
<1>2. CASE s.kind = "if"
  <2>1. w = LowerIf(g, s, place, lowers) /\ v = VisitIf(c, s, visits)
    BY <1>2 DEF LowerStatement, VisitStatement
  <2> QED BY <1>2, <2>1, IfJoint
<1>3. CASE s.kind \in {"while", "switch"}
  <2> DEFINE i == 2
  <2>1. i \in Nat /\ s.kids[i] \in Inner(n) /\ Len(s.kids) = i
    BY <1>3, LoopShape
  <2>2. BodyLowered(g, w, s, place, i, lowers)
    <3>1. CASE s.kind = "while"
      <4>1. w = LowerWhile(g, s, place, lowers)
        BY <3>1 DEF LowerStatement
      <4> QED BY <3>1, <4>1, WhileLowered
    <3>2. CASE s.kind = "switch"
      <4>1. w = LowerSwitch(g, s, place, lowers)
        BY <3>2 DEF LowerStatement
      <4>2. ~ Collected(s.kids[2], Child(place, 2)).unfolded
        <5>1. s.kids[Len(s.kids)] = s.kids[2] /\ s.kids[2] \in Inner(n)
          BY <3>2, LoopShape
        <5>2. Silent(VisitBody(c, s, 2, visits))
          BY <3>2, LoopShape DEF VisitStatement
        <5>3. Child(place, 2) \in Places
          BY PlacesAre
        <5> QED BY <5>1, <5>2, <5>3, BodyFolded
      <4> QED BY <3>2, <4>1, <4>2, SwitchLowered
    <3> QED BY <1>3, <3>1, <3>2
  <2>3. v = VisitBody(c, s, i, visits)
    BY <1>3, <2>1 DEF VisitStatement
  <2> HIDE DEF i, w
  <2> QED BY <2>1, <2>2, <2>3, BodyJoint
<1>4. CASE s.kind = "do"
  <2> DEFINE i == 1
  <2>1. i \in Nat /\ s.kids[i] \in Inner(n)
    BY <1>4, DoShape
  <2>2. BodyLowered(g, w, s, place, i, lowers)
    <3>1. w = LowerDoWhile(g, s, place, lowers)
      BY <1>4 DEF LowerStatement
    <3> QED BY <1>4, <3>1, DoLowered
  <2>3. v = VisitBody(c, s, i, visits)
    BY <1>4 DEF VisitStatement
  <2> HIDE DEF i, w
  <2> QED BY <2>1, <2>2, <2>3, BodyJoint
<1>5. CASE s.kind = "for"
  <2> DEFINE i == Len(s.kids)
             init == LowerChild(g, s, place, 1, lowers)
  <2>1. i \in Nat /\ s.kids[i] \in Inner(n) /\ s.kids[1] \in Inner(n)
        /\ s.kids[1].kind \in {"expression", "empty"}
    BY <1>5, ForShape
  <2>2. Grown(g, init) /\ init.control = g.control /\ BodyLowered(init, w, s, place, i, lowers)
    <3>1. w = LowerFor(g, s, place, lowers)
      BY <1>5 DEF LowerStatement
    <3> QED BY <1>5, <3>1, ForLowered
  <2>3. init.reported = g.reported
    <3>1. Child(place, 1) \in Places
      BY PlacesAre
    <3> QED BY <2>1, <3>1 DEF LowerChild, QuietInner
  <2>4. v = VisitBody(c, s, i, visits)
    BY <1>5 DEF VisitStatement
  <2> HIDE DEF i, w, init
  <2>5. init \in Tidy /\ ~ init.reported /\ Matching(c, init.control)
    BY <2>2, <2>3 DEF Grown
  <2> QED BY <2>1, <2>2, <2>4, <2>5, BodyJoint
<1>6. CASE s.kind \in {"case", "default", "label"}
  <2> DEFINE d == CASE s.kind = "case" -> VisitCase(c, s.arg)
                    [] s.kind = "default" -> RecordDefault(c)
                    [] s.kind = "label" -> RecordLabel(c, s.arg)
             h == LabelledFrom(g, s, place)
             i == 1
  <2>1. v = VisitChild(d, s, i, visits)
    BY <1>6 DEF VisitStatement
  <2>2. d \in Contexts /\ Kept(c, d)
    BY <1>6, StatementShape, VisitCaseKeeps, RecordDefaultKeeps, RecordLabelKeeps
  <2>3. w = LowerChild(h, s, place, i, lowers) /\ Grown(g, h) /\ h.control = g.control
        /\ h.reported = g.reported
    BY <1>6, LabelledLowered
  <2>4. i \in Nat /\ s.kids[i] \in Inner(n)
    BY <1>6, LabelledShape
  <2> HIDE DEF d, h, i, w
  <2>5. h \in Tidy /\ ~ h.reported /\ Matching(d, h.control)
    BY <2>2, <2>3, MatchingKept DEF Grown
  <2> QED BY <2>1, <2>2, <2>3, <2>4, <2>5, ChildJoint
<1>7. CASE s.kind \in {"goto", "return", "expression", "empty"}
  BY <1>7, LeafLowered
<1>8. CASE s.kind \in {"break", "continue"}
  <2> DEFINE deep == IF s.kind = "break" THEN c.breakDepth ELSE c.loopDepth
             problem == IF s.kind = "break" THEN "break outside" ELSE "continue outside"
             d == ReportedIf(c, deep = 0, problem)
  <2>1. w = JumpOut(g, s.kind)
    BY <1>8 DEF LowerStatement
  <2>2. v = Returning(d, FALSE)
    BY <1>8 DEF VisitStatement
  <2>3. d \in Contexts /\ (deep = 0 => problem \in d.reported)
    BY ReportingKeeps, ProblemsAre
  <2>4. deep \in Nat
    BY ContextFields
  <2> HIDE DEF d
  <2>5. Silent(d)
    BY <2>2, <2>3, ReturningKeeps DEF Silent
  <2>6. deep > 0
    BY <2>3, <2>4, <2>5 DEF Silent
  <2>7. HasTarget(g.control, s.kind)
    BY <1>8, <2>6 DEF Matching
  <2>8. JumpOut(g, s.kind).reported = g.reported
    BY <1>8, <2>7, JumpOutLowered
  <2> QED BY <2>1, <2>8
<1>9. \/ s.kind = "compound" \/ s.kind = "if" \/ s.kind \in {"while", "switch"} \/ s.kind = "do"
      \/ s.kind = "for" \/ s.kind \in {"case", "default", "label"}
      \/ s.kind \in {"goto", "return", "expression", "empty"}
      \/ s.kind \in {"break", "continue"}
  BY StatementShape DEF Kinds
<1> HIDE DEF Good
<1> QED BY <1>1, <1>2, <1>3, <1>4, <1>5, <1>6, <1>7, <1>8, <1>9, Zenon

(* So is every statement, by its height.                                    *)
LEMMA Joint ==
  \A n \in 0 .. Height : \A s \in Statement[n] : \A p \in Places :
  \A g \in Tidy : \A c \in Contexts :
     Matching(c, g.control) /\ Silent(Visiting[n][s][c]) /\ ~ g.reported
       => ~ Lowering[n][s][p][g].reported
<1> DEFINE Agree(n) ==
             \A s \in Statement[n] : \A p \in Places : \A g \in Tidy : \A c \in Contexts :
                Matching(c, g.control) /\ Silent(Visiting[n][s][c]) /\ ~ g.reported
                  => ~ Lowering[n][s][p][g].reported
           T == {n \in 0 .. Height : Agree(n)}
<1>1. 0 \in T
  BY NoStatementOfHeightZero, HeightAssumption
<1>2. ASSUME NEW n \in 1 .. Height, n - 1 \in T PROVE n \in T
  <2> DEFINE visits == Visiting[n - 1]
             lowers == Lowering[n - 1]
  <2>1. n \in 0 .. Height /\ n - 1 \in 0 .. Height
    BY HeightAssumption
  <2>2. VisitsInner(n, visits)
    BY <2>1, VisitsKeep DEF VisitsInner, Inner
  <2>3. LowersInner(n, lowers)
    BY <2>1, LoweringGrows DEF LowersInner, Inner
  <2>4. QuietInner(n, lowers)
    BY QuietLowering
  <2>5. JointInner(n, visits, lowers) /\ FoldedInner(n, visits)
    <3>1. FoldedInner(n, visits)
      BY <2>1, VisitedFolds DEF FoldedInner, Inner
    <3> QED BY <1>2, <3>1 DEF JointInner, Inner
  <2>6. ASSUME NEW s \in Statement[n], NEW p \in Places, NEW g \in Tidy, NEW c \in Contexts,
               Matching(c, g.control), Silent(Visiting[n][s][c]), ~ g.reported
        PROVE  ~ Lowering[n][s][p][g].reported
    <3>1. Visiting[n][s][c] = VisitStatement(c, s, visits)
      BY <2>1, VisitingStep
    <3>2. Lowering[n][s][p][g] = LowerStatement(g, s, p, lowers)
      BY <2>1, GeneratorFields, LoweringStep
    <3> HIDE DEF visits, lowers
    <3>3. Silent(VisitStatement(c, s, visits))
      BY <2>6, <3>1
    <3>4. ~ LowerStatement(g, s, p, lowers).reported
      BY <2>2, <2>3, <2>4, <2>5, <2>6, <3>3, StatementJoint
    <3> QED BY <3>2, <3>4
  <2>7. Agree(n)
    BY <2>6
  <2> QED BY <2>1, <2>7
<1>3. \A n \in 0 .. Height : n \in T
  <2> HIDE DEF T
  <2> QED BY <1>1, <1>2, UpTo, HeightAssumption
<1> QED BY <1>3

-----------------------------------------------------------------------------
(* The function.                                                            *)

(* The contexts a function starts with.                                     *)
LEMMA FirstContexts ==
  /\ EmptyCodegen \in Tidy
  /\ EmptyContext \in Contexts
  /\ Matching(EmptyContext, EmptyCodegen.control)
<1>1. EmptyCodegen \in Generators
  BY EmptySeq DEF EmptyCodegen, Generators
<1>2. EmptyCodegen \in Tidy
  BY <1>1 DEF Tidy, EmptyCodegen
<1>3. EmptyContext \in Contexts
  BY EmptySeq DEF EmptyContext, Contexts
<1> QED BY <1>2, <1>3 DEF Matching, EmptyContext

(* The generator behind the body, before the function's end is emitted.     *)
Generated(body) == Lowering[Height][body][<<>>][EmptyCodegen]

(* What is generated for a body: no targets are left, and nothing is        *)
(* reported if accepted.                                                    *)
LEMMA GeneratedIs ==
  ASSUME NEW body \in Statement[Height]
  PROVE  /\ Grown(EmptyCodegen, Generated(body))
         /\ Generated(body).control = <<>>
         /\ Accepted(body) => ~ Generated(body).reported
<1> DEFINE w == Generated(body)
           c == EmptyContext
           v == Visiting[Height][body][c]
<1>1. Height \in 0 .. Height /\ <<>> \in Places
  BY HeightAssumption, PlacesAre
<1>2. Grown(EmptyCodegen, w) /\ w.control = EmptyCodegen.control
  BY <1>1, FirstContexts, LoweringGrows DEF Generated
<1>3. ASSUME Accepted(body) PROVE ~ w.reported
  <2>1. v \in Contexts
    BY <1>1, FirstContexts, VisitsKeep DEF Visits
  <2>2. FunctionContext(body) = ReportedIf(v, ~ v.gotos \subseteq v.labels, "undefined label")
    BY DEF FunctionContext, Visit
  <2> HIDE DEF v
  <2>3. Silent(v)
    <3> DEFINE d == ReportedIf(v, ~ v.gotos \subseteq v.labels, "undefined label")
    <3>1. Kept(v, d)
      BY <2>1, ReportingKeeps, ProblemsAre
    <3>2. Silent(d)
      BY <1>3, <2>2 DEF Accepted, Silent
    <3> HIDE DEF d
    <3> QED BY <3>1, <3>2, SilentBefore
  <2>4. ~ EmptyCodegen.reported
    BY DEF EmptyCodegen
  <2> QED BY <1>1, <2>3, <2>4, FirstContexts, Joint DEF v, Generated
<1>4. EmptyCodegen.control = <<>>
  BY DEF EmptyCodegen
<1> HIDE DEF w
<1>5. w.control = <<>>
  BY <1>2, <1>4
<1> QED BY <1>2, <1>3, <1>5 DEF w

(* The end of the function adds one instruction.                            *)
LEMMA LoweredIs ==
  ASSUME NEW body \in Statement[Height]
  PROVE  /\ Lowered(body) \in Generators
         /\ Lowered(body).code = Generated(body).code \o <<EndFunc>>
         /\ Lowered(body).control = Generated(body).control
         /\ Lowered(body).reported = Generated(body).reported
<1> DEFINE g == Generated(body)
           q == g.code \o <<EndFunc>>
<1>1. g \in Generators /\ g.code \in Seq(Instructions)
  <2>1. g \in Tidy
    BY GeneratedIs DEF Grown
  <2> HIDE DEF g
  <2> QED BY <2>1, GeneratorFields
<1>2. EndFunc \in Instructions
  BY PlacesAre, NamesAre DEF EndFunc, Instruction, Instructions, Args
<1>3. q \in Seq(Instructions)
  BY <1>1, <1>2, FewInstructions, ConcatProperties
<1>4. Lowered(body) = [g EXCEPT !.code = q]
  BY DEF Lowered, Emit, Generated
<1> HIDE DEF g, q
<1>5. /\ [g EXCEPT !.code = q] \in Generators
      /\ [g EXCEPT !.code = q].code = q
      /\ [g EXCEPT !.code = q].control = g.control
      /\ [g EXCEPT !.code = q].reported = g.reported
  BY <1>1, <1>3 DEF Generators
<1> QED BY <1>4, <1>5 DEF g, q

(* Whatever function body semantic analysis accepts, the code generator     *)
(* lowers without a report, and its stack of break and continue targets is  *)
(* empty again behind it: JumpOut, PushControl and PopControl of codegen.c. *)
THEOREM AcceptedBodiesAreLowered == Spec => []AcceptedIsLowered
<1>1. Init => AcceptedIsLowered
  <2> SUFFICES ASSUME Init PROVE AcceptedIsLowered
    OBVIOUS
  <2>1. program \in Statement[Height] /\ Accepted(program) /\ generator = Lowered(program)
    BY ProgramsAssumption DEF Init
  <2>2. ~ Generated(program).reported /\ Generated(program).control = <<>>
    BY <2>1, GeneratedIs
  <2> QED BY <2>1, <2>2, LoweredIs DEF AcceptedIsLowered
<1>2. AcceptedIsLowered /\ [Next]_vars => AcceptedIsLowered'
  BY DEF AcceptedIsLowered, Next, Evaluate, vars
<1> QED BY <1>1, <1>2, PTL DEF Spec

-----------------------------------------------------------------------------
(* What is emitted for a statement that always returns, no way leads to the *)
(* end of: a set D of instructions is sealed when execution comes to none   *)
(* of them from outside, neither from the instruction before nor by a jump. *)

Leaving == {"jump", "ret", "cjump", "cmp"}

Mentions(instruction, label) ==
  /\ instruction.op # "label"
  /\ instruction.to = label \/ instruction.else = label

(* Sealed in code, of the instructions behind the m-th and the next; the    *)
(* labels in D are merge labels numbered from lo up to hi.                  *)
Sealed(m, code_, lo, hi, D) ==
  /\ D \subseteq m + 2 .. Len(code_)
  /\ \A i \in D : i - 1 \in D \/ code_[i - 1].op \in Leaving
  /\ \A i \in D : code_[i].op = "label" =>
        /\ Merge(code_[i].to) /\ lo <= code_[i].to.number /\ code_[i].to.number < hi
        /\ \A k \in 1 .. Len(code_) : Mentions(code_[k], code_[i].to) => k \in D

(* The end of the code is not reached either.                               *)
Ends(m, code_, D) ==
  /\ m < Len(code_)
  /\ Len(code_) \in D \/ code_[Len(code_)].op \in Leaving

(* No instruction of q mentions a merge label numbered from lo up to hi.    *)
Avoids(q, lo, hi) ==
  \A k \in 1 .. Len(q) : \A l \in Labels :
     Merge(l) /\ lo <= l.number /\ l.number < hi => ~ Mentions(q[k], l)

(* The instructions of two pieces of code, one behind the other.            *)
LEMMA CodeExtended ==
  ASSUME NEW p \in Seq(Instructions), NEW q \in Seq(Instructions)
  PROVE  /\ p \o q \in Seq(Instructions)
         /\ Len(p \o q) = Len(p) + Len(q)
         /\ Len(p) \in Nat /\ Len(q) \in Nat
         /\ \A k \in 1 .. Len(p) : (p \o q)[k] = p[k] /\ k \in 1 .. Len(p \o q)
         /\ \A k \in 1 .. Len(p \o q) : k \in 1 .. Len(p) \/
               (k - Len(p) \in 1 .. Len(q) /\ (p \o q)[k] = q[k - Len(p)])
<1> DEFINE r == p \o q
           m == Len(p)
           n == Len(q)
<1>1. m \in Nat /\ n \in Nat
  BY LenProperties
<1>2. r \in Seq(Instructions) /\ Len(r) = m + n
      /\ \A i \in 1 .. m + n : r[i] = IF i <= m THEN p[i] ELSE q[i - m]
  BY ConcatProperties
<1> HIDE DEF r, m, n
<1>3. \A k \in 1 .. m : r[k] = p[k] /\ k \in 1 .. Len(r)
  BY <1>1, <1>2
<1>4. \A k \in 1 .. Len(r) : k \in 1 .. m \/ (k - m \in 1 .. n /\ r[k] = q[k - m])
  BY <1>1, <1>2
<1> QED BY <1>1, <1>2, <1>3, <1>4 DEF r, m, n

(* The fields of an instruction of the code.                                *)
LEMMA InstructionFields ==
  ASSUME NEW p \in Seq(Instructions), NEW i \in 1 .. Len(p)
  PROVE  p[i].to \in Labels /\ p[i].else \in Labels
         /\ p[i].to.number \in Nat /\ p[i].else.number \in Nat
         /\ p[i].op \in {"label", "jump", "eval", "cjump", "cmp", "ret", "endfunc"}
<1>1. p[i] \in Instructions
  BY ElementOfSeq
<1>2. p[i].to \in Labels /\ p[i].else \in Labels
      /\ p[i].op \in {"label", "jump", "eval", "cjump", "cmp", "ret", "endfunc"}
  BY <1>1 DEF Instructions
<1>3. \A l \in Labels : l.number \in Nat
  BY DEF Labels
<1> QED BY <1>2, <1>3

(* More code behind it that does not jump back into it.                     *)
LEMMA SealedFurther ==
  ASSUME NEW m \in Nat, NEW p \in Seq(Instructions), NEW q \in Seq(Instructions),
         NEW lo, NEW hi, NEW D, Sealed(m, p, lo, hi, D), Avoids(q, lo, hi)
  PROVE  Sealed(m, p \o q, lo, hi, D)
<1> DEFINE r == p \o q
<1>1. /\ Len(p) \in Nat /\ Len(r) \in Nat /\ Len(p) <= Len(r)
      /\ \A k \in 1 .. Len(p) : r[k] = p[k] /\ k \in 1 .. Len(r)
      /\ \A k \in 1 .. Len(r) : k \in 1 .. Len(p) \/
            (k - Len(p) \in 1 .. Len(q) /\ r[k] = q[k - Len(p)])
  BY CodeExtended
<1> HIDE DEF r
<1>2. D \subseteq m + 2 .. Len(p)
  BY DEF Sealed
<1>3. D \subseteq m + 2 .. Len(r)
  BY <1>1, <1>2
<1>4. \A i \in D : i \in 1 .. Len(p) /\ i - 1 \in 1 .. Len(p)
  BY <1>1, <1>2
<1>5. \A i \in D : r[i] = p[i] /\ r[i - 1] = p[i - 1]
  BY <1>1, <1>4
<1>6. \A i \in D : i - 1 \in D \/ r[i - 1].op \in Leaving
  BY <1>5 DEF Sealed
<1>7. ASSUME NEW i \in D, r[i].op = "label"
      PROVE  /\ Merge(r[i].to) /\ lo <= r[i].to.number /\ r[i].to.number < hi
             /\ \A k \in 1 .. Len(r) : Mentions(r[k], r[i].to) => k \in D
  <2>1. p[i].op = "label" /\ r[i] = p[i]
    BY <1>5, <1>7
  <2>2. /\ Merge(p[i].to) /\ lo <= p[i].to.number /\ p[i].to.number < hi
        /\ \A k \in 1 .. Len(p) : Mentions(p[k], p[i].to) => k \in D
    BY <2>1 DEF Sealed
  <2>3. p[i].to \in Labels
    BY <1>4, InstructionFields
  <2>4. ASSUME NEW k \in 1 .. Len(r), Mentions(r[k], p[i].to) PROVE k \in D
    <3>1. CASE k \in 1 .. Len(p)
      BY <1>1, <2>2, <2>4, <3>1
    <3>2. CASE k - Len(p) \in 1 .. Len(q) /\ r[k] = q[k - Len(p)]
      <4>1. ~ Mentions(q[k - Len(p)], p[i].to)
        BY <2>2, <2>3, <3>2 DEF Avoids
      <4> QED BY <2>4, <3>2, <4>1
    <3> QED BY <1>1, <3>1, <3>2
  <2> QED BY <2>1, <2>2, <2>4
<1> QED BY <1>3, <1>6, <1>7 DEF Sealed, r

(* What is sealed behind m is sealed behind less, for more numbers.         *)
LEMMA SealedWider ==
  ASSUME NEW m \in Nat, NEW n \in Nat, n <= m, NEW p \in Seq(Instructions),
         NEW lo \in Nat, NEW hi \in Nat, NEW l \in Nat, NEW h \in Nat, l <= lo, hi <= h,
         NEW D, Sealed(m, p, lo, hi, D)
  PROVE  Sealed(n, p, l, h, D)
<1>1. D \subseteq m + 2 .. Len(p) /\ Len(p) \in Nat
  BY LenProperties DEF Sealed
<1>2. D \subseteq n + 2 .. Len(p) /\ \A i \in D : i \in 1 .. Len(p)
  BY <1>1
<1>3. ASSUME NEW i \in D, p[i].op = "label"
      PROVE  l <= p[i].to.number /\ p[i].to.number < h
  <2> DEFINE x == p[i].to.number
  <2>1. lo <= x /\ x < hi
    BY <1>3 DEF Sealed
  <2>2. x \in Nat
    BY <1>2, InstructionFields
  <2> HIDE DEF x
  <2>3. l <= x /\ x < h
    BY <2>1, <2>2
  <2> QED BY <2>3 DEF x
<1> QED BY <1>2, <1>3 DEF Sealed

(* Two sealed sets are sealed together.                                     *)
LEMMA SealedTogether ==
  ASSUME NEW m, NEW p, NEW lo, NEW hi, NEW D, NEW E,
         Sealed(m, p, lo, hi, D), Sealed(m, p, lo, hi, E)
  PROVE  Sealed(m, p, lo, hi, D \union E)
BY DEF Sealed

(* One more instruction, that only sealed ones lead to.                     *)
LEMMA SealedOneMore ==
  ASSUME NEW m, NEW p, NEW lo, NEW hi, NEW D, Sealed(m, p, lo, hi, D),
         NEW i \in m + 2 .. Len(p), i - 1 \in D \/ p[i - 1].op \in Leaving,
         p[i].op = "label" =>
           /\ Merge(p[i].to) /\ lo <= p[i].to.number /\ p[i].to.number < hi
           /\ \A k \in 1 .. Len(p) : Mentions(p[k], p[i].to) => k \in D
  PROVE  Sealed(m, p, lo, hi, D \union {i})
BY DEF Sealed

(* Only the instructions of D mention the label.                            *)
OnlyIn(p, label, D) == \A k \in 1 .. Len(p) : Mentions(p[k], label) => k \in D

(* More code that does not mention the label.                               *)
LEMMA OnlyInFurther ==
  ASSUME NEW p \in Seq(Instructions), NEW q \in Seq(Instructions), NEW label, NEW D,
         OnlyIn(p, label, D), OnlyIn(q, label, {})
  PROVE  OnlyIn(p \o q, label, D)
<1> DEFINE r == p \o q
<1>1. /\ \A k \in 1 .. Len(p) : r[k] = p[k] /\ k \in 1 .. Len(r)
      /\ \A k \in 1 .. Len(r) : k \in 1 .. Len(p) \/
            (k - Len(p) \in 1 .. Len(q) /\ r[k] = q[k - Len(p)])
  BY CodeExtended
<1> HIDE DEF r
<1>2. OnlyIn(r, label, D)
  BY <1>1 DEF OnlyIn
<1> QED BY <1>2 DEF r

(* A statement's code mentions no merge label of another statement's        *)
(* numbers.                                                                 *)
LEMMA OwnAvoids ==
  ASSUME NEW lo \in Nat, NEW hi \in Nat, NEW l \in Nat, NEW h \in Nat, h <= lo \/ hi <= l,
         NEW q \in Seq(Own(l, h))
  PROVE  Avoids(q, lo, hi)
<1>1. ASSUME NEW k \in 1 .. Len(q), NEW label \in Labels,
             Merge(label), lo <= label.number, label.number < hi, Mentions(q[k], label)
      PROVE  FALSE
  <2> DEFINE x == label.number
  <2>1. q[k] \in Own(l, h)
    BY ElementOfSeq
  <2>2. x \in Nat /\ lo <= x /\ x < hi
    BY <1>1 DEF Labels
  <2>3. (Merge(q[k].to) => l <= q[k].to.number /\ q[k].to.number < h)
        /\ (Merge(q[k].else) => l <= q[k].else.number /\ q[k].else.number < h)
    BY <2>1 DEF Own
  <2>4. l <= x /\ x < h
    BY <1>1, <2>3 DEF Mentions
  <2> HIDE DEF x
  <2> QED BY <2>2, <2>4
<1> QED BY <1>1 DEF Avoids

(* One instruction that mentions none of the merge labels.                  *)
LEMMA AvoidsOne ==
  ASSUME NEW i, NEW lo, NEW hi,
         \A l \in Labels : Merge(l) /\ lo <= l.number /\ l.number < hi => ~ Mentions(i, l)
  PROVE  Avoids(<<i>>, lo, hi)
BY DEF Avoids

(* Code that avoids a label's number mentions the label nowhere.            *)
LEMMA AvoidsOnly ==
  ASSUME NEW q, NEW lo, NEW hi, Avoids(q, lo, hi), NEW l \in Labels, Merge(l),
         lo <= l.number, l.number < hi
  PROVE  OnlyIn(q, l, {})
BY DEF Avoids, OnlyIn

(* One more instruction may mention the label.                              *)
LEMMA OnlyInOneMore ==
  ASSUME NEW p \in Seq(Instructions), NEW i \in Instructions, NEW label, NEW D,
         OnlyIn(p, label, D)
  PROVE  OnlyIn(p \o <<i>>, label, D \union {Len(p) + 1})
<1> DEFINE q == <<i>>
           r == p \o q
<1>1. q \in Seq(Instructions) /\ Len(q) = 1
  OBVIOUS
<1> HIDE DEF q
<1>2. /\ Len(p) \in Nat /\ Len(q) \in Nat
      /\ \A k \in 1 .. Len(p) : r[k] = p[k] /\ k \in 1 .. Len(r)
      /\ \A k \in 1 .. Len(r) : k \in 1 .. Len(p) \/
            (k - Len(p) \in 1 .. Len(q) /\ r[k] = q[k - Len(p)])
  BY <1>1, CodeExtended
<1> HIDE DEF r
<1>3. \A k \in 1 .. Len(r) : k \in 1 .. Len(p) \/ k = Len(p) + 1
  BY <1>1, <1>2
<1>4. OnlyIn(r, label, D \union {Len(p) + 1})
  BY <1>2, <1>3 DEF OnlyIn
<1> QED BY <1>4 DEF r, q

(* One instruction more.                                                    *)
LEMMA OneAppended ==
  ASSUME NEW p \in Seq(Instructions), NEW i \in Instructions
  PROVE  /\ p \o <<i>> \in Seq(Instructions)
         /\ Len(p \o <<i>>) = Len(p) + 1 /\ Len(p) \in Nat
         /\ (p \o <<i>>)[Len(p) + 1] = i
         /\ \A k \in 1 .. Len(p) : (p \o <<i>>)[k] = p[k]
OBVIOUS

(* A jump behind code whose end is not reached is not reached.              *)
LEMMA JumpSealed ==
  ASSUME NEW m \in Nat, NEW p \in Seq(Instructions), NEW lo, NEW hi, NEW D,
         Sealed(m, p, lo, hi, D), Ends(m, p, D),
         NEW i \in Instructions, i.op # "label", Avoids(<<i>>, lo, hi)
  PROVE  Sealed(m, p \o <<i>>, lo, hi, D \union {Len(p) + 1})
<1> DEFINE r == p \o <<i>>
           n == Len(p)
<1>1. /\ r \in Seq(Instructions) /\ Len(r) = n + 1 /\ n \in Nat
      /\ r[n + 1] = i /\ \A k \in 1 .. n : r[k] = p[k]
  BY OneAppended
<1>2. <<i>> \in Seq(Instructions)
  OBVIOUS
<1>3. Sealed(m, r, lo, hi, D)
  BY <1>2, SealedFurther
<1>4. m < n /\ (n \in D \/ p[n].op \in Leaving)
  BY DEF Ends
<1> HIDE DEF r, n
<1>5. n + 1 \in m + 2 .. Len(r) /\ n + 1 - 1 = n /\ n \in 1 .. n
  BY <1>1, <1>4
<1>6. n + 1 - 1 \in D \/ r[n + 1 - 1].op \in Leaving
  BY <1>1, <1>4, <1>5
<1>7. r[n + 1].op # "label"
  BY <1>1
<1>8. Sealed(m, r, lo, hi, D \union {n + 1})
  <2> DEFINE j == n + 1
  <2>1. j \in m + 2 .. Len(r) /\ (j - 1 \in D \/ r[j - 1].op \in Leaving) /\ r[j].op # "label"
    BY <1>5, <1>6, <1>7
  <2> HIDE DEF j
  <2>2. Sealed(m, r, lo, hi, D \union {j})
    BY <1>3, <2>1, SealedOneMore
  <2> QED BY <2>2 DEF j
<1> QED BY <1>8 DEF r, n

(* Nor is a merge label behind it that only instructions not reached lead   *)
(* to.                                                                      *)
LEMMA MergeSealed ==
  ASSUME NEW m \in Nat, NEW p \in Seq(Instructions), NEW lo, NEW hi, NEW D,
         Sealed(m, p, lo, hi, D), Len(p) \in D, m < Len(p),
         NEW l \in Labels, Mark(l) \in Instructions, Merge(l), lo <= l.number, l.number < hi,
         OnlyIn(p, l, D)
  PROVE  /\ Sealed(m, p \o <<Mark(l)>>, lo, hi, D \union {Len(p) + 1})
         /\ Ends(m, p \o <<Mark(l)>>, D \union {Len(p) + 1})
<1> DEFINE i == Mark(l)
           r == p \o <<i>>
           n == Len(p)
<1>1. i.op = "label" /\ i.to = l /\ i \in Instructions
  BY DEF Mark, Instruction
<1> HIDE DEF i
<1>2. /\ r \in Seq(Instructions) /\ Len(r) = n + 1 /\ n \in Nat
      /\ r[n + 1] = i /\ \A k \in 1 .. n : r[k] = p[k]
  BY <1>1, OneAppended
<1>3. <<i>> \in Seq(Instructions)
  BY <1>1
<1>4. Avoids(<<i>>, lo, hi)
  <2>1. \A x : ~ Mentions(i, x)
    BY <1>1 DEF Mentions
  <2> QED BY <2>1, AvoidsOne
<1>5. Sealed(m, r, lo, hi, D)
  BY <1>3, <1>4, SealedFurther
<1> HIDE DEF r, n
<1>6. n + 1 \in m + 2 .. Len(r) /\ n + 1 - 1 = n /\ n \in D
  BY <1>2 DEF n
<1>7. ASSUME NEW k \in 1 .. Len(r), Mentions(r[k], l) PROVE k \in D
  <2>1. k \in 1 .. n \/ k = n + 1
    BY <1>2
  <2>2. CASE k \in 1 .. n
    BY <1>2, <1>7, <2>2 DEF OnlyIn, n
  <2>3. CASE k = n + 1
    BY <1>1, <1>2, <1>7, <2>3 DEF Mentions
  <2> QED BY <2>1, <2>2, <2>3
<1>8. Sealed(m, r, lo, hi, D \union {n + 1})
  <2> DEFINE j == n + 1
  <2>1. j \in m + 2 .. Len(r) /\ j - 1 \in D /\ r[j] = i
    BY <1>2, <1>6
  <2> HIDE DEF j
  <2>2. Sealed(m, r, lo, hi, D \union {j})
    BY <1>1, <1>5, <1>7, <2>1, SealedOneMore
  <2> QED BY <2>2 DEF j
<1>9. Ends(m, r, D \union {n + 1})
  BY <1>2, <1>6 DEF Ends
<1> QED BY <1>8, <1>9 DEF r, n, i

-----------------------------------------------------------------------------
(* Sealing, by the kind of the statement.                                   *)

(* A generator whose merge labels are all numbered.                         *)
Sound(g) == g \in Tidy /\ g.code \in Seq(Own(0, g.labelCounter))

ReturnSealed(g, w) ==
  \E D : /\ Sealed(Len(g.code), w.code, g.labelCounter, w.labelCounter, D)
         /\ Ends(Len(g.code), w.code, D)

SealedInner(n, visits, lowers) ==
  \A t \in Inner(n) : \A p \in Places : \A g \in Tidy : \A c \in Contexts :
     Sound(g) /\ visits[t][c].returns => ReturnSealed(g, lowers[t][p][g])

(* The code and the counter of a generator that went on.                    *)
LEMMA GrownCode ==
  ASSUME NEW g \in Tidy, NEW w, Grown(g, w)
  PROVE  /\ w \in Tidy /\ w.code \in Seq(Instructions)
         /\ g.labelCounter \in Nat /\ w.labelCounter \in Nat
         /\ g.labelCounter <= w.labelCounter
         /\ Len(g.code) \in Nat /\ Len(w.code) \in Nat /\ Len(g.code) <= Len(w.code)
         /\ \E r \in Seq(Own(g.labelCounter, w.labelCounter)) :
               r \in Seq(Instructions) /\ w.code = g.code \o r
<1> DEFINE a == g.labelCounter
           b == w.labelCounter
           p == g.code
           q == w.code
<1>1. w \in Tidy /\ a <= b
  BY DEF Grown
<1>2. a \in Nat /\ b \in Nat /\ p \in Seq(Instructions) /\ q \in Seq(Instructions)
  BY <1>1, GeneratorFields
<1>3. PICK r \in Seq(Own(a, b)) : q = p \o r
  BY DEF Grown
<1>4. r \in Seq(Instructions)
  BY OwnAreInstructions
<1> HIDE DEF a, b, p, q
<1>5. Len(p) \in Nat /\ Len(q) \in Nat /\ Len(p) <= Len(q)
  BY <1>2, <1>3, <1>4, CodeExtended
<1> QED BY <1>1, <1>2, <1>3, <1>4, <1>5 DEF a, b, p, q

(* A generator that goes on from a sound one is sound.                      *)
LEMMA SoundFurther ==
  ASSUME NEW g, Sound(g), NEW w, Grown(g, w)
  PROVE  Sound(w)
<1> DEFINE a == g.labelCounter
           b == w.labelCounter
<1>1. g \in Tidy /\ g.code \in Seq(Own(0, a))
  BY DEF Sound
<1>2. w \in Tidy /\ a \in Nat /\ b \in Nat /\ a <= b
  BY <1>1, GrownCode
<1>3. PICK r \in Seq(Own(a, b)) : w.code = g.code \o r
  BY DEF Grown
<1> HIDE DEF a, b
<1>4. g.code \in Seq(Own(0, b)) /\ r \in Seq(Own(0, b))
  <2>1. 0 \in Nat /\ 0 <= 0 /\ b <= b /\ 0 <= a
    BY <1>2
  <2> QED BY <1>1, <1>2, <2>1, WiderOwn
<1>5. w.code \in Seq(Own(0, b))
  BY <1>3, <1>4, ConcatProperties
<1> QED BY <1>2, <1>5 DEF Sound, b

(* What is sealed from somewhere on is sealed from before.                  *)
LEMMA SealedFromBefore ==
  ASSUME NEW g \in Tidy, NEW h, Grown(g, h), NEW w, Grown(h, w), ReturnSealed(h, w)
  PROVE  ReturnSealed(g, w)
<1> DEFINE m == Len(h.code)
           n == Len(g.code)
           a == g.labelCounter
           b == h.labelCounter
           c == w.labelCounter
<1>1. h \in Tidy /\ n \in Nat /\ m \in Nat /\ n <= m /\ a \in Nat /\ b \in Nat /\ a <= b
  BY GrownCode
<1>2. w.code \in Seq(Instructions) /\ c \in Nat /\ Len(w.code) \in Nat
  BY <1>1, GrownCode
<1>3. PICK D : Sealed(m, w.code, b, c, D) /\ Ends(m, w.code, D)
  BY DEF ReturnSealed
<1> HIDE DEF m, n, a, b, c
<1>4. Sealed(n, w.code, a, c, D)
  <2>1. c <= c
    BY <1>2
  <2> QED BY <1>1, <1>2, <1>3, <2>1, SealedWider
<1>5. Ends(n, w.code, D)
  BY <1>1, <1>2, <1>3 DEF Ends
<1> QED BY <1>4, <1>5 DEF ReturnSealed, n, a, c

(* A child that returns is sealed.                                          *)
LEMMA ChildSealed ==
  ASSUME NEW n, NEW visits, NEW lowers, LowersInner(n, lowers), SealedInner(n, visits, lowers),
         NEW s, NEW i \in Nat, s.kids[i] \in Inner(n), NEW place \in Places,
         NEW g, Sound(g), NEW c \in Contexts, VisitChild(c, s, i, visits).returns
  PROVE  ReturnSealed(g, LowerChild(g, s, place, i, lowers))
<1>1. Child(place, i) \in Places
  BY PlacesAre
<1>2. g \in Tidy
  BY DEF Sound
<1>3. visits[s.kids[i]][c].returns
  BY DEF VisitChild
<1>4. ReturnSealed(g, lowers[s.kids[i]][Child(place, i)][g])
  BY <1>1, <1>2, <1>3 DEF SealedInner
<1> QED BY <1>4 DEF LowerChild

(* A return ends in an instruction that execution does not pass.            *)
LEMMA ReturnIsSealed ==
  ASSUME NEW n \in 1 .. Height, NEW s \in Statement[n], s.kind = "return",
         NEW inner, NEW place \in Places, NEW g \in Tidy
  PROVE  ReturnSealed(g, LowerStatement(g, s, place, inner))
<1> DEFINE q == [i \in DOMAIN s.kids |-> Eval(Child(place, i))]
           w == LowerStatement(g, s, place, inner)
           p == g.code
           m == Len(p)
<1>1. w = Emit(g, q \o <<Ret>>)
  BY DEF LowerStatement
<1>2. p \in Seq(Instructions) /\ m \in Nat /\ g \in Generators
  BY GeneratorFields
<1>3. Ret \in Instructions /\ Ret.op = "ret" /\ q \in Seq(Instructions)
  <2>1. Ret \in Instructions /\ Ret.op = "ret"
    BY PlacesAre, NamesAre DEF Ret, Instruction, Instructions, Args
  <2>2. Len(s.kids) \in Nat /\ DOMAIN s.kids = 1 .. Len(s.kids)
    BY Children
  <2> DEFINE k == Len(s.kids)
             e(i) == Eval(Child(place, i))
  <2>3. \A i \in 1 .. k : i \in Nat
    BY <2>2
  <2>4. \A x \in Places : Eval(x) \in Instructions
    BY PlacesAre, NamesAre DEF Eval, Instruction, Instructions, Args
  <2>5. \A i \in 1 .. k : e(i) \in Instructions
    BY <2>3, <2>4, PlacesAre
  <2>6. q = [i \in 1 .. k |-> e(i)] /\ k \in Nat
    BY <2>2
  <2> HIDE DEF q, e, k
  <2>7. [i \in 1 .. k |-> e(i)] \in Seq(Instructions)
    BY <2>5, <2>6
  <2> QED BY <2>1, <2>6, <2>7
<1> HIDE DEF q
<1>4. w.code = p \o (q \o <<Ret>>)
  BY <1>1, <1>2 DEF Emit, Generators
<1> HIDE DEF w, p
<1>5. p \o (q \o <<Ret>>) = (p \o q) \o <<Ret>>
  BY <1>2, <1>3, SMT
<1>6. p \o q \in Seq(Instructions) /\ Len(p \o q) = m + Len(q) /\ Len(q) \in Nat
  BY <1>2, <1>3, CodeExtended
<1> DEFINE r == p \o q
           z == w.code
<1>7. z = r \o <<Ret>> /\ r \in Seq(Instructions) /\ Len(r) >= m /\ Len(r) \in Nat
  BY <1>2, <1>4, <1>5, <1>6
<1> HIDE DEF r, z, m
<1>8. Len(z) = Len(r) + 1 /\ z[Len(r) + 1] = Ret
  BY <1>3, <1>7, OneAppended
<1>9. Ends(m, z, {})
  BY <1>2, <1>3, <1>7, <1>8 DEF Ends, Leaving
<1>10. Sealed(m, z, g.labelCounter, w.labelCounter, {})
  BY DEF Sealed
<1>11. ReturnSealed(g, w)
  BY <1>9, <1>10 DEF ReturnSealed, m, z, p
<1> QED BY <1>11 DEF w

(* A compound statement that returns ends in a child that does.             *)
LEMMA CompoundSealed ==
  ASSUME NEW n \in 1 .. Height, NEW s \in Statement[n], s.kind = "compound",
         NEW visits, VisitsInner(n, visits), NEW lowers, LowersInner(n, lowers),
         SealedInner(n, visits, lowers),
         NEW place \in Places, NEW g, Sound(g), NEW c \in Contexts,
         VisitStatement(c, s, visits).returns
  PROVE  ReturnSealed(g, LowerCompound(g, s, place, lowers))
<1> DEFINE m == Len(s.kids)
<1>1. m \in Nat /\ g \in Tidy
  BY Children DEF Sound
<1>2. PICK v : VisitedThrough(v, s, c, visits)
  BY CompoundVisited
<1>3. PICK w : LoweredThrough(w, s, place, g, lowers)
  BY <1>1, CompoundLowered
<1> HIDE DEF m
<1>4. /\ v \in [0 .. m -> Contexts] /\ v[0] = Returning(c, FALSE)
      /\ VisitStatement(c, s, visits) = v[m]
      /\ \A k \in 1 .. m : v[k] = VisitChild(v[k - 1], s, k, visits)
  BY <1>2 DEF VisitedThrough, m
<1>5. /\ w \in [0 .. m -> Tidy] /\ w[0] = g /\ LowerCompound(g, s, place, lowers) = w[m]
      /\ \A k \in 1 .. m : w[k] = LowerChild(w[k - 1], s, place, k, lowers)
      /\ \A k \in 0 .. m : Grown(g, w[k])
  BY <1>3 DEF LoweredThrough, m
<1>6. m # 0
  <2>1. Returning(c, FALSE).returns = FALSE
    BY ReturningKeeps
  <2> QED BY <1>4, <2>1
<1>7. m \in 1 .. m /\ m - 1 \in 0 .. m
  BY <1>1, <1>6
<1> DEFINE x == v[m - 1]
           h == w[m - 1]
<1>8. x \in Contexts /\ Grown(g, h) /\ VisitChild(x, s, m, visits).returns
      /\ w[m] = LowerChild(h, s, place, m, lowers)
  BY <1>4, <1>5, <1>7
<1>9. s.kids[m] \in Inner(n)
  BY <1>7, CompoundShape DEF m
<1> HIDE DEF x, h
<1>10. Sound(h) /\ h \in Tidy
  BY <1>8, SoundFurther DEF Sound
<1>11. ReturnSealed(h, w[m])
  BY <1>1, <1>8, <1>9, <1>10, ChildSealed
<1>12. Grown(h, w[m])
  <2>1. Grown(h, h)
    BY <1>10, GrownAtFirst
  <2> QED BY <1>1, <1>8, <1>9, <1>10, <2>1, ChildLowered
<1> QED BY <1>1, <1>5, <1>8, <1>11, <1>12, SealedFromBefore

(* A labelled statement that returns labels one that does.                  *)
LEMMA LabelledSealed ==
  ASSUME NEW n \in 1 .. Height, NEW s \in Statement[n], s.kind \in {"case", "default", "label"},
         NEW visits, NEW lowers, LowersInner(n, lowers), SealedInner(n, visits, lowers),
         NEW place \in Places, NEW g, Sound(g), NEW c \in Contexts,
         VisitStatement(c, s, visits).returns
  PROVE  ReturnSealed(g, LowerStatement(g, s, place, lowers))
<1> DEFINE d == CASE s.kind = "case" -> VisitCase(c, s.arg)
                  [] s.kind = "default" -> RecordDefault(c)
                  [] s.kind = "label" -> RecordLabel(c, s.arg)
           h == LabelledFrom(g, s, place)
           i == 1
           w == LowerStatement(g, s, place, lowers)
<1>1. VisitStatement(c, s, visits) = VisitChild(d, s, i, visits)
  BY DEF VisitStatement
<1>2. d \in Contexts
  BY StatementShape, VisitCaseKeeps, RecordDefaultKeeps, RecordLabelKeeps
<1>3. g \in Tidy
  BY DEF Sound
<1>4. w = LowerChild(h, s, place, i, lowers) /\ Grown(g, h)
  BY <1>3, LabelledLowered
<1>5. i \in Nat /\ s.kids[i] \in Inner(n)
  BY LabelledShape
<1> HIDE DEF d, h, i, w
<1>6. Sound(h) /\ h \in Tidy
  BY <1>4, SoundFurther DEF Sound
<1>7. ReturnSealed(h, w)
  BY <1>1, <1>2, <1>4, <1>5, <1>6, ChildSealed
<1>8. Grown(h, w)
  <2>1. Grown(h, h)
    BY <1>6, GrownAtFirst
  <2> QED BY <1>4, <1>5, <1>6, <2>1, ChildLowered
<1>9. ReturnSealed(g, w)
  BY <1>3, <1>4, <1>7, <1>8, SealedFromBefore
<1> QED BY <1>9 DEF w

(* What Emit changes.                                                       *)
LEMMA EmitIs ==
  ASSUME NEW h \in Tidy, NEW q
  PROVE  /\ Emit(h, q).code = h.code \o q
         /\ Emit(h, q).labelCounter = h.labelCounter
<1>1. h \in Generators
  BY GeneratorFields
<1> QED BY <1>1 DEF Emit, Generators

(* Both branches of an if statement: test.code is ct, then come the first   *)
(* branch (c2), its jump (cy), the label of the second (co), the second     *)
(* (c3), its jump (cn) and the label where they meet (cw).                  *)
Branches(m, ct, a, t, u, v, r2, r3, else, c2, cy, co, c3, cn, cw, D1, D2) ==
  /\ m \in Nat /\ ct \in Seq(Instructions) /\ m <= Len(ct)
  /\ a \in Nat /\ t \in Nat /\ u \in Nat /\ v \in Nat
  /\ a + 2 <= t /\ t <= u /\ u <= v
  /\ r2 \in Seq(Own(t, u)) /\ r3 \in Seq(Own(u, v)) /\ else \in Labels
  /\ c2 = ct \o r2
  /\ cy = c2 \o <<Jump(Fresh("if.end", a + 1))>>
  /\ co = cy \o <<Mark(else)>>
  /\ c3 = co \o r3
  /\ cn = c3 \o <<Jump(Fresh("if.end", a + 1))>>
  /\ cw = cn \o <<Mark(Fresh("if.end", a + 1))>>
  /\ OnlyIn(ct, Fresh("if.end", a + 1), {})
  /\ Sealed(Len(ct), c2, t, u, D1) /\ Ends(Len(ct), c2, D1)
  /\ Sealed(Len(co), c3, u, v, D2) /\ Ends(Len(co), c3, D2)

(* When both are sealed, the jumps behind them are not reached, nor is the  *)
(* label where they meet.                                                   *)
LEMMA BranchesSealed ==
  ASSUME NEW m, NEW ct, NEW a, NEW t, NEW u, NEW v, NEW r2, NEW r3, NEW else, NEW c2, NEW cy,
         NEW co, NEW c3, NEW cn, NEW cw, NEW D1, NEW D2,
         Branches(m, ct, a, t, u, v, r2, r3, else, c2, cy, co, c3, cn, cw, D1, D2)
  PROVE  \E D : Sealed(m, cw, a, v, D) /\ Ends(m, cw, D)
<1>0. /\ m \in Nat /\ ct \in Seq(Instructions) /\ m <= Len(ct)
      /\ a \in Nat /\ t \in Nat /\ u \in Nat /\ v \in Nat
      /\ a + 2 <= t /\ t <= u /\ u <= v
      /\ r2 \in Seq(Own(t, u)) /\ r3 \in Seq(Own(u, v)) /\ else \in Labels
      /\ OnlyIn(ct, Fresh("if.end", a + 1), {})
      /\ Sealed(Len(ct), c2, t, u, D1) /\ Ends(Len(ct), c2, D1)
      /\ Sealed(Len(co), c3, u, v, D2) /\ Ends(Len(co), c3, D2)
  BY DEF Branches
<1> USE <1>0
<1> DEFINE merge == Fresh("if.end", a + 1)
           jump == Jump(merge)
           mark == Mark(merge)
           other == Mark(else)
<1>1. /\ merge \in Labels /\ Merge(merge) /\ merge.number = a + 1
      /\ a + 1 \in Nat /\ a <= a + 1 /\ a + 1 < t /\ a + 1 < v /\ a + 1 < a + 2 /\ a + 2 \in Nat
      /\ t <= v /\ u <= u /\ t <= t /\ v <= v /\ a <= t
  <2>1. "if.end" \in Prefixes /\ a + 1 \in Nat
    BY DEF Prefixes
  <2>2. merge \in Labels /\ merge.prefix = "if.end" /\ merge.number = a + 1
    BY <2>1, FreshIs
  <2> HIDE DEF merge
  <2> QED BY <2>2 DEF Merge
<1> HIDE DEF merge
<1>2. /\ jump \in Instructions /\ jump.op = "jump" /\ jump.to = merge /\ jump.else = NoLabel
      /\ mark \in Instructions /\ mark.op = "label"
      /\ other \in Instructions /\ other.op = "label"
  BY <1>1, PlacesAre, NamesAre DEF Jump, Mark, Instruction, Instructions, Args
<1>3. mark = Mark(merge)
  OBVIOUS
<1> HIDE DEF jump, mark, other
<1>4. <<jump>> \in Seq(Instructions) /\ <<mark>> \in Seq(Instructions)
      /\ <<other>> \in Seq(Instructions)
      /\ r2 \in Seq(Instructions) /\ r3 \in Seq(Instructions)
  <2>1. r2 \in Seq(Instructions) /\ r3 \in Seq(Instructions)
    BY OwnAreInstructions
  <2>2. \A i \in Instructions : <<i>> \in Seq(Instructions)
    BY FewInstructions
  <2> QED BY <1>2, <2>1, <2>2
<1>5. /\ c2 = ct \o r2 /\ cy = c2 \o <<jump>> /\ co = cy \o <<other>> /\ c3 = co \o r3
      /\ cn = c3 \o <<jump>> /\ cw = cn \o <<mark>>
  BY DEF Branches, jump, mark, other, merge
<1>6. c2 \in Seq(Instructions) /\ Len(c2) >= Len(ct) /\ Len(ct) \in Nat /\ Len(c2) \in Nat
  BY <1>4, <1>5, CodeExtended
<1>7. cy \in Seq(Instructions) /\ Len(cy) = Len(c2) + 1
  BY <1>2, <1>5, <1>6, OneAppended
<1>8. co \in Seq(Instructions) /\ Len(co) = Len(cy) + 1
  BY <1>2, <1>5, <1>7, OneAppended
<1>9. c3 \in Seq(Instructions) /\ Len(c3) >= Len(co) /\ Len(c3) \in Nat
  BY <1>4, <1>5, <1>8, CodeExtended
<1>10. cn \in Seq(Instructions) /\ Len(cn) = Len(c3) + 1
  BY <1>2, <1>5, <1>9, OneAppended
<1>11. m <= Len(co) /\ m < Len(cn) /\ Len(co) \in Nat /\ Len(ct) <= Len(co)
  BY <1>6, <1>7, <1>8, <1>9, <1>10
(* Only the two jumps mention the label where the branches meet.            *)
<1> DEFINE J1 == {Len(c2) + 1}
           J2 == J1 \union {Len(c3) + 1}
<1>12. OnlyIn(r2, merge, {}) /\ OnlyIn(r3, merge, {}) /\ OnlyIn(<<other>>, merge, {})
  <2> DEFINE x == a + 1
             y == a + 2
  <2>1. x \in Nat /\ y \in Nat /\ y <= t /\ y <= u /\ x <= merge.number /\ merge.number < y
    BY <1>1
  <2> HIDE DEF x, y
  <2>2. Avoids(r2, x, y) /\ Avoids(r3, x, y)
    BY <2>1, OwnAvoids
  <2>3. OnlyIn(r2, merge, {}) /\ OnlyIn(r3, merge, {})
    BY <1>1, <2>1, <2>2, AvoidsOnly
  <2>4. OnlyIn(<<other>>, merge, {})
    BY <1>2 DEF OnlyIn, Mentions
  <2> QED BY <2>3, <2>4
<1>13. OnlyIn(c3, merge, J1)
  <2>1. OnlyIn(ct, merge, {})
    BY DEF merge
  <2>2. OnlyIn(c2, merge, {})
    BY <1>4, <1>5, <1>12, <2>1, OnlyInFurther
  <2>3. OnlyIn(cy, merge, J1)
    <3>1. OnlyIn(c2 \o <<jump>>, merge, {} \union {Len(c2) + 1})
      BY <1>2, <1>6, <2>2, OnlyInOneMore
    <3> QED BY <1>5, <3>1
  <2> HIDE DEF J1
  <2>4. OnlyIn(co, merge, J1)
    BY <1>4, <1>5, <1>7, <1>12, <2>3, OnlyInFurther
  <2> QED BY <1>4, <1>5, <1>8, <1>12, <2>4, OnlyInFurther
<1>14. OnlyIn(cn, merge, J2)
  <2> HIDE DEF J1
  <2>1. OnlyIn(c3 \o <<jump>>, merge, J1 \union {Len(c3) + 1})
    BY <1>2, <1>9, <1>13, OnlyInOneMore
  <2> QED BY <1>5, <2>1
(* The jump mentions no label of the branches.                              *)
<1>15. ASSUME NEW lo \in Nat, NEW hi \in Nat, t <= lo
       PROVE  Avoids(<<jump>>, lo, hi)
  <2>1. ASSUME NEW l \in Labels, Merge(l), lo <= l.number, Mentions(jump, l) PROVE FALSE
    <3> DEFINE x == l.number
    <3>1. x \in Nat
      BY DEF Labels
    <3>2. l = merge
      BY <1>2, <2>1, NamesAre DEF Mentions
    <3>3. x = a + 1 /\ lo <= x
      BY <1>1, <2>1, <3>2
    <3> HIDE DEF x
    <3> QED BY <1>1, <1>15, <3>1, <3>3
  <2> QED BY <2>1, AvoidsOne
<1>16. \A lo, hi : Avoids(<<other>>, lo, hi)
  <2>1. \A l : ~ Mentions(other, l)
    BY <1>2 DEF Mentions
  <2> QED BY <2>1, AvoidsOne
(* The first branch, with its jump.                                         *)
<1> DEFINE E1 == D1 \union {Len(c2) + 1}
<1>17. Sealed(Len(ct), cy, t, u, E1)
  <2>1. Avoids(<<jump>>, t, u) /\ jump.op # "label"
    BY <1>1, <1>2, <1>15
  <2>2. Sealed(Len(ct), c2 \o <<jump>>, t, u, D1 \union {Len(c2) + 1})
    BY <1>2, <1>6, <2>1, JumpSealed
  <2> QED BY <1>5, <2>2
<1> HIDE DEF E1
<1>18. Sealed(Len(ct), c3, t, u, E1)
  <2>1. Sealed(Len(ct), co, t, u, E1)
    BY <1>4, <1>5, <1>6, <1>7, <1>16, <1>17, SealedFurther
  <2>2. Avoids(r3, t, u)
    BY <1>1, OwnAvoids
  <2> QED BY <1>4, <1>5, <1>6, <1>8, <2>1, <2>2, SealedFurther
(* Both.                                                                    *)
<1> DEFINE E2 == E1 \union D2
           E3 == E2 \union {Len(c3) + 1}
           E4 == E3 \union {Len(cn) + 1}
<1>19. Sealed(m, c3, t, v, E2)
  <2>1. Sealed(m, c3, t, v, E1)
    BY <1>1, <1>6, <1>9, <1>18, SealedWider
  <2>2. Sealed(m, c3, t, v, D2)
    BY <1>1, <1>9, <1>11, SealedWider
  <2> QED BY <2>1, <2>2, SealedTogether
<1>20. Ends(m, c3, E2)
  BY <1>9, <1>11 DEF Ends
<1>21. J2 \subseteq E3
  BY DEF E1
<1> HIDE DEF E2
<1>22. Sealed(m, cn, t, v, E3)
  <2>1. Avoids(<<jump>>, t, v) /\ jump.op # "label"
    BY <1>1, <1>2, <1>15
  <2>2. Sealed(m, c3 \o <<jump>>, t, v, E2 \union {Len(c3) + 1})
    BY <1>2, <1>9, <1>19, <1>20, <2>1, JumpSealed
  <2> QED BY <1>5, <2>2
<1>23. Len(cn) \in E3
  BY <1>10
<1> HIDE DEF E3, J2
<1>24. Sealed(m, cn, a, v, E3)
  <2>1. m <= m /\ a <= t /\ v <= v /\ cn \in Seq(Instructions)
    BY <1>1, <1>10
  <2> QED BY <1>22, <2>1, SealedWider
<1>25. OnlyIn(cn, merge, E3)
  BY <1>14, <1>21 DEF OnlyIn
<1>26. Sealed(m, cn \o <<mark>>, a, v, E4) /\ Ends(m, cn \o <<mark>>, E4)
  <2>1. Mark(merge) \in Instructions /\ a <= merge.number /\ merge.number < v
    BY <1>1, <1>2, <1>3
  <2>2. Sealed(m, cn \o <<Mark(merge)>>, a, v, E3 \union {Len(cn) + 1})
        /\ Ends(m, cn \o <<Mark(merge)>>, E3 \union {Len(cn) + 1})
    BY <1>1, <1>10, <1>11, <1>23, <1>24, <1>25, <2>1, MergeSealed
  <2> QED BY <1>3, <2>2
<1> QED BY <1>5, <1>26

(* An if statement that returns has two branches that return.               *)
LEMMA IfSealed ==
  ASSUME NEW n \in 1 .. Height, NEW s \in Statement[n], s.kind = "if",
         NEW visits, VisitsInner(n, visits), NEW lowers, LowersInner(n, lowers),
         SealedInner(n, visits, lowers),
         NEW place \in Places, NEW g, Sound(g), NEW c \in Contexts,
         VisitIf(c, s, visits).returns
  PROVE  ReturnSealed(g, LowerIf(g, s, place, lowers))
<1> DEFINE hasElse == Len(s.kids) > 2
           i == 2
           j == 3
           p == Child(place, 1)
           then == VisitChild(c, s, i, visits)
           else == VisitChild(then, s, j, visits)
           last == IF hasElse THEN else ELSE then
           w == LowerIf(g, s, place, lowers)
           a == g.labelCounter
           merge == Fresh("if.end", a + 1)
           toThen == Fresh("if.then", a)
           toElse == Fresh("if.else", a + 2)
(* What semantic analysis found.                                            *)
<1>1. s.kids[i] \in Inner(n) /\ (hasElse => s.kids[j] \in Inner(n)) /\ i \in Nat /\ j \in Nat
  BY IfShape
<1>2. VisitIf(c, s, visits) = Returning(last, BothReturn(hasElse, then.returns, last.returns))
  BY DEF VisitIf
<1>3. then \in Contexts
  <2> HIDE DEF i
  <2> QED BY <1>1, ChildVisited
<1>4. hasElse => else \in Contexts
  <2> HIDE DEF then, j
  <2> QED BY <1>1, <1>3, ChildVisited
<1>5. hasElse /\ then.returns /\ else.returns
  <2> DEFINE b == BothReturn(hasElse, then.returns, last.returns)
  <2>1. last \in Contexts
    BY <1>3, <1>4
  <2>2. b \in BOOLEAN
    BY <1>3, <2>1, ContextFields DEF BothReturn
  <2> HIDE DEF b, last
  <2>3. Returning(last, b).returns = b
    BY <2>1, <2>2, ReturningKeeps
  <2>4. b
    BY <1>2, <2>3 DEF b
  <2> QED BY <2>4 DEF b, BothReturn, last
(* What is emitted.                                                         *)
<1>6. g \in Tidy /\ g.code \in Seq(Own(0, a)) /\ a \in Nat /\ g.code \in Seq(Instructions)
  BY GeneratorFields DEF Sound
<1>7. PICK test, yes, other, no :
         /\ IfParts(test, yes, other, no, w, g, s, place, lowers)
         /\ IfGrown(test, yes, other, no, w, g, s, place, lowers)
  BY <1>6, IfLowered
<1> DEFINE b2 == LowerChild(test, s, place, i, lowers)
           b3 == LowerChild(other, s, place, j, lowers)
           t == test.labelCounter
           u == b2.labelCounter
           v == b3.labelCounter
           tri == <<Eval(p), CJump(p, toThen, toElse), Mark(toThen)>>
<1>8. /\ test = Emit(NewLabels(g, 3), tri) /\ yes = Emit(b2, <<Jump(merge)>>)
      /\ other = Emit(yes, <<Mark(toElse)>>) /\ no = Emit(b3, <<Jump(merge)>>)
      /\ w = Emit(no, <<Mark(merge)>>)
  BY <1>5, <1>7 DEF IfParts
<1>9. /\ Grown(g, test) /\ Grown(g, yes) /\ Grown(g, other) /\ Grown(g, no) /\ Grown(g, w)
      /\ a + 2 <= t
  BY <1>7 DEF IfGrown
<1>10. /\ test \in Tidy /\ yes \in Tidy /\ other \in Tidy /\ no \in Tidy /\ w \in Tidy
       /\ Sound(test) /\ Sound(other)
  BY <1>9, SoundFurther DEF Grown
<1>11. Grown(test, b2) /\ b2 \in Tidy
  <2>1. Grown(test, test)
    BY <1>10, GrownAtFirst
  <2> HIDE DEF i
  <2>2. Grown(test, LowerChild(test, s, place, i, lowers))
    BY <1>1, <1>10, <2>1, ChildLowered
  <2> HIDE DEF b2
  <2>3. Grown(test, b2)
    BY <2>2 DEF b2
  <2> QED BY <2>3 DEF Grown
<1>12. Grown(other, b3) /\ b3 \in Tidy
  <2>1. Grown(other, other)
    BY <1>10, GrownAtFirst
  <2> HIDE DEF j
  <2>2. Grown(other, LowerChild(other, s, place, j, lowers))
    BY <1>1, <1>5, <1>10, <2>1, ChildLowered
  <2> HIDE DEF b3
  <2>3. Grown(other, b3)
    BY <2>2 DEF b3
  <2> QED BY <2>3 DEF Grown
<1>13. ReturnSealed(test, b2)
  <2> HIDE DEF i
  <2> QED BY <1>1, <1>5, <1>10, ChildSealed
<1>14. ReturnSealed(other, b3)
  <2> HIDE DEF then, j
  <2> QED BY <1>1, <1>3, <1>5, <1>10, ChildSealed
<1> HIDE DEF b2, b3, w
<1>15. /\ yes.code = b2.code \o <<Jump(merge)>> /\ yes.labelCounter = u
       /\ other.code = yes.code \o <<Mark(toElse)>> /\ other.labelCounter = u
       /\ no.code = b3.code \o <<Jump(merge)>> /\ no.labelCounter = v
       /\ w.code = no.code \o <<Mark(merge)>> /\ w.labelCounter = v
  <2> HIDE DEF merge, toElse
  <2>1. yes.code = b2.code \o <<Jump(merge)>> /\ yes.labelCounter = u
    BY <1>8, <1>11, EmitIs
  <2>2. other.code = yes.code \o <<Mark(toElse)>> /\ other.labelCounter = yes.labelCounter
    BY <1>8, <1>10, EmitIs
  <2>3. no.code = b3.code \o <<Jump(merge)>> /\ no.labelCounter = v
    BY <1>8, <1>12, EmitIs
  <2>4. w.code = no.code \o <<Mark(merge)>> /\ w.labelCounter = no.labelCounter
    BY <1>8, <1>10, EmitIs
  <2> QED BY <2>1, <2>2, <2>3, <2>4
<1>16. test.code = g.code \o tri
  <2> DEFINE h == NewLabels(g, 3)
  <2>1. Grown(g, g) /\ 3 \in Nat
    BY <1>6, GrownAtFirst
  <2>2. h \in Tidy /\ h.code = g.code
    BY <1>6, <2>1, Numbering DEF Grown
  <2> HIDE DEF h, tri
  <2> QED BY <1>8, <2>2, EmitIs DEF h
<1>17. PICK r2 \in Seq(Own(t, u)) : b2.code = test.code \o r2
  BY <1>10, <1>11, GrownCode
<1>18. PICK r3 \in Seq(Own(other.labelCounter, v)) : b3.code = other.code \o r3
  BY <1>10, <1>12, GrownCode
<1>19. r3 \in Seq(Own(u, v))
  BY <1>15, <1>18
<1>20. /\ t \in Nat /\ u \in Nat /\ v \in Nat /\ t <= u /\ other.labelCounter <= v
       /\ Len(g.code) \in Nat /\ Len(g.code) <= Len(test.code)
       /\ test.code \in Seq(Instructions)
  BY <1>6, <1>9, <1>10, <1>11, <1>12, GrownCode
<1>21. u <= v
  BY <1>15, <1>20
(* Nothing before the first branch mentions the label where they meet.      *)
<1>22. OnlyIn(test.code, merge, {})
  <2>1. merge \in Labels /\ Merge(merge) /\ merge.number = a + 1 /\ a + 1 \in Nat
    <3>1. "if.end" \in Prefixes /\ a + 1 \in Nat
      BY <1>6 DEF Prefixes
    <3> QED BY <3>1, FreshIs DEF Merge
  <2>2. OnlyIn(g.code, merge, {})
    <3> DEFINE x == a + 1
               y == a + 2
               z == 0
    <3>1. x \in Nat /\ y \in Nat /\ z \in Nat /\ a <= x /\ x <= merge.number /\ merge.number < y
      BY <1>6, <2>1
    <3>2. g.code \in Seq(Own(z, a))
      BY <1>6
    <3> HIDE DEF x, y, z, a
    <3>3. Avoids(g.code, x, y)
      BY <1>6, <3>1, <3>2, OwnAvoids
    <3> HIDE DEF merge
    <3> QED BY <2>1, <3>1, <3>3, AvoidsOnly
  <2>3. toThen \in Labels /\ ~ Merge(toThen) /\ toElse \in Labels /\ ~ Merge(toElse)
    <3>1. a \in Nat /\ a + 2 \in Nat
      BY <1>6
    <3> QED BY <3>1, PlainFresh, PrefixesAre
  <2> HIDE DEF merge, toThen, toElse
  <2>4. /\ Eval(p) \in Instructions /\ ~ Mentions(Eval(p), merge)
        /\ CJump(p, toThen, toElse) \in Instructions
        /\ ~ Mentions(CJump(p, toThen, toElse), merge)
        /\ Mark(toThen) \in Instructions /\ ~ Mentions(Mark(toThen), merge)
    <3>1. p \in Places /\ <<>> \in Places /\ "" \in Args
      BY PlacesAre DEF Args
    <3>2. merge # NoLabel /\ merge # toThen /\ merge # toElse /\ NoLabel \in Labels
      BY <2>1, <2>3, NamesAre
    <3> HIDE DEF p
    <3>3. Eval(p) \in Instructions /\ Eval(p).to = NoLabel /\ Eval(p).else = NoLabel
      BY <3>1, <3>2 DEF Eval, Instruction, Instructions
    <3>4. /\ CJump(p, toThen, toElse) \in Instructions
          /\ CJump(p, toThen, toElse).to = toThen /\ CJump(p, toThen, toElse).else = toElse
      BY <2>3, <3>1, <3>2 DEF CJump, Instruction, Instructions
    <3>5. Mark(toThen) \in Instructions /\ Mark(toThen).op = "label"
      BY <2>3, <3>1, <3>2 DEF Mark, Instruction, Instructions
    <3> QED BY <3>2, <3>3, <3>4, <3>5 DEF Mentions
  <2>5. tri \in Seq(Instructions) /\ OnlyIn(tri, merge, {})
    <3> DEFINE e1 == Eval(p)
               e2 == CJump(p, toThen, toElse)
               e3 == Mark(toThen)
    <3>1. e1 \in Instructions /\ e2 \in Instructions /\ e3 \in Instructions
          /\ ~ Mentions(e1, merge) /\ ~ Mentions(e2, merge) /\ ~ Mentions(e3, merge)
      BY <2>4
    <3> HIDE DEF e1, e2, e3
    <3>2. <<e1, e2, e3>> \in Seq(Instructions)
      BY <3>1
    <3>3. OnlyIn(<<e1, e2, e3>>, merge, {})
      BY <3>1 DEF OnlyIn
    <3> QED BY <3>2, <3>3 DEF e1, e2, e3
  <2> HIDE DEF tri
  <2> QED BY <1>6, <1>16, <2>2, <2>5, OnlyInFurther
<1>23. PICK D1 : /\ Sealed(Len(test.code), b2.code, t, u, D1)
                 /\ Ends(Len(test.code), b2.code, D1)
  BY <1>13 DEF ReturnSealed
<1>24. PICK D2 : /\ Sealed(Len(other.code), b3.code, u, v, D2)
                 /\ Ends(Len(other.code), b3.code, D2)
  BY <1>14, <1>15 DEF ReturnSealed
<1>25. toElse \in Labels
  <2>1. a + 2 \in Nat
    BY <1>6
  <2> QED BY <2>1, PlainFresh, PrefixesAre
<1>26. \E D : Sealed(Len(g.code), w.code, a, v, D) /\ Ends(Len(g.code), w.code, D)
  <2>1. Branches(Len(g.code), test.code, a, t, u, v, r2, r3, toElse, b2.code, yes.code,
                 other.code, b3.code, no.code, w.code, D1, D2)
    <3> HIDE DEF a, t, u, v, toElse
    <3> QED BY <1>6, <1>9, <1>15, <1>17, <1>18, <1>19, <1>20, <1>21, <1>22, <1>23, <1>24, <1>25
            DEF Branches
  <2> HIDE DEF a, v
  <2> QED BY <2>1, BranchesSealed
<1>27. ReturnSealed(g, w)
  BY <1>15, <1>26 DEF ReturnSealed
<1> QED BY <1>27 DEF w

(* A statement of any kind that returns is sealed.                          *)
LEMMA StatementSealed ==
  ASSUME NEW n \in 1 .. Height, NEW s \in Statement[n],
         NEW visits, VisitsInner(n, visits), NEW lowers, LowersInner(n, lowers),
         SealedInner(n, visits, lowers),
         NEW place \in Places, NEW g, Sound(g), NEW c \in Contexts,
         VisitStatement(c, s, visits).returns
  PROVE  ReturnSealed(g, LowerStatement(g, s, place, lowers))
<1> DEFINE w == LowerStatement(g, s, place, lowers)
           v == VisitStatement(c, s, visits)
           Good == ReturnSealed(g, w)
<1> SUFFICES Good
  OBVIOUS
<1>0. g \in Tidy /\ s.kind \in Kinds
  BY StatementShape DEF Sound
<1>1. CASE s.kind = "compound"
  <2>1. w = LowerCompound(g, s, place, lowers)
    BY <1>1 DEF LowerStatement
  <2> QED BY <1>1, <2>1, CompoundSealed
<1>2. CASE s.kind = "if"
  <2>1. w = LowerIf(g, s, place, lowers) /\ v = VisitIf(c, s, visits)
    BY <1>2 DEF LowerStatement, VisitStatement
  <2> QED BY <1>2, <2>1, IfSealed
<1>3. CASE s.kind \in {"case", "default", "label"}
  BY <1>3, LabelledSealed
<1>4. CASE s.kind = "return"
  BY <1>0, <1>4, ReturnIsSealed
(* The others do not return.                                                *)
<1>5. CASE s.kind \in {"while", "for", "switch"}
  <2>1. v = VisitBody(c, s, Len(s.kids), visits)
    BY <1>5 DEF VisitStatement
  <2>2. s.kids[Len(s.kids)] \in Inner(n)
    BY <1>5, LoopShape, ForShape
  <2>3. v.returns = FALSE
    BY <1>5, <2>1, <2>2, BodyVisited
  <2> QED BY <2>3
<1>6. CASE s.kind = "do"
  <2> DEFINE i == 1
  <2>1. v = VisitBody(c, s, i, visits)
    BY <1>6 DEF VisitStatement
  <2>2. s.kids[i] \in Inner(n)
    BY <1>6, DoShape
  <2> HIDE DEF i
  <2>3. v.returns = FALSE
    BY <1>6, <2>1, <2>2, BodyVisited
  <2> QED BY <2>3
<1>7. CASE s.kind = "goto"
  <2> DEFINE d == [c EXCEPT !.gotos = @ \union {s.arg}]
  <2>1. v = Returning(d, FALSE)
    BY <1>7 DEF VisitStatement
  <2>2. d \in Contexts
    BY StatementShape DEF Contexts
  <2> HIDE DEF d
  <2>3. v.returns = FALSE
    BY <2>1, <2>2, ReturningKeeps
  <2> QED BY <2>3
<1>8. CASE s.kind \in {"break", "continue"}
  <2> DEFINE d == CASE s.kind = "break" -> ReportedIf(c, c.breakDepth = 0, "break outside")
                    [] s.kind = "continue" -> ReportedIf(c, c.loopDepth = 0, "continue outside")
  <2>1. v = Returning(d, FALSE)
    BY <1>8 DEF VisitStatement
  <2>2. d \in Contexts
    BY <1>8, ReportingKeeps, ProblemsAre
  <2> HIDE DEF d
  <2>3. v.returns = FALSE
    BY <2>1, <2>2, ReturningKeeps
  <2> QED BY <2>3
<1>9. CASE s.kind \in {"expression", "empty"}
  <2>1. v = Returning(c, FALSE)
    BY <1>9 DEF VisitStatement
  <2>2. v.returns = FALSE
    BY <2>1, ReturningKeeps
  <2> QED BY <2>2
<1>10. \/ s.kind = "compound" \/ s.kind = "if" \/ s.kind \in {"case", "default", "label"}
       \/ s.kind = "return" \/ s.kind \in {"while", "for", "switch"} \/ s.kind = "do"
       \/ s.kind = "goto" \/ s.kind \in {"break", "continue"}
       \/ s.kind \in {"expression", "empty"}
  BY <1>0 DEF Kinds
<1> HIDE DEF Good
<1> QED BY <1>1, <1>2, <1>3, <1>4, <1>5, <1>6, <1>7, <1>8, <1>9, <1>10, Zenon

(* So is every statement that returns, by its height.                       *)
LEMMA SealedByHeight ==
  \A n \in 0 .. Height : \A s \in Statement[n] : \A p \in Places : \A g \in Tidy :
  \A c \in Contexts :
     Sound(g) /\ Visiting[n][s][c].returns => ReturnSealed(g, Lowering[n][s][p][g])
<1> DEFINE Fine(n) ==
             \A s \in Statement[n] : \A p \in Places : \A g \in Tidy : \A c \in Contexts :
                Sound(g) /\ Visiting[n][s][c].returns => ReturnSealed(g, Lowering[n][s][p][g])
           T == {n \in 0 .. Height : Fine(n)}
<1>1. 0 \in T
  BY NoStatementOfHeightZero, HeightAssumption
<1>2. ASSUME NEW n \in 1 .. Height, n - 1 \in T PROVE n \in T
  <2> DEFINE visits == Visiting[n - 1]
             lowers == Lowering[n - 1]
  <2>1. n \in 0 .. Height /\ n - 1 \in 0 .. Height
    BY HeightAssumption
  <2>2. VisitsInner(n, visits)
    BY <2>1, VisitsKeep DEF VisitsInner, Inner
  <2>3. LowersInner(n, lowers)
    BY <2>1, LoweringGrows DEF LowersInner, Inner
  <2>4. SealedInner(n, visits, lowers)
    BY <1>2 DEF SealedInner, Inner
  <2>5. ASSUME NEW s \in Statement[n], NEW p \in Places, NEW g \in Tidy, NEW c \in Contexts,
               Sound(g), Visiting[n][s][c].returns
        PROVE  ReturnSealed(g, Lowering[n][s][p][g])
    <3>1. Visiting[n][s][c] = VisitStatement(c, s, visits)
      BY <2>1, VisitingStep
    <3>2. Lowering[n][s][p][g] = LowerStatement(g, s, p, lowers)
      BY <2>1, GeneratorFields, LoweringStep
    <3> HIDE DEF visits, lowers
    <3>3. VisitStatement(c, s, visits).returns
      BY <2>5, <3>1
    <3>4. ReturnSealed(g, LowerStatement(g, s, p, lowers))
      BY <2>2, <2>3, <2>4, <2>5, <3>3, StatementSealed
    <3> QED BY <3>2, <3>4
  <2>6. Fine(n)
    BY <2>5
  <2> QED BY <2>1, <2>6
<1>3. \A n \in 0 .. Height : n \in T
  <2> HIDE DEF T
  <2> QED BY <1>1, <1>2, UpTo, HeightAssumption
<1> QED BY <1>3

-----------------------------------------------------------------------------
(* The end of a function whose body always returns.                         *)

(* No way leads into Bad, where every end of the function is.               *)
NoWayInto(Bad, q) ==
  /\ q \in Seq(Instructions)
  /\ Bad \subseteq 2 .. Len(q)
  /\ \A i \in Bad : i - 1 \in Bad \/ q[i - 1].op \in Leaving
  /\ \A i \in Bad : q[i].op = "label" =>
        \A k \in 1 .. Len(q) : Mentions(q[k], q[i].to) => k \in Bad
  /\ \A i \in 1 .. Len(q) : q[i].op = "endfunc" => i \in Bad

(* No way leads to the end of a function whose body always returns.         *)
LEMMA FunctionSealed ==
  ASSUME NEW body \in Statement[Height], ReturnsAlways(body)
  PROVE  \E Bad : NoWayInto(Bad, Lowered(body).code)
<1> DEFINE e == EmptyCodegen
           c == EmptyContext
           w == Generated(body)
           v == Visiting[Height][body][c]
           b == w.labelCounter
           p == w.code
           q == p \o <<EndFunc>>
<1>1. Height \in 0 .. Height /\ <<>> \in Places /\ e \in Tidy /\ c \in Contexts
  BY HeightAssumption, PlacesAre, FirstContexts
<1>2. Sound(e) /\ Len(e.code) = 0 /\ e.labelCounter = 0
  <2>1. e.code = <<>> /\ e.labelCounter = 0
    BY DEF EmptyCodegen
  <2> QED BY <1>1, <2>1, EmptySeq DEF Sound
<1>3. v.returns
  <2>1. v \in Contexts
    BY <1>1, VisitsKeep DEF Visits
  <2>2. FunctionContext(body) = ReportedIf(v, ~ v.gotos \subseteq v.labels, "undefined label")
    BY DEF FunctionContext, Visit
  <2> HIDE DEF v
  <2>3. FunctionContext(body).returns = v.returns
    BY <2>1, <2>2 DEF ReportedIf, Reported, Contexts
  <2> QED BY <2>3 DEF ReturnsAlways
<1>4. Grown(e, w)
  BY GeneratedIs
<1>5. ReturnSealed(e, w)
  BY <1>1, <1>2, <1>3, SealedByHeight DEF Generated
<1>6. PICK D : Sealed(0, p, 0, b, D) /\ Ends(0, p, D)
  <2> HIDE DEF e, w
  <2> QED BY <1>2, <1>5 DEF ReturnSealed
<1>7. p \in Seq(Instructions) /\ p \in Seq(Own(0, b))
  <2>1. Sound(w)
    <3> HIDE DEF w, e
    <3> QED BY <1>2, <1>4, SoundFurther
  <2> HIDE DEF w
  <2> QED BY <2>1, OwnAreInstructions DEF Sound
<1>8. Lowered(body).code = q
  BY LoweredIs
<1>9. EndFunc \in Instructions /\ EndFunc.op = "endfunc"
      /\ EndFunc.to = NoLabel /\ EndFunc.else = NoLabel
  BY PlacesAre, NamesAre DEF EndFunc, Instruction, Instructions, Args
<1> HIDE DEF p, b
<1>10. Avoids(<<EndFunc>>, 0, b)
  <2>1. \A l \in Labels : Merge(l) => ~ Mentions(EndFunc, l)
    BY <1>9, NamesAre DEF Mentions
  <2> QED BY <2>1, AvoidsOne
<1> DEFINE Bad == D \union {Len(p) + 1}
<1>11. Sealed(0, q, 0, b, Bad)
  <2>1. EndFunc.op # "label" /\ 0 \in Nat
    BY <1>9
  <2> QED BY <1>6, <1>7, <1>9, <1>10, <2>1, JumpSealed
<1>12. q \in Seq(Instructions) /\ Len(q) = Len(p) + 1 /\ Len(p) \in Nat
       /\ \A k \in 1 .. Len(p) : q[k] = p[k]
  BY <1>7, <1>9, OneAppended
<1> HIDE DEF q
<1>13. ASSUME NEW i \in 1 .. Len(q), q[i].op = "endfunc" PROVE i \in Bad
  <2>1. CASE i \in 1 .. Len(p)
    <3>1. p[i] \in Own(0, b)
      BY <1>7, <2>1, ElementOfSeq
    <3> QED BY <1>12, <1>13, <2>1, <3>1 DEF Own
  <2>2. CASE i = Len(p) + 1
    BY <2>2
  <2> QED BY <1>12, <2>1, <2>2
<1>14. Bad \subseteq 2 .. Len(q)
  <2>1. Bad \subseteq 0 + 2 .. Len(q)
    BY <1>11 DEF Sealed
  <2> HIDE DEF Bad
  <2> QED BY <2>1
<1> HIDE DEF Bad
<1>15. NoWayInto(Bad, q)
  BY <1>11, <1>12, <1>13, <1>14 DEF NoWayInto, Sealed
<1> QED BY <1>8, <1>15

(* Execution does not go there.                                             *)
LEMMA OnwardStaysOut ==
  ASSUME NEW Bad, NoWayInto(Bad, code), NEW i \in Nat \ Bad, NEW last
  PROVE  Onward(i, last) \in Nat \ Bad
<1>1. code \in Seq(Instructions) /\ Len(code) \in Nat /\ DOMAIN code = 1 .. Len(code)
      /\ Bad \subseteq 2 .. Len(code)
  BY LenProperties DEF NoWayInto
<1>2. CASE Stops(i)
  BY <1>2 DEF Onward
<1>3. CASE ~ Stops(i)
  <2>1. i \in 1 .. Len(code) /\ i \notin Bad /\ code[i].op \in {"label", "jump", "cjump", "cmp"}
    <3>1. i \in 1 .. Len(code) /\ code[i].op \notin {"eval", "ret", "endfunc"}
      BY <1>1, <1>3 DEF Stops
    <3> QED BY <1>1, <3>1, InstructionFields
  <2>2. Nowhere \in Nat \ Bad
    BY <1>1 DEF Nowhere
  <2>3. ASSUME NEW l, Mentions(code[i], l) PROVE Target(l) \in Nat \ Bad
    <3>1. CASE Targets(l) = {}
      BY <2>2, <3>1 DEF Target
    <3>2. CASE Targets(l) # {}
      <4> DEFINE j == Target(l)
      <4>1. j \in Targets(l)
        BY <3>2 DEF Target
      <4> HIDE DEF j
      <4>2. j \in 1 .. Len(code) /\ code[j].op = "label" /\ code[j].to = l
        BY <1>1, <4>1 DEF Targets
      <4>3. j \notin Bad
        BY <2>1, <2>3, <4>2 DEF NoWayInto
      <4> QED BY <1>1, <4>2, <4>3 DEF j
    <3> QED BY <3>1, <3>2
  <2>4. CASE code[i].op = "label"
    <3>1. i + 1 \in Nat /\ i + 1 - 1 = i
      BY <1>1, <2>1
    <3>2. i + 1 \notin Bad
      BY <2>1, <2>4, <3>1 DEF NoWayInto, Leaving
    <3>3. Onward(i, last) = i + 1
      BY <1>3, <2>4 DEF Onward, NextPc
    <3> QED BY <3>1, <3>2, <3>3
  <2>5. CASE code[i].op = "jump"
    <3>1. Onward(i, last) = Target(code[i].to)
      BY <1>3, <2>5 DEF Onward, NextPc
    <3>2. Mentions(code[i], code[i].to)
      BY <2>5 DEF Mentions
    <3> QED BY <2>3, <3>1, <3>2
  <2>6. CASE code[i].op \in {"cjump", "cmp"}
    <3>1. Onward(i, last) \in {Nowhere, Target(code[i].to), Target(code[i].else)}
      BY <1>3, <2>6 DEF Onward, NextPc
    <3>2. Mentions(code[i], code[i].to) /\ Mentions(code[i], code[i].else)
      BY <2>6 DEF Mentions
    <3>3. Target(code[i].to) \in Nat \ Bad /\ Target(code[i].else) \in Nat \ Bad
      BY <2>3, <3>2
    <3> QED BY <2>2, <3>1, <3>3
  <2> QED BY <2>1, <2>4, <2>5, <2>6
<1> QED BY <1>2, <1>3

(* Nor do the jumps up to the next evaluation.                              *)
LEMMA RunStaysOut ==
  ASSUME NEW Bad, NoWayInto(Bad, code), NEW i \in Nat \ Bad, NEW last
  PROVE  Run(i, last) \in Nat \ Bad
<1> DEFINE n == Len(code)
           X == Nat \ Bad
           Turned(f, k) == Onward(f[k - 1], last)
           Fills(f) == f = [k \in 0 .. n |-> IF k = 0 THEN i ELSE Turned(f, k)]
           after == CHOOSE f : Fills(f)
           walks == [k \in 1 .. n |-> [x \in X |-> Onward(x, last)]]
<1>1. n \in Nat /\ Nowhere \in X
  BY LenProperties DEF NoWayInto, Nowhere
<1>2. Run(i, last) = IF Stops(after[n]) THEN after[n] ELSE Nowhere
  BY DEF Run
<1>3. \A x \in X : Onward(x, last) \in X
  BY OnwardStaysOut
<1> HIDE DEF X, n
<1>4. Len(walks) = n /\ \A k \in 1 .. n : \A x \in X : walks[k][x] = Onward(x, last)
  BY <1>1
<1>5. i \in X
  BY DEF X
<1> HIDE DEF walks
<1>6. PICK w : Stages(w, X, walks, i)
  BY <1>1, <1>3, <1>4, <1>5, StagesExist
<1>7. /\ w \in [0 .. n -> X] /\ w[0] = i
      /\ \A k \in 1 .. n : w[k] = walks[k][w[k - 1]]
  BY <1>4, <1>6 DEF Stages
<1>8. \A k \in 0 .. n : k # 0 => k \in 1 .. n /\ k - 1 \in 0 .. n
  BY <1>1
<1>9. \A k \in 1 .. n : w[k] = Turned(w, k)
  <2>1. \A k \in 1 .. n : k \in 0 .. n /\ k # 0
    BY <1>1
  <2> QED BY <1>4, <1>7, <1>8, <2>1
<1> HIDE DEF Turned
<1>10. Fills(w)
  <2>1. w = [k \in 0 .. n |-> w[k]]
    BY <1>7
  <2>2. \A k \in 0 .. n : w[k] = IF k = 0 THEN i ELSE Turned(w, k)
    BY <1>7, <1>8, <1>9
  <2> QED BY <2>1, <2>2
<1>11. Fills(after)
  <2> HIDE DEF Fills
  <2> QED BY <1>10
<1> HIDE DEF after
<1>12. \A k \in 0 .. n : after[k] = IF k = 0 THEN i ELSE Turned(after, k)
  BY <1>11
<1> DEFINE T == {k \in 0 .. n : after[k] \in X}
<1>13. 0 \in T
  BY <1>1, <1>5, <1>12
<1>14. ASSUME NEW k \in 1 .. n, k - 1 \in T PROVE k \in T
  <2>1. k \in 0 .. n /\ k # 0
    BY <1>1
  <2>2. Turned(after, k) \in X
    BY <1>3, <1>14 DEF Turned
  <2> QED BY <1>12, <2>1, <2>2
<1>15. after[n] \in X
  <2>1. \A k \in 0 .. n : k \in T
    <3> HIDE DEF T
    <3> QED BY <1>1, <1>13, <1>14, UpTo
  <2>2. n \in 0 .. n
    BY <1>1
  <2> QED BY <2>1, <2>2
<1> QED BY <1>1, <1>2, <1>15 DEF X

(* Where the end of the function is, execution is not and does not come.    *)
OutOfReach ==
  ReturnsAlways(program) => \E Bad : NoWayInto(Bad, code) /\ pc \in Nat \ Bad

(* A body semantic analysis says always returns never executes the end of   *)
(* the function: the checks of cc_visit_function_definition are enough for  *)
(* the code of cc_codegen_function, whatever values the conditions have.    *)
THEOREM ReturningBodiesReturn == Spec => []ReturningBodiesNeverEnd
<1>1. Init => OutOfReach
  <2> SUFFICES ASSUME Init, ReturnsAlways(program)
               PROVE  \E Bad : NoWayInto(Bad, code) /\ pc \in Nat \ Bad
    BY DEF OutOfReach
  <2>1. program \in Statement[Height] /\ code = Lowered(program).code /\ pc = Run(1, NoOperand)
    BY ProgramsAssumption DEF Init, code
  <2>2. PICK Bad : NoWayInto(Bad, code)
    BY <2>1, FunctionSealed
  <2>3. 1 \in Nat \ Bad
    BY <2>2 DEF NoWayInto
  <2>4. pc \in Nat \ Bad
    BY <2>1, <2>2, <2>3, RunStaysOut
  <2> QED BY <2>2, <2>4
<1>2. OutOfReach /\ [Next]_vars => OutOfReach'
  <2> SUFFICES ASSUME OutOfReach, [Next]_vars PROVE OutOfReach'
    OBVIOUS
  <2>1. ASSUME NEW v \in Values, Evaluate(v), ReturnsAlways(program)
        PROVE  \E Bad : NoWayInto(Bad, code) /\ pc' \in Nat \ Bad
    <3>1. PICK Bad : NoWayInto(Bad, code) /\ pc \in Nat \ Bad
      BY <2>1 DEF OutOfReach
    <3>2. pc \in DOMAIN code /\ code[pc].op = "eval" /\ pc' = Run(pc + 1, operand')
      BY <2>1 DEF Evaluate
    <3>3. pc + 1 \in Nat \ Bad
      <4>1. pc + 1 \in Nat /\ pc + 1 - 1 = pc
        BY <3>1
      <4>2. pc + 1 \notin Bad
        BY <3>1, <3>2, <4>1 DEF NoWayInto, Leaving
      <4> QED BY <4>1, <4>2
    <3>4. ASSUME NEW last PROVE Run(pc + 1, last) \in Nat \ Bad
      BY <3>1, <3>3, RunStaysOut
    <3> QED BY <3>1, <3>2, <3>4
  <2>2. CASE Next
    <3>1. PICK v \in Values : Evaluate(v)
      BY <2>2 DEF Next
    <3>2. program' = program /\ code' = code
      BY <3>1 DEF Evaluate, code
    <3> QED BY <2>1, <3>1, <3>2 DEF OutOfReach
  <2>3. CASE UNCHANGED vars
    BY <2>3 DEF vars, OutOfReach, code
  <2> QED BY <2>2, <2>3
<1>3. OutOfReach => ReturningBodiesNeverEnd
  <2> SUFFICES ASSUME OutOfReach, pc \in DOMAIN code, code[pc].op = "endfunc",
                      ReturnsAlways(program)
               PROVE  FALSE
    BY DEF ReturningBodiesNeverEnd
  <2>1. PICK Bad : NoWayInto(Bad, code) /\ pc \in Nat \ Bad
    BY DEF OutOfReach
  <2>2. pc \in 1 .. Len(code)
    BY <2>1, LenProperties DEF NoWayInto
  <2> QED BY <2>1, <2>2 DEF NoWayInto
<1> QED BY <1>1, <1>2, <1>3, PTL DEF Spec
=============================================================================
