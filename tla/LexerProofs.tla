---------------------------- MODULE LexerProofs ----------------------------
(***************************************************************************)
(* Proofs about Lexer, for any texts.                                      *)
(*                                                                         *)
(* The argument: the lexer moves by Advance alone, which takes a position  *)
(* that is where it says to another one; so does every loop made of it,    *)
(* and every scan made of loops.  From that, every turn of the main loop   *)
(* goes forward, and what it leaves behind without a token is white space  *)
(* or a comment as C has them.                                             *)
(*                                                                         *)
(* That the tokens are C's is a second argument.  What is from a place of  *)
(* the text on, in pieces, is unfolded once; what a word of the text is,   *)
(* is said by its ends; every scan is shown to end where such words do.    *)
(* Then every turn takes off the first piece of what is left, or complains *)
(* where what is left is not well-formed.                                  *)
(***************************************************************************)
EXTENDS CTokens, FiniteSetTheorems, SequenceTheorems, WellFoundedInduction, TLAPS

-----------------------------------------------------------------------------
(* Loops.                                                                  *)

(* A nonempty set of naturals has a least member.                          *)
LEMMA LeastNumber ==
  ASSUME NEW T \in SUBSET Nat, T # {}
  PROVE  \E x \in T : \A y \in T : x <= y
<1> DEFINE R == OpToRel(<, Nat)
<1>1. IsWellFoundedOn(R, Nat)
  BY NatLessThanWellFounded
<1>2. \A x, y \in Nat : <<x, y>> \in R <=> x < y
  BY DEF OpToRel
<1> HIDE DEF R
<1>3. PICK x \in T : \A y \in T : ~ (<<y, x>> \in R)
  BY <1>1, WFMin, Zenon
<1>4. ASSUME NEW y \in T PROVE x <= y
  <2>1. x \in Nat /\ y \in Nat
    OBVIOUS
  <2>2. ~ (y < x)
    BY <1>2, <1>3, <2>1
  <2> QED BY <2>1, <2>2
<1> QED BY <1>4

(* The turns of a loop: n steps from x.                                    *)
Turns(w, S, step, x, n) ==
  /\ w \in [0 .. n -> S]
  /\ w[0] = x
  /\ \A k \in 1 .. n : w[k] = step[w[k - 1]]

(* A loop can make any number of turns.                                    *)
LEMMA TurnsExist ==
  ASSUME NEW S, NEW step \in [S -> S], NEW x \in S, NEW n \in Nat
  PROVE  \E w : Turns(w, S, step, x, n)
<1> DEFINE Bad == {m \in Nat : ~ \E w : Turns(w, S, step, x, m)}
<1>1. ASSUME Bad # {} PROVE FALSE
  <2>1. PICK m \in Bad : \A j \in Bad : m <= j
    <3>1. Bad \in SUBSET Nat
      OBVIOUS
    <3> HIDE DEF Bad
    <3> QED BY <1>1, <3>1, LeastNumber
  <2>2. m \in Nat /\ ~ \E w : Turns(w, S, step, x, m)
    OBVIOUS
  <2>3. m # 0
    <3> DEFINE w == [i \in 0 .. 0 |-> x]
    <3>1. w \in [0 .. 0 -> S] /\ w[0] = x
      OBVIOUS
    <3>2. \A k \in 1 .. 0 : FALSE
      OBVIOUS
    <3> HIDE DEF w
    <3>3. Turns(w, S, step, x, 0)
      BY <3>1, <3>2 DEF Turns
    <3> QED BY <2>2, <3>3
  <2>4. m - 1 \in Nat /\ ~(m <= m - 1)
    BY <2>2, <2>3
  <2>5. m - 1 \notin Bad
    <3> HIDE DEF Bad
    <3> QED BY <2>1, <2>4
  <2>6. PICK v : Turns(v, S, step, x, m - 1)
    BY <2>4, <2>5
  <2> DEFINE w == [i \in 0 .. m |-> IF i = m THEN step[v[m - 1]] ELSE v[i]]
  <2>7. v \in [0 .. m - 1 -> S] /\ v[0] = x /\ \A k \in 1 .. m - 1 : v[k] = step[v[k - 1]]
    BY <2>6 DEF Turns
  <2>8. w \in [0 .. m -> S]
    <3>1. v[m - 1] \in S
      BY <2>4, <2>7
    <3>2. \A i \in 0 .. m : i # m => i \in 0 .. m - 1
      BY <2>2
    <3>3. \A i \in 0 .. m : w[i] \in S
      BY <2>7, <3>1, <3>2
    <3> QED BY <3>3
  <2>9. w[0] = x
    BY <2>2, <2>3, <2>7
  <2>10. ASSUME NEW k \in 1 .. m PROVE w[k] = step[w[k - 1]]
    <3>1. k - 1 \in 0 .. m /\ k \in 0 .. m /\ k - 1 # m /\ (k # m => k \in 1 .. m - 1)
      BY <2>2
    <3>2. w[k - 1] = v[k - 1]
      BY <3>1
    <3>3. CASE k = m
      BY <3>1, <3>2, <3>3
    <3>4. CASE k # m
      BY <2>7, <3>1, <3>2, <3>4
    <3> QED BY <3>3, <3>4
  <2> HIDE DEF w
  <2>11. Turns(w, S, step, x, m)
    BY <2>8, <2>9, <2>10 DEF Turns
  <2> QED BY <2>2, <2>11
<1>2. n \notin Bad
  BY <1>1
<1> QED BY <1>2

(* Two sequences of turns that begin alike and go on alike.                *)
LEMMA SameTurns ==
  ASSUME NEW n \in Nat, NEW v, NEW w, v[0] = w[0],
         \A k \in 1 .. n : v[k - 1] = w[k - 1] => v[k] = w[k]
  PROVE  v[n] = w[n]
<1> DEFINE T == {i \in 0 .. n : v[i] # w[i]}
<1>1. ASSUME T # {} PROVE FALSE
  <2>1. PICK i \in T : \A j \in T : i <= j
    <3>1. T \in SUBSET Nat
      OBVIOUS
    <3> HIDE DEF T
    <3> QED BY <1>1, <3>1, LeastNumber
  <2>2. i \in 0 .. n /\ v[i] # w[i] /\ i # 0
    OBVIOUS
  <2>3. i \in 1 .. n /\ i - 1 \in 0 .. n /\ ~(i <= i - 1)
    BY <2>2
  <2>4. i - 1 \notin T
    <3> HIDE DEF T
    <3> QED BY <2>1, <2>3
  <2> QED BY <2>2, <2>3, <2>4
<1>2. n \in 0 .. n
  OBVIOUS
<1> QED BY <1>1, <1>2

(* The turns of a loop that moves a position while it is at one of the     *)
(* places.                                                                 *)
Moves(w, S, p, places, n) ==
  /\ w \in [0 .. n -> S]
  /\ w[0] = p
  /\ \A k \in 1 .. n : w[k] = OneMore(w[k - 1], places)

(* Where the loop ends.                                                    *)
LEMMA PastAtMostIs ==
  ASSUME NEW S, NEW p \in S, NEW places, NEW n \in Nat,
         \A q \in S : OneMore(q, places) \in S
  PROVE  \E w : Moves(w, S, p, places, n) /\ PastAtMost(p, places, n) = w[n]
<1> DEFINE Turned(f, k) == OneMore(f[k - 1], places)
           Fills(f) == f = [k \in 0 .. n |-> IF k = 0 THEN p ELSE Turned(f, k)]
           past == CHOOSE f : Fills(f)
           step == [q \in S |-> OneMore(q, places)]
<1>1. PastAtMost(p, places, n) = past[n]
  BY DEF PastAtMost
<1>2. step \in [S -> S] /\ \A q \in S : step[q] = OneMore(q, places)
  OBVIOUS
<1> HIDE DEF step
<1>3. PICK w : Turns(w, S, step, p, n)
  BY <1>2, TurnsExist
<1>4. /\ w \in [0 .. n -> S] /\ w[0] = p
      /\ \A k \in 1 .. n : w[k] = Turned(w, k)
  <2>1. w \in [0 .. n -> S] /\ w[0] = p /\ \A k \in 1 .. n : w[k] = step[w[k - 1]]
    BY <1>3 DEF Turns
  <2>2. \A k \in 1 .. n : k - 1 \in 0 .. n
    OBVIOUS
  <2> QED BY <1>2, <2>1, <2>2
<1>5. \A k \in 0 .. n : k # 0 => k \in 1 .. n
  OBVIOUS
<1> HIDE DEF Turned
<1>6. Fills(w)
  <2>1. w = [k \in 0 .. n |-> w[k]]
    BY <1>4
  <2>2. \A k \in 0 .. n : w[k] = IF k = 0 THEN p ELSE Turned(w, k)
    BY <1>4, <1>5
  <2> QED BY <2>1, <2>2
<1>7. Fills(past)
  <2> HIDE DEF Fills
  <2> QED BY <1>6
<1> HIDE DEF past
<1>8. \A k \in 0 .. n : past[k] = IF k = 0 THEN p ELSE Turned(past, k)
  BY <1>7
<1>9. past[n] = w[n]
  <2>1. past[0] = w[0]
    <3>1. 0 \in 0 .. n
      OBVIOUS
    <3> QED BY <1>4, <1>8, <3>1
  <2>2. ASSUME NEW k \in 1 .. n, past[k - 1] = w[k - 1] PROVE past[k] = w[k]
    <3>1. k \in 0 .. n /\ k # 0
      OBVIOUS
    <3>2. Turned(past, k) = Turned(w, k)
      BY <2>2 DEF Turned
    <3> QED BY <1>4, <1>8, <3>1, <3>2
  <2> QED BY <2>1, <2>2, SameTurns
<1>10. Moves(w, S, p, places, n)
  BY <1>4 DEF Moves, Turned
<1> QED BY <1>1, <1>9, <1>10

-----------------------------------------------------------------------------
(* Positions.                                                              *)

(* The beginnings of lines up to i.                                        *)
Begun(i) == {b \in Beginnings : b <= i}

(* A position is where it says.                                            *)
IsTrue(p) ==
  /\ p.line = Cardinality(Begun(p.at))
  /\ \E b \in Begun(p.at) : p.column = p.at - b + 1 /\ \A c \in Begun(p.at) : c <= b

PositionSet == [at : Nat, line : Nat, column : Int]

Positions == {p \in PositionSet : p.at \in 1 .. Len(text) + 1 /\ IsTrue(p)}

PositionsFrom(i) == {p \in Positions : p.at >= i}

IsText == text \in Seq(STRING)

(* Beginnings are places, and which they are.                              *)
LEMMA BeginningsAre ==
  ASSUME IsText
  PROVE  /\ Beginnings \subseteq 1 .. Len(text) + 1
         /\ 1 \in Beginnings
         /\ \A i \in 1 .. Len(text) :
              i + 1 \in Beginnings <=>
                text[i] = NL \/ (text[i] = CR /\ (i = Len(text) \/ text[i + 1] # NL))
<1>1. DOMAIN text = 1 .. Len(text) /\ Len(text) \in Nat
  BY DEF IsText
<1> DEFINE Ends(j) == text[j] = NL \/ (text[j] = CR /\ (j = Len(text) \/ text[j + 1] # NL))
<1>2. Beginnings = {1} \union {i + 1 : i \in {j \in DOMAIN text : Ends(j)}}
  BY DEF Beginnings
<1> HIDE DEF Ends
<1>3. \A i \in 1 .. Len(text) : i + 1 \in Beginnings <=> Ends(i)
  BY <1>1, <1>2
<1>4. Beginnings \subseteq 1 .. Len(text) + 1 /\ 1 \in Beginnings
  BY <1>1, <1>2
<1> QED BY <1>3, <1>4 DEF Ends

LEMMA BegunIsFinite ==
  ASSUME IsText, NEW i
  PROVE  IsFiniteSet(Begun(i)) /\ Cardinality(Begun(i)) \in Nat
<1>1. Len(text) + 1 \in Nat /\ 1 \in Nat
  BY DEF IsText
<1>2. IsFiniteSet(1 .. Len(text) + 1)
  BY <1>1, FS_Interval
<1>3. Begun(i) \subseteq 1 .. Len(text) + 1
  BY BeginningsAre DEF Begun
<1> QED BY <1>2, <1>3, FS_Subset, FS_CardinalityType

(* At the beginning of a text.                                             *)
LEMMA FirstPosition ==
  ASSUME IsText
  PROVE  [at |-> 1, line |-> 1, column |-> 1] \in Positions
<1>1. Begun(1) = {1}
  BY BeginningsAre DEF Begun
<1>2. Cardinality({1}) = 1
  BY FS_Singleton
<1>3. 1 \in 1 .. Len(text) + 1
  BY DEF IsText
<1> DEFINE p == [at |-> 1, line |-> 1, column |-> 1]
<1>4. p \in PositionSet /\ p.at = 1 /\ p.line = 1 /\ p.column = 1
  BY DEF PositionSet
<1> HIDE DEF p
<1>5. p.column = p.at - 1 + 1
  BY <1>4
<1>6. IsTrue(p)
  BY <1>1, <1>2, <1>4, <1>5 DEF IsTrue
<1>7. p \in Positions
  BY <1>3, <1>4, <1>6 DEF Positions
<1> QED BY <1>7 DEF p

(* On the same line.                                                       *)
LEMMA NextColumn ==
  ASSUME IsText, NEW p \in Positions, p.at <= Len(text), p.at + 1 \notin Beginnings
  PROVE  [p EXCEPT !.at = @ + 1, !.column = @ + 1] \in Positions
<1> DEFINE q == [p EXCEPT !.at = @ + 1, !.column = @ + 1]
<1>1. p \in PositionSet /\ p.at \in 1 .. Len(text) + 1 /\ IsTrue(p) /\ Len(text) \in Nat
  BY DEF Positions, IsText
<1>2. q \in PositionSet /\ q.at = p.at + 1 /\ q.line = p.line /\ q.column = p.column + 1
  <2>1. p = [at |-> p.at, line |-> p.line, column |-> p.column]
    BY <1>1 DEF PositionSet
  <2>2. p.at \in Nat /\ p.line \in Nat /\ p.column \in Int
    BY <1>1 DEF PositionSet
  <2> DEFINE moved == [p EXCEPT !.at = @ + 1]
  <2>3. moved = [at |-> p.at + 1, line |-> p.line, column |-> p.column]
    BY <2>1
  <2>4. q = [moved EXCEPT !.column = p.column + 1]
    OBVIOUS
  <2> HIDE DEF moved, q
  <2>5. q = [at |-> p.at + 1, line |-> p.line, column |-> p.column + 1]
    BY <2>3, <2>4
  <2> QED BY <2>2, <2>5 DEF PositionSet
<1>3. Begun(p.at + 1) = Begun(p.at)
  <2>1. \A b \in Beginnings : b \in Nat /\ b # p.at + 1
    BY BeginningsAre
  <2>2. p.at \in Nat
    BY <1>1
  <2>3. \A b \in Beginnings : b <= p.at + 1 <=> b <= p.at
    BY <2>1, <2>2
  <2> QED BY <2>3 DEF Begun
<1> HIDE DEF q
<1>4. PICK b \in Begun(p.at) : p.column = p.at - b + 1 /\ \A c \in Begun(p.at) : c <= b
  BY <1>1 DEF IsTrue
<1>5. b \in Nat /\ p.at \in Nat
  BY <1>1, BeginningsAre DEF Begun
<1>6. q.column = q.at - b + 1
  BY <1>2, <1>4, <1>5
<1>7. IsTrue(q)
  BY <1>1, <1>2, <1>3, <1>4, <1>6 DEF IsTrue
<1>8. q.at \in 1 .. Len(text) + 1
  BY <1>1, <1>2
<1> QED BY <1>2, <1>7, <1>8 DEF Positions, q

(* At the beginning of the next line.                                      *)
LEMMA NextLineIs ==
  ASSUME IsText, NEW p \in Positions, NEW n \in 1 .. 2, p.at + n <= Len(text) + 1,
         p.at + n \in Beginnings, n = 2 => p.at + 1 \notin Beginnings
  PROVE  NextLine(p, n) \in Positions
<1> DEFINE q == NextLine(p, n)
<1>1. p \in PositionSet /\ p.at \in 1 .. Len(text) + 1 /\ IsTrue(p) /\ Len(text) \in Nat
  BY DEF Positions, IsText
<1>2. q \in PositionSet /\ q.at = p.at + n /\ q.line = p.line + 1 /\ q.column = 1
  BY <1>1 DEF PositionSet, NextLine
<1>3. Begun(p.at + n) = Begun(p.at) \union {p.at + n}
  <2>1. \A b \in Beginnings : b \in Nat /\ (n = 2 => b # p.at + 1)
    BY BeginningsAre
  <2>2. p.at \in Nat
    BY <1>1
  <2>3. \A b \in Beginnings : b <= p.at + n <=> b <= p.at \/ b = p.at + n
    BY <2>1, <2>2
  <2> QED BY <2>3 DEF Begun
<1>4. p.at + n \notin Begun(p.at)
  BY <1>1 DEF Begun
<1>5. Cardinality(Begun(p.at + n)) = Cardinality(Begun(p.at)) + 1
  BY <1>3, <1>4, BegunIsFinite, FS_AddElement
<1>6. \A c \in Begun(p.at + n) : c <= p.at + n
  BY DEF Begun
<1>7. p.at + n \in Begun(p.at + n)
  BY <1>3
<1> HIDE DEF q
<1>8. q.column = q.at - (p.at + n) + 1
  BY <1>1, <1>2
<1>9. IsTrue(q)
  BY <1>1, <1>2, <1>5, <1>6, <1>7, <1>8 DEF IsTrue
<1>10. q.at \in 1 .. Len(text) + 1
  BY <1>1, <1>2
<1> QED BY <1>2, <1>9, <1>10 DEF Positions, q

(* The one function that consumes a character: from a true position to a   *)
(* true one.                                                               *)
LEMMA AdvanceIs ==
  ASSUME IsText, NEW p \in Positions
  PROVE  /\ Advance(p) \in Positions
         /\ AtEnd(p) => Advance(p) = p
         /\ ~AtEnd(p) => \/ Advance(p).at = p.at + 1
                         \/ /\ Advance(p).at = p.at + 2
                            /\ text[p.at] = CR
                            /\ p.at + 1 <= Len(text) /\ text[p.at + 1] = NL
<1>1. p \in PositionSet /\ p.at \in Nat /\ p.at >= 1 /\ p.at <= Len(text) + 1 /\ Len(text) \in Nat
  BY DEF Positions, PositionSet, IsText
<1>2. CASE AtEnd(p)
  BY <1>2 DEF Advance
<1>3. CASE ~AtEnd(p)
  <2>1. p.at <= Len(text) /\ p.at \in 1 .. Len(text)
    BY <1>1, <1>3 DEF AtEnd
  <2>2. Ahead(p) = text[p.at]
    BY <1>1, <2>1 DEF Ahead, Peek
  <2>3. p.at + 1 \in Beginnings <=>
           text[p.at] = NL \/ (text[p.at] = CR /\ (p.at = Len(text) \/ text[p.at + 1] # NL))
    BY <2>1, BeginningsAre
  <2>4. CR # NL /\ NUL # NL
    BY DEF CR, NL, NUL
  <2>5. CASE text[p.at] = CR /\ Peek(p, 1) = NL
    <3>1. p.at + 1 <= Len(text) /\ text[p.at + 1] = NL
      BY <1>1, <2>4, <2>5 DEF Peek
    <3>2. p.at + 1 \notin Beginnings
      BY <1>1, <2>3, <2>4, <2>5, <3>1
    <3>3. p.at + 2 \in Beginnings
      <4>1. p.at + 1 \in 1 .. Len(text) /\ (p.at + 1) + 1 = p.at + 2
        BY <1>1, <3>1
      <4> QED BY <3>1, <4>1, BeginningsAre
    <3>4. p.at + 2 <= Len(text) + 1
      BY <1>1, <3>1
    <3>5. NextLine(p, 2) \in Positions
      BY <3>2, <3>3, <3>4, NextLineIs
    <3>6. Advance(p) = NextLine(p, 2)
      BY <1>3, <2>2, <2>5 DEF Advance
    <3> QED BY <1>3, <2>5, <3>1, <3>5, <3>6 DEF NextLine
  <2>6. CASE text[p.at] = NL \/ (text[p.at] = CR /\ Peek(p, 1) # NL)
    <3>1. p.at + 1 \in Beginnings
      <4>1. text[p.at] = CR /\ p.at # Len(text) => text[p.at + 1] # NL
        BY <1>1, <2>1, <2>4, <2>6 DEF Peek
      <4> QED BY <2>3, <2>6, <4>1
    <3>2. p.at + 1 <= Len(text) + 1
      BY <1>1, <2>1
    <3>3. NextLine(p, 1) \in Positions
      BY <3>1, <3>2, NextLineIs
    <3>4. Advance(p) = NextLine(p, 1)
      BY <1>3, <2>2, <2>4, <2>6 DEF Advance
    <3> QED BY <1>3, <3>3, <3>4 DEF NextLine
  <2>7. CASE text[p.at] # NL /\ text[p.at] # CR
    <3>1. p.at + 1 \notin Beginnings
      BY <2>3, <2>7
    <3>2. Advance(p) = [p EXCEPT !.at = @ + 1, !.column = @ + 1]
      BY <1>3, <2>2, <2>7 DEF Advance
    <3>3. Advance(p) \in Positions
      BY <2>1, <3>1, <3>2, NextColumn
    <3>4. Advance(p).at = p.at + 1
      BY <1>1, <3>2 DEF PositionSet
    <3> QED BY <1>3, <3>3, <3>4
  <2> QED BY <2>5, <2>6, <2>7
<1> QED BY <1>2, <1>3

-----------------------------------------------------------------------------
(* Loops over positions.                                                   *)

(* A turn.                                                                 *)
LEMMA OneMoreIs ==
  ASSUME IsText, NEW p \in Positions, NEW places \in SUBSET DOMAIN text
  PROVE  /\ OneMore(p, places) \in PositionsFrom(p.at)
         /\ p.at \in Nat
         /\ p.at \in places => OneMore(p, places) = Advance(p) /\ OneMore(p, places).at >= p.at + 1
         /\ p.at \notin places => OneMore(p, places) = p
<1>1. p.at \in Nat /\ p.at >= 1 /\ Len(text) \in Nat /\ DOMAIN text = 1 .. Len(text)
  BY DEF Positions, IsText
<1>2. CASE p.at \in places
  <2>1. ~AtEnd(p)
    BY <1>1, <1>2 DEF AtEnd
  <2>2. OneMore(p, places) = Advance(p)
    BY <1>2 DEF OneMore
  <2>3. Advance(p) \in Positions /\ (Advance(p).at = p.at + 1 \/ Advance(p).at = p.at + 2)
    BY <2>1, AdvanceIs
  <2> QED BY <1>1, <1>2, <2>2, <2>3 DEF PositionsFrom
<1>3. CASE p.at \notin places
  <2>1. OneMore(p, places) = p
    BY <1>3 DEF OneMore
  <2>2. p.at >= p.at
    BY <1>1
  <2> QED BY <1>1, <1>3, <2>1, <2>2 DEF PositionsFrom
<1> QED BY <1>2, <1>3

(* What is at i or behind is at j or behind.                               *)
LEMMA FromIs ==
  ASSUME IsText, NEW i \in Nat, NEW p \in PositionsFrom(i)
  PROVE  p \in Positions /\ p.at \in Nat /\ p.at >= i /\ PositionsFrom(p.at) \subseteq PositionsFrom(i)
<1>1. p \in Positions /\ p.at >= i /\ p.at \in Nat
  BY DEF PositionsFrom, Positions, IsText
<1>2. ASSUME NEW q \in PositionsFrom(p.at) PROVE q.at >= i /\ q \in Positions
  <2>1. q \in Positions /\ q.at >= p.at /\ q.at \in Nat
    BY DEF PositionsFrom, Positions, IsText
  <2> QED BY <1>1, <2>1
<1> QED BY <1>1, <1>2 DEF PositionsFrom

(* The turns of a loop from a position.                                    *)
LEMMA LoopIs ==
  ASSUME IsText, NEW p \in Positions, NEW places \in SUBSET DOMAIN text, NEW n \in Nat
  PROVE  /\ p.at \in Nat /\ p \in PositionsFrom(p.at)
         /\ \E w : Moves(w, PositionsFrom(p.at), p, places, n) /\ PastAtMost(p, places, n) = w[n]
<1> DEFINE S == PositionsFrom(p.at)
<1>1. p.at \in Nat /\ p \in S
  BY DEF PositionsFrom, Positions, IsText
<1>2. ASSUME NEW q \in S PROVE OneMore(q, places) \in S
  <2>1. q \in Positions /\ PositionsFrom(q.at) \subseteq S
    BY <1>1, FromIs
  <2> QED BY <2>1, OneMoreIs
<1> HIDE DEF S
<1>3. \E w : Moves(w, S, p, places, n) /\ PastAtMost(p, places, n) = w[n]
  BY <1>1, <1>2, PastAtMostIs
<1> QED BY <1>1, <1>3 DEF S

(* A loop does not go back.                                                *)
LEMMA LoopStays ==
  ASSUME IsText, NEW p \in Positions, NEW places \in SUBSET DOMAIN text, NEW n \in Nat
  PROVE  PastAtMost(p, places, n) \in PositionsFrom(p.at)
<1>1. PICK w : Moves(w, PositionsFrom(p.at), p, places, n) /\ PastAtMost(p, places, n) = w[n]
  BY LoopIs
<1>2. n \in 0 .. n
  OBVIOUS
<1> QED BY <1>1, <1>2 DEF Moves

(* A loop that makes a turn goes forward.                                  *)
LEMMA LoopGoesOn ==
  ASSUME IsText, NEW p \in Positions, NEW places \in SUBSET DOMAIN text, NEW n \in Nat,
         n >= 1, p.at \in places
  PROVE  PastAtMost(p, places, n).at > p.at
<1>1. PICK w : Moves(w, PositionsFrom(p.at), p, places, n) /\ PastAtMost(p, places, n) = w[n]
  BY LoopIs
<1>2. /\ w \in [0 .. n -> PositionsFrom(p.at)]
      /\ w[0] = p
      /\ \A k \in 1 .. n : w[k] = OneMore(w[k - 1], places)
  BY <1>1 DEF Moves
<1>3. p.at \in Nat
  BY LoopIs
<1>4. ASSUME NEW k \in 0 .. n PROVE w[k] \in Positions /\ w[k].at \in Nat /\ w[k].at >= p.at
  BY <1>2, <1>3, FromIs
<1>5. w[1].at > p.at
  <2>1. w[1] = OneMore(p, places)
    <3>1. 1 \in 1 .. n /\ 1 - 1 = 0
      OBVIOUS
    <3> QED BY <1>2, <3>1
  <2>2. 1 \in 0 .. n
    OBVIOUS
  <2> QED BY <1>3, <1>4, <2>1, <2>2, OneMoreIs
<1> DEFINE T == {k \in 1 .. n : ~(w[k].at > p.at)}
<1>6. ASSUME T # {} PROVE FALSE
  <2>1. PICK k \in T : \A j \in T : k <= j
    <3>1. T \in SUBSET Nat
      OBVIOUS
    <3> HIDE DEF T
    <3> QED BY <1>6, <3>1, LeastNumber
  <2>2. k \in 1 .. n /\ ~(w[k].at > p.at) /\ k # 1
    BY <1>5
  <2>3. k - 1 \in 1 .. n /\ k - 1 \in 0 .. n /\ k \in 0 .. n /\ ~(k <= k - 1)
    BY <2>2
  <2>4. w[k - 1].at > p.at
    <3>1. k - 1 \notin T
      <4> HIDE DEF T
      <4> QED BY <2>1, <2>3
    <3> QED BY <2>3, <3>1
  <2>5. w[k] \in PositionsFrom(w[k - 1].at)
    BY <1>2, <1>4, <2>2, <2>3, OneMoreIs
  <2>6. w[k].at >= w[k - 1].at
    BY <2>5 DEF PositionsFrom
  <2> QED BY <1>3, <1>4, <2>2, <2>3, <2>4, <2>6
<1>7. n \in 1 .. n
  OBVIOUS
<1> QED BY <1>1, <1>6, <1>7

(* A loop of as many turns as there are characters has ended.              *)
LEMMA LoopEnds ==
  ASSUME IsText, NEW p \in Positions, NEW places \in SUBSET DOMAIN text
  PROVE  PastAtMost(p, places, Len(text)).at \notin places
<1> DEFINE n == Len(text)
<1>0. n \in Nat /\ DOMAIN text = 1 .. n
  BY DEF IsText
<1> HIDE DEF n
<1>1. PICK w : Moves(w, PositionsFrom(p.at), p, places, n) /\ PastAtMost(p, places, n) = w[n]
  BY <1>0, LoopIs
<1>2. /\ w \in [0 .. n -> PositionsFrom(p.at)]
      /\ w[0] = p
      /\ \A k \in 1 .. n : w[k] = OneMore(w[k - 1], places)
  BY <1>1 DEF Moves
<1>3. p.at \in Nat /\ p.at >= 1
  BY LoopIs DEF Positions
<1>4. ASSUME NEW k \in 0 .. n PROVE w[k] \in Positions /\ w[k].at \in Nat
  BY <1>2, <1>3, FromIs
<1> DEFINE T == {k \in 0 .. n : w[k].at \in places /\ ~(w[k].at >= p.at + k)}
<1>5. ASSUME T # {} PROVE FALSE
  <2>1. PICK k \in T : \A j \in T : k <= j
    <3>1. T \in SUBSET Nat
      BY <1>0
    <3> HIDE DEF T
    <3> QED BY <1>5, <3>1, LeastNumber
  <2>2. k \in 0 .. n /\ w[k].at \in places /\ ~(w[k].at >= p.at + k)
    OBVIOUS
  <2>3. k # 0
    BY <1>2, <1>3, <2>2
  <2>4. k \in 1 .. n /\ k - 1 \in 0 .. n /\ ~(k <= k - 1)
    BY <1>0, <2>2, <2>3
  <2>5. w[k] = OneMore(w[k - 1], places) /\ w[k - 1] \in Positions /\ w[k - 1].at \in Nat
    BY <1>2, <1>4, <2>4
  <2>6. w[k - 1].at \in places /\ w[k].at >= w[k - 1].at + 1
    BY <2>2, <2>5, OneMoreIs
  <2>7. w[k - 1].at >= p.at + (k - 1)
    <3>1. k - 1 \notin T
      <4> HIDE DEF T
      <4> QED BY <2>1, <2>4
    <3> QED BY <2>4, <2>6, <3>1
  <2> QED BY <1>3, <1>4, <2>2, <2>5, <2>6, <2>7
<1>6. n \in 0 .. n
  BY <1>0
<1>7. w[n].at \in places => w[n].at >= p.at + n
  BY <1>5, <1>6
<1>8. w[n].at \in places => w[n].at <= n
  BY <1>0
<1>9. w[n].at \notin places
  BY <1>0, <1>3, <1>4, <1>6, <1>7, <1>8
<1> QED BY <1>1, <1>9 DEF n

(* A loop passes only over the characters it is for, if with a carriage    *)
(* return it is for the line feed behind it.                               *)
LEMMA LoopPasses ==
  ASSUME IsText, NEW p \in Positions, NEW places \in SUBSET DOMAIN text, NEW n \in Nat,
         \A i \in places : text[i] = CR /\ i + 1 <= Len(text) /\ text[i + 1] = NL => i + 1 \in places
  PROVE  \A i \in p.at .. PastAtMost(p, places, n).at - 1 : i \in places
<1> DEFINE S == {q \in PositionsFrom(p.at) : \A i \in p.at .. q.at - 1 : i \in places}
<1>1. p.at \in Nat /\ p \in PositionsFrom(p.at)
  BY LoopIs
<1>2. p \in S
  BY <1>1
<1>3. ASSUME NEW q \in S PROVE OneMore(q, places) \in S
  <2> DEFINE r == OneMore(q, places)
  <2>1. q \in Positions /\ q.at \in Nat /\ q.at >= p.at /\ PositionsFrom(q.at) \subseteq PositionsFrom(p.at)
    BY <1>1, FromIs
  <2>2. r \in PositionsFrom(p.at)
    BY <2>1, OneMoreIs
  <2>3. CASE q.at \in places
    <3>1. r = Advance(q)
      BY <2>1, <2>3, OneMoreIs
    <3>2. ~AtEnd(q)
      BY <2>3 DEF AtEnd, IsText
    <3>3. \/ r.at = q.at + 1
          \/ /\ r.at = q.at + 2 /\ text[q.at] = CR
             /\ q.at + 1 <= Len(text) /\ text[q.at + 1] = NL
      BY <2>1, <3>1, <3>2, AdvanceIs
    <3>4. r.at = q.at + 2 => q.at + 1 \in places
      BY <2>1, <2>3, <3>3
    <3>5. \A i \in p.at .. q.at - 1 : i \in places
      OBVIOUS
    <3> HIDE DEF r, S
    <3>6. \A i \in p.at .. r.at - 1 : i \in p.at .. q.at - 1 \/ i = q.at \/ (r.at = q.at + 2 /\ i = q.at + 1)
      BY <1>1, <2>1, <3>3
    <3>7. \A i \in p.at .. r.at - 1 : i \in places
      BY <2>3, <3>4, <3>5, <3>6
    <3> QED BY <2>2, <3>7 DEF S, r
  <2>4. CASE q.at \notin places
    <3>1. r = q
      BY <2>1, <2>4, OneMoreIs
    <3> QED BY <3>1
  <2> QED BY <2>3, <2>4
<1> HIDE DEF S
<1>4. PICK w : Moves(w, S, p, places, n) /\ PastAtMost(p, places, n) = w[n]
  BY <1>2, <1>3, PastAtMostIs
<1>5. n \in 0 .. n
  OBVIOUS
<1>6. PastAtMost(p, places, n) \in S
  BY <1>4, <1>5 DEF Moves
<1> QED BY <1>6 DEF S

(* A loop that is at none of its characters does nothing.                  *)
LEMMA LoopIdles ==
  ASSUME IsText, NEW p \in Positions, NEW places \in SUBSET DOMAIN text, NEW n \in Nat, p.at \notin places
  PROVE  PastAtMost(p, places, n) = p
<1>1. OneMore(p, places) = p
  BY OneMoreIs
<1> DEFINE S == {p}
<1>2. p \in S /\ \A q \in S : OneMore(q, places) \in S
  BY <1>1
<1> HIDE DEF S
<1>3. PICK w : Moves(w, S, p, places, n) /\ PastAtMost(p, places, n) = w[n]
  BY <1>2, PastAtMostIs
<1>4. n \in 0 .. n
  OBVIOUS
<1> QED BY <1>3, <1>4 DEF Moves, S

-----------------------------------------------------------------------------
(* Scans.                                                                  *)

(* What a character ahead says.                                            *)
LEMMA AheadIs ==
  ASSUME IsText, NEW p \in Positions
  PROVE  /\ p.at \in Nat /\ p.at >= 1 /\ Len(text) \in Nat /\ DOMAIN text = 1 .. Len(text)
         /\ Ahead(p) # NUL => ~AtEnd(p)
         /\ ~AtEnd(p) => p.at \in DOMAIN text /\ Ahead(p) = text[p.at] /\ Len(text) >= 1
         /\ AtEnd(p) => Ahead(p) = NUL /\ p.at = Len(text) + 1
<1>1. p.at \in Nat /\ p.at >= 1 /\ p.at <= Len(text) + 1 /\ Len(text) \in Nat /\ DOMAIN text = 1 .. Len(text)
  BY DEF Positions, IsText
<1> QED BY <1>1 DEF Ahead, Peek, AtEnd

LEMMA PeekIs ==
  ASSUME IsText, NEW p \in Positions, Peek(p, 1) # NUL
  PROVE  p.at + 1 \in DOMAIN text /\ Peek(p, 1) = text[p.at + 1]
<1>1. p.at \in Nat /\ p.at >= 1 /\ Len(text) \in Nat /\ DOMAIN text = 1 .. Len(text)
  BY AheadIs
<1> QED BY <1>1 DEF Peek

LEMMA PlacesAre ==
  ASSUME NEW class
  PROVE  /\ PlacesOf(class) \in SUBSET DOMAIN text
         /\ DOMAIN text \ PlacesOf(class) \in SUBSET DOMAIN text
         /\ DOMAIN text \ Closings \in SUBSET DOMAIN text
         /\ DOMAIN text \in SUBSET DOMAIN text
  BY DEF PlacesOf

(* Past the characters of a class.                                         *)
LEMMA PastIs ==
  ASSUME IsText, NEW p \in Positions, NEW class, NEW n \in Nat
  PROVE  /\ Past(p, class) \in PositionsFrom(p.at)
         /\ PastOne(p, class) \in PositionsFrom(p.at)
         /\ PastAtMost(p, PlacesOf(class), n) \in PositionsFrom(p.at)
         /\ AdvanceBy(p, n) \in PositionsFrom(p.at)
         /\ Advance(p) \in PositionsFrom(p.at)
<1>1. Len(text) \in Nat
  BY AheadIs
<1>2. Advance(p) \in PositionsFrom(p.at)
  <2>1. p.at \in Nat
    BY AheadIs
  <2>2. Advance(p) \in Positions /\ Advance(p).at >= p.at
    BY <2>1, AdvanceIs
  <2> QED BY <2>2 DEF PositionsFrom
<1> QED BY <1>1, <1>2, PlacesAre, LoopStays DEF Past, PastOne, AdvanceBy

(* Positions behind p.                                                     *)
Behind(p) == PositionsFrom(p.at + 1)

LEMMA BehindIs ==
  ASSUME IsText, NEW p \in Positions
  PROVE  /\ \A q \in Positions : q.at > p.at => q \in Behind(p)
         /\ \A q \in Behind(p) : q \in Positions /\ q.at > p.at /\ PositionsFrom(q.at) \subseteq Behind(p)
         /\ Behind(p) \subseteq PositionsFrom(p.at)
<1>1. p.at \in Nat /\ p.at + 1 \in Nat
  BY AheadIs
<1>2. \A q \in Positions : q.at \in Nat
  BY DEF Positions, IsText
<1>3. \A q \in Positions : q.at > p.at => q \in Behind(p)
  BY <1>1, <1>2 DEF Behind, PositionsFrom
<1>4. ASSUME NEW q \in Behind(p) PROVE q \in Positions /\ q.at > p.at /\ PositionsFrom(q.at) \subseteq Behind(p)
  <2>1. q \in Positions /\ q.at \in Nat /\ q.at >= p.at + 1 /\ PositionsFrom(q.at) \subseteq Behind(p)
    BY <1>1, FromIs DEF Behind
  <2> QED BY <1>1, <2>1
<1>5. Behind(p) \subseteq PositionsFrom(p.at)
  BY <1>1, <1>2 DEF Behind, PositionsFrom
<1> QED BY <1>3, <1>4, <1>5

(* Where something is consumed.                                            *)
LEMMA Consumed ==
  ASSUME IsText, NEW p \in Positions, ~AtEnd(p)
  PROVE  /\ Advance(p) \in Behind(p)
         /\ \A n \in Nat : n >= 1 => AdvanceBy(p, n) \in Behind(p)
         /\ \A class : Ahead(p) \in class => Past(p, class) \in Behind(p)
         /\ \A class : Ahead(p) \notin class => Past(p, class) = p
<1>1. p.at \in Nat /\ Len(text) \in Nat /\ Len(text) >= 1 /\ p.at \in DOMAIN text /\ Ahead(p) = text[p.at]
  BY AheadIs
<1>2. Advance(p) \in Behind(p)
  <2>1. Advance(p) \in Positions /\ Advance(p).at > p.at
    BY <1>1, AdvanceIs
  <2> QED BY <2>1, BehindIs
<1>3. ASSUME NEW n \in Nat, n >= 1 PROVE AdvanceBy(p, n) \in Behind(p)
  <2>1. AdvanceBy(p, n).at > p.at
    BY <1>1, <1>3, PlacesAre, LoopGoesOn DEF AdvanceBy
  <2>2. AdvanceBy(p, n) \in Positions
    BY <1>1, PastIs, FromIs
  <2> QED BY <2>1, <2>2, BehindIs
<1>4. ASSUME NEW class, Ahead(p) \in class PROVE Past(p, class) \in Behind(p)
  <2>1. p.at \in PlacesOf(class)
    BY <1>1, <1>4 DEF PlacesOf
  <2>2. Past(p, class).at > p.at
    BY <1>1, <2>1, PlacesAre, LoopGoesOn DEF Past
  <2>3. Past(p, class) \in Positions
    BY <1>1, PastIs, FromIs
  <2> QED BY <2>2, <2>3, BehindIs
<1>5. ASSUME NEW class, Ahead(p) \notin class PROVE Past(p, class) = p
  <2>1. p.at \notin PlacesOf(class)
    BY <1>1, <1>5 DEF PlacesOf
  <2> QED BY <1>1, <2>1, PlacesAre, LoopIdles DEF Past
<1> QED BY <1>2, <1>3, <1>4, <1>5

(* What literals are complained of for.                                    *)
Messages ==
  {"unfinished escape sequence", "unknown escape sequence", "not enough hexadecimal digits",
   "no hexadecimal digit", "unterminated literal"}

(* Scans of literals from i on.                                            *)
Scans(i) == [end : PositionsFrom(i), errors : Seq(Messages)]

LEMMA ScanIs ==
  ASSUME NEW i, NEW p \in PositionsFrom(i), NEW errors \in Seq(Messages)
  PROVE  Scan(p, errors) \in Scans(i) /\ Scan(p, errors).end = p /\ Scan(p, errors).errors = errors
<1> DEFINE P == PositionsFrom(i)
           E == Seq(Messages)
<1>1. p \in P /\ errors \in E
  OBVIOUS
<1> HIDE DEF P, E
<1>2. [end |-> p, errors |-> errors] \in [end : P, errors : E]
  BY <1>1
<1>3. Scan(p, errors) = [end |-> p, errors |-> errors]
  BY DEF Scan
<1> QED BY <1>2, <1>3 DEF Scans, P, E

LEMMA ErrorIs ==
  ASSUME NEW condition, NEW error \in Messages
  PROVE  ErrorIf(condition, error) \in Seq(Messages) /\ <<error>> \in Seq(Messages) /\ <<>> \in Seq(Messages)
<1>1. <<error>> \in Seq(Messages) /\ <<>> \in Seq(Messages)
  OBVIOUS
<1> DEFINE E == Seq(Messages)
           one == <<error>>
           none == <<>>
<1>2. one \in E /\ none \in E
  BY <1>1
<1> HIDE DEF E, one, none
<1>3. (IF condition THEN one ELSE none) \in E
  BY <1>2
<1> QED BY <1>1, <1>3 DEF ErrorIf, E, one, none

(* Errors one after the other.                                             *)
LEMMA ErrorsAre ==
  ASSUME NEW a \in Seq(Messages), NEW b \in Seq(Messages)
  PROVE  a \o b \in Seq(Messages)
  OBVIOUS

(* An escape.                                                              *)
LEMMA EscapeIs ==
  ASSUME IsText, NEW p \in Positions
  PROVE  Escape(p) \in Scans(p.at)
<1> DEFINE P == PositionsFrom(p.at)
           E == Seq(Messages)
           c == Ahead(p)
<1>1. p \in P /\ p.at \in Nat
  BY AheadIs DEF PositionsFrom
<1>2. Advance(p) \in P /\ PastAtMost(p, PlacesOf(OctalDigits), 3) \in P /\ Advance(p) \in Positions
  BY PastIs DEF PositionsFrom
<1>3. PositionsFrom(Advance(p).at) \subseteq P
  BY <1>1, <1>2, FromIs
<1>4. Past(Advance(p), HexDigits) \in P
  BY <1>2, <1>3, PastIs
<1>5. ASSUME NEW n \in Nat PROVE UnicodeEscape(Advance(p), n) \in Scans(p.at)
  <2> DEFINE end == PastAtMost(Advance(p), PlacesOf(HexDigits), n)
  <2>1. end \in P
    BY <1>2, <1>3, PastIs
  <2> DEFINE errors == ErrorIf(end.at # Advance(p).at + n, "not enough hexadecimal digits")
  <2>2. errors \in E
    BY ErrorIs DEF Messages
  <2>3. UnicodeEscape(Advance(p), n) = Scan(end, errors)
    BY DEF UnicodeEscape
  <2> HIDE DEF end, errors
  <2> QED BY <2>1, <2>2, <2>3, ScanIs
<1>6. <<"unfinished escape sequence">> \in E /\ <<"unknown escape sequence">> \in E /\ <<>> \in E
  BY ErrorIs DEF Messages
<1> DEFINE end == Past(Advance(p), HexDigits)
           errors == ErrorIf(end.at = p.at + 1, "no hexadecimal digit")
           hex == Scan(end, errors)
<1>7. hex \in Scans(p.at)
  <2>1. errors \in E
    BY ErrorIs DEF Messages
  <2> HIDE DEF errors
  <2> QED BY <1>4, <2>1, ScanIs
<1> HIDE DEF P, E, c, hex
<1>8. /\ Scan(p, <<"unfinished escape sequence">>) \in Scans(p.at)
      /\ Scan(Advance(p), <<>>) \in Scans(p.at)
      /\ Scan(Advance(p), <<"unknown escape sequence">>) \in Scans(p.at)
      /\ Scan(PastAtMost(p, PlacesOf(OctalDigits), 3), <<>>) \in Scans(p.at)
  BY <1>1, <1>2, <1>6, ScanIs DEF P, E
<1>9. UnicodeEscape(Advance(p), 4) \in Scans(p.at) /\ UnicodeEscape(Advance(p), 8) \in Scans(p.at)
  BY <1>5
<1>10. Escape(p) = CASE c = NUL -> Scan(p, <<"unfinished escape sequence">>)
          [] c \in LineEnds \union SimpleEscapes -> Scan(Advance(p), <<>>)
          [] c = "x" -> hex
          [] c = "u" -> UnicodeEscape(Advance(p), 4)
          [] c = "U" -> UnicodeEscape(Advance(p), 8)
          [] c \in OctalDigits -> Scan(PastAtMost(p, PlacesOf(OctalDigits), 3), <<>>)
          [] OTHER -> Scan(Advance(p), <<"unknown escape sequence">>)
  BY DEF Escape, c, hex
<1> QED BY <1>7, <1>8, <1>9, <1>10

(* A character or an escape of a literal.                                  *)
LEMMA QuotedOnIs ==
  ASSUME IsText, NEW i \in Nat, NEW scan \in Scans(i), NEW quote
  PROVE  QuotedOn(scan, quote) \in Scans(i)
<1> DEFINE p == scan.end
           escape == Escape(Advance(p))
           stops == AtEnd(p) \/ Ahead(p) \in LineEnds \union {quote}
<1>1. p \in PositionsFrom(i) /\ scan.errors \in Seq(Messages)
  BY DEF Scans
<1>2. p \in Positions /\ PositionsFrom(p.at) \subseteq PositionsFrom(i)
  BY <1>1, FromIs
<1>3. Advance(p) \in PositionsFrom(i) /\ Advance(p) \in Positions
      /\ PositionsFrom(Advance(p).at) \subseteq PositionsFrom(i)
  <2>1. Advance(p) \in PositionsFrom(i)
    BY <1>2, PastIs
  <2> QED BY <2>1, FromIs
<1>4. escape.end \in PositionsFrom(i) /\ escape.errors \in Seq(Messages)
  <2>1. escape \in Scans(Advance(p).at)
    BY <1>3, EscapeIs
  <2> QED BY <1>3, <2>1 DEF Scans
<1>5. scan.errors \o escape.errors \in Seq(Messages)
  BY <1>1, <1>4, ErrorsAre
<1> HIDE DEF escape
<1>6. Scan(escape.end, scan.errors \o escape.errors) \in Scans(i) /\ Scan(Advance(p), scan.errors) \in Scans(i)
  BY <1>1, <1>3, <1>4, <1>5, ScanIs
<1>7. QuotedOn(scan, quote) =
        IF stops THEN scan
        ELSE IF Ahead(p) = "\\" THEN Scan(escape.end, scan.errors \o escape.errors)
        ELSE Scan(Advance(p), scan.errors)
  BY DEF QuotedOn, escape
<1> HIDE DEF stops, p
<1> QED BY <1>6, <1>7

(* A literal behind its quote, turn by turn.                               *)
Closed(inner, quote) ==
  IF Ahead(inner.end) = quote THEN Scan(Advance(inner.end), inner.errors)
  ELSE Scan(inner.end, Append(inner.errors, "unterminated literal"))

LEMMA QuotedTurns ==
  ASSUME IsText, NEW p \in Positions, NEW quote
  PROVE  \E w : /\ w \in [0 .. Len(text) -> Scans(p.at)] /\ w[0] = Scan(p, <<>>)
                /\ \A k \in 1 .. Len(text) : w[k] = QuotedOn(w[k - 1], quote)
                /\ Quoted(p, quote) = Closed(w[Len(text)], quote)
<1> DEFINE S == Scans(p.at)
           n == Len(text)
           first == Scan(p, <<>>)
           Turned(f, k) == QuotedOn(f[k - 1], quote)
           Fills(f) == f = [k \in 0 .. n |-> IF k = 0 THEN first ELSE Turned(f, k)]
           quoted == CHOOSE f : Fills(f)
           step == [s \in S |-> QuotedOn(s, quote)]
           inner == quoted[n]
<1>0. p.at \in Nat /\ n \in Nat /\ p \in PositionsFrom(p.at)
  BY AheadIs DEF PositionsFrom
<1>1. Quoted(p, quote) = Closed(inner, quote)
  BY DEF Quoted, Closed
<1>2. first \in S
  <2> DEFINE none == <<>>
  <2>1. none \in Seq(Messages)
    BY ErrorIs DEF Messages
  <2> HIDE DEF none
  <2>2. Scan(p, none) \in S
    BY <1>0, <2>1, ScanIs
  <2> QED BY <2>2 DEF none
<1>3. step \in [S -> S] /\ \A s \in S : step[s] = QuotedOn(s, quote)
  BY <1>0, QuotedOnIs
<1> HIDE DEF step, S, n, first
<1>4. PICK w : Turns(w, S, step, first, n)
  BY <1>0, <1>2, <1>3, TurnsExist
<1>5. /\ w \in [0 .. n -> S] /\ w[0] = first
      /\ \A k \in 1 .. n : w[k] = Turned(w, k)
  <2>1. w \in [0 .. n -> S] /\ w[0] = first /\ \A k \in 1 .. n : w[k] = step[w[k - 1]]
    BY <1>4 DEF Turns
  <2>2. \A k \in 1 .. n : k - 1 \in 0 .. n
    BY <1>0
  <2> QED BY <1>3, <2>1, <2>2
<1>6. \A k \in 0 .. n : k # 0 => k \in 1 .. n
  BY <1>0
<1> HIDE DEF Turned
<1>7. Fills(w)
  <2>1. w = [k \in 0 .. n |-> w[k]]
    BY <1>5
  <2>2. \A k \in 0 .. n : w[k] = IF k = 0 THEN first ELSE Turned(w, k)
    BY <1>5, <1>6
  <2> QED BY <2>1, <2>2
<1>8. Fills(quoted)
  <2> HIDE DEF Fills
  <2> QED BY <1>7
<1> HIDE DEF quoted
<1>9. \A k \in 0 .. n : quoted[k] = IF k = 0 THEN first ELSE Turned(quoted, k)
  BY <1>8
<1>10. quoted[n] = w[n]
  <2>1. quoted[0] = w[0]
    <3>1. 0 \in 0 .. n
      BY <1>0
    <3> QED BY <1>5, <1>9, <3>1
  <2>2. ASSUME NEW k \in 1 .. n, quoted[k - 1] = w[k - 1] PROVE quoted[k] = w[k]
    <3>1. k \in 0 .. n /\ k # 0
      BY <1>0
    <3>2. Turned(quoted, k) = Turned(w, k)
      BY <2>2 DEF Turned
    <3> QED BY <1>5, <1>9, <3>1, <3>2
  <2> QED BY <1>0, <2>1, <2>2, SameTurns
<1>11. Quoted(p, quote) = Closed(w[n], quote)
  BY <1>1, <1>10
<1> QED BY <1>5, <1>11 DEF S, n, first, Turned

LEMMA QuotedIs ==
  ASSUME IsText, NEW p \in Positions, NEW quote
  PROVE  Quoted(p, quote) \in Scans(p.at)
<1>1. p.at \in Nat /\ Len(text) \in Nat
  BY AheadIs
<1>2. PICK w : /\ w \in [0 .. Len(text) -> Scans(p.at)]
               /\ Quoted(p, quote) = Closed(w[Len(text)], quote)
  BY QuotedTurns
<1> DEFINE inner == w[Len(text)]
<1>3. inner \in Scans(p.at)
  BY <1>1, <1>2
<1> HIDE DEF inner
<1>4. inner.end \in PositionsFrom(p.at) /\ inner.errors \in Seq(Messages)
  BY <1>3 DEF Scans
<1>5. Advance(inner.end) \in PositionsFrom(p.at)
  <2>1. inner.end \in Positions /\ PositionsFrom(inner.end.at) \subseteq PositionsFrom(p.at)
    BY <1>1, <1>4, FromIs
  <2> QED BY <2>1, PastIs
<1>6. Append(inner.errors, "unterminated literal") \in Seq(Messages)
  <2> DEFINE message == "unterminated literal"
             errors == inner.errors
  <2>1. message \in Messages /\ errors \in Seq(Messages)
    BY <1>4 DEF Messages
  <2> HIDE DEF message, errors
  <2>2. Append(errors, message) \in Seq(Messages)
    BY <2>1
  <2> QED BY <2>2 DEF message, errors
<1>7. /\ Scan(Advance(inner.end), inner.errors) \in Scans(p.at)
      /\ Scan(inner.end, Append(inner.errors, "unterminated literal")) \in Scans(p.at)
  BY <1>1, <1>4, <1>5, <1>6, ScanIs
<1>8. Closed(inner, quote) \in Scans(p.at)
  BY <1>7 DEF Closed
<1> QED BY <1>2, <1>8 DEF inner

(* An exponent, and a suffix.                                              *)
LEMMA ExponentIs ==
  ASSUME IsText, NEW p \in Positions
  PROVE  Exponent(p).end \in PositionsFrom(p.at)
<1> DEFINE digits == PastOne(Advance(p), {"+", "-"})
           end == Past(digits, Digits)
<1>1. p.at \in Nat
  BY AheadIs
<1>2. Advance(p) \in PositionsFrom(p.at)
  BY PastIs
<1>3. Advance(p) \in Positions /\ PositionsFrom(Advance(p).at) \subseteq PositionsFrom(p.at)
  BY <1>1, <1>2, FromIs
<1>4. digits \in PositionsFrom(p.at)
  BY <1>3, PastIs
<1>5. digits \in Positions /\ PositionsFrom(digits.at) \subseteq PositionsFrom(p.at)
  BY <1>1, <1>4, FromIs
<1> HIDE DEF digits
<1>6. end \in PositionsFrom(p.at)
  BY <1>5, PastIs
<1>7. Exponent(p).end = end
  BY DEF Exponent, Scan, digits
<1> QED BY <1>6, <1>7

LEMMA SuffixedIs ==
  ASSUME IsText, NEW p \in Positions, NEW float
  PROVE  Suffixed(p, float).end \in PositionsFrom(p.at)
<1> DEFINE end == IF float THEN PastOne(p, {"f", "F", "l", "L"}) ELSE Past(p, {"u", "U", "l", "L"})
<1>1. p.at \in Nat
  BY AheadIs
<1>2. end \in PositionsFrom(p.at)
  BY PastIs
<1>3. end \in Positions /\ PositionsFrom(end.at) \subseteq PositionsFrom(p.at)
  BY <1>1, <1>2, FromIs
<1>4. Past(end, IdentifierPart) \in PositionsFrom(p.at)
  BY <1>3, PastIs
<1>5. Suffixed(p, float).end = Past(end, IdentifierPart)
  BY DEF Suffixed, Scan
<1> QED BY <1>4, <1>5

-----------------------------------------------------------------------------
(* Steps.                                                                  *)

(* What follows is lexed next.                                             *)
Skipped ==
  /\ here' \in Behind(here)
  /\ UNCHANGED <<text, tokens, done>>

(* A token from here up to there.                                          *)
Added ==
  /\ here' \in Behind(here)
  /\ \E kind : tokens' = Append(tokens, TokenAt(kind, here'))
  /\ UNCHANGED <<text, done>>

LEMMA SkipIs ==
  ASSUME NEW scan, scan.end \in Behind(here), Skip(scan)
  PROVE  Skipped
  BY DEF Skip, Skipped

LEMMA AddIs ==
  ASSUME NEW kind, NEW scan, scan.end \in Behind(here), Add(kind, scan)
  PROVE  Added
  BY DEF Add, Added

(* A number ends behind its digits.                                        *)
LEMMA NumberIs ==
  ASSUME IsText, here \in Positions, NEW p \in Behind(here), NEW float, NEW errors,
         AddNumber(p, float, errors)
  PROVE  Added
<1> DEFINE end == Suffixed(p, float)
           scan == Scan(end.end, errors \o end.errors)
<1>1. p \in Positions /\ PositionsFrom(p.at) \subseteq Behind(here)
  BY BehindIs
<1>2. end.end \in Behind(here)
  BY <1>1, SuffixedIs
<1>3. scan.end = end.end
  BY DEF Scan
<1>4. Add(NumberKind(float), scan)
  BY DEF AddNumber
<1> HIDE DEF scan, end
<1> QED BY <1>2, <1>3, <1>4, AddIs

(* Where a token can begin, there is a character.                          *)
LEMMA TokenAhead ==
  ASSUME AtToken
  PROVE  ~done /\ ~AtEnd(here)
  BY DEF AtToken

(* The characters that stand for themselves are no NUL.                    *)
LEMMA NoNul ==
  /\ NUL \notin Blanks /\ NUL \notin IdentifierStart /\ NUL \notin Digits
  /\ NUL # "/" /\ NUL # "." /\ NUL # "0" /\ NUL # "*"
  BY DEF NUL, Blanks, NL, CR, IdentifierStart, Letters, Digits

LEMMA SkipsForward ==
  ASSUME IsText, here \in Positions, SkipBlank \/ SkipLineComment \/ SkipBlockComment
  PROVE  Skipped
<1>1. ~AtEnd(here)
  BY NoNul, AheadIs DEF SkipBlank, SkipLineComment, SkipBlockComment, Starts
<1>2. CASE SkipBlank
  <2>1. Skip(Scan(Advance(here), <<>>))
    BY <1>2 DEF SkipBlank
  <2>2. Scan(Advance(here), <<>>).end \in Behind(here)
    BY <1>1, Consumed DEF Scan
  <2> QED BY <2>1, <2>2, SkipIs
<1> DEFINE p == AdvanceBy(here, 2)
<1>3. p \in Behind(here)
  BY <1>1, Consumed
<1>4. p \in Positions /\ PositionsFrom(p.at) \subseteq Behind(here)
  BY <1>3, BehindIs
<1>5. CASE SkipLineComment
  <2>1. Skip(LineComment(p))
    BY <1>5 DEF SkipLineComment
  <2>2. LineComment(p).end \in PositionsFrom(p.at)
    <3>1. Len(text) \in Nat
      BY AheadIs
    <3> HIDE DEF p
    <3>2. LineComment(p).end = PastAtMost(p, DOMAIN text \ PlacesOf(LineEnds), Len(text))
      BY DEF LineComment, Scan
    <3> QED BY <1>4, <3>1, <3>2, PlacesAre, LoopStays
  <2> QED BY <1>4, <2>1, <2>2, SkipIs
<1>6. CASE SkipBlockComment
  <2>1. Skip(BlockComment(p))
    BY <1>6 DEF SkipBlockComment
  <2>2. BlockComment(p).end \in PositionsFrom(p.at)
    <3> HIDE DEF p
    <3> DEFINE end == PastAtMost(p, DOMAIN text \ Closings, Len(text))
    <3>1. Len(text) \in Nat /\ p.at \in Nat
      BY <1>4, AheadIs
    <3>2. end \in PositionsFrom(p.at)
      BY <1>4, <3>1, PlacesAre, LoopStays
    <3>3. end \in Positions /\ PositionsFrom(end.at) \subseteq PositionsFrom(p.at)
      BY <3>1, <3>2, FromIs
    <3>4. BlockComment(p).end = IF AtEnd(end) THEN end ELSE AdvanceBy(end, 2)
      BY DEF BlockComment, Scan
    <3> HIDE DEF end
    <3> QED BY <3>2, <3>3, <3>4, PastIs
  <2> QED BY <1>4, <2>1, <2>2, SkipIs
<1> QED BY <1>2, <1>5, <1>6


LEMMA LiteralIsAdded ==
  ASSUME IsText, here \in Positions, LexQuotedLiteral
  PROVE  Added
<1> DEFINE quote == Peek(here, PrefixLength)
           n == PrefixLength + 1
           p == AdvanceBy(here, n)
           kind == IF quote = "'" THEN "char" ELSE "string"
<1>1. Add(kind, Quoted(p, quote)) /\ ~AtEnd(here)
  BY TokenAhead DEF LexQuotedLiteral
<1>2. n \in Nat /\ n >= 1
  BY DEF PrefixLength
<1> HIDE DEF n
<1>3. p \in Behind(here)
  BY <1>1, <1>2, Consumed
<1>4. p \in Positions /\ PositionsFrom(p.at) \subseteq Behind(here)
  BY <1>3, BehindIs
<1> HIDE DEF p, quote, kind
<1>5. Quoted(p, quote).end \in Behind(here)
  <2>1. Quoted(p, quote) \in Scans(p.at)
    BY <1>4, QuotedIs
  <2> QED BY <1>4, <2>1 DEF Scans
<1> QED BY <1>1, <1>5, AddIs

LEMMA IdentifierIsAdded ==
  ASSUME IsText, here \in Positions, LexIdentifier
  PROVE  Added
<1> DEFINE end == Past(here, IdentifierPart)
           kind == IF SubSeq(text, here.at, end.at - 1) \in Keywords THEN "keyword" ELSE "identifier"
           scan == Scan(end, <<>>)
<1>1. Add(kind, scan) /\ ~AtEnd(here) /\ Ahead(here) \in IdentifierPart
  BY TokenAhead DEF LexIdentifier, IdentifierPart
<1>2. end \in Behind(here)
  BY <1>1, Consumed
<1>3. scan.end = end
  BY DEF Scan
<1> HIDE DEF end, kind, scan
<1> QED BY <1>1, <1>2, <1>3, AddIs

(* Behind the power, or the dot and the digits, of a number.               *)
LEMMA FractionIs ==
  ASSUME IsText, NEW p \in Positions, NEW class, NEW dotted \in BOOLEAN
  PROVE  (IF dotted THEN Past(Advance(p), class) ELSE p) \in PositionsFrom(p.at)
<1>1. p.at \in Nat /\ p \in PositionsFrom(p.at)
  BY AheadIs DEF PositionsFrom
<1>2. Advance(p) \in PositionsFrom(p.at)
  BY PastIs
<1>3. Advance(p) \in Positions /\ PositionsFrom(Advance(p).at) \subseteq PositionsFrom(p.at)
  BY <1>1, <1>2, FromIs
<1>4. Past(Advance(p), class) \in PositionsFrom(p.at)
  BY <1>3, PastIs
<1> QED BY <1>1, <1>4

LEMMA PowerIs ==
  ASSUME IsText, NEW p \in Positions, NEW powered \in BOOLEAN
  PROVE  (IF powered THEN Exponent(p) ELSE Scan(p, <<>>)).end \in PositionsFrom(p.at)
<1>1. p \in PositionsFrom(p.at)
  BY AheadIs DEF PositionsFrom
<1>2. Exponent(p).end \in PositionsFrom(p.at)
  BY ExponentIs
<1>3. Scan(p, <<>>).end = p
  BY DEF Scan
<1> QED BY <1>1, <1>2, <1>3

LEMMA HexIsAdded ==
  ASSUME IsText, here \in Positions, LexHexLiteral
  PROVE  Added
<1> DEFINE first == AdvanceBy(here, 2)
           whole == Past(first, HexDigits)
           dotted == Ahead(whole) = "."
           fraction == IF dotted THEN Past(Advance(whole), HexDigits) ELSE whole
           digits == (fraction.at - first.at) - (IF dotted THEN 1 ELSE 0)
           powered == Ahead(fraction) \in {"p", "P"}
           power == IF powered THEN Exponent(fraction) ELSE Scan(fraction, <<>>)
           errors == ErrorIf(digits = 0, "no hexadecimal digit") \o power.errors
                     \o ErrorIf(dotted /\ ~powered, "no exponent")
           float == dotted \/ powered
<1>1. AddNumber(power.end, float, errors) /\ ~AtEnd(here)
  BY TokenAhead DEF LexHexLiteral
<1> HIDE DEF errors, float
<1>2. first \in Behind(here)
  BY <1>1, Consumed
<1>3. first \in Positions /\ PositionsFrom(first.at) \subseteq Behind(here)
  BY <1>2, BehindIs
<1> HIDE DEF first
<1>4. whole \in Behind(here)
  BY <1>3, PastIs
<1>5. whole \in Positions /\ PositionsFrom(whole.at) \subseteq Behind(here)
  BY <1>4, BehindIs
<1> HIDE DEF whole
<1>6. fraction \in Behind(here)
  BY <1>5, FractionIs
<1>7. fraction \in Positions /\ PositionsFrom(fraction.at) \subseteq Behind(here)
  BY <1>6, BehindIs
<1> HIDE DEF fraction
<1>8. power.end \in Behind(here)
  BY <1>7, PowerIs
<1> HIDE DEF power
<1> QED BY <1>1, <1>8, NumberIs

LEMMA BinaryIsAdded ==
  ASSUME IsText, here \in Positions, LexBinaryLiteral
  PROVE  Added
<1> DEFINE first == AdvanceBy(here, 2)
           digits == Past(first, BinaryDigits)
           end == Past(digits, Digits)
           errors == ErrorIf(digits = first, "no binary digit")
                     \o ErrorIf(end # digits, "digits other than 0 and 1")
<1>1. AddNumber(end, FALSE, errors) /\ ~AtEnd(here)
  BY TokenAhead DEF LexBinaryLiteral
<1> HIDE DEF errors
<1>2. first \in Behind(here)
  BY <1>1, Consumed
<1>3. first \in Positions /\ PositionsFrom(first.at) \subseteq Behind(here)
  BY <1>2, BehindIs
<1> HIDE DEF first
<1>4. digits \in Behind(here)
  BY <1>3, PastIs
<1>5. digits \in Positions /\ PositionsFrom(digits.at) \subseteq Behind(here)
  BY <1>4, BehindIs
<1> HIDE DEF digits
<1>6. end \in Behind(here)
  BY <1>5, PastIs
<1> HIDE DEF end
<1> QED BY <1>1, <1>6, NumberIs

(* A decimal number begins with a digit, or with a dot, which is consumed  *)
(* though no digit is before it.                                           *)
LEMMA DecimalIsAdded ==
  ASSUME IsText, here \in Positions, LexDecimalLiteral
  PROVE  Added
<1> DEFINE whole == Past(here, Digits)
           dotted == Ahead(whole) = "."
           fraction == IF dotted THEN Past(Advance(whole), Digits) ELSE whole
           powered == Ahead(fraction) \in {"e", "E"}
           power == IF powered THEN Exponent(fraction) ELSE Scan(fraction, <<>>)
           float == dotted \/ powered
           errors == power.errors \o ErrorIf(InvalidOctal(whole, float), "not an octal digit")
<1>1. AddNumber(power.end, float, errors) /\ ~AtEnd(here)
      /\ (Ahead(here) \in Digits \/ Ahead(here) = ".")
  BY TokenAhead DEF LexDecimalLiteral
<1> HIDE DEF errors, float
<1>2. fraction \in Behind(here)
  <2>1. CASE Ahead(here) \in Digits
    <3>1. whole \in Behind(here)
      BY <1>1, <2>1, Consumed
    <3>2. whole \in Positions /\ PositionsFrom(whole.at) \subseteq Behind(here)
      BY <3>1, BehindIs
    <3> HIDE DEF whole
    <3> QED BY <3>2, FractionIs
  <2>2. CASE Ahead(here) = "." /\ Ahead(here) \notin Digits
    <3>1. whole = here
      BY <1>1, <2>2, Consumed
    <3>2. fraction = Past(Advance(here), Digits)
      <4> HIDE DEF whole
      <4> QED BY <2>2, <3>1
    <3>3. Advance(here) \in Behind(here)
      BY <1>1, Consumed
    <3>4. Advance(here) \in Positions /\ PositionsFrom(Advance(here).at) \subseteq Behind(here)
      BY <3>3, BehindIs
    <3> HIDE DEF fraction
    <3> QED BY <3>2, <3>4, PastIs
  <2> QED BY <1>1, <2>1, <2>2
<1>3. fraction \in Positions /\ PositionsFrom(fraction.at) \subseteq Behind(here)
  BY <1>2, BehindIs
<1> HIDE DEF fraction
<1>4. power.end \in Behind(here)
  BY <1>3, PowerIs
<1> HIDE DEF power
<1> QED BY <1>1, <1>4, NumberIs

(* The first spelling of the table that is there.                          *)
LEMMA FirstMatchIs ==
  ASSUME \E i \in DOMAIN Spellings : Matches(Spellings[i])
  PROVE  /\ FirstMatch \in DOMAIN Spellings /\ Matches(Spellings[FirstMatch])
         /\ \A j \in 1 .. FirstMatch - 1 : ~Matches(Spellings[j])
<1> DEFINE T == {i \in DOMAIN Spellings : Matches(Spellings[i])}
           First(i) == Matches(Spellings[i]) /\ \A j \in 1 .. i - 1 : ~Matches(Spellings[j])
<1>1. DOMAIN Spellings = DOMAIN PunctuatorTable
  BY DEF Spellings
<1> DEFINE n == Len(PunctuatorTable)
<1>2. DOMAIN Spellings = 1 .. n /\ n \in Nat
  BY <1>1 DEF PunctuatorTable
<1> HIDE DEF n
<1>3. PICK i \in T : \A j \in T : i <= j
  <2>1. T \in SUBSET Nat /\ T # {}
    BY <1>2
  <2> HIDE DEF T
  <2> QED BY <2>1, LeastNumber
<1>4. \A j \in 1 .. i - 1 : j \in 1 .. n /\ ~(i <= j)
  BY <1>2
<1>5. First(i)
  BY <1>2, <1>3, <1>4
<1>6. i \in DOMAIN Spellings
  OBVIOUS
<1>7. FirstMatch \in DOMAIN Spellings /\ First(FirstMatch)
  <2> HIDE DEF First
  <2>1. FirstMatch = CHOOSE j \in DOMAIN Spellings : First(j)
    BY DEF FirstMatch, First
  <2> QED BY <1>5, <1>6, <2>1
<1> QED BY <1>7

LEMMA PunctuatorIsAdded ==
  ASSUME IsText, here \in Positions, LexPunctuator \/ LexInvalidCharacter
  PROVE  Added
<1>1. ~AtEnd(here)
  BY TokenAhead DEF LexPunctuator, LexInvalidCharacter, AtPunctuator
<1>2. CASE LexPunctuator
  <2> DEFINE n == Len(Spellings[FirstMatch])
             p == AdvanceBy(here, n)
             scan == Scan(p, <<>>)
             kind == PunctuatorKind(PunctuatorTable[FirstMatch])
  <2>1. Add(kind, scan)
    BY <1>2 DEF LexPunctuator
  <2>2. n \in Nat /\ n >= 1
    <3>1. FirstMatch \in DOMAIN Spellings
      BY <1>2, FirstMatchIs DEF LexPunctuator
    <3> QED BY <3>1, SpellingsAssumption
  <2> HIDE DEF n
  <2>3. p \in Behind(here)
    BY <1>1, <2>2, Consumed
  <2>4. scan.end = p
    BY DEF Scan
  <2> HIDE DEF p, scan, kind
  <2> QED BY <2>1, <2>3, <2>4, AddIs
<1>3. CASE LexInvalidCharacter
  <2> DEFINE scan == Scan(Advance(here), <<"unexpected character">>)
             kind == "invalid"
  <2>1. Add(kind, scan)
    BY <1>3 DEF LexInvalidCharacter
  <2>2. scan.end \in Behind(here)
    BY <1>1, Consumed DEF Scan
  <2> HIDE DEF scan, kind
  <2> QED BY <2>1, <2>2, AddIs
<1> QED BY <1>2, <1>3

(* Every step consumes a character, with or without a token, or is the     *)
(* last.                                                                   *)
LEMMA StepsAre ==
  ASSUME IsText, here \in Positions, Next
  PROVE  Skipped \/ Added \/ EndOfFile
  BY SkipsForward, LiteralIsAdded, IdentifierIsAdded, HexIsAdded, BinaryIsAdded, DecimalIsAdded,
     PunctuatorIsAdded DEF Next

-----------------------------------------------------------------------------
(* Tokens are where they say.                                              *)

(* What PositionsAgree says of a token.                                    *)
IsPlaced(token) ==
  /\ token.line = Cardinality(Begun(token.from))
  /\ \E b \in Begun(token.from) : token.column = token.from - b + 1 /\ \A c \in Begun(token.from) : c <= b

IsSequence(s) == \E S : s \in Seq(S)

(* The lexer is at a true position, and so was every token's.              *)
PlacesInv ==
  /\ IsText
  /\ here \in Positions
  /\ IsSequence(tokens)
  /\ \A i \in DOMAIN tokens : IsPlaced(tokens[i])

LEMMA TokensGrow ==
  ASSUME NEW s, IsSequence(s), NEW e
  PROVE  /\ IsSequence(Append(s, e))
         /\ Len(s) \in Nat /\ DOMAIN s = 1 .. Len(s)
         /\ Len(Append(s, e)) = Len(s) + 1
         /\ DOMAIN Append(s, e) = 1 .. Len(s) + 1
         /\ Append(s, e)[Len(s) + 1] = e
         /\ \A i \in 1 .. Len(s) : Append(s, e)[i] = s[i]
<1>1. PICK S : s \in Seq(S)
  BY DEF IsSequence
<1> DEFINE T == S \union {e}
<1>2. s \in Seq(T) /\ e \in T
  BY <1>1
<1> HIDE DEF T
<1>3. Append(s, e) \in Seq(T)
  BY <1>2
<1>4. IsSequence(Append(s, e))
  BY <1>3 DEF IsSequence
<1>5. /\ Len(s) \in Nat /\ DOMAIN s = 1 .. Len(s)
      /\ Len(Append(s, e)) = Len(s) + 1
      /\ DOMAIN Append(s, e) = 1 .. Len(s) + 1
      /\ Append(s, e)[Len(s) + 1] = e
      /\ \A i \in 1 .. Len(s) : Append(s, e)[i] = s[i]
  BY <1>2
<1> QED BY <1>4, <1>5

(* What is said of places is said of the text.                             *)
LEMMA SameText ==
  ASSUME text' = text
  PROVE  /\ Positions' = Positions
         /\ IsText' <=> IsText
         /\ Beginnings' = Beginnings
<1>1. Beginnings' = Beginnings
  BY DEF Beginnings
<1>2. Positions' = Positions
  BY <1>1 DEF Positions, PositionSet, IsTrue, Begun
<1> QED BY <1>1, <1>2 DEF IsText

LEMMA NewTokenIsPlaced ==
  ASSUME here \in Positions, NEW kind, NEW end
  PROVE  IsPlaced(TokenAt(kind, end))
<1> DEFINE t == TokenAt(kind, end)
<1>1. t.from = here.at /\ t.line = here.line /\ t.column = here.column
  BY DEF TokenAt
<1>2. IsTrue(here)
  BY DEF Positions
<1> HIDE DEF t
<1>3. IsPlaced(t)
  BY <1>1, <1>2 DEF IsTrue, IsPlaced
<1> QED BY <1>3 DEF t

LEMMA PlacesInit == Init => PlacesInv
<1> SUFFICES ASSUME Init PROVE PlacesInv
  OBVIOUS
<1>1. IsText
  BY TextsAssumption DEF Init, IsText
<1>2. here \in Positions
  BY <1>1, FirstPosition DEF Init
<1>3. IsSequence(tokens) /\ DOMAIN tokens = {}
  <2>1. tokens = <<>> /\ <<>> \in Seq(Nat) /\ DOMAIN <<>> = {}
    BY DEF Init
  <2> QED BY <2>1 DEF IsSequence
<1> QED BY <1>1, <1>2, <1>3 DEF PlacesInv

LEMMA PlacesNext == PlacesInv /\ [Next]_vars => PlacesInv'
<1> SUFFICES ASSUME PlacesInv, [Next]_vars PROVE PlacesInv'
  OBVIOUS
<1>1. IsText /\ here \in Positions /\ IsSequence(tokens) /\ \A i \in DOMAIN tokens : IsPlaced(tokens[i])
  BY DEF PlacesInv
<1>2. Skipped \/ Added \/ EndOfFile \/ UNCHANGED vars
  BY <1>1, StepsAre
<1>3. text' = text
  BY <1>2 DEF Skipped, Added, EndOfFile, vars
<1>4. IsText' /\ here' \in Positions'
  <2>1. here' \in Positions
    BY <1>1, <1>2, BehindIs DEF Skipped, Added, EndOfFile, vars
  <2> QED BY <1>1, <1>3, <2>1, SameText
<1>5. ASSUME NEW token, IsPlaced(token) PROVE IsPlaced(token)'
  BY <1>3, <1>5, SameText DEF IsPlaced, Begun
<1>6. tokens' = tokens \/ \E kind, end : tokens' = Append(tokens, TokenAt(kind, end))
  BY <1>2 DEF Skipped, Added, EndOfFile, vars
<1>7. CASE tokens' = tokens
  BY <1>1, <1>4, <1>5, <1>7 DEF PlacesInv
<1>8. CASE \E kind, end : tokens' = Append(tokens, TokenAt(kind, end))
  <2>1. PICK kind, end : tokens' = Append(tokens, TokenAt(kind, end))
    BY <1>8
  <2> DEFINE t == TokenAt(kind, end)
  <2>2. IsPlaced(t)
    BY <1>1, NewTokenIsPlaced
  <2>3. tokens' = Append(tokens, t)
    BY <2>1
  <2> HIDE DEF t
  <2>4. IsSequence(tokens')
    BY <1>1, <2>3, TokensGrow
  <2>5. ASSUME NEW i \in DOMAIN tokens' PROVE IsPlaced(tokens[i])'
    <3>1. Len(tokens) \in Nat /\ DOMAIN tokens = 1 .. Len(tokens) /\ i \in 1 .. Len(tokens) + 1
      BY <1>1, <2>3, TokensGrow
    <3>2. /\ tokens'[Len(tokens) + 1] = t
          /\ \A j \in 1 .. Len(tokens) : tokens'[j] = tokens[j]
      BY <1>1, <2>3, TokensGrow
    <3>3. i = Len(tokens) + 1 \/ i \in 1 .. Len(tokens)
      BY <3>1
    <3>4. IsPlaced(tokens'[i])
      BY <1>1, <2>2, <3>1, <3>2, <3>3
    <3> QED BY <1>3, <3>4, SameText DEF IsPlaced, Begun
  <2> QED BY <1>4, <2>4, <2>5 DEF PlacesInv
<1> QED BY <1>6, <1>7, <1>8

LEMMA PlacesAlways == Spec => []PlacesInv
  BY PlacesInit, PlacesNext, PTL DEF Spec

(* Whatever a text holds, every token is at the line and the column that   *)
(* the line ends before it make (cc_advance, cc_begin_span).               *)
THEOREM PositionsAlwaysAgree == Spec => []PositionsAgree
<1>1. PlacesInv => PositionsAgree
  <2> SUFFICES ASSUME PlacesInv, NEW token \in {tokens[i] : i \in DOMAIN tokens}
               PROVE  IsPlaced(token)
    BY DEF PositionsAgree, IsPlaced, Begun
  <2> QED BY DEF PlacesInv
<1> QED BY <1>1, PlacesAlways, PTL

(* No turn of the loop leaves the lexer where it was, but the last one,    *)
(* which is at the end of the text (cc_lex_source).                        *)
THEOREM EveryTurnGoesForward == Spec => EveryTurnConsumes
<1>1. PlacesInv /\ [Next]_vars => [Consumes]_vars
  <2> SUFFICES ASSUME PlacesInv, Next PROVE Consumes
    OBVIOUS
  <2>1. here \in Positions /\ (Skipped \/ Added \/ EndOfFile)
    BY StepsAre DEF PlacesInv
  <2>2. here' \in Behind(here) => here'.at > here.at
    BY <2>1, BehindIs DEF PlacesInv
  <2> QED BY <2>1, <2>2 DEF Consumes, Skipped, Added, EndOfFile
<1> QED BY <1>1, PlacesAlways, PTL DEF Spec, EveryTurnConsumes

-----------------------------------------------------------------------------
(* Nothing is lost.                                                        *)

(* What is cut out of the text.                                            *)
LEMMA CutIs ==
  ASSUME IsText, NEW i \in 1 .. Len(text) + 1, NEW j \in i .. Len(text) + 1
  PROVE  /\ Len(SubSeq(text, i, j - 1)) = j - i
         /\ DOMAIN SubSeq(text, i, j - 1) = 1 .. j - i
         /\ \A k \in 1 .. j - i : SubSeq(text, i, j - 1)[k] = text[i + k - 1]
<1>1. text \in Seq(STRING) /\ Len(text) \in Nat /\ i \in Int /\ j \in Int
  BY DEF IsText
<1>2. \A k \in i .. j - 1 : k \in 1 .. Len(text)
  BY <1>1
<1> DEFINE w == SubSeq(text, i, j - 1)
<1>3. w \in Seq(STRING) /\ Len(w) = j - i /\ \A k \in 1 .. j - i : w[k] = text[i + k - 1]
  BY <1>1, <1>2
<1>4. DOMAIN w = 1 .. Len(w)
  BY <1>3
<1> QED BY <1>3, <1>4

(* Two characters that end no line are consumed one at a time.             *)
LEMMA TwoCharacters ==
  ASSUME IsText, NEW p \in Positions, p.at + 1 <= Len(text), text[p.at] # CR, text[p.at + 1] # CR
  PROVE  AdvanceBy(p, 2) \in Positions /\ AdvanceBy(p, 2).at = p.at + 2
<1> DEFINE D == DOMAIN text
<1>1. p.at \in Nat /\ p.at >= 1 /\ Len(text) \in Nat /\ D = 1 .. Len(text) /\ D \in SUBSET DOMAIN text
  BY AheadIs
<1>2. PICK w : Moves(w, PositionsFrom(p.at), p, D, 2) /\ PastAtMost(p, D, 2) = w[2]
  BY <1>1, LoopIs
<1>3. w[0] = p /\ w[1] = OneMore(w[0], D) /\ w[2] = OneMore(w[1], D)
  <2>1. w[0] = p /\ \A k \in 1 .. 2 : w[k] = OneMore(w[k - 1], D)
    BY <1>2 DEF Moves
  <2>2. 1 \in 1 .. 2 /\ 2 \in 1 .. 2 /\ 1 - 1 = 0 /\ 2 - 1 = 1
    OBVIOUS
  <2> QED BY <2>1, <2>2
<1>4. w[1] \in Positions /\ w[1].at = p.at + 1
  <2>1. p.at \in D /\ ~AtEnd(p)
    BY <1>1 DEF AtEnd
  <2>2. w[1] = Advance(p)
    BY <1>1, <1>3, <2>1, OneMoreIs
  <2> QED BY <2>1, <2>2, AdvanceIs
<1>5. w[2] \in Positions /\ w[2].at = p.at + 2
  <2>1. w[1].at \in D /\ ~AtEnd(w[1]) /\ text[w[1].at] # CR
    BY <1>1, <1>4 DEF AtEnd
  <2>2. w[2] = Advance(w[1])
    BY <1>1, <1>3, <1>4, <2>1, OneMoreIs
  <2>3. w[2] \in Positions /\ w[2].at = w[1].at + 1
    BY <1>4, <2>1, <2>2, AdvanceIs
  <2> QED BY <1>1, <1>4, <2>3
<1> QED BY <1>2, <1>5 DEF AdvanceBy

(* White space and comments, and white space or a comment behind them.     *)
LEMMA TriviaGrow ==
  ASSUME NEW a \in Nat, NEW i \in Nat, NEW j \in Nat, IsTriviaOnly(a, i), i < j, IsPieceOfTrivia(i, j)
  PROVE  IsTriviaOnly(a, j)
<1>1. PICK cuts \in SUBSET (a .. i) :
        /\ a \in cuts /\ i \in cuts
        /\ \A b \in cuts \ {i} : \E c \in cuts : b < c /\ IsPieceOfTrivia(b, c)
  BY DEF IsTriviaOnly
<1> DEFINE more == cuts \union {j}
<1>2. more \in SUBSET (a .. j) /\ a \in more /\ j \in more
  BY <1>1
<1>3. ASSUME NEW b \in more \ {j} PROVE \E c \in more : b < c /\ IsPieceOfTrivia(b, c)
  <2>1. CASE b = i
    BY <2>1
  <2>2. CASE b # i
    BY <1>1, <2>2
  <2> QED BY <2>1, <2>2
<1> HIDE DEF more
<1> QED BY <1>2, <1>3 DEF IsTriviaOnly

LEMMA TriviaAre ==
  ASSUME NEW a \in Nat
  PROVE  /\ IsTriviaOnly(a, a)
         /\ \A i \in Nat : IsTriviaOnly(a, i) => a <= i
<1>1. IsTriviaOnly(a, a)
  <2> DEFINE cuts == {a}
  <2>1. cuts \in SUBSET (a .. a) /\ a \in cuts /\ cuts \ {a} = {}
    OBVIOUS
  <2> HIDE DEF cuts
  <2> QED BY <2>1 DEF IsTriviaOnly
<1>2. ASSUME NEW i \in Nat, IsTriviaOnly(a, i) PROVE a <= i
  BY <1>2 DEF IsTriviaOnly
<1> QED BY <1>1, <1>2

(* A turn complains of these.                                              *)
Complains(errors) == complaints' = complaints \o errors

(* What is between two positions.                                          *)
LEMMA SkippedBlank ==
  ASSUME IsText, here \in Positions, SkipBlank
  PROVE  IsPieceOfTrivia(here.at, here'.at)
<1>1. Ahead(here) \in Blanks /\ here' = Advance(here)
  BY DEF SkipBlank, Skip, Scan
<1>2. here.at \in Nat /\ here.at \in DOMAIN text /\ Ahead(here) = text[here.at] /\ ~AtEnd(here)
      /\ Len(text) \in Nat /\ DOMAIN text = 1 .. Len(text)
  BY <1>1, NoNul, AheadIs
<1> DEFINE w == SubSeq(text, here.at, here'.at - 1)
<1>3. CR # NUL /\ NL \in Blanks
  BY DEF CR, NUL, NL, Blanks
<1>4. here'.at = here.at + 1 \/ (here'.at = here.at + 2 /\ here.at + 1 <= Len(text) /\ text[here.at + 1] = NL)
  BY <1>1, <1>2, AdvanceIs
<1>5. here.at \in 1 .. Len(text) + 1 /\ here'.at \in here.at .. Len(text) + 1
  BY <1>2, <1>4
<1>6. /\ DOMAIN w = 1 .. here'.at - here.at
      /\ \A k \in 1 .. here'.at - here.at : w[k] = text[here.at + k - 1]
      /\ Len(w) = here'.at - here.at
  BY <1>5, CutIs
<1> HIDE DEF w
<1>7. w # <<>>
  BY <1>2, <1>4, <1>6
<1>8. ASSUME NEW k \in DOMAIN w PROVE w[k] \in Blanks
  <2> DEFINE i == here.at + k - 1
  <2>1. i = here.at \/ (i = here.at + 1 /\ here'.at = here.at + 2)
    BY <1>2, <1>4, <1>6
  <2>2. w[k] = text[i]
    BY <1>6
  <2>3. i = here.at + 1 /\ here'.at = here.at + 2 => text[i] = NL
    BY <1>2, <1>4
  <2> HIDE DEF i
  <2> QED BY <1>1, <1>2, <1>3, <2>1, <2>2, <2>3
<1> QED BY <1>7, <1>8 DEF IsPieceOfTrivia, Some, All, w

(* Two characters open a comment.                                          *)
LEMMA CommentBegins ==
  ASSUME IsText, here \in Positions, NEW a, NEW b, Starts(a, b),
         a # NUL, b # NUL, a # CR, b # CR
  PROVE  /\ text[here.at] = a /\ text[here.at + 1] = b
         /\ here.at + 1 <= Len(text)
         /\ AdvanceBy(here, 2) \in Positions /\ AdvanceBy(here, 2).at = here.at + 2
<1>1. Ahead(here) = a /\ Peek(here, 1) = b
  BY DEF Starts
<1>2. here.at \in DOMAIN text /\ text[here.at] = a /\ here.at + 1 \in DOMAIN text /\ text[here.at + 1] = b
  BY <1>1, AheadIs, PeekIs
<1>3. here.at + 1 <= Len(text)
  BY <1>2, AheadIs
<1> QED BY <1>2, <1>3, TwoCharacters

LEMMA SkippedLineComment ==
  ASSUME IsText, here \in Positions, SkipLineComment
  PROVE  IsPieceOfTrivia(here.at, here'.at)
<1> DEFINE p == AdvanceBy(here, 2)
           places == DOMAIN text \ PlacesOf(LineEnds)
           slash == "/"
<1>1. Starts(slash, slash) /\ here' = PastAtMost(p, places, Len(text))
  BY DEF SkipLineComment, Skip, LineComment, Scan
<1>2. slash # NUL /\ slash # CR /\ slash # NL
  BY DEF NUL, CR, NL
<1>3. here.at \in Nat /\ here.at >= 1 /\ Len(text) \in Nat /\ DOMAIN text = 1 .. Len(text)
  BY AheadIs
<1> HIDE DEF p, slash
<1>4. text[here.at] = slash /\ text[here.at + 1] = slash /\ here.at + 1 <= Len(text)
      /\ p \in Positions /\ p.at = here.at + 2
  BY <1>1, <1>2, CommentBegins DEF p
<1>5. \A i \in places : text[i] # CR /\ text[i] # NL
  BY DEF PlacesOf, LineEnds
<1>6. places \in SUBSET DOMAIN text
  BY PlacesAre
<1>7. \A i \in DOMAIN text : i \notin places => text[i] \in LineEnds
  BY DEF PlacesOf
<1> HIDE DEF places
<1>8. \A i \in p.at .. here'.at - 1 : i \in places
  BY <1>1, <1>3, <1>4, <1>5, <1>6, LoopPasses
<1>9. here'.at \notin places
  BY <1>1, <1>4, <1>6, LoopEnds
<1>10. here' \in PositionsFrom(p.at)
  BY <1>1, <1>3, <1>4, <1>6, LoopStays
<1>11. here'.at \in Nat /\ here'.at >= here.at + 2 /\ here'.at <= Len(text) + 1
  BY <1>3, <1>4, <1>10 DEF PositionsFrom, Positions
<1>12. here'.at > Len(text) \/ text[here'.at] \in LineEnds
  BY <1>3, <1>7, <1>9, <1>11
<1> DEFINE w == SubSeq(text, here.at, here'.at - 1)
<1>13. /\ DOMAIN w = 1 .. here'.at - here.at
       /\ \A k \in 1 .. here'.at - here.at : w[k] = text[here.at + k - 1]
       /\ Len(w) = here'.at - here.at
  <2>1. here.at \in 1 .. Len(text) + 1 /\ here'.at \in here.at .. Len(text) + 1
    BY <1>3, <1>11
  <2> QED BY <2>1, CutIs
<1> HIDE DEF w
<1>14. Len(w) >= 2 /\ w[1] = slash /\ w[2] = slash
  <2>1. 1 \in 1 .. here'.at - here.at /\ 2 \in 1 .. here'.at - here.at
        /\ here.at + 1 - 1 = here.at /\ here.at + 2 - 1 = here.at + 1
    BY <1>3, <1>11
  <2>2. w[1] = text[here.at] /\ w[2] = text[here.at + 1]
    BY <1>13, <2>1
  <2>3. Len(w) >= 2
    BY <1>3, <1>11, <1>13
  <2> QED BY <1>4, <2>2, <2>3
<1>15. ASSUME NEW k \in DOMAIN w PROVE w[k] \notin {NL, CR}
  <2> DEFINE i == here.at + k - 1
  <2>1. i = here.at \/ i = here.at + 1 \/ i \in p.at .. here'.at - 1
    <3>1. k \in 1 .. here'.at - here.at
      BY <1>13
    <3>2. here.at \in Nat /\ here'.at \in Nat /\ p.at = here.at + 2
      BY <1>3, <1>4, <1>11
    <3> QED BY ONLY <3>1, <3>2
  <2>2. w[k] = text[i]
    BY <1>13
  <2> HIDE DEF i
  <2> QED BY <1>2, <1>4, <1>5, <1>8, <2>1, <2>2
<1>16. IsLineComment(w)
  BY <1>14, <1>15 DEF IsLineComment, slash
<1> QED BY <1>12, <1>16 DEF IsPieceOfTrivia, w

(* The i-th character of a comment that begins at h and is closed at e.    *)
LEMMA InAComment ==
  ASSUME NEW h \in Nat, NEW e \in Nat, h >= 1, e >= h + 2, NEW i \in 3 .. (e + 2 - h) - 1
  PROVE  /\ i \in 1 .. e + 2 - h /\ i + 1 \in 1 .. e + 2 - h
         /\ h + i - 1 \in h + 2 .. e /\ h + (i + 1) - 1 = (h + i - 1) + 1
         /\ h + i - 1 = e <=> i = (e + 2 - h) - 1
         /\ (h + i - 1) + 1 >= 1 /\ (h + i - 1) + 1 <= e + 1
  OBVIOUS

(* A block comment is closed by the first star and slash behind the two    *)
(* characters that open it, or by none and complained of.                  *)
LEMMA SkippedBlockComment ==
  ASSUME IsText, here \in Positions, SkipBlockComment
  PROVE  \/ IsPieceOfTrivia(here.at, here'.at) /\ Complains(<<>>)
         \/ here'.at = Len(text) + 1 /\ IsOpenComment(here.at) /\ Complains(<<"unterminated block comment">>)
<1> DEFINE p == AdvanceBy(here, 2)
           places == DOMAIN text \ Closings
           end == PastAtMost(p, places, Len(text))
           slash == "/"
           star == "*"
<1>1. Starts(slash, star) /\ here' = IF AtEnd(end) THEN end ELSE AdvanceBy(end, 2)
  BY DEF SkipBlockComment, Skip, BlockComment, Scan
<1>15. Complains(IF AtEnd(end) THEN <<"unterminated block comment">> ELSE <<>>)
  BY DEF SkipBlockComment, Skip, BlockComment, Scan, Complains
<1>2. /\ slash # NUL /\ slash # CR /\ slash # NL /\ star # NUL /\ star # CR /\ star # NL /\ slash # star
      /\ \A i \in DOMAIN text : i \in Closings <=> text[i] = star /\ i + 1 \in DOMAIN text /\ text[i + 1] = slash
  BY DEF NUL, CR, NL, Closings
<1>3. here.at \in Nat /\ here.at >= 1 /\ Len(text) \in Nat /\ DOMAIN text = 1 .. Len(text)
  BY AheadIs
<1> HIDE DEF p, slash, star
<1>4. text[here.at] = slash /\ text[here.at + 1] = star /\ here.at + 1 <= Len(text)
      /\ p \in Positions /\ p.at = here.at + 2
  BY <1>1, <1>2, CommentBegins DEF p
<1>5. places \in SUBSET DOMAIN text
  BY PlacesAre
<1>6. \A i \in DOMAIN text : i \in places <=> i \notin Closings
  OBVIOUS
<1> HIDE DEF places
<1>7. \A i \in places : text[i] = CR /\ i + 1 <= Len(text) /\ text[i + 1] = NL => i + 1 \in places
  BY <1>2, <1>3, <1>5, <1>6
<1>8. \A i \in p.at .. end.at - 1 : i \in places
  BY <1>3, <1>4, <1>5, <1>7, LoopPasses
<1>9. end.at \notin places
  BY <1>4, <1>5, LoopEnds
<1>10. end \in PositionsFrom(p.at)
  BY <1>3, <1>4, <1>5, LoopStays
<1>11. end \in Positions /\ end.at \in Nat /\ end.at >= here.at + 2 /\ end.at <= Len(text) + 1
  BY <1>3, <1>4, <1>10 DEF PositionsFrom, Positions
<1> HIDE DEF end
<1>12. ASSUME NEW i \in here.at + 2 .. end.at - 1 PROVE i \in DOMAIN text /\ ~(text[i] = star /\ i + 1 \in DOMAIN text /\ text[i + 1] = slash)
  <2>1. i \in p.at .. end.at - 1 /\ i \in DOMAIN text
    BY <1>3, <1>4, <1>11
  <2> QED BY <1>2, <1>6, <1>8, <2>1
<1>13. CASE AtEnd(end)
  <2>1. here' = end /\ end.at = Len(text) + 1
    BY <1>1, <1>3, <1>11, <1>13 DEF AtEnd
  <2> DEFINE w == SubSeq(text, here.at, Len(text))
  <2>2. /\ \A k \in 1 .. Len(text) + 1 - here.at : w[k] = text[here.at + k - 1]
        /\ Len(w) = Len(text) + 1 - here.at
    <3>1. here.at \in 1 .. Len(text) + 1 /\ Len(text) + 1 \in here.at .. Len(text) + 1 /\ (Len(text) + 1) - 1 = Len(text)
      BY <1>3, <1>4
    <3> QED BY <3>1, CutIs
  <2> HIDE DEF w
  <2>3. Len(w) >= 2 /\ w[1] = slash /\ w[2] = star
    <3>1. 1 \in 1 .. Len(text) + 1 - here.at /\ 2 \in 1 .. Len(text) + 1 - here.at
          /\ here.at + 1 - 1 = here.at /\ here.at + 2 - 1 = here.at + 1
      BY <1>3, <1>4
    <3>2. w[1] = text[here.at] /\ w[2] = text[here.at + 1]
      BY <2>2, <3>1
    <3>3. Len(w) >= 2
      BY <1>3, <1>4, <2>2
    <3> QED BY <1>4, <3>2, <3>3
  <2>4. Opens(From(text, here.at))
    BY <2>3 DEF Opens, From, w, slash, star
  <2>5. ASSUME NEW k \in here.at + 2 .. Len(text) - 1 PROVE ~(text[k] = star /\ text[k + 1] = slash)
    <3>1. k \in here.at + 2 .. end.at - 1 /\ k + 1 \in DOMAIN text
      BY <1>3, <2>1
    <3> QED BY <1>12, <3>1
  <2>6. IsOpenComment(here.at)
    BY <2>4, <2>5 DEF IsOpenComment, slash, star
  <2> QED BY <1>13, <1>15, <2>1, <2>6
<1>14. CASE ~AtEnd(end)
  <2>1. text[end.at] = star /\ end.at + 1 <= Len(text) /\ text[end.at + 1] = slash
    <3>1. end.at \in DOMAIN text
      BY <1>3, <1>11, <1>14 DEF AtEnd
    <3>2. end.at \in Closings
      BY <1>6, <1>9, <3>1
    <3> QED BY <1>2, <1>3, <3>1, <3>2
  <2>2. here'.at = end.at + 2
    <3>1. here' = AdvanceBy(end, 2)
      BY <1>1, <1>14
    <3> QED BY <1>2, <1>11, <2>1, <3>1, TwoCharacters
  <2> DEFINE w == SubSeq(text, here.at, here'.at - 1)
             n == end.at + 2 - here.at
  <2>3. /\ \A k \in 1 .. n : w[k] = text[here.at + k - 1]
        /\ Len(w) = n
    <3>1. here.at \in 1 .. Len(text) + 1 /\ here'.at \in here.at .. Len(text) + 1 /\ here'.at - here.at = n
      <4>1. /\ here.at \in Nat /\ here.at >= 1 /\ end.at \in Nat /\ end.at >= here.at + 2
            /\ end.at + 1 <= Len(text) /\ Len(text) \in Nat /\ here'.at = end.at + 2
        BY <1>3, <1>11, <2>1, <2>2
      <4> QED BY ONLY <4>1
    <3> QED BY <3>1, CutIs
  <2>4. n \in Nat /\ n >= 4
    BY <1>3, <1>11
  <2> HIDE DEF w
  <2>5. w[1] = slash /\ w[2] = star
    <3>1. 1 \in 1 .. n /\ 2 \in 1 .. n /\ here.at + 1 - 1 = here.at /\ here.at + 2 - 1 = here.at + 1
      BY <1>3, <2>4
    <3> QED BY <1>4, <2>3, <3>1
  <2>6. ASSUME NEW i \in 3 .. n - 1 PROVE (w[i] = star /\ w[i + 1] = slash) <=> i = n - 1
    <3> DEFINE k == here.at + i - 1
    <3>1. /\ i \in 1 .. n /\ i + 1 \in 1 .. n /\ k \in here.at + 2 .. end.at /\ here.at + (i + 1) - 1 = k + 1
          /\ k = end.at <=> i = n - 1
          /\ k + 1 \in DOMAIN text
      <4> DEFINE h == here.at
                 e == end.at
      <4>1. h \in Nat /\ e \in Nat /\ h >= 1 /\ e >= h + 2 /\ i \in 3 .. (e + 2 - h) - 1
            /\ e + 1 <= Len(text) /\ DOMAIN text = 1 .. Len(text) /\ Len(text) \in Nat
        BY <1>3, <1>11, <2>1
      <4> HIDE DEF h, e
      <4>2. /\ i \in 1 .. e + 2 - h /\ i + 1 \in 1 .. e + 2 - h
            /\ h + i - 1 \in h + 2 .. e /\ h + (i + 1) - 1 = (h + i - 1) + 1
            /\ h + i - 1 = e <=> i = (e + 2 - h) - 1
            /\ (h + i - 1) + 1 >= 1 /\ (h + i - 1) + 1 <= e + 1
        BY <4>1, InAComment
      <4>3. (h + i - 1) + 1 \in DOMAIN text
        BY <4>1, <4>2
      <4> QED BY <4>2, <4>3 DEF h, e
    <3>2. w[i] = text[k] /\ w[i + 1] = text[k + 1]
      BY <2>3, <3>1
    <3> HIDE DEF k
    <3>3. k = end.at \/ k \in here.at + 2 .. end.at - 1
      BY <1>3, <1>11, <3>1
    <3> QED BY <1>12, <2>1, <3>1, <3>2, <3>3
  <2>7. {i \in 3 .. n - 1 : w[i] = star /\ w[i + 1] = slash} = {n - 1}
    <3>1. n - 1 \in 3 .. n - 1
      BY <2>4
    <3> HIDE DEF n
    <3> QED BY <2>6, <3>1
  <2>8. Opens(w)
    BY <2>3, <2>4, <2>5 DEF Opens, slash, star
  <2>9. IsBlockComment(w)
    <3> HIDE DEF n
    <3> QED BY <2>3, <2>4, <2>7, <2>8 DEF IsBlockComment, slash, star
  <2> QED BY <1>14, <1>15, <2>9 DEF IsPieceOfTrivia, w
<1> QED BY <1>13, <1>14

(* Behind the i-th token, and behind the last.                             *)
Start(i) == IF i = 1 THEN 1 ELSE tokens[i - 1].to + 1
Last == Start(Len(tokens) + 1)

(* A comment from k on that is never closed, behind white space and        *)
(* comments from start on.                                                 *)
StaysOpen(start) == \E k \in start .. Len(text) : IsTriviaOnly(start, k) /\ IsOpenComment(k)

Follows(start, token) ==
  \/ IsTriviaOnly(start, token.from)
  \/ token.kind = "eof" /\ StaysOpen(start)

(* All that is before the lexer is in a token or is white space and        *)
(* comments, those behind the last token too.                              *)
NothingLostInv ==
  /\ PlacesInv
  /\ ~done => /\ Last \in Nat
              /\ IsTriviaOnly(Last, here.at) \/ (AtEnd(here) /\ StaysOpen(Last))
  /\ \A i \in DOMAIN tokens : Follows(Start(i), tokens[i])
  /\ done => \E i \in DOMAIN tokens : tokens[i].kind = "eof" /\ tokens[i].from = Len(text) + 1

LEMMA NothingLostInvImplies == NothingLostInv => NothingIsLost
<1> SUFFICES ASSUME NothingLostInv PROVE NothingIsLost
  OBVIOUS
<1>1. \A i \in DOMAIN tokens : Follows(Start(i), tokens[i])
  BY DEF NothingLostInv
<1>2. done => \E i \in DOMAIN tokens : tokens[i].kind = "eof" /\ tokens[i].from = Len(text) + 1
  BY DEF NothingLostInv
<1> QED BY <1>1, <1>2 DEF NothingIsLost, Follows, StaysOpen, Start

(* A turn of the loop, once it is known what it skips.                     *)
SkippedTrivia ==
  /\ Skipped
  /\ IsPieceOfTrivia(here.at, here'.at) \/ (here'.at = Len(text) + 1 /\ IsOpenComment(here.at))

LEMMA TurnsAre ==
  ASSUME IsText, here \in Positions, Next
  PROVE  ~done /\ (SkippedTrivia \/ Added \/ EndOfFile)
<1>1. ~done
  BY DEF Next, SkipBlank, SkipLineComment, SkipBlockComment, LexQuotedLiteral, LexIdentifier, LexHexLiteral,
         LexBinaryLiteral, LexDecimalLiteral, LexPunctuator, LexInvalidCharacter, EndOfFile, AtPunctuator, AtToken
<1>2. SkipBlank \/ SkipLineComment \/ SkipBlockComment => SkippedTrivia
  BY SkipsForward, SkippedBlank, SkippedLineComment, SkippedBlockComment DEF SkippedTrivia
<1>3. SkippedTrivia \/ Added \/ EndOfFile
  BY <1>2, LiteralIsAdded, IdentifierIsAdded, HexIsAdded, BinaryIsAdded, DecimalIsAdded,
     PunctuatorIsAdded DEF Next
<1> QED BY <1>1, <1>3

(* What is said of a text stays true while the text stays.                 *)
LEMMA SameTrivia ==
  ASSUME text' = text
  PROVE  /\ \A i, j : IsTriviaOnly(i, j)' <=> IsTriviaOnly(i, j)
         /\ \A k : IsOpenComment(k)' <=> IsOpenComment(k)
         /\ \A i : StaysOpen(i)' <=> StaysOpen(i)
<1>1. ASSUME NEW i, NEW j PROVE IsPieceOfTrivia(i, j)' <=> IsPieceOfTrivia(i, j)
  BY DEF IsPieceOfTrivia
<1>2. ASSUME NEW i, NEW j PROVE IsTriviaOnly(i, j)' <=> IsTriviaOnly(i, j)
  BY <1>1 DEF IsTriviaOnly
<1>3. ASSUME NEW k PROVE IsOpenComment(k)' <=> IsOpenComment(k)
  BY DEF IsOpenComment
<1>4. ASSUME NEW i PROVE StaysOpen(i)' <=> StaysOpen(i)
  BY <1>2, <1>3 DEF StaysOpen
<1> QED BY <1>2, <1>3, <1>4

(* Where it was and is.                                                    *)
LEMMA PlacesAgree ==
  ASSUME PlacesInv
  PROVE  /\ IsText /\ here \in Positions /\ IsSequence(tokens)
         /\ here.at \in Nat /\ here.at >= 1 /\ here.at <= Len(text) + 1 /\ Len(text) \in Nat
         /\ AtEnd(here) <=> here.at = Len(text) + 1
         /\ here' \in Behind(here) => here'.at \in Nat /\ here'.at > here.at /\ here'.at <= Len(text) + 1
<1>1. IsText /\ here \in Positions /\ IsSequence(tokens)
  BY DEF PlacesInv
<1>2. here.at \in Nat /\ here.at >= 1 /\ here.at <= Len(text) + 1 /\ Len(text) \in Nat
  BY <1>1 DEF Positions, IsText
<1>3. AtEnd(here) <=> here.at = Len(text) + 1
  BY <1>2 DEF AtEnd
<1>4. ASSUME here' \in Behind(here) PROVE here'.at \in Nat /\ here'.at > here.at /\ here'.at <= Len(text) + 1
  <2>1. here' \in Positions /\ here'.at > here.at
    BY <1>1, <1>4, BehindIs
  <2> QED BY <1>2, <2>1 DEF Positions
<1> QED BY <1>1, <1>2, <1>3, <1>4

(* A new token begins where the last one's successor was to begin.         *)
LEMMA TokensFollow ==
  ASSUME NothingLostInv, text' = text, NEW kind, NEW end,
         tokens' = Append(tokens, TokenAt(kind, end)),
         Follows(Last, TokenAt(kind, end))
  PROVE  /\ \A i \in DOMAIN tokens' : Follows(Start(i), tokens[i])'
         /\ Last' = end.at - 1 + 1
         /\ Len(tokens) + 1 \in DOMAIN tokens'
         /\ tokens'[Len(tokens) + 1] = TokenAt(kind, end)
<1> DEFINE t == TokenAt(kind, end)
           n == Len(tokens)
<1>1. IsSequence(tokens) /\ tokens' = Append(tokens, t)
  BY DEF NothingLostInv, PlacesInv
<1>2. t.to = end.at - 1
  BY DEF TokenAt
<1>3. Follows(Last, t) /\ \A i \in DOMAIN tokens : Follows(Start(i), tokens[i])
  BY DEF NothingLostInv
<1> HIDE DEF t
<1>4. /\ n \in Nat /\ DOMAIN tokens = 1 .. n
      /\ Len(tokens') = n + 1 /\ DOMAIN tokens' = 1 .. n + 1
      /\ tokens'[n + 1] = t
      /\ \A i \in 1 .. n : tokens'[i] = tokens[i]
  BY <1>1, TokensGrow
<1> HIDE DEF n
<1>5. Last' = end.at - 1 + 1
  <2> DEFINE m == Len(tokens') + 1
  <2>1. Last' = IF m = 1 THEN 1 ELSE tokens'[m - 1].to + 1
    BY DEF Last, Start
  <2>2. m # 1 /\ m - 1 = n + 1
    BY <1>4
  <2> QED BY <1>2, <1>4, <2>1, <2>2
<1>6. ASSUME NEW i \in 1 .. n + 1 PROVE Start(i)' = Start(i)
  <2>1. CASE i = 1
    BY <2>1 DEF Start
  <2>2. CASE i # 1
    <3>1. i - 1 \in 1 .. n
      BY <1>4, <2>2
    <3>2. tokens'[i - 1] = tokens[i - 1]
      BY <1>4, <3>1
    <3> QED BY <2>2, <3>2 DEF Start
  <2> QED BY <2>1, <2>2
<1>7. Start(n + 1) = Last
  BY DEF Last, n
<1>8. ASSUME NEW i \in 1 .. n + 1 PROVE Follows(Start(i), tokens[i])'
  <2>1. Follows(Start(i), tokens'[i])
    <3>1. CASE i = n + 1
      BY <1>3, <1>4, <1>7, <3>1
    <3>2. CASE i # n + 1
      <4>1. i \in 1 .. n
        BY <1>4, <3>2
      <4> QED BY <1>3, <1>4, <4>1
    <3> QED BY <3>1, <3>2
  <2>2. Start(i)' = Start(i)
    BY <1>6
  <2>3. IsTriviaOnly(Start(i), tokens'[i].from) \/ (tokens'[i].kind = "eof" /\ StaysOpen(Start(i)))
    BY <2>1 DEF Follows
  <2>4. /\ IsTriviaOnly(Start(i), tokens[i].from)' <=> IsTriviaOnly(Start(i), tokens'[i].from)
        /\ StaysOpen(Start(i))' <=> StaysOpen(Start(i))
    BY <2>2, SameTrivia
  <2> QED BY <2>3, <2>4 DEF Follows
<1>9. n + 1 \in 1 .. n + 1
  BY <1>4
<1> QED BY <1>4, <1>5, <1>8, <1>9 DEF t, n

LEMMA NothingLostInit == Init => NothingLostInv
<1> SUFFICES ASSUME Init PROVE NothingLostInv
  OBVIOUS
<1>1. PlacesInv
  BY PlacesInit
<1>2. tokens = <<>> /\ Len(tokens) = 0 /\ DOMAIN tokens = {} /\ ~done
  BY DEF Init
<1>3. Last = 1 /\ here.at = 1
  BY <1>2 DEF Last, Start, Init
<1>4. Last \in Nat /\ IsTriviaOnly(Last, here.at)
  BY <1>3, TriviaAre
<1> QED BY <1>1, <1>2, <1>4 DEF NothingLostInv

LEMMA NothingLostNext == NothingLostInv /\ [Next]_vars => NothingLostInv'
<1> SUFFICES ASSUME NothingLostInv, [Next]_vars PROVE NothingLostInv'
  OBVIOUS
<1>1. PlacesInv /\ PlacesInv'
  BY PlacesNext DEF NothingLostInv
<1>2. (~done /\ (SkippedTrivia \/ Added \/ EndOfFile)) \/ UNCHANGED vars
  BY <1>1, TurnsAre DEF PlacesInv
<1>3. CASE UNCHANGED vars
  <2>1. text' = text /\ here' = here /\ tokens' = tokens /\ done' = done
    BY <1>3 DEF vars
  <2>2. Last' = Last /\ \A i : Start(i)' = Start(i)
    BY <2>1 DEF Last, Start
  <2>3. ~done' => Last' \in Nat /\ (IsTriviaOnly(Last, here.at)' \/ (AtEnd(here)' /\ StaysOpen(Last)'))
    BY <2>1, <2>2, SameTrivia DEF NothingLostInv, AtEnd
  <2>4. ASSUME NEW i \in DOMAIN tokens' PROVE Follows(Start(i), tokens[i])'
    <3>1. Follows(Start(i), tokens[i])
      BY <2>1 DEF NothingLostInv
    <3> QED BY <2>1, <2>2, <3>1, SameTrivia DEF Follows
  <2>5. done' => \E i \in DOMAIN tokens' : tokens'[i].kind = "eof" /\ tokens'[i].from = Len(text') + 1
    BY <2>1 DEF NothingLostInv
  <2> QED BY <1>1, <2>3, <2>4, <2>5 DEF NothingLostInv
<1>4. CASE ~done /\ SkippedTrivia
  <2>1. /\ text' = text /\ tokens' = tokens /\ done' = done /\ ~done
        /\ here' \in Behind(here)
        /\ IsPieceOfTrivia(here.at, here'.at) \/ (here'.at = Len(text) + 1 /\ IsOpenComment(here.at))
    BY <1>4 DEF SkippedTrivia, Skipped
  <2>2. Last' = Last /\ \A i : Start(i)' = Start(i)
    BY <2>1 DEF Last, Start
  <2>3. here.at \in Nat /\ here'.at \in Nat /\ here'.at > here.at /\ here'.at <= Len(text) + 1 /\ Len(text) \in Nat
    BY <1>1, <2>1, PlacesAgree
  <2>4. Last \in Nat /\ IsTriviaOnly(Last, here.at)
    <3>1. ~AtEnd(here)
      BY <1>1, <2>3, PlacesAgree
    <3> QED BY <2>1, <3>1 DEF NothingLostInv
  <2>5. IsTriviaOnly(Last, here'.at) \/ (here'.at = Len(text) + 1 /\ StaysOpen(Last))
    <3>1. CASE IsPieceOfTrivia(here.at, here'.at)
      <4>1. here.at < here'.at
        BY <2>3
      <4> QED BY <2>3, <2>4, <3>1, <4>1, TriviaGrow
    <3>2. CASE here'.at = Len(text) + 1 /\ IsOpenComment(here.at)
      <4>1. Last <= here.at
        BY <2>3, <2>4, TriviaAre
      <4>2. here.at \in Last .. Len(text)
        BY <2>3, <2>4, <4>1
      <4> QED BY <2>4, <3>2, <4>2 DEF StaysOpen
    <3> QED BY <2>1, <3>1, <3>2
  <2>6. IsTriviaOnly(Last, here.at)' \/ (AtEnd(here)' /\ StaysOpen(Last)')
    <3>1. here'.at = Len(text) + 1 => AtEnd(here)'
      BY <2>1, <2>3 DEF AtEnd
    <3> QED BY <2>1, <2>2, <2>5, <3>1, SameTrivia
  <2>7. ASSUME NEW i \in DOMAIN tokens' PROVE Follows(Start(i), tokens[i])'
    <3>1. Follows(Start(i), tokens[i])
      BY <2>1 DEF NothingLostInv
    <3> QED BY <2>1, <2>2, <3>1, SameTrivia DEF Follows
  <2> QED BY <1>1, <2>1, <2>2, <2>4, <2>6, <2>7 DEF NothingLostInv
<1>5. CASE ~done /\ Added
  <2>1. /\ text' = text /\ done' = done /\ ~done /\ here' \in Behind(here)
        /\ \E kind : tokens' = Append(tokens, TokenAt(kind, here'))
    BY <1>5 DEF Added
  <2>2. here.at \in Nat /\ here'.at \in Nat /\ here'.at > here.at /\ here'.at <= Len(text) + 1 /\ Len(text) \in Nat
    BY <1>1, <2>1, PlacesAgree
  <2>3. Last \in Nat /\ IsTriviaOnly(Last, here.at)
    <3>1. ~AtEnd(here)
      BY <1>1, <2>2, PlacesAgree
    <3> QED BY <2>1, <3>1 DEF NothingLostInv
  <2>4. PICK kind : tokens' = Append(tokens, TokenAt(kind, here'))
    BY <2>1
  <2>5. PICK end : end = here'
    OBVIOUS
  <2>6. Follows(Last, TokenAt(kind, end))
    BY <2>3 DEF Follows, TokenAt
  <2>7. tokens' = Append(tokens, TokenAt(kind, end))
    BY <2>4, <2>5
  <2>8. /\ \A i \in DOMAIN tokens' : Follows(Start(i), tokens[i])'
        /\ Last' = end.at - 1 + 1
    BY <2>1, <2>6, <2>7, TokensFollow
  <2>9. Last' = here'.at /\ Last' \in Nat
    BY <2>2, <2>5, <2>8
  <2>10. IsTriviaOnly(Last, here.at)'
    BY <2>1, <2>2, <2>9, TriviaAre, SameTrivia
  <2> QED BY <1>1, <2>1, <2>8, <2>9, <2>10 DEF NothingLostInv
<1>6. CASE ~done /\ EndOfFile
  <2>1. /\ text' = text /\ done' /\ ~done /\ AtEnd(here)
        /\ tokens' = Append(tokens, TokenAt("eof", here))
    BY <1>6 DEF EndOfFile
  <2>2. PICK kind, end : kind = "eof" /\ end = here
    OBVIOUS
  <2>3. tokens' = Append(tokens, TokenAt(kind, end))
    BY <2>1, <2>2
  <2>4. Follows(Last, TokenAt(kind, end))
    BY <2>1, <2>2 DEF NothingLostInv, Follows, TokenAt
  <2>5. /\ \A i \in DOMAIN tokens' : Follows(Start(i), tokens[i])'
        /\ Len(tokens) + 1 \in DOMAIN tokens'
        /\ tokens'[Len(tokens) + 1] = TokenAt(kind, end)
    BY <2>1, <2>3, <2>4, TokensFollow
  <2>6. TokenAt(kind, end).kind = "eof" /\ TokenAt(kind, end).from = Len(text) + 1
    <3>1. here.at = Len(text) + 1
      BY <1>1, <2>1, PlacesAgree
    <3> QED BY <2>2, <3>1 DEF TokenAt
  <2>7. \E i \in DOMAIN tokens' : tokens'[i].kind = "eof" /\ tokens'[i].from = Len(text') + 1
    BY <2>1, <2>5, <2>6
  <2> QED BY <1>1, <2>1, <2>5, <2>7 DEF NothingLostInv
<1> QED BY <1>2, <1>3, <1>4, <1>5, <1>6

(* No character of any text is lost, and the lexer ends at its end: what   *)
(* is in no token is white space and comments, of which the last may stay  *)
(* open (cc_skip_trivia, cc_lex_source).                                   *)
THEOREM NothingIsEverLost == Spec => []NothingIsLost
<1>1. Spec => []NothingLostInv
  BY NothingLostInit, NothingLostNext, PTL DEF Spec
<1> QED BY <1>1, NothingLostInvImplies, PTL

-----------------------------------------------------------------------------
(* Words of the text.                                                      *)

(* What lies at a up to before b, and what is said of all of it.           *)
Word(a, b) == SubSeq(text, a, b - 1)
Throughout(a, b, class) == \A k \in a .. b - 1 : text[k] \in class

(* The places of a text, its end among them.                               *)
Places == 1 .. Len(text) + 1

LEMMA WordIs ==
  ASSUME IsText, NEW a \in Places, NEW b \in Places, a <= b
  PROVE  /\ Word(a, b) \in Seq(STRING) /\ Len(Word(a, b)) = b - a
         /\ DOMAIN Word(a, b) = 1 .. b - a
         /\ \A k \in 1 .. b - a : Word(a, b)[k] = text[a + k - 1]
         /\ \A class : All(Word(a, b), class) <=> Throughout(a, b, class)
         /\ \A class : Some(Word(a, b), class) <=> a < b /\ Throughout(a, b, class)
<1>1. text \in Seq(STRING) /\ Len(text) \in Nat /\ a \in Int /\ b \in Int /\ a >= 1 /\ b <= Len(text) + 1
  BY DEF IsText, Places
<1>2. \A k \in a .. b - 1 : k \in 1 .. Len(text)
  BY <1>1
<1> DEFINE w == Word(a, b)
<1>3. w \in Seq(STRING) /\ Len(w) = b - a /\ \A k \in 1 .. b - a : w[k] = text[a + k - 1]
  BY <1>1, <1>2 DEF Word
<1>4. DOMAIN w = 1 .. b - a
  BY <1>3
<1> HIDE DEF w
<1>5. ASSUME NEW class PROVE All(w, class) <=> Throughout(a, b, class)
  <2>1. ASSUME All(w, class), NEW k \in a .. b - 1 PROVE text[k] \in class
    <3>1. k - a + 1 \in 1 .. b - a /\ a + (k - a + 1) - 1 = k
      BY <1>1
    <3>2. w[k - a + 1] = text[k]
      BY <1>3, <3>1
    <3> QED BY <1>4, <2>1, <3>1, <3>2 DEF All
  <2>2. ASSUME Throughout(a, b, class), NEW k \in 1 .. b - a PROVE w[k] \in class
    <3>1. a + k - 1 \in a .. b - 1
      BY <1>1
    <3> QED BY <1>3, <2>2, <3>1 DEF Throughout
  <2> QED BY <1>4, <2>1, <2>2 DEF All, Throughout
<1>6. w # <<>> <=> a < b
  BY <1>1, <1>3
<1> QED BY <1>3, <1>4, <1>5, <1>6 DEF w, Some

LEMMA WordParts ==
  ASSUME IsText, NEW a \in Places, NEW b \in Places, NEW m \in a .. b
  PROVE  UpTo(Word(a, b), m - a) = Word(a, m) /\ From(Word(a, b), m - a + 1) = Word(m, b)
<1>1. text \in Seq(STRING) /\ Len(text) \in Nat /\ a \in Int /\ b \in Int /\ m \in Int /\ a >= 1
      /\ b <= Len(text) + 1 /\ a <= m /\ m <= b /\ m \in Places
  BY DEF IsText, Places
<1> DEFINE w == Word(a, b)
           l == Word(a, m)
           r == Word(m, b)
<1>2. w \in Seq(STRING) /\ Len(w) = b - a /\ \A k \in 1 .. b - a : w[k] = text[a + k - 1]
  BY <1>1, WordIs
<1>3. l \in Seq(STRING) /\ Len(l) = m - a /\ \A k \in 1 .. m - a : l[k] = text[a + k - 1]
  BY <1>1, WordIs
<1>4. r \in Seq(STRING) /\ Len(r) = b - m /\ \A k \in 1 .. b - m : r[k] = text[m + k - 1]
  BY <1>1, WordIs
<1> HIDE DEF w, l, r
<1>5. UpTo(w, m - a) = l
  <2> DEFINE s == SubSeq(w, 1, m - a)
  <2>1. s \in Seq(STRING) /\ Len(s) = m - a /\ \A k \in 1 .. m - a : s[k] = w[k]
    BY <1>1, <1>2
  <2> HIDE DEF s
  <2>2. ASSUME NEW k \in 1 .. m - a PROVE s[k] = l[k]
    <3>1. k \in 1 .. b - a
      BY <1>1
    <3> QED BY <1>2, <1>3, <2>1, <3>1
  <2>3. s = l
    BY <1>3, <2>1, <2>2
  <2> QED BY <2>3 DEF UpTo, s
<1>6. From(w, m - a + 1) = r
  <2> DEFINE s == SubSeq(w, m - a + 1, Len(w))
  <2>0. \A k \in m - a + 1 .. b - a : k \in 1 .. Len(w)
    BY <1>1, <1>2
  <2>1. s \in Seq(STRING) /\ Len(s) = b - m /\ \A k \in 1 .. b - m : s[k] = w[m - a + k]
    BY <1>1, <1>2, <2>0
  <2> HIDE DEF s
  <2>2. ASSUME NEW k \in 1 .. b - m PROVE s[k] = r[k]
    <3>1. m - a + k \in 1 .. b - a /\ a + (m - a + k) - 1 = m + k - 1
      BY <1>1
    <3>2. w[m - a + k] = text[a + (m - a + k) - 1]
      BY <1>2, <3>1
    <3> QED BY <1>4, <2>1, <3>1, <3>2
  <2>3. s = r
    BY <1>4, <2>1, <2>2
  <2> QED BY <2>3 DEF From, s
<1> QED BY <1>5, <1>6 DEF w, l, r

-----------------------------------------------------------------------------
(* Runs of characters of one class.                                        *)
IsRun(a, b, class) ==
  a <= b /\ Throughout(a, b, class) /\ (b <= Len(text) => text[b] \notin class)

(* No class with a carriage return in it.                                  *)
LEMMA PastRuns ==
  ASSUME IsText, NEW p \in Positions, NEW class, CR \notin class
  PROVE  /\ Past(p, class) \in Positions
         /\ IsRun(p.at, Past(p, class).at, class)
<1>1. p.at \in Nat /\ Len(text) \in Nat /\ DOMAIN text = 1 .. Len(text)
  BY AheadIs
<1> DEFINE places == PlacesOf(class)
           q == Past(p, class)
<1>2. places \in SUBSET DOMAIN text /\ \A i \in places : text[i] # CR
  BY DEF PlacesOf
<1>3. q \in Positions /\ q.at >= p.at /\ q.at \in Nat
  BY <1>1, PastIs, FromIs
<1>4. \A i \in p.at .. q.at - 1 : i \in places
  <2> HIDE DEF places
  <2>1. q = PastAtMost(p, places, Len(text))
    BY DEF Past, places
  <2> HIDE DEF q
  <2> QED BY <1>1, <1>2, <2>1, LoopPasses
<1>5. q.at \notin places
  <2> HIDE DEF places
  <2>1. q = PastAtMost(p, places, Len(text))
    BY DEF Past, places
  <2> QED BY <1>2, <2>1, LoopEnds
<1>6. Throughout(p.at, q.at, class)
  BY <1>4 DEF Throughout, PlacesOf
<1>7. q.at <= Len(text) => text[q.at] \notin class
  <2>1. q.at >= 1
    BY <1>3 DEF Positions
  <2> QED BY <1>1, <1>3, <1>5, <2>1 DEF PlacesOf
<1> QED BY <1>3, <1>6, <1>7 DEF IsRun

(* One character that is no carriage return.                               *)
LEMMA OneStep ==
  ASSUME IsText, NEW p \in Positions, p.at <= Len(text), text[p.at] # CR
  PROVE  Advance(p) \in Positions /\ Advance(p).at = p.at + 1
<1>1. ~AtEnd(p)
  BY AheadIs DEF AtEnd
<1> QED BY <1>1, AdvanceIs

LEMMA OneTurn ==
  ASSUME IsText, NEW p \in Positions, NEW places \in SUBSET DOMAIN text
  PROVE  PastAtMost(p, places, 1) = OneMore(p, places)
<1>1. PICK w : Moves(w, PositionsFrom(p.at), p, places, 1) /\ PastAtMost(p, places, 1) = w[1]
  BY LoopIs
<1>2. w[0] = p /\ w[1] = OneMore(w[0], places)
  <2>1. w[0] = p /\ \A k \in 1 .. 1 : w[k] = OneMore(w[k - 1], places)
    BY <1>1 DEF Moves
  <2>2. 1 \in 1 .. 1 /\ 1 - 1 = 0
    OBVIOUS
  <2> QED BY <2>1, <2>2
<1> QED BY <1>1, <1>2

LEMMA PastOneIs ==
  ASSUME IsText, NEW p \in Positions, NEW class, CR \notin class
  PROVE  /\ PastOne(p, class) \in Positions
         /\ p.at <= Len(text) /\ text[p.at] \in class => PastOne(p, class).at = p.at + 1
         /\ ~(p.at <= Len(text) /\ text[p.at] \in class) => PastOne(p, class) = p
<1>1. p.at \in Nat /\ p.at >= 1 /\ Len(text) \in Nat /\ DOMAIN text = 1 .. Len(text)
  BY AheadIs
<1>2. PlacesOf(class) \in SUBSET DOMAIN text /\ (p.at \in PlacesOf(class) <=> p.at <= Len(text) /\ text[p.at] \in class)
  BY <1>1 DEF PlacesOf
<1>3. PastOne(p, class) = OneMore(p, PlacesOf(class))
  BY <1>2, OneTurn DEF PastOne
<1>4. CASE p.at \in PlacesOf(class)
  <2>1. PastOne(p, class) = Advance(p)
    BY <1>2, <1>3, <1>4, OneMoreIs
  <2> QED BY <1>2, <1>4, <2>1, OneStep
<1>5. CASE p.at \notin PlacesOf(class)
  <2>1. PastOne(p, class) = p
    BY <1>2, <1>3, <1>5, OneMoreIs
  <2> QED BY <1>2, <1>5, <2>1
<1> QED BY <1>4, <1>5

(* Characters none of which is a carriage return.                          *)
LEMMA StepsOver ==
  ASSUME IsText, NEW p \in Positions, NEW n \in Nat, p.at + n <= Len(text) + 1,
         \A k \in p.at .. p.at + n - 1 : text[k] # CR
  PROVE  AdvanceBy(p, n) \in Positions /\ AdvanceBy(p, n).at = p.at + n
<1> DEFINE D == DOMAIN text
<1>1. p.at \in Nat /\ p.at >= 1 /\ Len(text) \in Nat /\ D = 1 .. Len(text) /\ D \in SUBSET DOMAIN text
  BY AheadIs
<1>2. PICK w : Moves(w, PositionsFrom(p.at), p, D, n) /\ PastAtMost(p, D, n) = w[n]
  BY <1>1, LoopIs
<1>3. w[0] = p /\ \A k \in 1 .. n : w[k] = OneMore(w[k - 1], D)
  BY <1>2 DEF Moves
<1> HIDE DEF D
<1> DEFINE Right(k) == w[k] \in Positions /\ w[k].at = p.at + k
           Bad == {k \in 0 .. n : ~Right(k)}
<1>4. ASSUME NEW k \in 1 .. n, Right(k - 1) PROVE Right(k)
  <2>1. w[k - 1].at = p.at + k - 1 /\ w[k - 1] \in Positions
    BY <1>1, <1>4
  <2>2. p.at + k - 1 \in p.at .. p.at + n - 1 /\ p.at + k - 1 <= Len(text)
    BY <1>1
  <2>3. w[k - 1].at \in D /\ text[w[k - 1].at] # CR
    BY <1>1, <2>1, <2>2
  <2>4. w[k] = Advance(w[k - 1])
    BY <1>1, <1>3, <2>1, <2>3, OneMoreIs
  <2>5. w[k] \in Positions /\ w[k].at = w[k - 1].at + 1
    BY <2>1, <2>2, <2>3, <2>4, OneStep
  <2> QED BY <1>1, <2>1, <2>5
<1>5. Right(0)
  BY <1>1, <1>3
<1> HIDE DEF Right
<1>6. ASSUME Bad # {} PROVE FALSE
  <2>1. Bad \in SUBSET Nat
    OBVIOUS
  <2>2. PICK m \in Bad : \A j \in Bad : m <= j
    <3> HIDE DEF Bad
    <3> QED BY <1>6, <2>1, LeastNumber
  <2>3. m \in 0 .. n /\ ~Right(m)
    OBVIOUS
  <2>4. m \in 1 .. n /\ m - 1 \in 0 .. n /\ ~(m <= m - 1)
    BY <1>5, <2>3
  <2>5. Right(m - 1)
    BY <2>2, <2>4
  <2> QED BY <1>4, <2>3, <2>4, <2>5
<1>7. n \in 0 .. n
  OBVIOUS
<1>8. Right(n)
  BY <1>6, <1>7
<1> QED BY <1>2, <1>8 DEF AdvanceBy, D, Right

-----------------------------------------------------------------------------
(* The pieces of a text.                                                   *)
IsToken(w) == Kinds(w) # {}
LongestTrivia(t, i) == Longest(t, i, IsTrivia)
LongestToken(t, i) == Longest(t, i, IsToken)

IsCut(t, word, i) ==
  /\ IsInteger(word) \/ IsFloat(word)
  /\ i <= Len(t) /\ ~EndsNumber(word, t[i])

Piece(kind, i, length) == [kind |-> kind, from |-> i, to |-> i + length - 1]

(* What is from i on, given what is further on.                            *)
PiecesAt(t, f, i) ==
  LET trivia == LongestTrivia(t, i)
      n == LongestToken(t, i)
      word == SubSeq(t, i, i + n - 1)
  IN  CASE i > Len(t) -> <<>>
        [] i <= Len(t) /\ trivia > 0 -> f[i + trivia]
        [] i <= Len(t) /\ trivia = 0 /\ Opens(From(t, i)) -> <<Piece("open comment", i, Len(t) - i + 1)>>
        [] OTHER -> IF n = 0 \/ IsCut(t, word, i + n) THEN <<Piece("none", i, 1)>>
                    ELSE <<Piece(CHOOSE k \in Kinds(word) : TRUE, i, n)>> \o f[i + n]

PiecesFrom(t) == CHOOSE f : f = [i \in 1 .. Len(t) + 1 |-> PiecesAt(t, f, i)]

LEMMA PiecesAreFrom ==
  ASSUME NEW t
  PROVE  Pieces(t) = PiecesFrom(t)[1]
BY DEF Pieces, PiecesFrom, PiecesAt, Piece, IsCut, LongestToken, LongestTrivia, IsToken

(* A nonempty set of numbers up to n has a greatest member.                *)
LEMMA GreatestNumber ==
  ASSUME NEW n \in Nat, NEW T \in SUBSET (1 .. n), T # {}
  PROVE  \E x \in T : \A y \in T : y <= x
<1> DEFINE R == {n - y : y \in T}
<1>1. R \in SUBSET Nat /\ R # {}
  <2>1. \A y \in T : n - y \in Nat
    OBVIOUS
  <2>2. \E y \in T : TRUE
    OBVIOUS
  <2> QED BY <2>1, <2>2
<1>2. PICK r \in R : \A s \in R : r <= s
  <2> HIDE DEF R
  <2> QED BY <1>1, LeastNumber
<1>3. PICK x \in T : r = n - x
  OBVIOUS
<1>4. ASSUME NEW y \in T PROVE y <= x
  <2>1. n - y \in R
    OBVIOUS
  <2>2. r <= n - y
    BY <1>2, <2>1
  <2> QED BY <1>3, <2>2
<1> QED BY <1>4

(* The longest of some lengths.                                            *)
LongestOf(lengths) ==
  IF lengths = {} THEN 0 ELSE CHOOSE n \in lengths : \A m \in lengths : m <= n

LEMMA LongestOfIs ==
  ASSUME NEW n \in Nat, NEW T \in SUBSET (1 .. n)
  PROVE  /\ T = {} => LongestOf(T) = 0
         /\ T # {} => LongestOf(T) \in T /\ \A m \in T : m <= LongestOf(T)
         /\ \A x \in T : (\A y \in T : y <= x) => LongestOf(T) = x
         /\ LongestOf(T) \in 0 .. n
<1> DEFINE Greatest(x) == \A m \in T : m <= x
<1>1. ASSUME T # {} PROVE LongestOf(T) \in T /\ Greatest(LongestOf(T))
  <2>1. PICK x \in T : Greatest(x)
    BY <1>1, GreatestNumber
  <2>2. LongestOf(T) = CHOOSE c \in T : Greatest(c)
    BY <1>1 DEF LongestOf
  <2> HIDE DEF Greatest
  <2> QED BY <2>1, <2>2
<1>2. T = {} => LongestOf(T) = 0
  BY DEF LongestOf
<1>3. ASSUME NEW x \in T, \A y \in T : y <= x PROVE LongestOf(T) = x
  <2>1. LongestOf(T) \in T /\ x <= LongestOf(T) /\ LongestOf(T) <= x
    BY <1>1, <1>3
  <2> DEFINE l == LongestOf(T)
  <2> HIDE DEF l
  <2>2. l \in T /\ x <= l /\ l <= x
    BY <2>1 DEF l
  <2>3. l = x
    BY <2>2
  <2> QED BY <2>3 DEF l
<1>4. LongestOf(T) \in 0 .. n
  <2>1. CASE T = {}
    BY <1>2, <2>1
  <2>2. CASE T # {}
    <3>1. LongestOf(T) \in 1 .. n
      BY <1>1, <2>2
    <3> QED BY <3>1
  <2> QED BY <2>1, <2>2
<1> QED BY <1>1, <1>2, <1>3, <1>4

TriviaLengths(t, i) == {n \in 1 .. Len(t) - i + 1 : IsTrivia(SubSeq(t, i, i + n - 1))}
TokenLengths(t, i) == {n \in 1 .. Len(t) - i + 1 : IsToken(SubSeq(t, i, i + n - 1))}

LEMMA LongestIs ==
  ASSUME NEW t, NEW i
  PROVE  LongestTrivia(t, i) = LongestOf(TriviaLengths(t, i)) /\ LongestToken(t, i) = LongestOf(TokenLengths(t, i))
BY DEF LongestTrivia, LongestToken, Longest, LongestOf, TriviaLengths, TokenLengths

LEMMA LongestInText ==
  ASSUME NEW t \in Seq(STRING), NEW i \in 1 .. Len(t) + 1
  PROVE  LongestTrivia(t, i) \in 0 .. Len(t) - i + 1 /\ LongestToken(t, i) \in 0 .. Len(t) - i + 1
<1> DEFINE n == Len(t) - i + 1
<1>1. n \in Nat
  OBVIOUS
<1>2. TriviaLengths(t, i) \in SUBSET (1 .. n) /\ TokenLengths(t, i) \in SUBSET (1 .. n)
  BY DEF TriviaLengths, TokenLengths
<1> HIDE DEF n
<1>3. LongestOf(TriviaLengths(t, i)) \in 0 .. n /\ LongestOf(TokenLengths(t, i)) \in 0 .. n
  BY <1>1, <1>2, LongestOfIs
<1> QED BY <1>3, LongestIs DEF n

(* Only what is further on is asked for.                                   *)
LEMMA PiecesDepend ==
  ASSUME NEW t \in Seq(STRING), NEW i \in 1 .. Len(t) + 1, NEW f, NEW g,
         \A j \in i + 1 .. Len(t) + 1 : f[j] = g[j]
  PROVE  PiecesAt(t, f, i) = PiecesAt(t, g, i)
<1> DEFINE trivia == LongestTrivia(t, i)
           n == LongestToken(t, i)
<1>1. trivia \in 0 .. Len(t) - i + 1 /\ n \in 0 .. Len(t) - i + 1
  BY LongestInText
<1> HIDE DEF trivia, n
<1>2. trivia > 0 => f[i + trivia] = g[i + trivia]
  BY <1>1
<1>3. n # 0 => f[i + n] = g[i + n]
  BY <1>1
<1> DEFINE Text(h) == IF n = 0 \/ IsCut(t, SubSeq(t, i, i + n - 1), i + n) THEN <<Piece("none", i, 1)>>
                      ELSE <<Piece(CHOOSE k \in Kinds(SubSeq(t, i, i + n - 1)) : TRUE, i, n)>> \o h[i + n]
           Opened == Opens(From(t, i))
           Rest == <<Piece("open comment", i, Len(t) - i + 1)>>
           At(h) == CASE i > Len(t) -> <<>>
                      [] i <= Len(t) /\ trivia > 0 -> h[i + trivia]
                      [] i <= Len(t) /\ trivia = 0 /\ Opened -> Rest
                      [] OTHER -> Text(h)
<1>4. PiecesAt(t, f, i) = At(f) /\ PiecesAt(t, g, i) = At(g)
  BY DEF PiecesAt, trivia, n
<1>5. Text(f) = Text(g)
  BY <1>3
<1> HIDE DEF Text, Opened, Rest
<1>6. At(f) = At(g)
  BY <1>1, <1>2, <1>5
<1> QED BY <1>4, <1>6

(* The definition defines.                                                 *)
LEMMA PiecesFromIs ==
  ASSUME NEW t \in Seq(STRING)
  PROVE  \A i \in 1 .. Len(t) + 1 : PiecesFrom(t)[i] = PiecesAt(t, PiecesFrom(t), i)
<1> DEFINE z == Len(t) + 1
           Fills(f, m) == f = [i \in m .. z |-> PiecesAt(t, f, i)]
           Bad == {k \in Nat : k < z /\ ~\E f : Fills(f, z - k)}
<1>1. z \in Nat /\ z >= 1 /\ z = Len(t) + 1
  OBVIOUS
<1> HIDE DEF z
<1>2. ASSUME NEW m \in 1 .. z, NEW f, m < z => Fills(f, m + 1) PROVE \E g : Fills(g, m)
  <2> DEFINE h == [i \in m .. z |-> IF i = m THEN PiecesAt(t, f, m) ELSE f[i]]
  <2>1. \A j \in m + 1 .. z : h[j] = f[j]
    BY <1>1
  <2>2. h[m] = PiecesAt(t, f, m)
    BY <1>1
  <2>3. DOMAIN h = m .. z /\ h = [i \in m .. z |-> h[i]]
    OBVIOUS
  <2> HIDE DEF h
  <2>4. ASSUME NEW i \in m .. z PROVE h[i] = PiecesAt(t, h, i)
    <3>1. i \in 1 .. Len(t) + 1 /\ \A j \in i + 1 .. Len(t) + 1 : h[j] = f[j]
      BY <1>1, <2>1
    <3>2. PiecesAt(t, h, i) = PiecesAt(t, f, i)
      BY <3>1, PiecesDepend
    <3>3. CASE i = m
      BY <2>2, <3>2, <3>3
    <3>4. CASE i # m
      <4>1. i \in m + 1 .. z /\ m < z
        BY <1>1, <3>4
      <4>2. f = [k \in m + 1 .. z |-> PiecesAt(t, f, k)]
        BY <1>2, <4>1
      <4>3. f[i] = PiecesAt(t, f, i)
        BY <4>1, <4>2
      <4> QED BY <2>1, <3>2, <4>1, <4>3
    <3> QED BY <3>3, <3>4
  <2>5. h = [i \in m .. z |-> PiecesAt(t, h, i)]
    BY <2>3, <2>4
  <2> QED BY <2>5
<1> HIDE DEF Fills
<1>3. ASSUME Bad # {} PROVE FALSE
  <2>1. Bad \in SUBSET Nat
    OBVIOUS
  <2>2. PICK k \in Bad : \A j \in Bad : k <= j
    <3> HIDE DEF Bad
    <3> QED BY <1>3, <2>1, LeastNumber
  <2>3. k \in Nat /\ k < z /\ ~\E f : Fills(f, z - k)
    OBVIOUS
  <2>4. z - k \in 1 .. z
    BY <1>1, <2>3
  <2>5. CASE k = 0
    <3>1. ~(z - k < z)
      BY <1>1, <2>5
    <3> QED BY <1>2, <2>3, <2>4, <3>1
  <2>6. CASE k # 0
    <3>1. k - 1 \in Nat /\ k - 1 < z /\ ~(k <= k - 1) /\ z - (k - 1) = (z - k) + 1
      BY <1>1, <2>3, <2>6
    <3>2. k - 1 \notin Bad
      BY <2>2, <3>1
    <3>3. PICK f : Fills(f, z - (k - 1))
      BY <3>1, <3>2
    <3> QED BY <1>2, <2>3, <2>4, <3>1, <3>3
  <2> QED BY <2>5, <2>6
<1>4. \E f : Fills(f, 1)
  <2>1. z - 1 \in Nat /\ z - 1 < z /\ z - (z - 1) = 1
    BY <1>1
  <2>2. z - 1 \notin Bad
    BY <1>3
  <2> QED BY <2>1, <2>2
<1>5. PiecesFrom(t) = CHOOSE f : Fills(f, 1)
  BY DEF PiecesFrom, Fills, z
<1>6. Fills(PiecesFrom(t), 1)
  BY <1>4, <1>5
<1>7. PiecesFrom(t) = [i \in 1 .. z |-> PiecesAt(t, PiecesFrom(t), i)]
  BY <1>6 DEF Fills
<1> QED BY <1>1, <1>7

-----------------------------------------------------------------------------
(* The pieces from a place of the text on.                                 *)
Rest(i) == PiecesFrom(text)[i]

(* The words that are longest, by where they end.                          *)
EndsTrivia(i, b) ==
  /\ b \in i + 1 .. Len(text) + 1 /\ IsTrivia(Word(i, b))
  /\ \A c \in b + 1 .. Len(text) + 1 : ~IsTrivia(Word(i, c))

EndsToken(i, b) ==
  /\ b \in i + 1 .. Len(text) + 1 /\ IsToken(Word(i, b))
  /\ \A c \in b + 1 .. Len(text) + 1 : ~IsToken(Word(i, c))

NoTrivia(i) == \A b \in i + 1 .. Len(text) + 1 : ~IsTrivia(Word(i, b))
NoToken(i) == \A b \in i + 1 .. Len(text) + 1 : ~IsToken(Word(i, b))

LEMMA LengthsAre ==
  ASSUME IsText, NEW i \in Places
  PROVE  /\ TriviaLengths(text, i) = {n \in 1 .. Len(text) - i + 1 : IsTrivia(Word(i, i + n))}
         /\ TokenLengths(text, i) = {n \in 1 .. Len(text) - i + 1 : IsToken(Word(i, i + n))}
<1>1. \A n \in 1 .. Len(text) - i + 1 : Word(i, i + n) = SubSeq(text, i, i + n - 1)
  <2>1. i \in Int
    BY DEF Places
  <2>2. \A n \in 1 .. Len(text) - i + 1 : (i + n) - 1 = i + n - 1
    BY <2>1
  <2> QED BY <2>2 DEF Word
<1>2. TriviaLengths(text, i) = {n \in 1 .. Len(text) - i + 1 : IsTrivia(Word(i, i + n))}
  BY <1>1 DEF TriviaLengths
<1>3. TokenLengths(text, i) = {n \in 1 .. Len(text) - i + 1 : IsToken(Word(i, i + n))}
  BY <1>1 DEF TokenLengths
<1> QED BY <1>2, <1>3

LEMMA LongestTriviaEnds ==
  ASSUME IsText, NEW i \in Places, NEW b, EndsTrivia(i, b)
  PROVE  LongestTrivia(text, i) = b - i
<1> DEFINE T == TriviaLengths(text, i)
           Yes(n) == IsTrivia(Word(i, i + n))
           z == Len(text) - i + 1
<1>1. i \in Int /\ i >= 1 /\ Len(text) \in Nat /\ b \in i + 1 .. Len(text) + 1 /\ z \in Nat
  BY DEF Places, IsText, EndsTrivia
<1>2. T = {n \in 1 .. z : Yes(n)}
  BY LengthsAre
<1>3. i + (b - i) = b /\ b - i \in 1 .. z
  BY <1>1
<1>4. Yes(b - i)
  BY <1>3 DEF EndsTrivia
<1>5. ASSUME NEW n \in 1 .. z, Yes(n) PROVE n <= b - i
  <2>1. ~(i + n \in b + 1 .. Len(text) + 1)
    BY <1>5 DEF EndsTrivia
  <2> QED BY <1>1, <2>1
<1> HIDE DEF T, Yes, z
<1>6. b - i \in T /\ \A n \in T : n <= b - i
  BY <1>2, <1>3, <1>4, <1>5
<1>7. T \in SUBSET (1 .. z)
  BY <1>2
<1>8. LongestOf(T) = b - i
  BY <1>1, <1>6, <1>7, LongestOfIs
<1> QED BY <1>8, LongestIs DEF T

LEMMA LongestTokenEnds ==
  ASSUME IsText, NEW i \in Places, NEW b, EndsToken(i, b)
  PROVE  LongestToken(text, i) = b - i
<1> DEFINE T == TokenLengths(text, i)
           Yes(n) == IsToken(Word(i, i + n))
           z == Len(text) - i + 1
<1>1. i \in Int /\ i >= 1 /\ Len(text) \in Nat /\ b \in i + 1 .. Len(text) + 1 /\ z \in Nat
  BY DEF Places, IsText, EndsToken
<1>2. T = {n \in 1 .. z : Yes(n)}
  BY LengthsAre
<1>3. i + (b - i) = b /\ b - i \in 1 .. z
  BY <1>1
<1>4. Yes(b - i)
  BY <1>3 DEF EndsToken
<1>5. ASSUME NEW n \in 1 .. z, Yes(n) PROVE n <= b - i
  <2>1. ~(i + n \in b + 1 .. Len(text) + 1)
    BY <1>5 DEF EndsToken
  <2> QED BY <1>1, <2>1
<1> HIDE DEF T, Yes, z
<1>6. b - i \in T /\ \A n \in T : n <= b - i
  BY <1>2, <1>3, <1>4, <1>5
<1>7. T \in SUBSET (1 .. z)
  BY <1>2
<1>8. LongestOf(T) = b - i
  BY <1>1, <1>6, <1>7, LongestOfIs
<1> QED BY <1>8, LongestIs DEF T

LEMMA NoneIsLongest ==
  ASSUME IsText, NEW i \in Places
  PROVE  /\ NoTrivia(i) => LongestTrivia(text, i) = 0
         /\ NoToken(i) => LongestToken(text, i) = 0
<1> DEFINE z == Len(text) - i + 1
           Trivial(n) == IsTrivia(Word(i, i + n))
           Taken(n) == IsToken(Word(i, i + n))
<1>1. i \in Int /\ i >= 1 /\ Len(text) \in Nat /\ z \in Nat /\ \A n \in 1 .. z : i + n \in i + 1 .. Len(text) + 1
  BY DEF Places, IsText
<1>2. TriviaLengths(text, i) = {n \in 1 .. z : Trivial(n)} /\ TokenLengths(text, i) = {n \in 1 .. z : Taken(n)}
  BY LengthsAre
<1>3. NoTrivia(i) => \A n \in 1 .. z : ~Trivial(n)
  BY <1>1 DEF NoTrivia
<1>4. NoToken(i) => \A n \in 1 .. z : ~Taken(n)
  BY <1>1 DEF NoToken
<1> HIDE DEF z, Trivial, Taken
<1>5. NoTrivia(i) => TriviaLengths(text, i) = {}
  BY <1>2, <1>3
<1>6. NoToken(i) => TokenLengths(text, i) = {}
  BY <1>2, <1>4
<1>7. LongestOf({}) = 0
  BY DEF LongestOf
<1> QED BY <1>5, <1>6, <1>7, LongestIs

LEMMA RestIs ==
  ASSUME IsText, NEW i \in Places
  PROVE  Rest(i) = PiecesAt(text, PiecesFrom(text), i)
BY PiecesFromIs DEF IsText, Places, Rest

LEMMA PiecesAtIs ==
  ASSUME NEW t, Len(t) \in Nat, NEW f, NEW i \in Int, LongestTrivia(t, i) \in Nat
  PROVE  /\ i > Len(t) => PiecesAt(t, f, i) = <<>>
         /\ ~(i > Len(t)) /\ i <= Len(t) /\ LongestTrivia(t, i) > 0 => PiecesAt(t, f, i) = f[i + LongestTrivia(t, i)]
         /\ ~(i > Len(t)) /\ i <= Len(t) /\ ~(LongestTrivia(t, i) > 0) /\ LongestTrivia(t, i) = 0 /\ Opens(From(t, i))
              => PiecesAt(t, f, i) = <<Piece("open comment", i, Len(t) - i + 1)>>
<1> DEFINE trivia == LongestTrivia(t, i)
           n == LongestToken(t, i)
           Opened == Opens(From(t, i))
           Taken == IF n = 0 \/ IsCut(t, SubSeq(t, i, i + n - 1), i + n) THEN <<Piece("none", i, 1)>>
                    ELSE <<Piece(CHOOSE k \in Kinds(SubSeq(t, i, i + n - 1)) : TRUE, i, n)>> \o f[i + n]
           Open == <<Piece("open comment", i, Len(t) - i + 1)>>
           further == f[i + trivia]
           Past1 == i > Len(t)
           Positive == trivia > 0
<1>1. PiecesAt(t, f, i)
        = CASE Past1 -> <<>>
            [] i <= Len(t) /\ Positive -> further
            [] i <= Len(t) /\ trivia = 0 /\ Opened -> Open
            [] OTHER -> Taken
  BY DEF PiecesAt
<1>a. (Past1 => ~(i <= Len(t))) /\ (Positive => ~(trivia = 0))
  OBVIOUS
<1> HIDE DEF trivia, n, Opened, Taken, Open, further, Past1, Positive
<1>2. Past1 => PiecesAt(t, f, i) = <<>>
  BY <1>1, <1>a
<1>3. ~Past1 /\ i <= Len(t) /\ Positive => PiecesAt(t, f, i) = further
  BY <1>1, <1>a
<1>4. ~Past1 /\ i <= Len(t) /\ ~Positive /\ trivia = 0 /\ Opened => PiecesAt(t, f, i) = Open
  BY <1>1, <1>a
<1> QED BY <1>2, <1>3, <1>4 DEF trivia, Opened, Open, further, Past1, Positive

(* Behind the last character there is nothing.                             *)
LEMMA NothingAtEnd ==
  ASSUME IsText
  PROVE  Rest(Len(text) + 1) = <<>>
<1>1. Len(text) \in Nat /\ Len(text) + 1 \in Places /\ Len(text) + 1 > Len(text)
  BY DEF IsText, Places
<1>2. Rest(Len(text) + 1) = PiecesAt(text, PiecesFrom(text), Len(text) + 1)
  BY <1>1, RestIs
<1>3. LongestTrivia(text, Len(text) + 1) \in Nat
  BY <1>1, LongestInText DEF IsText
<1>4. Len(text) + 1 \in Int
  BY <1>1
<1>5. PiecesAt(text, PiecesFrom(text), Len(text) + 1) = <<>>
  BY ONLY <1>1, <1>3, <1>4, PiecesAtIs
<1> QED BY <1>2, <1>5

LEMMA RestBehindTrivia ==
  ASSUME IsText, NEW i \in Places, NEW b, EndsTrivia(i, b)
  PROVE  Rest(i) = Rest(b)
<1> DEFINE trivia == LongestTrivia(text, i)
<1>1. i \in Int /\ i <= Len(text) /\ Len(text) \in Nat /\ b \in i + 1 .. Len(text) + 1
  BY DEF Places, IsText, EndsTrivia
<1>2. trivia = b - i
  BY LongestTriviaEnds
<1>3. Rest(i) = PiecesAt(text, PiecesFrom(text), i)
  BY RestIs
<1>4. trivia > 0 /\ i + trivia = b /\ ~(i > Len(text)) /\ trivia \in Nat
  BY <1>1, <1>2
<1> HIDE DEF trivia
<1>5. PiecesAt(text, PiecesFrom(text), i) = PiecesFrom(text)[i + trivia]
  BY ONLY <1>1, <1>4, PiecesAtIs DEF trivia
<1> QED BY <1>3, <1>4, <1>5 DEF Rest

LEMMA RestOpen ==
  ASSUME IsText, NEW i \in Places, i <= Len(text), NoTrivia(i), Opens(From(text, i))
  PROVE  Rest(i) = <<Piece("open comment", i, Len(text) - i + 1)>>
<1> DEFINE trivia == LongestTrivia(text, i)
<1>1. i \in Int /\ Len(text) \in Nat
  BY DEF Places, IsText
<1>2. trivia = 0
  BY NoneIsLongest
<1>3. Rest(i) = PiecesAt(text, PiecesFrom(text), i)
  BY RestIs
<1>4. ~(trivia > 0) /\ ~(i > Len(text)) /\ trivia \in Nat
  BY <1>1, <1>2
<1> HIDE DEF trivia
<1>5. PiecesAt(text, PiecesFrom(text), i) = <<Piece("open comment", i, Len(text) - i + 1)>>
  BY ONLY <1>1, <1>2, <1>4, i <= Len(text), Opens(From(text, i)), PiecesAtIs DEF trivia
<1> QED BY <1>3, <1>5

(* A place where a token must begin.                                       *)
NeedsToken(i) == i \in Places /\ i <= Len(text) /\ NoTrivia(i) /\ ~Opens(From(text, i))

LEMMA RestAtToken ==
  ASSUME IsText, NEW i, NeedsToken(i)
  PROVE  LET n == LongestToken(text, i)
         IN  Rest(i) = IF n = 0 \/ IsCut(text, SubSeq(text, i, i + n - 1), i + n) THEN <<Piece("none", i, 1)>>
                       ELSE <<Piece(CHOOSE k \in Kinds(SubSeq(text, i, i + n - 1)) : TRUE, i, n)>> \o PiecesFrom(text)[i + n]
<1> DEFINE trivia == LongestTrivia(text, i)
           n == LongestToken(text, i)
           Opened == Opens(From(text, i))
           Taken == IF n = 0 \/ IsCut(text, SubSeq(text, i, i + n - 1), i + n) THEN <<Piece("none", i, 1)>>
                    ELSE <<Piece(CHOOSE k \in Kinds(SubSeq(text, i, i + n - 1)) : TRUE, i, n)>> \o PiecesFrom(text)[i + n]
           Open == <<Piece("open comment", i, Len(text) - i + 1)>>
<1>1. i \in Int /\ Len(text) \in Nat /\ i \in Places
  BY DEF Places, IsText, NeedsToken
<1>2. trivia = 0 /\ ~Opened
  BY NoneIsLongest DEF NeedsToken
<1>3. Rest(i) = PiecesAt(text, PiecesFrom(text), i)
  BY RestIs, <1>1
<1>4. ~(trivia > 0) /\ ~(i > Len(text)) /\ i <= Len(text)
  BY <1>1, <1>2 DEF NeedsToken
<1>5. PiecesAt(text, PiecesFrom(text), i)
        = CASE i > Len(text) -> <<>>
            [] i <= Len(text) /\ trivia > 0 -> PiecesFrom(text)[i + trivia]
            [] i <= Len(text) /\ trivia = 0 /\ Opened -> Open
            [] OTHER -> Taken
  BY DEF PiecesAt
<1> HIDE DEF trivia, n, Opened, Taken, Open
<1>6. PiecesAt(text, PiecesFrom(text), i) = Taken
  BY <1>2, <1>4, <1>5
<1> QED BY <1>3, <1>6 DEF Taken, n

LEMMA RestIsNone ==
  ASSUME IsText, NEW i, NeedsToken(i), NoToken(i)
  PROVE  Rest(i) = <<Piece("none", i, 1)>>
<1>1. LongestToken(text, i) = 0
  BY NoneIsLongest DEF NeedsToken
<1> QED BY <1>1, RestAtToken

LEMMA RestIsCut ==
  ASSUME IsText, NEW i, NeedsToken(i), NEW b, EndsToken(i, b), IsCut(text, Word(i, b), b)
  PROVE  Rest(i) = <<Piece("none", i, 1)>>
<1>1. LongestToken(text, i) = b - i /\ i \in Int /\ b \in Int /\ i + (b - i) = b
  BY LongestTokenEnds DEF NeedsToken, EndsToken, IsText, Places
<1> QED BY <1>1, RestAtToken DEF Word

LEMMA RestIsToken ==
  ASSUME IsText, NEW i, NeedsToken(i), NEW b, EndsToken(i, b), ~IsCut(text, Word(i, b), b)
  PROVE  Rest(i) = <<Piece(CHOOSE k \in Kinds(Word(i, b)) : TRUE, i, b - i)>> \o Rest(b)
<1> DEFINE n == LongestToken(text, i)
<1>0. i \in Places /\ i \in Int /\ b \in Int /\ b >= i + 1
  BY DEF NeedsToken, EndsToken, IsText, Places
<1>1. n = b - i /\ i \in Int /\ b \in Int /\ i + n = b /\ n # 0
  <2>1. n = b - i
    BY <1>0, LongestTokenEnds
  <2> HIDE DEF n
  <2> QED BY <1>0, <2>1
<1>2. SubSeq(text, i, i + n - 1) = Word(i, b)
  BY <1>1 DEF Word
<1>3. Rest(i) = IF n = 0 \/ IsCut(text, SubSeq(text, i, i + n - 1), i + n) THEN <<Piece("none", i, 1)>>
                ELSE <<Piece(CHOOSE k \in Kinds(SubSeq(text, i, i + n - 1)) : TRUE, i, n)>> \o PiecesFrom(text)[i + n]
  BY RestAtToken
<1> HIDE DEF n
<1> QED BY <1>1, <1>2, <1>3 DEF Rest

-----------------------------------------------------------------------------
(* White space and comments, by the places where they begin and end.       *)

(* The first characters of a word, and a word of a word.                   *)
LEMMA WordBegins ==
  ASSUME IsText, NEW a \in Places, NEW b \in Places, a <= b
  PROVE  /\ a \in Nat /\ b \in Nat /\ a >= 1 /\ b <= Len(text) + 1 /\ Len(text) \in Nat /\ DOMAIN text = 1 .. Len(text)
         /\ Len(Word(a, b)) = b - a /\ DOMAIN Word(a, b) = 1 .. b - a
         /\ a < b => Word(a, b)[1] = text[a]
         /\ a + 1 < b => Word(a, b)[2] = text[a + 1]
         /\ a + 2 < b => Word(a, b)[3] = text[a + 2]
         /\ \A k \in a .. b - 1 : k - a + 1 \in 1 .. b - a /\ Word(a, b)[k - a + 1] = text[k]
<1>1. a \in Nat /\ b \in Nat /\ a >= 1 /\ b <= Len(text) + 1 /\ Len(text) \in Nat /\ DOMAIN text = 1 .. Len(text)
  BY DEF Places, IsText
<1> DEFINE w == Word(a, b)
<1>2. Len(w) = b - a /\ DOMAIN w = 1 .. b - a /\ \A k \in 1 .. b - a : w[k] = text[a + k - 1]
  BY WordIs
<1> HIDE DEF w
<1>3. ASSUME NEW k \in a .. b - 1 PROVE k - a + 1 \in 1 .. b - a /\ w[k - a + 1] = text[k]
  <2>1. k - a + 1 \in 1 .. b - a /\ a + (k - a + 1) - 1 = k
    BY <1>1
  <2> QED BY <1>2, <2>1
<1>4. /\ a < b => 1 \in 1 .. b - a /\ a + 1 - 1 = a
      /\ a + 1 < b => 2 \in 1 .. b - a /\ a + 2 - 1 = a + 1
      /\ a + 2 < b => 3 \in 1 .. b - a /\ a + 3 - 1 = a + 2
  BY <1>1
<1>5. /\ a < b => w[1] = text[a]
      /\ a + 1 < b => w[2] = text[a + 1]
      /\ a + 2 < b => w[3] = text[a + 2]
  BY <1>2, <1>4
<1> QED BY <1>1, <1>2, <1>3, <1>5 DEF w

LEMMA WordOfWord ==
  ASSUME IsText, NEW a \in Places, NEW b \in Places, NEW c \in a .. b, NEW d \in c .. b
  PROVE  SubSeq(Word(a, b), c - a + 1, d - a) = Word(c, d)
<1>1. a \in Int /\ b \in Int /\ c \in Int /\ d \in Int /\ a >= 1 /\ b <= Len(text) + 1 /\ Len(text) \in Nat
      /\ a <= c /\ c <= d /\ d <= b /\ c \in Places /\ d \in Places /\ a <= b
  BY DEF Places, IsText
<1> DEFINE w == Word(a, b)
           r == Word(c, d)
           s == SubSeq(w, c - a + 1, d - a)
<1>2. w \in Seq(STRING) /\ Len(w) = b - a /\ \A k \in 1 .. b - a : w[k] = text[a + k - 1]
  BY <1>1, WordIs
<1>3. r \in Seq(STRING) /\ Len(r) = d - c /\ \A k \in 1 .. d - c : r[k] = text[c + k - 1]
  BY <1>1, WordIs
<1> HIDE DEF w, r
<1>4. \A k \in c - a + 1 .. d - a : k \in 1 .. Len(w)
  BY <1>1, <1>2
<1>5. s \in Seq(STRING) /\ Len(s) = d - c /\ \A k \in 1 .. d - c : s[k] = w[c - a + k]
  BY <1>1, <1>2, <1>4
<1> HIDE DEF s
<1>6. ASSUME NEW k \in 1 .. d - c PROVE s[k] = r[k]
  <2>1. c - a + k \in 1 .. b - a /\ a + (c - a + k) - 1 = c + k - 1
    BY <1>1
  <2>2. w[c - a + k] = text[a + (c - a + k) - 1]
    BY <1>2, <2>1
  <2> QED BY <1>3, <1>5, <2>1, <2>2
<1>7. s = r
  BY <1>3, <1>5, <1>6
<1> QED BY <1>7 DEF s, w, r

LineCommentTo(i, b) ==
  /\ i + 2 <= b /\ text[i] = "/" /\ text[i + 1] = "/"
  /\ \A k \in i .. b - 1 : text[k] \notin {NL, CR}

Closes(k) == text[k] = "*" /\ text[k + 1] = "/"

BlockCommentTo(i, b) ==
  /\ i + 4 <= b /\ text[i] = "/" /\ text[i + 1] = "*"
  /\ \A k \in i + 2 .. b - 2 : Closes(k) <=> k = b - 2

LEMMA LineCommentIs ==
  ASSUME IsText, NEW i \in Places, NEW b \in Places, i <= b
  PROVE  IsLineComment(Word(i, b)) <=> LineCommentTo(i, b)
<1> DEFINE w == Word(i, b)
           slash == "/"
<1>1. i \in Nat /\ b \in Nat /\ Len(w) = b - i /\ DOMAIN w = 1 .. b - i
      /\ (i < b => w[1] = text[i]) /\ (i + 1 < b => w[2] = text[i + 1])
      /\ \A k \in i .. b - 1 : k - i + 1 \in 1 .. b - i /\ w[k - i + 1] = text[k]
  BY WordBegins
<1>2. \A k \in 1 .. b - i : w[k] = text[i + k - 1]
  BY WordIs
<1> HIDE DEF w, slash
<1>3. Len(w) >= 2 <=> i + 2 <= b
  BY <1>1
<1>4. i + 2 <= b => w[1] = text[i] /\ w[2] = text[i + 1]
  BY <1>1
<1>5. (\A k \in DOMAIN w : w[k] \notin {NL, CR}) <=> \A k \in i .. b - 1 : text[k] \notin {NL, CR}
  <2>1. ASSUME \A k \in DOMAIN w : w[k] \notin {NL, CR}, NEW k \in i .. b - 1 PROVE text[k] \notin {NL, CR}
    BY <1>1, <2>1
  <2>2. ASSUME \A k \in i .. b - 1 : text[k] \notin {NL, CR}, NEW k \in DOMAIN w PROVE w[k] \notin {NL, CR}
    <3>1. k \in 1 .. b - i /\ i + k - 1 \in i .. b - 1
      BY <1>1
    <3>2. w[k] = text[i + k - 1]
      BY <1>2, <3>1
    <3> QED BY <2>2, <3>1, <3>2
  <2> QED BY <2>1, <2>2
<1> QED BY <1>3, <1>4, <1>5 DEF IsLineComment, LineCommentTo, w

LEMMA OpensIs ==
  ASSUME IsText, NEW i \in Places, NEW b \in Places, i <= b
  PROVE  Opens(Word(i, b)) <=> i + 2 <= b /\ text[i] = "/" /\ text[i + 1] = "*"
<1> DEFINE w == Word(i, b)
<1>1. i \in Nat /\ b \in Nat /\ Len(w) = b - i
      /\ (i < b => w[1] = text[i]) /\ (i + 1 < b => w[2] = text[i + 1])
  BY WordBegins
<1> HIDE DEF w
<1>2. Len(w) >= 2 <=> i + 2 <= b
  BY <1>1
<1>3. i + 2 <= b => w[1] = text[i] /\ w[2] = text[i + 1]
  BY <1>1
<1> QED BY <1>2, <1>3 DEF Opens, w

LEMMA FromText ==
  ASSUME IsText, NEW i \in Places
  PROVE  From(text, i) = Word(i, Len(text) + 1) /\ Len(text) + 1 \in Places /\ i <= Len(text) + 1
<1>1. Len(text) \in Nat /\ i <= Len(text) + 1
  BY DEF IsText, Places
<1>2. (Len(text) + 1) - 1 = Len(text) /\ Len(text) + 1 \in Places
  BY <1>1 DEF Places
<1> QED BY <1>1, <1>2 DEF From, Word

LEMMA BlockCommentIs ==
  ASSUME IsText, NEW i \in Places, NEW b \in Places, i <= b
  PROVE  IsBlockComment(Word(i, b)) <=> BlockCommentTo(i, b)
<1> DEFINE w == Word(i, b)
           C(k) == w[k] = "*" /\ w[k + 1] = "/"
           T == {k \in 3 .. Len(w) - 1 : C(k)}
<1>1. i \in Nat /\ b \in Nat /\ Len(w) = b - i /\ DOMAIN w = 1 .. b - i
      /\ \A k \in i .. b - 1 : k - i + 1 \in 1 .. b - i /\ w[k - i + 1] = text[k]
  BY WordBegins
<1>2. \A k \in 1 .. b - i : w[k] = text[i + k - 1]
  BY WordIs
<1>3. Opens(w) <=> i + 2 <= b /\ text[i] = "/" /\ text[i + 1] = "*"
  BY OpensIs
<1>4. IsBlockComment(w) <=> Opens(w) /\ Len(w) >= 4 /\ T = {Len(w) - 1}
  BY DEF IsBlockComment
<1> HIDE DEF w
<1>5. ASSUME NEW k \in 3 .. Len(w) - 1 PROVE C(k) <=> Closes(i + k - 1)
  <2>1. k \in 1 .. b - i /\ k + 1 \in 1 .. b - i /\ i + (k + 1) - 1 = (i + k - 1) + 1
    BY <1>1
  <2>2. w[k] = text[i + k - 1] /\ w[k + 1] = text[(i + k - 1) + 1]
    BY <1>2, <2>1
  <2> QED BY <2>2 DEF Closes
<1> HIDE DEF C
<1>6. ASSUME Len(w) >= 4 PROVE T = {Len(w) - 1} <=> \A k \in i + 2 .. b - 2 : Closes(k) <=> k = b - 2
  <2>1. ASSUME T = {Len(w) - 1}, NEW k \in i + 2 .. b - 2 PROVE Closes(k) <=> k = b - 2
    <3>1. k - i + 1 \in 3 .. Len(w) - 1 /\ i + (k - i + 1) - 1 = k /\ (k - i + 1 = Len(w) - 1 <=> k = b - 2)
      BY <1>1, <1>6
    <3>2. C(k - i + 1) <=> Closes(k)
      BY <1>5, <3>1
    <3>3. C(k - i + 1) <=> k - i + 1 = Len(w) - 1
      BY <2>1, <3>1
    <3> QED BY <3>1, <3>2, <3>3
  <2>2. ASSUME \A k \in i + 2 .. b - 2 : Closes(k) <=> k = b - 2 PROVE T = {Len(w) - 1}
    <3>1. ASSUME NEW k \in 3 .. Len(w) - 1 PROVE C(k) <=> k = Len(w) - 1
      <4>1. i + k - 1 \in i + 2 .. b - 2 /\ (i + k - 1 = b - 2 <=> k = Len(w) - 1)
        BY <1>1
      <4>2. Closes(i + k - 1) <=> i + k - 1 = b - 2
        BY <2>2, <4>1
      <4> QED BY <1>5, <4>1, <4>2
    <3>2. Len(w) - 1 \in 3 .. Len(w) - 1
      BY <1>1, <1>6
    <3> QED BY <3>1, <3>2
  <2> QED BY <2>1, <2>2
<1>7. Len(w) >= 4 <=> i + 4 <= b
  BY <1>1
<1>8. i + 4 <= b => i + 2 <= b
  BY <1>1
<1> HIDE DEF T
<1>9. IsBlockComment(w) <=> BlockCommentTo(i, b)
  BY <1>3, <1>4, <1>6, <1>7, <1>8 DEF BlockCommentTo
<1> QED BY <1>9 DEF w

(* What trivia begin with.                                                 *)
LEMMA TriviaBegin ==
  ASSUME IsText, NEW i \in Places, NEW b \in Places, i <= b
  PROVE  IsTrivia(Word(i, b)) <=> \/ i < b /\ Throughout(i, b, Blanks)
                                  \/ LineCommentTo(i, b)
                                  \/ BlockCommentTo(i, b)
BY LineCommentIs, BlockCommentIs, WordIs DEF IsTrivia

(* A comment ends where it cannot be longer.                               *)
LEMMA LineCommentEnds ==
  ASSUME IsText, NEW i \in Places, NEW j \in Places, LineCommentTo(i, j), j > Len(text) \/ text[j] \in LineEnds
  PROVE  EndsTrivia(i, j)
<1>1. i \in Nat /\ j \in Nat /\ i >= 1 /\ i + 2 <= j /\ j <= Len(text) + 1 /\ Len(text) \in Nat
  BY DEF Places, IsText, LineCommentTo
<1>2. text[i] = "/" /\ text[i + 1] = "/" /\ "/" \notin Blanks /\ "/" # "*"
  BY DEF LineCommentTo, Blanks, NL, CR
<1>3. IsTrivia(Word(i, j))
  BY <1>1, TriviaBegin
<1>4. ASSUME NEW c \in j + 1 .. Len(text) + 1 PROVE ~IsTrivia(Word(i, c))
  <2>1. c \in Places /\ i <= c /\ j <= Len(text) /\ i \in i .. c - 1 /\ j \in i .. c - 1
    BY <1>1 DEF Places
  <2>2. ~Throughout(i, c, Blanks)
    BY <1>2, <2>1 DEF Throughout
  <2>3. ~LineCommentTo(i, c)
    BY <1>1, <2>1 DEF LineCommentTo, LineEnds
  <2>4. ~BlockCommentTo(i, c)
    BY <1>2 DEF BlockCommentTo
  <2> QED BY <2>1, <2>2, <2>3, <2>4, TriviaBegin
<1>5. j \in i + 1 .. Len(text) + 1
  BY <1>1
<1> QED BY <1>3, <1>4, <1>5 DEF EndsTrivia

LEMMA BlockCommentEnds ==
  ASSUME IsText, NEW i \in Places, NEW j \in Places, BlockCommentTo(i, j)
  PROVE  EndsTrivia(i, j)
<1>1. i \in Nat /\ j \in Nat /\ i >= 1 /\ i + 4 <= j /\ j <= Len(text) + 1 /\ Len(text) \in Nat
  BY DEF Places, IsText, BlockCommentTo
<1>2. text[i] = "/" /\ text[i + 1] = "*" /\ "/" \notin Blanks /\ "/" # "*"
  BY DEF BlockCommentTo, Blanks, NL, CR
<1>3. IsTrivia(Word(i, j))
  BY <1>1, TriviaBegin
<1>4. ASSUME NEW c \in j + 1 .. Len(text) + 1 PROVE ~IsTrivia(Word(i, c))
  <2>1. c \in Places /\ i <= c /\ i \in i .. c - 1
    BY <1>1 DEF Places
  <2>2. ~Throughout(i, c, Blanks)
    BY <1>2, <2>1 DEF Throughout
  <2>3. ~LineCommentTo(i, c)
    BY <1>2 DEF LineCommentTo
  <2>4. ~BlockCommentTo(i, c)
    <3>1. j - 2 \in i + 2 .. j - 2 /\ j - 2 \in i + 2 .. c - 2 /\ j - 2 # c - 2
      BY <1>1
    <3>2. Closes(j - 2)
      BY <3>1 DEF BlockCommentTo
    <3> QED BY <3>1, <3>2 DEF BlockCommentTo
  <2> QED BY <2>1, <2>2, <2>3, <2>4, TriviaBegin
<1>5. j \in i + 1 .. Len(text) + 1
  BY <1>1
<1> QED BY <1>3, <1>4, <1>5 DEF EndsTrivia

(* A comment that is never closed is no trivia.                            *)
LEMMA RestOfOpenComment ==
  ASSUME IsText, NEW i \in Places, IsOpenComment(i)
  PROVE  Rest(i) = <<Piece("open comment", i, Len(text) - i + 1)>>
<1>1. i \in Nat /\ i >= 1 /\ i + 1 <= Len(text) /\ i <= Len(text) /\ Len(text) \in Nat
      /\ text[i] = "/" /\ text[i + 1] = "*" /\ Opens(From(text, i))
  <2>1. Opens(Word(i, Len(text) + 1)) /\ Len(text) + 1 \in Places /\ i <= Len(text) + 1
    BY FromText DEF IsOpenComment
  <2>2. i + 2 <= Len(text) + 1 /\ text[i] = "/" /\ text[i + 1] = "*"
    BY <2>1, OpensIs
  <2> QED BY <2>2 DEF Places, IsText, IsOpenComment
<1>2. "/" \notin Blanks /\ "/" # "*"
  BY DEF Blanks, NL, CR
<1>3. ASSUME NEW b \in i + 1 .. Len(text) + 1 PROVE ~IsTrivia(Word(i, b))
  <2>1. b \in Places /\ i <= b /\ i \in i .. b - 1
    BY <1>1 DEF Places
  <2>2. ~Throughout(i, b, Blanks)
    BY <1>1, <1>2, <2>1 DEF Throughout
  <2>3. ~LineCommentTo(i, b)
    BY <1>1, <1>2 DEF LineCommentTo
  <2>4. ASSUME BlockCommentTo(i, b) PROVE FALSE
    <3>1. b - 2 \in i + 2 .. b - 2 /\ b - 2 \in i + 2 .. Len(text) - 1
      BY <1>1, <2>4 DEF BlockCommentTo
    <3>2. Closes(b - 2)
      BY <2>4, <3>1 DEF BlockCommentTo
    <3> QED BY <3>1, <3>2 DEF IsOpenComment, Closes
  <2> QED BY <2>1, <2>2, <2>3, <2>4, TriviaBegin
<1>4. NoTrivia(i)
  BY <1>3 DEF NoTrivia
<1> QED BY <1>1, <1>4, RestOpen

(* From each of some characters of white space the same is left.           *)
LEMMA BlanksEnd ==
  ASSUME IsText, NEW i \in Places, i <= Len(text), text[i] \in Blanks
  PROVE  \E r \in i + 1 .. Len(text) + 1 :
           /\ Throughout(i, r, Blanks)
           /\ \A c \in r + 1 .. Len(text) + 1 : ~Throughout(i, c, Blanks)
<1> DEFINE z == Len(text) - i + 1
           Run(n) == Throughout(i, i + n, Blanks)
           T == {n \in 1 .. z : Run(n)}
<1>1. i \in Nat /\ i >= 1 /\ Len(text) \in Nat /\ z \in Nat /\ 1 \in 1 .. z
  BY DEF Places, IsText
<1>2. Run(1)
  <2>1. \A k \in i .. (i + 1) - 1 : k = i
    BY <1>1
  <2> QED BY <2>1 DEF Throughout
<1> HIDE DEF Run
<1>3. PICK n \in T : \A m \in T : m <= n
  <2>1. T \in SUBSET (1 .. z) /\ T # {}
    BY <1>1, <1>2
  <2> HIDE DEF T, z
  <2> QED BY <1>1, <2>1, GreatestNumber
<1>4. n \in 1 .. z /\ Run(n)
  OBVIOUS
<1>5. ASSUME NEW c \in i + n + 1 .. Len(text) + 1, Throughout(i, c, Blanks) PROVE FALSE
  <2>1. c - i \in 1 .. z /\ i + (c - i) = c /\ ~(c - i <= n)
    BY <1>1, <1>4
  <2>2. Run(c - i)
    BY <1>5, <2>1 DEF Run
  <2> QED BY <1>3, <2>1, <2>2
<1>6. i + n \in i + 1 .. Len(text) + 1 /\ Throughout(i, i + n, Blanks)
  BY <1>1, <1>4 DEF Run
<1> QED BY <1>5, <1>6

LEMMA BlanksAreTrivia ==
  ASSUME IsText, NEW i \in Places, NEW r \in i + 1 .. Len(text) + 1, Throughout(i, r, Blanks),
         \A c \in r + 1 .. Len(text) + 1 : ~Throughout(i, c, Blanks)
  PROVE  EndsTrivia(i, r)
<1>1. i \in Nat /\ i >= 1 /\ Len(text) \in Nat /\ r \in Places /\ i < r /\ i <= r /\ i \in i .. r - 1
  BY DEF Places, IsText
<1>2. text[i] # "/"
  <2>1. text[i] \in Blanks /\ "/" \notin Blanks
    BY <1>1 DEF Throughout, Blanks, NL, CR
  <2> QED BY <2>1
<1>3. IsTrivia(Word(i, r))
  BY <1>1, TriviaBegin
<1>4. ASSUME NEW c \in r + 1 .. Len(text) + 1 PROVE ~IsTrivia(Word(i, c))
  <2>1. c \in Places /\ i <= c
    BY <1>1 DEF Places
  <2> QED BY <1>2, <2>1, TriviaBegin DEF LineCommentTo, BlockCommentTo
<1> QED BY <1>3, <1>4 DEF EndsTrivia

LEMMA RestBehindBlanks ==
  ASSUME IsText, NEW i \in Places, NEW j \in Places, i < j, Throughout(i, j, Blanks)
  PROVE  Rest(i) = Rest(j)
<1>1. i \in Nat /\ j \in Nat /\ i >= 1 /\ i <= Len(text) /\ j <= Len(text) + 1 /\ Len(text) \in Nat /\ i \in i .. j - 1
  BY DEF Places, IsText
<1>2. text[i] \in Blanks
  BY <1>1 DEF Throughout
<1>3. PICK r \in i + 1 .. Len(text) + 1 :
           /\ Throughout(i, r, Blanks)
           /\ \A c \in r + 1 .. Len(text) + 1 : ~Throughout(i, c, Blanks)
  BY <1>1, <1>2, BlanksEnd
<1>4. Rest(i) = Rest(r)
  BY <1>3, BlanksAreTrivia, RestBehindTrivia
<1>5. j <= r
  BY <1>1, <1>3
<1>6. CASE j = r
  BY <1>4, <1>6
<1>7. CASE j < r
  <2>1. r \in j + 1 .. Len(text) + 1
    BY <1>1, <1>3, <1>7
  <2>2. Throughout(j, r, Blanks)
    <3>1. \A k \in j .. r - 1 : k \in i .. r - 1
      BY <1>1, <1>3
    <3> QED BY <1>3, <3>1 DEF Throughout
  <2>3. ASSUME NEW c \in r + 1 .. Len(text) + 1, Throughout(j, c, Blanks) PROVE FALSE
    <3>1. \A k \in i .. c - 1 : k \in i .. j - 1 \/ k \in j .. c - 1
      BY <1>1
    <3>2. Throughout(i, c, Blanks)
      BY <2>3, <3>1 DEF Throughout
    <3> QED BY <1>3, <3>2
  <2>4. Rest(j) = Rest(r)
    BY <2>1, <2>2, <2>3, BlanksAreTrivia, RestBehindTrivia
  <2> QED BY <1>4, <2>4
<1> QED BY <1>1, <1>3, <1>5, <1>6, <1>7

(* White space or a comment is passed over.                                *)
LEMMA RestBehindPiece ==
  ASSUME IsText, NEW i \in Places, NEW j \in Places, i < j, IsPieceOfTrivia(i, j)
  PROVE  Rest(i) = Rest(j)
<1>1. i <= j
  BY DEF Places
<1>2. CASE Some(Word(i, j), Blanks)
  <2>1. Throughout(i, j, Blanks)
    BY <1>1, <1>2, WordIs
  <2> QED BY <2>1, RestBehindBlanks
<1>3. CASE IsLineComment(Word(i, j)) /\ (j > Len(text) \/ text[j] \in LineEnds)
  <2>1. LineCommentTo(i, j)
    BY <1>1, <1>3, LineCommentIs
  <2> QED BY <1>3, <2>1, LineCommentEnds, RestBehindTrivia
<1>4. CASE IsBlockComment(Word(i, j))
  <2>1. BlockCommentTo(i, j)
    BY <1>1, <1>4, BlockCommentIs
  <2> QED BY <2>1, BlockCommentEnds, RestBehindTrivia
<1> QED BY <1>2, <1>3, <1>4 DEF IsPieceOfTrivia, Word

-----------------------------------------------------------------------------
(* Turns that skip.                                                        *)

(* A turn without complaint, which leaves what is left, and one that       *)
(* complains where no grammatical text goes on.                            *)
RightSkip ==
  \/ Complains(<<>>) /\ Rest(here.at) = Rest(here'.at)
  \/ \E error : Complains(<<error>>) /\ ~WellFormed(Rest(here.at))

LEMMA OneIs ==
  ASSUME NEW p
  PROVE  <<p>> \in Seq({p}) /\ Len(<<p>>) = 1 /\ 1 \in DOMAIN <<p>> /\ <<p>>[1] = p
OBVIOUS

LEMMA IllFormed ==
  ASSUME NEW kind, kind \in {"open comment", "none"}, NEW i, NEW n
  PROVE  ~WellFormed(<<Piece(kind, i, n)>>)
<1> DEFINE p == Piece(kind, i, n)
<1>1. p.kind = kind
  BY DEF Piece
<1> HIDE DEF p
<1>2. 1 \in DOMAIN <<p>> /\ <<p>>[1] = p
  BY OneIs
<1>3. ~WellFormed(<<p>>)
  BY <1>1, <1>2 DEF WellFormed
<1> QED BY <1>3 DEF p

LEMMA SkipsRight ==
  ASSUME IsText, here \in Positions, SkipBlank \/ SkipLineComment \/ SkipBlockComment
  PROVE  RightSkip /\ UNCHANGED <<text, tokens, done>>
<1>1. here' \in Behind(here) /\ UNCHANGED <<text, tokens, done>>
  BY SkipsForward DEF Skipped
<1>2. here.at \in Places /\ here'.at \in Places /\ here.at < here'.at
  <2>1. here' \in Positions /\ here'.at > here.at
    BY <1>1, BehindIs
  <2> QED BY <2>1 DEF Positions, Places
<1>3. ASSUME IsPieceOfTrivia(here.at, here'.at), Complains(<<>>) PROVE RightSkip
  BY <1>2, <1>3, RestBehindPiece DEF RightSkip
<1>4. SkipBlank => IsPieceOfTrivia(here.at, here'.at) /\ Complains(<<>>)
  BY SkippedBlank DEF SkipBlank, Skip, Scan, Complains
<1>5. SkipLineComment => IsPieceOfTrivia(here.at, here'.at) /\ Complains(<<>>)
  BY SkippedLineComment DEF SkipLineComment, LineComment, Skip, Scan, Complains
<1>6. ASSUME IsOpenComment(here.at), Complains(<<"unterminated block comment">>) PROVE RightSkip
  <2>1. ~WellFormed(Rest(here.at))
    BY <1>2, <1>6, RestOfOpenComment, IllFormed
  <2> DEFINE error == "unterminated block comment"
  <2>3. Complains(<<error>>)
    BY <1>6
  <2> HIDE DEF error
  <2> QED BY <2>1, <2>3 DEF RightSkip
<1> QED BY <1>1, <1>3, <1>4, <1>5, <1>6, SkippedBlockComment

-----------------------------------------------------------------------------
(* Tokens.                                                                 *)

LEMMA TokenIsNeeded ==
  ASSUME IsText, NEW i \in Places, i <= Len(text), text[i] \notin Blanks,
         ~(text[i] = "/" /\ i + 1 <= Len(text) /\ text[i + 1] \in {"/", "*"})
  PROVE  NeedsToken(i)
<1>1. i \in Nat /\ i >= 1 /\ Len(text) \in Nat
  BY DEF Places, IsText
<1>2. ~Opens(From(text, i))
  <2>1. From(text, i) = Word(i, Len(text) + 1) /\ Len(text) + 1 \in Places /\ i <= Len(text) + 1
    BY FromText
  <2>2. i + 2 <= Len(text) + 1 => i + 1 <= Len(text)
    BY <1>1
  <2> QED BY <2>1, <2>2, OpensIs
<1>3. ASSUME NEW b \in i + 1 .. Len(text) + 1 PROVE ~IsTrivia(Word(i, b))
  <2>1. b \in Places /\ i <= b /\ i \in i .. b - 1
    BY <1>1 DEF Places
  <2>2. ~Throughout(i, b, Blanks)
    BY <2>1 DEF Throughout
  <2>3. ~LineCommentTo(i, b)
    BY <1>1 DEF LineCommentTo
  <2>4. ~BlockCommentTo(i, b)
    BY <1>1 DEF BlockCommentTo
  <2> QED BY <2>1, <2>2, <2>3, <2>4, TriviaBegin
<1> QED BY <1>2, <1>3 DEF NeedsToken, NoTrivia

(* Where the lexer takes a token, C needs one.                             *)
LEMMA TokenHere ==
  ASSUME IsText, here \in Positions, AtToken
  PROVE  /\ NeedsToken(here.at) /\ ~done /\ ~AtEnd(here)
         /\ here.at \in Places /\ here.at \in Nat /\ here.at >= 1 /\ here.at <= Len(text) /\ Len(text) \in Nat
         /\ DOMAIN text = 1 .. Len(text)
         /\ Ahead(here) = text[here.at]
         /\ here.at + 1 <= Len(text) => Peek(here, 1) = text[here.at + 1]
         /\ ~(here.at + 1 <= Len(text)) => Peek(here, 1) = NUL
         /\ here.at + 2 <= Len(text) => Peek(here, 2) = text[here.at + 2]
         /\ ~(here.at + 2 <= Len(text)) => Peek(here, 2) = NUL
<1> DEFINE i == here.at
<1>1. ~done /\ ~AtEnd(here) /\ Ahead(here) \notin Blanks /\ ~Starts("/", "/") /\ ~Starts("/", "*")
  BY DEF AtToken
<1>2. i \in Nat /\ i >= 1 /\ Len(text) \in Nat /\ DOMAIN text = 1 .. Len(text)
      /\ i \in DOMAIN text /\ Ahead(here) = text[i]
  BY <1>1, AheadIs
<1>3. /\ i + 1 <= Len(text) => Peek(here, 1) = text[i + 1]
      /\ ~(i + 1 <= Len(text)) => Peek(here, 1) = NUL
      /\ i + 2 <= Len(text) => Peek(here, 2) = text[i + 2]
      /\ ~(i + 2 <= Len(text)) => Peek(here, 2) = NUL
  BY <1>2 DEF Peek
<1>4. i \in Places /\ i <= Len(text)
  BY <1>2 DEF Places
<1>5. NeedsToken(i)
  BY <1>1, <1>2, <1>3, <1>4, TokenIsNeeded DEF Starts
<1> QED BY <1>1, <1>2, <1>3, <1>4, <1>5

Listed == {"identifier", "keyword", "integer", "float", "char", "string"}

IsListed(k, w) ==
  CASE k = "identifier" -> IsIdentifier(w) /\ w \notin Keywords
    [] k = "keyword" -> w \in Keywords
    [] k = "integer" -> IsInteger(w)
    [] k = "float" -> IsFloat(w)
    [] k = "char" -> IsCharacter(w)
    [] k = "string" -> IsString(w)

KindOf(p) == IF p \in DOMAIN Alternative THEN Alternative[p] ELSE p

LEMMA KindsSplit ==
  ASSUME NEW w
  PROVE  Kinds(w) = {KindOf(p) : p \in Spelled(w)} \union {k \in Listed : IsListed(k, w)}
BY DEF Kinds, KindOf, Listed, IsListed

LEMMA ListedIs ==
  ASSUME NEW w
  PROVE  /\ IsListed("identifier", w) <=> IsIdentifier(w) /\ w \notin Keywords
         /\ IsListed("keyword", w) <=> w \in Keywords
         /\ IsListed("integer", w) <=> IsInteger(w)
         /\ IsListed("float", w) <=> IsFloat(w)
         /\ IsListed("char", w) <=> IsCharacter(w)
         /\ IsListed("string", w) <=> IsString(w)
BY DEF IsListed

(* A word that is of no kind, or of one.                                   *)
LEMMA TokenIsOfAKind ==
  ASSUME NEW w, IsToken(w)
  PROVE  Spelled(w) # {} \/ IsIdentifier(w) \/ IsInteger(w) \/ IsFloat(w) \/ IsCharacter(w) \/ IsString(w)
<1>1. PICK k \in Kinds(w) : TRUE
  BY DEF IsToken
<1>2. CASE k \in {KindOf(p) : p \in Spelled(w)}
  BY <1>2
<1>3. CASE k \in Listed /\ IsListed(k, w)
  <2>1. w \in Keywords => IsIdentifier(w)
    BY WordsAssumption
  <2> QED BY <1>3, <2>1, ListedIs DEF Listed
<1> QED BY <1>1, <1>2, <1>3, KindsSplit

LEMMA OneKind ==
  ASSUME NEW w, NEW kind \in Listed,
         Spelled(w) = {}, \A k \in Listed : IsListed(k, w) <=> k = kind
  PROVE  Kinds(w) = {kind}
<1>1. {KindOf(p) : p \in Spelled(w)} = {}
  OBVIOUS
<1>2. {k \in Listed : IsListed(k, w)} = {kind}
  OBVIOUS
<1> QED BY <1>1, <1>2, KindsSplit

(* Kinds of tokens are no kinds of errors.                                 *)
LEMMA KindsAreGood ==
  ASSUME NEW w, NEW k \in Kinds(w)
  PROVE  k \notin {"open comment", "none"}
<1>1. CASE k \in Listed
  BY <1>1 DEF Listed
<1>2. ASSUME NEW p \in Punctuator PROVE KindOf(p) \notin {"open comment", "none"}
  <2>1. p \notin {"open comment", "none"}
    BY DEF Punctuator, Alternative
  <2>2. CASE p \in DOMAIN Alternative
    <3>1. p \in {"<:", ":>", "<%", "%>", "%:", "%:%:"}
      BY <2>2 DEF Alternative
    <3>2. Alternative[p] \in {"[", "]", "{", "}", "#", "##"}
      BY <3>1 DEF Alternative
    <3> QED BY <2>2, <3>2 DEF KindOf
  <2> QED BY <2>1, <2>2 DEF KindOf
<1>3. CASE k \in {KindOf(p) : p \in Spelled(w)}
  BY <1>2, <1>3 DEF Spelled
<1> QED BY <1>1, <1>3, KindsSplit

(* A turn that adds a token: without complaint what C has there, with one  *)
(* where no grammatical text goes on.                                      *)
RightAdd(kind, end, errors) ==
  /\ here' = end
  /\ tokens' = Append(tokens, TokenAt(kind, end))
  /\ Complains(errors) /\ IsSequence(errors)
  /\ errors = <<>> => /\ Rest(here.at) = <<Piece(kind, here.at, end.at - here.at)>> \o Rest(end.at)
                      /\ kind \notin {"open comment", "none"}
  /\ errors # <<>> => ~WellFormed(Rest(here.at))

LEMMA TokenIsTaken ==
  ASSUME IsText, NEW i, NeedsToken(i), NEW b, EndsToken(i, b), ~IsCut(text, Word(i, b), b),
         NEW kind, Kinds(Word(i, b)) = {kind}
  PROVE  Rest(i) = <<Piece(kind, i, b - i)>> \o Rest(b) /\ kind \notin {"open comment", "none"}
<1> DEFINE w == Word(i, b)
<1>1. (CHOOSE k \in Kinds(w) : TRUE) = kind
  <2> HIDE DEF w
  <2> QED BY DEF w
<1>2. Rest(i) = <<Piece(CHOOSE k \in Kinds(w) : TRUE, i, b - i)>> \o Rest(b)
  BY RestIsToken
<1>3. kind \in Kinds(w)
  OBVIOUS
<1> HIDE DEF w
<1>4. kind \notin {"open comment", "none"}
  BY <1>3, KindsAreGood
<1> QED BY <1>1, <1>2, <1>4

LEMMA NoTokenIsIllFormed ==
  ASSUME IsText, NEW i, NeedsToken(i), NoToken(i)
  PROVE  ~WellFormed(Rest(i))
BY RestIsNone, IllFormed

LEMMA CutTokenIsIllFormed ==
  ASSUME IsText, NEW i, NeedsToken(i), NEW b, EndsToken(i, b), IsCut(text, Word(i, b), b)
  PROVE  ~WellFormed(Rest(i))
BY RestIsCut, IllFormed

(* Some token is the longest, if there are any.                            *)
LEMMA SomeTokenEnds ==
  ASSUME IsText, NEW i \in Places, ~NoToken(i)
  PROVE  \E b : EndsToken(i, b)
<1> DEFINE z == Len(text) - i + 1
           Taken(n) == IsToken(Word(i, i + n))
           T == {n \in 1 .. z : Taken(n)}
<1>1. i \in Nat /\ i >= 1 /\ Len(text) \in Nat /\ z \in Nat
  BY DEF Places, IsText
<1>2. PICK b \in i + 1 .. Len(text) + 1 : IsToken(Word(i, b))
  BY DEF NoToken
<1>3. b - i \in 1 .. z /\ i + (b - i) = b
  BY <1>1
<1>4. Taken(b - i)
  BY <1>2, <1>3
<1> HIDE DEF Taken
<1>5. PICK n \in T : \A m \in T : m <= n
  <2>1. T \in SUBSET (1 .. z) /\ T # {}
    BY <1>3, <1>4
  <2> HIDE DEF T, z
  <2> QED BY <1>1, <2>1, GreatestNumber
<1>6. n \in 1 .. z /\ Taken(n)
  OBVIOUS
<1>7. ASSUME NEW c \in i + n + 1 .. Len(text) + 1, IsToken(Word(i, c)) PROVE FALSE
  <2>1. c - i \in 1 .. z /\ i + (c - i) = c /\ ~(c - i <= n)
    BY <1>1, <1>6
  <2>2. Taken(c - i)
    BY <1>7, <2>1 DEF Taken
  <2> QED BY <1>5, <2>1, <2>2
<1>8. i + n \in i + 1 .. Len(text) + 1
  BY <1>1, <1>6
<1>9. EndsToken(i, i + n)
  BY <1>6, <1>7, <1>8 DEF EndsToken, Taken
<1> QED BY <1>9

-----------------------------------------------------------------------------
(* Numbers, by the places where their parts begin and end.                 *)
IntegerSuffixes == {"u", "U", "l", "L"}
FloatSuffixes == {"f", "F", "l", "L"}
Xs == {"x", "X"}
Bs == {"b", "B"}
Es == {"e", "E"}
Ps == {"p", "P"}
Signs == {"+", "-"}

BasedTo(i, m, letters, digits) ==
  i + 3 <= m /\ text[i] = "0" /\ text[i + 1] \in letters /\ Throughout(i + 2, m, digits)

DigitsTo(i, m) ==
  \/ i < m /\ Throughout(i, m, Digits) /\ text[i] # "0"
  \/ i < m /\ Throughout(i, m, OctalDigits) /\ text[i] = "0"
  \/ BasedTo(i, m, Xs, HexDigits)
  \/ BasedTo(i, m, Bs, BinaryDigits)

IntegerTo(i, b) == \E m \in i .. b : DigitsTo(i, m) /\ Throughout(m, b, IntegerSuffixes)

PowerTo(a, b, letters) ==
  /\ a + 2 <= b /\ text[a] \in letters
  /\ Throughout(a + 1, b, Digits) \/ (text[a + 1] \in Signs /\ a + 3 <= b /\ Throughout(a + 2, b, Digits))

FractionTo(a, b, digits) ==
  a + 2 <= b /\ \E k \in a .. b - 1 : text[k] = "." /\ Throughout(a, k, digits) /\ Throughout(k + 1, b, digits)

DecimalFloatTo(i, m) ==
  \E d \in i .. m :
     \/ i < d /\ Throughout(i, d, Digits) /\ PowerTo(d, m, Es)
     \/ FractionTo(i, d, Digits) /\ (d = m \/ PowerTo(d, m, Es))

HexFloatTo(i, m) ==
  /\ i + 3 <= m /\ text[i] = "0" /\ text[i + 1] \in Xs
  /\ \E d \in i + 2 .. m :
        /\ (i + 2 < d /\ Throughout(i + 2, d, HexDigits)) \/ FractionTo(i + 2, d, HexDigits)
        /\ PowerTo(d, m, Ps)

FloatSuffixTo(m, b) == b <= m + 1 /\ Throughout(m, b, FloatSuffixes)

FloatTo(i, b) == \E m \in i .. b : (DecimalFloatTo(i, m) \/ HexFloatTo(i, m)) /\ FloatSuffixTo(m, b)

(* How a word splits.                                                      *)
LEMMA SplitsAt ==
  ASSUME IsText, NEW a \in Places, NEW b \in Places, a <= b
  PROVE  /\ Len(Word(a, b)) = b - a
         /\ \A n \in 0 .. b - a : /\ a + n \in a .. b /\ a + n \in Places
                                  /\ UpTo(Word(a, b), n) = Word(a, a + n) /\ From(Word(a, b), n + 1) = Word(a + n, b)
         /\ \A m \in a .. b : /\ m - a \in 0 .. b - a /\ m \in Places
                              /\ UpTo(Word(a, b), m - a) = Word(a, m) /\ From(Word(a, b), (m - a) + 1) = Word(m, b)
<1>0. a \in Nat /\ b \in Nat /\ Len(Word(a, b)) = b - a /\ Len(text) \in Nat /\ a >= 1 /\ b <= Len(text) + 1
  BY WordBegins
<1>1. a \in Int /\ b \in Int /\ Len(Word(a, b)) = b - a /\ Len(text) \in Nat /\ a >= 1 /\ b <= Len(text) + 1
  BY <1>0
<1>2. ASSUME NEW m \in a .. b
      PROVE  /\ m - a \in 0 .. b - a /\ m \in Places
             /\ UpTo(Word(a, b), m - a) = Word(a, m) /\ From(Word(a, b), (m - a) + 1) = Word(m, b)
  <2>1. m - a \in 0 .. b - a /\ m \in Places
    BY <1>1 DEF Places
  <2> QED BY <2>1, WordParts
<1>3. ASSUME NEW n \in 0 .. b - a
      PROVE  /\ a + n \in a .. b /\ a + n \in Places
             /\ UpTo(Word(a, b), n) = Word(a, a + n) /\ From(Word(a, b), n + 1) = Word(a + n, b)
  <2>1. a + n \in a .. b /\ (a + n) - a = n /\ ((a + n) - a) + 1 = n + 1
    BY <1>1
  <2>2. /\ a + n \in Places
        /\ UpTo(Word(a, b), (a + n) - a) = Word(a, a + n) /\ From(Word(a, b), ((a + n) - a) + 1) = Word(a + n, b)
    BY <1>2, <2>1
  <2> QED BY <2>1, <2>2
<1> QED BY <1>1, <1>2, <1>3

LEMMA BasedIs ==
  ASSUME IsText, NEW i \in Places, NEW m \in Places, i <= m, NEW letters, NEW digits
  PROVE  IsBased(Word(i, m), letters, digits) <=> BasedTo(i, m, letters, digits)
<1> DEFINE w == Word(i, m)
<1>1. i \in Nat /\ m \in Nat /\ Len(w) = m - i
      /\ (i < m => w[1] = text[i]) /\ (i + 1 < m => w[2] = text[i + 1])
  BY WordBegins
<1>2. ASSUME i + 3 <= m PROVE All(From(w, 3), digits) <=> Throughout(i + 2, m, digits)
  <2>1. i + 2 \in i .. m /\ ((i + 2) - i) + 1 = 3
    BY <1>1, <1>2
  <2>2. From(w, 3) = Word(i + 2, m) /\ i + 2 \in Places /\ i + 2 <= m
    BY <2>1, SplitsAt
  <2> QED BY <2>2, WordIs
<1> HIDE DEF w
<1>3. Len(w) > 2 <=> i + 3 <= m
  BY <1>1
<1>4. i + 3 <= m => w[1] = text[i] /\ w[2] = text[i + 1]
  BY <1>1
<1> QED BY <1>2, <1>3, <1>4 DEF IsBased, BasedTo, w

IntegerDigits(d) ==
  \/ Some(d, Digits) /\ d[1] # "0"
  \/ Some(d, OctalDigits) /\ d[1] = "0"
  \/ IsHexInteger(d)
  \/ IsBased(d, {"b", "B"}, BinaryDigits)

LEMMA IntegerDigitsAre ==
  ASSUME IsText, NEW i \in Places, NEW m \in Places, i <= m
  PROVE  IntegerDigits(Word(i, m)) <=> DigitsTo(i, m)
<1> DEFINE w == Word(i, m)
<1>1. Some(w, Digits) <=> i < m /\ Throughout(i, m, Digits)
  BY WordIs
<1>2. Some(w, OctalDigits) <=> i < m /\ Throughout(i, m, OctalDigits)
  BY WordIs
<1>3. i < m => w[1] = text[i]
  BY WordBegins
<1>4. IsHexInteger(w) <=> BasedTo(i, m, Xs, HexDigits)
  BY BasedIs DEF IsHexInteger, Xs
<1>5. IsBased(w, {"b", "B"}, BinaryDigits) <=> BasedTo(i, m, Bs, BinaryDigits)
  BY BasedIs DEF Bs
<1> HIDE DEF w
<1>6. IntegerDigits(w) <=> DigitsTo(i, m)
  BY <1>1, <1>2, <1>3, <1>4, <1>5 DEF IntegerDigits, DigitsTo
<1> QED BY <1>6 DEF w

LEMMA IntegerIs ==
  ASSUME IsText, NEW i \in Places, NEW b \in Places, i <= b
  PROVE  IsInteger(Word(i, b)) <=> IntegerTo(i, b)
<1> DEFINE w == Word(i, b)
<1>1. IsInteger(w) <=> \E n \in 0 .. Len(w) : IntegerDigits(UpTo(w, n)) /\ IsIntegerSuffix(From(w, n + 1))
  BY DEF IsInteger, Splits, IntegerDigits
<1>2. ASSUME NEW m \in i .. b
      PROVE  /\ IntegerDigits(Word(i, m)) <=> DigitsTo(i, m)
             /\ IsIntegerSuffix(Word(m, b)) <=> Throughout(m, b, IntegerSuffixes)
  <2>1. m \in Places /\ i <= m /\ m <= b
    BY DEF Places, IsText
  <2> QED BY <2>1, IntegerDigitsAre, WordIs DEF IsIntegerSuffix, IntegerSuffixes
<1>3. Len(w) = b - i
  BY SplitsAt
<1>4. ASSUME NEW n \in 0 .. b - i, IntegerDigits(UpTo(w, n)), IsIntegerSuffix(From(w, n + 1)) PROVE IntegerTo(i, b)
  <2>1. i + n \in i .. b /\ UpTo(w, n) = Word(i, i + n) /\ From(w, n + 1) = Word(i + n, b)
    BY SplitsAt
  <2> HIDE DEF w
  <2> QED BY <1>2, <1>4, <2>1 DEF IntegerTo
<1>5. ASSUME NEW m \in i .. b, DigitsTo(i, m), Throughout(m, b, IntegerSuffixes)
      PROVE  \E n \in 0 .. b - i : IntegerDigits(UpTo(w, n)) /\ IsIntegerSuffix(From(w, n + 1))
  <2>1. m - i \in 0 .. b - i /\ UpTo(w, m - i) = Word(i, m) /\ From(w, (m - i) + 1) = Word(m, b)
    BY SplitsAt
  <2> HIDE DEF w
  <2> QED BY <1>2, <1>5, <2>1
<1> HIDE DEF w
<1>6. IsInteger(w) <=> IntegerTo(i, b)
  BY <1>1, <1>3, <1>4, <1>5 DEF IntegerTo
<1> QED BY <1>6 DEF w

LEMMA PowerToIs ==
  ASSUME IsText, NEW a \in Places, NEW b \in Places, a <= b, NEW letters
  PROVE  IsPower(Word(a, b), letters) <=> PowerTo(a, b, letters)
<1> DEFINE w == Word(a, b)
<1>1. a \in Nat /\ b \in Nat /\ Len(w) = b - a
      /\ (a < b => w[1] = text[a]) /\ (a + 1 < b => w[2] = text[a + 1])
  BY WordBegins
<1>2. ASSUME a + 2 <= b
      PROVE  /\ Some(From(w, 2), Digits) <=> Throughout(a + 1, b, Digits)
             /\ Some(From(w, 3), Digits) <=> a + 3 <= b /\ Throughout(a + 2, b, Digits)
  <2>1. a + 1 \in a .. b /\ ((a + 1) - a) + 1 = 2 /\ a + 2 \in a .. b /\ ((a + 2) - a) + 1 = 3
    BY <1>1, <1>2
  <2>2. /\ From(w, 2) = Word(a + 1, b) /\ a + 1 \in Places /\ a + 1 <= b
        /\ From(w, 3) = Word(a + 2, b) /\ a + 2 \in Places /\ a + 2 <= b
    BY <2>1, SplitsAt
  <2>3. a + 1 < b /\ (a + 2 < b <=> a + 3 <= b)
    BY <1>1, <1>2
  <2>4. Some(Word(a + 1, b), Digits) <=> a + 1 < b /\ Throughout(a + 1, b, Digits)
    BY <2>2, WordIs
  <2>5. Some(Word(a + 2, b), Digits) <=> a + 2 < b /\ Throughout(a + 2, b, Digits)
    BY <2>2, WordIs
  <2> QED BY <2>2, <2>3, <2>4, <2>5
<1> HIDE DEF w
<1>3. Len(w) >= 2 <=> a + 2 <= b
  BY <1>1
<1>4. a + 2 <= b => w[1] = text[a] /\ w[2] = text[a + 1]
  BY <1>1
<1> QED BY <1>2, <1>3, <1>4 DEF IsPower, PowerTo, w, Signs

LEMMA FractionToIs ==
  ASSUME IsText, NEW a \in Places, NEW b \in Places, a <= b, NEW digits
  PROVE  IsFraction(Word(a, b), digits) <=> FractionTo(a, b, digits)
<1> DEFINE w == Word(a, b)
<1>1. a \in Nat /\ b \in Nat /\ Len(w) = b - a /\ DOMAIN w = 1 .. b - a
      /\ \A k \in a .. b - 1 : k - a + 1 \in 1 .. b - a /\ w[k - a + 1] = text[k]
  BY WordBegins
<1>2. \A k \in 1 .. b - a : w[k] = text[a + k - 1]
  BY WordIs
<1> HIDE DEF w
<1>3. ASSUME NEW k \in DOMAIN w, w[k] = ".", \A j \in DOMAIN w \ {k} : w[j] \in digits
      PROVE  \E q \in a .. b - 1 : text[q] = "." /\ Throughout(a, q, digits) /\ Throughout(q + 1, b, digits)
  <2> DEFINE q == a + k - 1
  <2>1. k \in 1 .. b - a /\ q \in a .. b - 1 /\ text[q] = "."
    BY <1>1, <1>2, <1>3
  <2>2. ASSUME NEW j \in a .. b - 1, j # q PROVE text[j] \in digits
    <3>1. j - a + 1 \in DOMAIN w /\ j - a + 1 # k
      BY <1>1, <2>1, <2>2
    <3> QED BY <1>1, <1>3, <3>1
  <2> HIDE DEF q
  <2>3. \A j \in a .. q - 1 : j \in a .. b - 1 /\ j # q
    BY <1>1, <2>1
  <2>4. \A j \in q + 1 .. b - 1 : j \in a .. b - 1 /\ j # q
    BY <1>1, <2>1
  <2> QED BY <2>1, <2>2, <2>3, <2>4 DEF Throughout
<1>4. ASSUME NEW q \in a .. b - 1, text[q] = ".", Throughout(a, q, digits), Throughout(q + 1, b, digits)
      PROVE  \E k \in DOMAIN w : w[k] = "." /\ \A j \in DOMAIN w \ {k} : w[j] \in digits
  <2> DEFINE k == q - a + 1
  <2>1. k \in DOMAIN w /\ w[k] = "."
    BY <1>1, <1>4
  <2>2. ASSUME NEW j \in DOMAIN w \ {k} PROVE w[j] \in digits
    <3>1. j \in 1 .. b - a /\ (a + j - 1 \in a .. q - 1 \/ a + j - 1 \in q + 1 .. b - 1)
      BY <1>1, <2>2
    <3>2. text[a + j - 1] \in digits
      BY <1>4, <3>1 DEF Throughout
    <3> QED BY <1>2, <3>1, <3>2
  <2> QED BY <2>1, <2>2
<1>5. Len(w) >= 2 <=> a + 2 <= b
  BY <1>1
<1>6. IsFraction(w, digits) <=> FractionTo(a, b, digits)
  BY <1>3, <1>4, <1>5 DEF IsFraction, FractionTo
<1> QED BY <1>6 DEF w

LEMMA DecimalFloatIs ==
  ASSUME IsText, NEW i \in Places, NEW b \in Places, i <= b
  PROVE  IsDecimalFloat(Word(i, b)) <=> DecimalFloatTo(i, b)
<1> DEFINE w == Word(i, b)
           Whole(u, f) == Some(u, Digits) /\ IsPower(f, {"e", "E"})
           Dotted(u, f) == IsFraction(u, Digits) /\ (f = <<>> \/ IsPower(f, {"e", "E"}))
           At(d) == \/ i < d /\ Throughout(i, d, Digits) /\ PowerTo(d, b, Es)
                    \/ FractionTo(i, d, Digits) /\ (d = b \/ PowerTo(d, b, Es))
<1>1. IsDecimalFloat(w) <=> \/ \E n \in 0 .. Len(w) : Whole(UpTo(w, n), From(w, n + 1))
                            \/ \E n \in 0 .. Len(w) : Dotted(UpTo(w, n), From(w, n + 1))
  BY DEF IsDecimalFloat, Splits
<1>2. ASSUME NEW m \in i .. b
      PROVE  Whole(Word(i, m), Word(m, b)) \/ Dotted(Word(i, m), Word(m, b)) <=> At(m)
  <2>1. m \in Places /\ i <= m /\ m <= b /\ m \in Nat /\ b \in Nat
    BY DEF Places, IsText
  <2>2. Some(Word(i, m), Digits) <=> i < m /\ Throughout(i, m, Digits)
    BY <2>1, WordIs
  <2>3. IsPower(Word(m, b), {"e", "E"}) <=> PowerTo(m, b, Es)
    BY <2>1, PowerToIs DEF Es
  <2>4. IsFraction(Word(i, m), Digits) <=> FractionTo(i, m, Digits)
    BY <2>1, FractionToIs
  <2>5. Word(m, b) = <<>> <=> m = b
    <3>1. Word(m, b) \in Seq(STRING) /\ Len(Word(m, b)) = b - m
      BY <2>1, WordIs
    <3> QED BY <2>1, <3>1
  <2> QED BY <2>2, <2>3, <2>4, <2>5
<1>3. Len(w) = b - i
  BY SplitsAt
<1> HIDE DEF Whole, Dotted, At
<1>4. ASSUME NEW n \in 0 .. b - i, Whole(UpTo(w, n), From(w, n + 1)) \/ Dotted(UpTo(w, n), From(w, n + 1))
      PROVE  \E m \in i .. b : At(m)
  <2>1. i + n \in i .. b /\ UpTo(w, n) = Word(i, i + n) /\ From(w, n + 1) = Word(i + n, b)
    BY SplitsAt
  <2> HIDE DEF w
  <2> QED BY <1>2, <1>4, <2>1
<1>5. ASSUME NEW m \in i .. b, At(m)
      PROVE  \E n \in 0 .. b - i : Whole(UpTo(w, n), From(w, n + 1)) \/ Dotted(UpTo(w, n), From(w, n + 1))
  <2>1. m - i \in 0 .. b - i /\ UpTo(w, m - i) = Word(i, m) /\ From(w, (m - i) + 1) = Word(m, b)
    BY SplitsAt
  <2> HIDE DEF w
  <2> QED BY <1>2, <1>5, <2>1
<1> HIDE DEF w
<1>6. IsDecimalFloat(w) <=> \E m \in i .. b : At(m)
  BY <1>1, <1>3, <1>4, <1>5
<1> QED BY <1>6 DEF w, DecimalFloatTo, At

LEMMA HexFloatIs ==
  ASSUME IsText, NEW i \in Places, NEW b \in Places, i <= b
  PROVE  IsHexFloat(Word(i, b)) <=> HexFloatTo(i, b)
<1> DEFINE w == Word(i, b)
           v == Word(i + 2, b)
           Both(u, f) == (Some(u, HexDigits) \/ IsFraction(u, HexDigits)) /\ IsPower(f, {"p", "P"})
           At(d) == /\ (i + 2 < d /\ Throughout(i + 2, d, HexDigits)) \/ FractionTo(i + 2, d, HexDigits)
                    /\ PowerTo(d, b, Ps)
<1>1. IsHexFloat(w) <=> /\ Len(w) > 2 /\ w[1] = "0" /\ w[2] \in {"x", "X"}
                        /\ \E n \in 0 .. Len(From(w, 3)) : Both(UpTo(From(w, 3), n), From(From(w, 3), n + 1))
  BY DEF IsHexFloat, Splits
<1>2. i \in Nat /\ b \in Nat /\ Len(w) = b - i
      /\ (i < b => w[1] = text[i]) /\ (i + 1 < b => w[2] = text[i + 1])
  BY WordBegins
<1>3. Len(w) > 2 <=> i + 3 <= b
  BY <1>2
<1>4. i + 3 <= b => w[1] = text[i] /\ w[2] = text[i + 1]
  BY <1>2
<1>5. ASSUME i + 3 <= b
      PROVE  (\E n \in 0 .. Len(From(w, 3)) : Both(UpTo(From(w, 3), n), From(From(w, 3), n + 1)))
             <=> \E m \in i + 2 .. b : At(m)
  <2>1. i + 2 \in i .. b /\ ((i + 2) - i) + 1 = 3
    BY <1>2, <1>5
  <2>2. From(w, 3) = v /\ i + 2 \in Places /\ i + 2 <= b
    BY <2>1, SplitsAt
  <2>3. ASSUME NEW m \in i + 2 .. b
        PROVE  Both(Word(i + 2, m), Word(m, b)) <=> At(m)
    <3>1. m \in Places /\ i + 2 <= m /\ m <= b
      BY <1>2 DEF Places, IsText
    <3>2. Some(Word(i + 2, m), HexDigits) <=> i + 2 < m /\ Throughout(i + 2, m, HexDigits)
      BY <2>2, <3>1, WordIs
    <3>3. IsPower(Word(m, b), {"p", "P"}) <=> PowerTo(m, b, Ps)
      BY <3>1, PowerToIs DEF Ps
    <3>4. IsFraction(Word(i + 2, m), HexDigits) <=> FractionTo(i + 2, m, HexDigits)
      BY <2>2, <3>1, FractionToIs
    <3> QED BY <3>2, <3>3, <3>4
  <2> HIDE DEF Both, At
  <2> DEFINE j == i + 2
  <2>4. j \in Places /\ j <= b /\ v = Word(j, b) /\ \A m \in j .. b : Both(Word(j, m), Word(m, b)) <=> At(m)
    BY <2>2, <2>3
  <2> HIDE DEF j
  <2>5. Len(v) = b - j
    BY <2>4, SplitsAt
  <2>6. ASSUME NEW n \in 0 .. b - j, Both(UpTo(v, n), From(v, n + 1)) PROVE \E m \in j .. b : At(m)
    <3>1. j + n \in j .. b /\ UpTo(v, n) = Word(j, j + n) /\ From(v, n + 1) = Word(j + n, b)
      BY <2>4, SplitsAt
    <3> QED BY <2>4, <2>6, <3>1
  <2>7. ASSUME NEW m \in j .. b, At(m) PROVE \E n \in 0 .. b - j : Both(UpTo(v, n), From(v, n + 1))
    <3>1. m - j \in 0 .. b - j /\ UpTo(v, m - j) = Word(j, m) /\ From(v, (m - j) + 1) = Word(m, b)
      BY <2>4, SplitsAt
    <3> QED BY <2>4, <2>7, <3>1
  <2> HIDE DEF v, w
  <2>8. (\E n \in 0 .. Len(v) : Both(UpTo(v, n), From(v, n + 1))) <=> \E m \in j .. b : At(m)
    BY <2>5, <2>6, <2>7
  <2> QED BY <2>2, <2>8 DEF j
<1> HIDE DEF w, v, Both, At
<1>6. IsHexFloat(w) <=> /\ i + 3 <= b /\ text[i] = "0" /\ text[i + 1] \in {"x", "X"}
                        /\ \E m \in i + 2 .. b : At(m)
  BY <1>1, <1>3, <1>4, <1>5
<1> QED BY <1>6 DEF w, HexFloatTo, At, Xs

LEMMA FloatIs ==
  ASSUME IsText, NEW i \in Places, NEW b \in Places, i <= b
  PROVE  IsFloat(Word(i, b)) <=> FloatTo(i, b)
<1> DEFINE w == Word(i, b)
           At(m) == (DecimalFloatTo(i, m) \/ HexFloatTo(i, m)) /\ FloatSuffixTo(m, b)
           Both(u, f) == (IsDecimalFloat(u) \/ IsHexFloat(u)) /\ IsFloatSuffix(f)
<1>1. IsFloat(w) <=> \E n \in 0 .. Len(w) : Both(UpTo(w, n), From(w, n + 1))
  BY DEF IsFloat, Splits
<1>2. ASSUME NEW m \in i .. b PROVE Both(Word(i, m), Word(m, b)) <=> At(m)
  <2>1. m \in Places /\ i <= m /\ m <= b /\ m \in Nat /\ b \in Nat
    BY DEF Places, IsText
  <2>2. Len(Word(m, b)) <= 1 <=> b <= m + 1
    <3>1. Len(Word(m, b)) = b - m
      BY <2>1, WordIs
    <3> QED BY <2>1, <3>1
  <2>3. IsFloatSuffix(Word(m, b)) <=> FloatSuffixTo(m, b)
    BY <2>1, <2>2, WordIs DEF IsFloatSuffix, FloatSuffixTo, FloatSuffixes
  <2> QED BY <2>1, <2>3, DecimalFloatIs, HexFloatIs
<1>3. Len(w) = b - i
  BY SplitsAt
<1> HIDE DEF Both, At
<1>4. ASSUME NEW n \in 0 .. b - i, Both(UpTo(w, n), From(w, n + 1)) PROVE \E m \in i .. b : At(m)
  <2>1. i + n \in i .. b /\ UpTo(w, n) = Word(i, i + n) /\ From(w, n + 1) = Word(i + n, b)
    BY SplitsAt
  <2> HIDE DEF w
  <2> QED BY <1>2, <1>4, <2>1
<1>5. ASSUME NEW m \in i .. b, At(m) PROVE \E n \in 0 .. b - i : Both(UpTo(w, n), From(w, n + 1))
  <2>1. m - i \in 0 .. b - i /\ UpTo(w, m - i) = Word(i, m) /\ From(w, (m - i) + 1) = Word(m, b)
    BY SplitsAt
  <2> HIDE DEF w
  <2> QED BY <1>2, <1>5, <2>1
<1> HIDE DEF w
<1>6. IsFloat(w) <=> \E m \in i .. b : At(m)
  BY <1>1, <1>3, <1>4, <1>5
<1> QED BY <1>6 DEF w, FloatTo, At

(* A number begins with a digit, or with a dot and a digit.                *)
LEMMA NumbersBegin ==
  ASSUME IsText, NEW i \in Places, NEW b \in Places, i <= b, IntegerTo(i, b) \/ FloatTo(i, b)
  PROVE  text[i] \in Digits \/ (text[i] = "." /\ i + 2 <= b /\ text[i + 1] \in Digits)
<1>1. i \in Nat /\ b \in Nat
  BY DEF Places, IsText
<1>2. "0" \in Digits /\ OctalDigits \subseteq Digits
  BY DEF Digits, OctalDigits
<1>3. ASSUME NEW m \in i .. b, i < m, NEW class, class \subseteq Digits, Throughout(i, m, class) PROVE text[i] \in Digits
  <2>1. i \in i .. m - 1
    BY <1>1, <1>3
  <2> QED BY <1>3, <2>1 DEF Throughout
<1>4. ASSUME IntegerTo(i, b) PROVE text[i] \in Digits
  <2>1. PICK m \in i .. b : DigitsTo(i, m)
    BY <1>4 DEF IntegerTo
  <2> QED BY <1>2, <1>3, <2>1 DEF DigitsTo, BasedTo
<1>5. ASSUME NEW d \in i .. b, FractionTo(i, d, Digits) PROVE text[i] \in Digits \/ (text[i] = "." /\ i + 2 <= b /\ text[i + 1] \in Digits)
  <2>1. i + 2 <= d /\ d \in Nat /\ d <= b
    BY <1>1, <1>5 DEF FractionTo
  <2>2. PICK k \in i .. d - 1 : text[k] = "." /\ Throughout(i, k, Digits) /\ Throughout(k + 1, d, Digits)
    BY <1>5 DEF FractionTo
  <2>3. CASE k = i
    <3>1. i + 1 \in k + 1 .. d - 1 /\ i + 2 <= b
      BY <1>1, <2>1, <2>3
    <3> QED BY <2>2, <2>3, <3>1 DEF Throughout
  <2>4. CASE k # i
    <3>1. i \in i .. k - 1
      BY <1>1, <2>1, <2>4
    <3> QED BY <2>2, <3>1 DEF Throughout
  <2> QED BY <2>3, <2>4
<1>6. ASSUME FloatTo(i, b) PROVE text[i] \in Digits \/ (text[i] = "." /\ i + 2 <= b /\ text[i + 1] \in Digits)
  <2>1. PICK m \in i .. b : DecimalFloatTo(i, m) \/ HexFloatTo(i, m)
    BY <1>6 DEF FloatTo
  <2>2. CASE HexFloatTo(i, m)
    BY <1>2, <2>2 DEF HexFloatTo
  <2>3. CASE DecimalFloatTo(i, m)
    <3>1. PICK d \in i .. m : (i < d /\ Throughout(i, d, Digits)) \/ FractionTo(i, d, Digits)
      BY <2>3 DEF DecimalFloatTo
    <3>2. d \in i .. b
      BY <1>1
    <3> QED BY <1>3, <1>5, <3>1, <3>2
  <2> QED BY <2>1, <2>2, <2>3
<1> QED BY <1>4, <1>6

-----------------------------------------------------------------------------
(* What literals are made of.                                              *)

(* What is from i on, is made of characters and escapes, given what is     *)
(* further on.                                                             *)
ContentsAt(w, quote, f, i) ==
  \/ i = Len(w) + 1
  \/ w[i] \notin {NL, CR, quote, "\\"} /\ f[i + 1]
  \/ \E j \in i .. Len(w) : IsEscape(SubSeq(w, i, j)) /\ f[j + 1]

ContentsFrom(w, quote) == CHOOSE f : f = [i \in 1 .. Len(w) + 1 |-> ContentsAt(w, quote, f, i)]

LEMMA ContentsAreFrom ==
  ASSUME NEW w, NEW quote
  PROVE  IsContents(w, quote) <=> ContentsFrom(w, quote)[1]
BY DEF IsContents, ContentsFrom, ContentsAt

LEMMA ContentsDepend ==
  ASSUME NEW w, Len(w) \in Nat, NEW quote, NEW i \in 1 .. Len(w) + 1, NEW f, NEW g,
         \A j \in i + 1 .. Len(w) + 1 : f[j] = g[j]
  PROVE  ContentsAt(w, quote, f, i) = ContentsAt(w, quote, g, i)
<1>1. CASE i = Len(w) + 1
  BY <1>1 DEF ContentsAt
<1>2. CASE i # Len(w) + 1
  <2>1. i + 1 \in i + 1 .. Len(w) + 1
    BY <1>2
  <2>2. f[i + 1] = g[i + 1]
    BY <2>1
  <2>3. ASSUME NEW j \in i .. Len(w) PROVE f[j + 1] = g[j + 1]
    <3>1. j + 1 \in i + 1 .. Len(w) + 1
      BY <1>2
    <3> QED BY <3>1
  <2> QED BY <2>2, <2>3 DEF ContentsAt
<1> QED BY <1>1, <1>2

LEMMA ContentsFromIs ==
  ASSUME NEW w, Len(w) \in Nat, NEW quote
  PROVE  \A i \in 1 .. Len(w) + 1 : ContentsFrom(w, quote)[i] = ContentsAt(w, quote, ContentsFrom(w, quote), i)
<1> DEFINE z == Len(w) + 1
           At(f, i) == ContentsAt(w, quote, f, i)
           Fills(f, m) == f = [i \in m .. z |-> At(f, i)]
           Bad == {k \in Nat : k < z /\ ~\E f : Fills(f, z - k)}
<1>1. z \in Nat /\ z >= 1 /\ z = Len(w) + 1
  OBVIOUS
<1>d. ASSUME NEW i \in 1 .. z, NEW f, NEW g, \A j \in i + 1 .. z : f[j] = g[j] PROVE At(f, i) = At(g, i)
  BY <1>d, ContentsDepend
<1> HIDE DEF z, At
<1>2. ASSUME NEW m \in 1 .. z, NEW f, m < z => Fills(f, m + 1) PROVE \E g : Fills(g, m)
  <2> DEFINE h == [i \in m .. z |-> IF i = m THEN At(f, m) ELSE f[i]]
  <2>1. \A j \in m + 1 .. z : h[j] = f[j]
    BY <1>1
  <2>2. h[m] = At(f, m)
    BY <1>1
  <2>3. DOMAIN h = m .. z /\ h = [i \in m .. z |-> h[i]]
    OBVIOUS
  <2> HIDE DEF h
  <2>4. ASSUME NEW i \in m .. z PROVE h[i] = At(h, i)
    <3>1. i \in 1 .. z /\ \A j \in i + 1 .. z : h[j] = f[j]
      BY <1>1, <2>1
    <3>2. At(h, i) = At(f, i)
      BY <1>d, <3>1
    <3>3. CASE i = m
      BY <2>2, <3>2, <3>3
    <3>4. CASE i # m
      <4>1. i \in m + 1 .. z /\ m < z
        BY <1>1, <3>4
      <4>2. f = [k \in m + 1 .. z |-> At(f, k)]
        BY <1>2, <4>1
      <4>3. f[i] = At(f, i)
        BY <4>1, <4>2
      <4> QED BY <2>1, <3>2, <4>1, <4>3
    <3> QED BY <3>3, <3>4
  <2>5. h = [i \in m .. z |-> At(h, i)]
    BY <2>3, <2>4
  <2> QED BY <2>5
<1> HIDE DEF Fills
<1>3. ASSUME Bad # {} PROVE FALSE
  <2>1. Bad \in SUBSET Nat
    OBVIOUS
  <2>2. PICK k \in Bad : \A j \in Bad : k <= j
    <3> HIDE DEF Bad
    <3> QED BY <1>3, <2>1, LeastNumber
  <2>3. k \in Nat /\ k < z /\ ~\E f : Fills(f, z - k)
    OBVIOUS
  <2>4. z - k \in 1 .. z
    BY <1>1, <2>3
  <2>5. CASE k = 0
    <3>1. ~(z - k < z)
      BY <1>1, <2>5
    <3> QED BY <1>2, <2>3, <2>4, <3>1
  <2>6. CASE k # 0
    <3>1. k - 1 \in Nat /\ k - 1 < z /\ ~(k <= k - 1) /\ z - (k - 1) = (z - k) + 1
      BY <1>1, <2>3, <2>6
    <3>2. k - 1 \notin Bad
      BY <2>2, <3>1
    <3>3. PICK f : Fills(f, z - (k - 1))
      BY <3>1, <3>2
    <3> QED BY <1>2, <2>3, <2>4, <3>1, <3>3
  <2> QED BY <2>5, <2>6
<1>4. \E f : Fills(f, 1)
  <2>1. z - 1 \in Nat /\ z - 1 < z /\ z - (z - 1) = 1
    BY <1>1
  <2>2. z - 1 \notin Bad
    BY <1>3
  <2> QED BY <2>1, <2>2
<1>5. ContentsFrom(w, quote) = CHOOSE f : Fills(f, 1)
  BY DEF ContentsFrom, Fills, z, At
<1>6. Fills(ContentsFrom(w, quote), 1)
  BY <1>4, <1>5
<1>7. ContentsFrom(w, quote) = [i \in 1 .. z |-> At(ContentsFrom(w, quote), i)]
  BY <1>6 DEF Fills
<1> QED BY <1>1, <1>7 DEF At

(* An escape, by where it begins and ends.                                 *)
EscapeTo(j, m) ==
  /\ j + 2 <= m /\ text[j] = "\\"
  /\ \/ m = j + 2 /\ text[j + 1] \in SimpleEscapes \union {NL, CR}
     \/ m = j + 3 /\ text[j + 1] = CR /\ text[j + 2] = NL
     \/ m <= j + 4 /\ Throughout(j + 1, m, OctalDigits)
     \/ text[j + 1] = "x" /\ j + 3 <= m /\ Throughout(j + 2, m, HexDigits)
     \/ text[j + 1] = "u" /\ m = j + 6 /\ Throughout(j + 2, m, HexDigits)
     \/ text[j + 1] = "U" /\ m = j + 10 /\ Throughout(j + 2, m, HexDigits)

LEMMA TwoAre ==
  ASSUME NEW v \in Seq(STRING), NEW x, NEW y
  PROVE  v = <<x, y>> <=> Len(v) = 2 /\ v[1] = x /\ v[2] = y
<1> DEFINE S == STRING \union {x, y}
<1>1. v \in Seq(S) /\ x \in S /\ y \in S
  OBVIOUS
<1> HIDE DEF S
<1>2. <<x, y>> \in Seq(S) /\ Len(<<x, y>>) = 2 /\ <<x, y>>[1] = x /\ <<x, y>>[2] = y
  BY <1>1
<1>3. ASSUME Len(v) = 2, v[1] = x, v[2] = y PROVE v = <<x, y>>
  <2>1. ASSUME NEW k \in 1 .. 2 PROVE v[k] = <<x, y>>[k]
    <3>1. k = 1 \/ k = 2
      OBVIOUS
    <3> QED BY <1>2, <1>3, <3>1
  <2> QED BY <1>1, <1>2, <1>3, <2>1
<1> QED BY <1>2, <1>3

LEMMA OneIsAWord ==
  ASSUME NEW v \in Seq(STRING), NEW x
  PROVE  v = <<x>> <=> Len(v) = 1 /\ v[1] = x
<1> DEFINE S == STRING \union {x}
<1>1. v \in Seq(S) /\ x \in S
  OBVIOUS
<1> HIDE DEF S
<1>2. <<x>> \in Seq(S) /\ Len(<<x>>) = 1 /\ <<x>>[1] = x
  BY <1>1
<1>3. ASSUME Len(v) = 1, v[1] = x PROVE v = <<x>>
  <2>1. ASSUME NEW k \in 1 .. 1 PROVE v[k] = <<x>>[k]
    <3>1. k = 1
      OBVIOUS
    <3> QED BY <1>2, <1>3, <3>1
  <2> QED BY <1>1, <1>2, <1>3, <2>1
<1> QED BY <1>2, <1>3

LEMMA EscapeToIs ==
  ASSUME IsText, NEW j \in Places, NEW m \in Places, j <= m
  PROVE  IsEscape(Word(j, m)) <=> EscapeTo(j, m)
<1> DEFINE w == Word(j, m)
<1>1. j \in Nat /\ m \in Nat /\ Len(w) = m - j
      /\ (j < m => w[1] = text[j]) /\ (j + 1 < m => w[2] = text[j + 1])
  BY WordBegins
<1>2. ASSUME j + 2 <= m
      PROVE  /\ Some(From(w, 2), OctalDigits) <=> Throughout(j + 1, m, OctalDigits)
             /\ Some(From(w, 3), HexDigits) <=> j + 3 <= m /\ Throughout(j + 2, m, HexDigits)
             /\ All(From(w, 3), HexDigits) <=> Throughout(j + 2, m, HexDigits)
             /\ From(w, 2) = <<CR, NL>> <=> m = j + 3 /\ text[j + 1] = CR /\ text[j + 2] = NL
  <2>1. j + 1 \in j .. m /\ ((j + 1) - j) + 1 = 2 /\ j + 2 \in j .. m /\ ((j + 2) - j) + 1 = 3
    BY <1>1, <1>2
  <2>2. /\ From(w, 2) = Word(j + 1, m) /\ j + 1 \in Places /\ j + 1 <= m
        /\ From(w, 3) = Word(j + 2, m) /\ j + 2 \in Places /\ j + 2 <= m
    BY <2>1, SplitsAt
  <2>3. j + 1 < m /\ (j + 2 < m <=> j + 3 <= m)
    BY <1>1, <1>2
  <2>4. Some(Word(j + 1, m), OctalDigits) <=> j + 1 < m /\ Throughout(j + 1, m, OctalDigits)
    BY <2>2, WordIs
  <2>5. Some(Word(j + 2, m), HexDigits) <=> j + 2 < m /\ Throughout(j + 2, m, HexDigits)
    BY <2>2, WordIs
  <2>6. All(Word(j + 2, m), HexDigits) <=> Throughout(j + 2, m, HexDigits)
    BY <2>2, WordIs
  <2>7. Word(j + 1, m) = <<CR, NL>> <=> m = j + 3 /\ text[j + 1] = CR /\ text[j + 2] = NL
    <3> DEFINE v == Word(j + 1, m)
    <3>1. v \in Seq(STRING) /\ Len(v) = m - (j + 1)
      BY <2>2, WordIs
    <3>2. (j + 1 < m => v[1] = text[j + 1]) /\ ((j + 1) + 1 < m => v[2] = text[(j + 1) + 1])
      BY <2>2, WordBegins
    <3> HIDE DEF v
    <3>3. v = <<CR, NL>> <=> Len(v) = 2 /\ v[1] = CR /\ v[2] = NL
      <4>1. v \in Seq(STRING)
        BY <3>1
      <4> QED BY ONLY <4>1, TwoAre
    <3>4. Len(v) = 2 <=> m = j + 3
      BY <1>1, <3>1
    <3>5. m = j + 3 => v[1] = text[j + 1] /\ v[2] = text[j + 2]
      BY <1>1, <3>2
    <3> QED BY <3>3, <3>4, <3>5 DEF v
  <2> QED BY <2>2, <2>3, <2>4, <2>5, <2>6, <2>7
<1> HIDE DEF w
<1>3. Len(w) >= 2 <=> j + 2 <= m
  BY <1>1
<1>4. j + 2 <= m => w[1] = text[j] /\ w[2] = text[j + 1]
  BY <1>1
<1>5. /\ Len(w) = 2 <=> m = j + 2
      /\ Len(w) <= 4 <=> m <= j + 4
      /\ Len(w) = 6 <=> m = j + 6
      /\ Len(w) = 10 <=> m = j + 10
  BY <1>1
<1>6. \A c : c \in {"'", "\"", "?", "\\", "a", "b", "f", "n", "r", "t", "v", NL, CR} <=> c \in SimpleEscapes \union {NL, CR}
  BY DEF SimpleEscapes
<1> QED BY <1>2, <1>3, <1>4, <1>5, <1>6 DEF IsEscape, EscapeTo, w

(* What lies at k up to before c, where contents that began at a end.      *)
Made(a, c, quote, k) == ContentsFrom(Word(a, c), quote)[k - a + 1]

LEMMA MadeIs ==
  ASSUME IsText, NEW a \in Places, NEW c \in Places, a <= c, NEW quote, NEW k \in a .. c
  PROVE  Made(a, c, quote, k)
         <=> \/ k = c
             \/ text[k] \notin {NL, CR, quote, "\\"} /\ Made(a, c, quote, k + 1)
             \/ \E m \in k + 1 .. c : EscapeTo(k, m) /\ Made(a, c, quote, m)
<1> DEFINE w == Word(a, c)
           f == ContentsFrom(w, quote)
           i == k - a + 1
           Plain(x) == x \notin {NL, CR, quote, "\\"}
<1>1. a \in Nat /\ c \in Nat /\ k \in Nat /\ a >= 1 /\ c <= Len(text) + 1 /\ Len(text) \in Nat /\ Len(w) = c - a
      /\ \A q \in a .. c - 1 : q - a + 1 \in 1 .. c - a /\ w[q - a + 1] = text[q]
  BY WordBegins
<1>2. i \in 1 .. Len(w) + 1
  BY <1>1
<1>3. f[i] = ContentsAt(w, quote, f, i)
  BY <1>1, <1>2, ContentsFromIs
<1>4. i = Len(w) + 1 <=> k = c
  BY <1>1
<1>5. k # c => w[i] = text[k] /\ i + 1 = (k + 1) - a + 1
  BY <1>1
<1>6. ASSUME NEW j \in i .. Len(w)
      PROVE  /\ j + a \in k + 1 .. c
             /\ IsEscape(SubSeq(w, i, j)) <=> EscapeTo(k, j + a)
             /\ j + 1 = (j + a) - a + 1
  <2>1. j + a \in k .. c /\ (j + a) - a = j /\ j + a \in k + 1 .. c /\ k \in Places /\ j + a \in Places /\ k <= j + a
    BY <1>1, <1>2 DEF Places
  <2>2. SubSeq(w, i, j) = Word(k, j + a)
    BY <2>1, WordOfWord
  <2> QED BY <2>1, <2>2, EscapeToIs
<1>7. ASSUME NEW m \in k + 1 .. c
      PROVE  m - a \in i .. Len(w) /\ (m - a) + a = m
  BY <1>1
<1>8. Made(a, c, quote, k) <=> f[i]
  BY DEF Made
<1>9. \A m \in k + 1 .. c : Made(a, c, quote, m) <=> f[(m - a) + 1]
  BY DEF Made
<1>10. k # c => k + 1 \in k + 1 .. c
  BY <1>1
<1>11. ContentsAt(w, quote, f, i)
       <=> \/ i = Len(w) + 1
           \/ Plain(w[i]) /\ f[i + 1]
           \/ \E j \in i .. Len(w) : IsEscape(SubSeq(w, i, j)) /\ f[j + 1]
  <2> HIDE DEF w, f, i
  <2> QED BY DEF ContentsAt
<1>a. f[i] <=> ContentsAt(w, quote, f, i)
  BY <1>3
<1> HIDE DEF w, f, i, Plain
<1>12. (\E j \in i .. Len(w) : IsEscape(SubSeq(w, i, j)) /\ f[j + 1])
       <=> \E m \in k + 1 .. c : EscapeTo(k, m) /\ Made(a, c, quote, m)
  <2>1. ASSUME NEW j \in i .. Len(w), IsEscape(SubSeq(w, i, j)), f[j + 1]
        PROVE  \E m \in k + 1 .. c : EscapeTo(k, m) /\ Made(a, c, quote, m)
    <3>1. j + a \in k + 1 .. c /\ EscapeTo(k, j + a) /\ ((j + a) - a) + 1 = j + 1
      BY <1>1, <1>2, <1>6, <2>1
    <3>2. Made(a, c, quote, j + a)
      BY <1>9, <2>1, <3>1
    <3> QED BY <3>1, <3>2
  <2>2. ASSUME NEW m \in k + 1 .. c, EscapeTo(k, m), Made(a, c, quote, m)
        PROVE  \E j \in i .. Len(w) : IsEscape(SubSeq(w, i, j)) /\ f[j + 1]
    <3>1. m - a \in i .. Len(w) /\ (m - a) + a = m
      BY <1>7
    <3>2. IsEscape(SubSeq(w, i, m - a))
      BY <1>6, <2>2, <3>1
    <3>3. f[(m - a) + 1]
      BY <1>9, <2>2
    <3> QED BY <3>1, <3>2, <3>3
  <2> QED BY <2>1, <2>2
<1>13. k # c => (f[i + 1] <=> Made(a, c, quote, k + 1))
  <2>1. k # c => ((k + 1) - a) + 1 = i + 1
    BY <1>1, <1>5
  <2> QED BY <1>9, <1>10, <2>1
<1>14. Made(a, c, quote, k)
       <=> \/ k = c
           \/ Plain(text[k]) /\ Made(a, c, quote, k + 1)
           \/ \E m \in k + 1 .. c : EscapeTo(k, m) /\ Made(a, c, quote, m)
  <2>1. Made(a, c, quote, k)
        <=> \/ i = Len(w) + 1
            \/ Plain(w[i]) /\ f[i + 1]
            \/ \E m \in k + 1 .. c : EscapeTo(k, m) /\ Made(a, c, quote, m)
    BY <1>8, <1>a, <1>11, <1>12
  <2>2. CASE k = c
    BY <1>4, <2>1, <2>2
  <2>3. CASE k # c
    BY <1>4, <1>5, <1>13, <2>1, <2>3
  <2> QED BY <2>2, <2>3
<1> QED BY <1>14 DEF Plain

-----------------------------------------------------------------------------
(* The lexer's escapes are C's.                                            *)

(* Characters of a class, so many at most.                                 *)
LEMMA AtMostRuns ==
  ASSUME IsText, NEW p \in Positions, NEW class, CR \notin class, NEW n \in Nat
  PROVE  LET q == PastAtMost(p, PlacesOf(class), n)
         IN  /\ q \in Positions /\ q.at \in p.at .. p.at + n
             /\ Throughout(p.at, q.at, class)
             /\ q.at = p.at + n \/ q.at > Len(text) \/ text[q.at] \notin class
<1> DEFINE places == PlacesOf(class)
           q == PastAtMost(p, places, n)
<1>1. p.at \in Nat /\ p.at >= 1 /\ Len(text) \in Nat /\ DOMAIN text = 1 .. Len(text)
  BY AheadIs
<1>2. places \in SUBSET DOMAIN text /\ \A i \in places : text[i] # CR /\ text[i] \in class
  BY DEF PlacesOf
<1>3. \A i \in DOMAIN text : i \notin places => text[i] \notin class
  BY DEF PlacesOf
<1> HIDE DEF places
<1>4. PICK w : Moves(w, PositionsFrom(p.at), p, places, n) /\ PastAtMost(p, places, n) = w[n]
  BY <1>2, LoopIs
<1>5. w[0] = p /\ \A k \in 1 .. n : w[k] = OneMore(w[k - 1], places)
  BY <1>4 DEF Moves
<1> DEFINE Right(k) == w[k] \in Positions /\ w[k].at \in p.at .. p.at + k /\ (w[k].at = p.at + k \/ w[k].at \notin places)
           Bad == {k \in 0 .. n : ~Right(k)}
<1>6. ASSUME NEW k \in 1 .. n, Right(k - 1) PROVE Right(k)
  <2>1. w[k - 1] \in Positions /\ w[k - 1].at \in p.at .. p.at + (k - 1)
        /\ (w[k - 1].at = p.at + (k - 1) \/ w[k - 1].at \notin places)
    BY <1>6
  <2>2. w[k] = OneMore(w[k - 1], places)
    BY <1>5
  <2>3. CASE w[k - 1].at \in places
    <3>1. w[k] = Advance(w[k - 1]) /\ w[k - 1].at <= Len(text) /\ text[w[k - 1].at] # CR
      BY <1>1, <1>2, <2>1, <2>2, <2>3, OneMoreIs
    <3>2. w[k] \in Positions /\ w[k].at = w[k - 1].at + 1
      BY <2>1, <3>1, OneStep
    <3> QED BY <1>1, <2>1, <2>3, <3>2
  <2>4. CASE w[k - 1].at \notin places
    <3>1. w[k] = w[k - 1]
      BY <1>2, <2>1, <2>2, <2>4, OneMoreIs
    <3>2. w[k - 1].at \in p.at .. p.at + k
      BY <1>1, <2>1
    <3> QED BY <2>1, <2>4, <3>1, <3>2
  <2> QED BY <2>3, <2>4
<1>7. Right(0)
  BY <1>1, <1>5
<1> HIDE DEF Right
<1>8. ASSUME Bad # {} PROVE FALSE
  <2>1. Bad \in SUBSET Nat
    OBVIOUS
  <2>2. PICK m \in Bad : \A j \in Bad : m <= j
    <3> HIDE DEF Bad
    <3> QED BY <1>8, <2>1, LeastNumber
  <2>3. m \in 0 .. n /\ ~Right(m)
    OBVIOUS
  <2>4. m \in 1 .. n /\ m - 1 \in 0 .. n /\ ~(m <= m - 1)
    BY <1>7, <2>3
  <2>5. Right(m - 1)
    BY <2>2, <2>4
  <2> QED BY <1>6, <2>3, <2>4, <2>5
<1>9. n \in 0 .. n
  OBVIOUS
<1>10. q = w[n] /\ Right(n)
  BY <1>4, <1>8, <1>9
<1>11. \A i \in p.at .. q.at - 1 : i \in places
  BY <1>2, LoopPasses
<1>12. Throughout(p.at, q.at, class)
  BY <1>2, <1>11 DEF Throughout
<1>13. q \in Positions /\ q.at \in p.at .. p.at + n /\ (q.at = p.at + n \/ q.at \notin places)
  BY <1>10 DEF Right
<1> HIDE DEF q
<1>14. q.at = p.at + n \/ q.at > Len(text) \/ text[q.at] \notin class
  BY <1>1, <1>3, <1>13
<1> QED BY <1>12, <1>13, <1>14 DEF q, places

LEMMA EscapeCases ==
  ASSUME NEW p
  PROVE  LET c == Ahead(p)
         IN  /\ c = NUL => Escape(p).errors # <<>>
             /\ c \in LineEnds \union SimpleEscapes => Escape(p) = Scan(Advance(p), <<>>)
             /\ c = "x" => Escape(p) = Scan(Past(Advance(p), HexDigits),
                                            ErrorIf(Past(Advance(p), HexDigits).at = p.at + 1, "no hexadecimal digit"))
             /\ c = "u" => Escape(p) = UnicodeEscape(Advance(p), 4)
             /\ c = "U" => Escape(p) = UnicodeEscape(Advance(p), 8)
             /\ c \in OctalDigits => Escape(p) = Scan(PastAtMost(p, PlacesOf(OctalDigits), 3), <<>>)
             /\ c \notin {NUL, "x", "u", "U"} \union LineEnds \union SimpleEscapes \union OctalDigits
                  => Escape(p).errors # <<>>
<1> DEFINE c == Ahead(p)
           s1 == Scan(p, <<"unfinished escape sequence">>)
           s2 == Scan(Advance(p), <<>>)
           s3 == Scan(Past(Advance(p), HexDigits), ErrorIf(Past(Advance(p), HexDigits).at = p.at + 1, "no hexadecimal digit"))
           s4 == UnicodeEscape(Advance(p), 4)
           s5 == UnicodeEscape(Advance(p), 8)
           s6 == Scan(PastAtMost(p, PlacesOf(OctalDigits), 3), <<>>)
           s7 == Scan(Advance(p), <<"unknown escape sequence">>)
<1>1. Escape(p) = CASE c = NUL -> s1
                    [] c \in LineEnds \union SimpleEscapes -> s2
                    [] c = "x" -> s3
                    [] c = "u" -> s4
                    [] c = "U" -> s5
                    [] c \in OctalDigits -> s6
                    [] OTHER -> s7
  BY DEF Escape
<1>2. s1.errors # <<>> /\ s7.errors # <<>>
  BY DEF Scan
<1> HIDE DEF c, s1, s2, s3, s4, s5, s6, s7
<1>3. /\ c = NUL => c \notin LineEnds \union SimpleEscapes /\ c \notin {"x", "u", "U"} /\ c \notin OctalDigits
      /\ c \in LineEnds \union SimpleEscapes => c \notin {"x", "u", "U"} /\ c \notin OctalDigits
      /\ c \in {"x", "u", "U"} => c \notin OctalDigits
  BY DEF NUL, LineEnds, NL, CR, SimpleEscapes, OctalDigits, Digits
<1>4. /\ c = NUL => Escape(p) = s1
      /\ c \in LineEnds \union SimpleEscapes => Escape(p) = s2
      /\ c = "x" => Escape(p) = s3
      /\ c = "u" => Escape(p) = s4
      /\ c = "U" => Escape(p) = s5
      /\ c \in OctalDigits => Escape(p) = s6
      /\ c \notin {NUL, "x", "u", "U"} \union LineEnds \union SimpleEscapes \union OctalDigits => Escape(p) = s7
  BY <1>1, <1>3
<1> QED BY <1>2, <1>4 DEF c, s2, s3, s4, s5, s6

(* Two line ends of one kind are consumed together.                        *)
LEMMA AdvanceOver ==
  ASSUME IsText, NEW p \in Positions, p.at <= Len(text)
  PROVE  /\ Advance(p) \in Positions /\ p.at \in Nat /\ p.at >= 1 /\ Len(text) \in Nat /\ ~AtEnd(p) /\ Ahead(p) = text[p.at]
         /\ text[p.at] = CR /\ p.at + 1 <= Len(text) /\ text[p.at + 1] = NL => Advance(p).at = p.at + 2
         /\ ~(text[p.at] = CR /\ p.at + 1 <= Len(text) /\ text[p.at + 1] = NL) => Advance(p).at = p.at + 1
<1>1. p.at \in Nat /\ p.at >= 1 /\ Len(text) \in Nat /\ ~AtEnd(p) /\ Ahead(p) = text[p.at] /\ Advance(p) \in Positions
  <2>1. p.at \in Nat /\ Len(text) \in Nat
    BY AheadIs
  <2>2. ~AtEnd(p)
    BY <2>1 DEF AtEnd
  <2> QED BY <2>2, AheadIs, AdvanceIs
<1>2. ASSUME text[p.at] = CR, p.at + 1 <= Len(text), text[p.at + 1] = NL PROVE Advance(p).at = p.at + 2
  <2>1. ~(p.at + 1 > Len(text))
    BY <1>1, <1>2
  <2>2. Peek(p, 1) = NL
    BY <1>2, <2>1 DEF Peek
  <2> QED BY <1>1, <1>2, <2>2 DEF Advance, NextLine
<1>3. ASSUME ~(text[p.at] = CR /\ p.at + 1 <= Len(text) /\ text[p.at + 1] = NL) PROVE Advance(p).at = p.at + 1
  BY <1>1, <1>3, AdvanceIs
<1> QED BY <1>1, <1>2, <1>3

(* An escape behind a backslash at j: C has it if nothing is complained    *)
(* of, and if C has one then what the lexer's has more is digits, or a     *)
(* line feed.                                                              *)
EscapeRight(j, s) ==
  /\ s.errors = <<>> => EscapeTo(j, s.end.at)
  /\ \A m \in j .. Len(text) + 1 :
       EscapeTo(j, m) => /\ s.errors = <<>> /\ m <= s.end.at
                         /\ \A k \in m .. s.end.at - 1 : text[k] \in HexDigits \union {NL}

LEMMA CharacterClasses ==
  /\ \A c \in LineEnds \union SimpleEscapes : c \notin {"x", "u", "U"} /\ c \notin OctalDigits /\ c \notin HexDigits \ (SimpleEscapes)
  /\ \A c \in {"x", "u", "U"} : c \notin OctalDigits /\ c \notin SimpleEscapes \union {NL, CR}
  /\ \A c \in OctalDigits : c \notin SimpleEscapes \union {NL, CR} /\ c \in HexDigits /\ c # NUL
  /\ CR \notin OctalDigits /\ CR \notin HexDigits /\ CR # NL /\ CR \in LineEnds /\ NL \in LineEnds
  /\ "x" # "u" /\ "x" # "U" /\ "u" # "U"
  /\ NUL \notin SimpleEscapes \union {NL, CR, "x", "u", "U"} \union OctalDigits
BY DEF NUL, LineEnds, NL, CR, SimpleEscapes, OctalDigits, Digits, HexDigits

LEMMA SimpleEscapeRight ==
  ASSUME IsText, NEW q \in Positions, NEW j \in Nat, j >= 1, q.at = j + 1, q.at <= Len(text), text[j] = "\\",
         text[j + 1] \in LineEnds \union SimpleEscapes
  PROVE  EscapeRight(j, Scan(Advance(q), <<>>))
<1> DEFINE e == Advance(q).at
           c == text[j + 1]
           Both == c = CR /\ j + 2 <= Len(text) /\ text[j + 2] = NL
<1>1. Len(text) \in Nat /\ (Both => e = j + 3) /\ (~Both => e = j + 2)
  <2>1. Len(text) \in Nat /\ q.at + 1 = j + 2 /\ q.at + 2 = j + 3
    BY AdvanceOver
  <2> QED BY <2>1, AdvanceOver
<1>2. Scan(Advance(q), <<>>).end.at = e /\ Scan(Advance(q), <<>>).errors = <<>>
  BY DEF Scan
<1>3. c \in SimpleEscapes \union {NL, CR} /\ c \notin {"x", "u", "U"} /\ c \notin OctalDigits
  BY CharacterClasses DEF LineEnds
<1> HIDE DEF e
<1>4. EscapeTo(j, e)
  BY <1>1, <1>3 DEF EscapeTo
<1>5. ASSUME NEW m \in j .. Len(text) + 1, EscapeTo(j, m) PROVE m <= e /\ \A k \in m .. e - 1 : text[k] \in HexDigits \union {NL}
  <2>1. j + 1 \in j + 1 .. m - 1 /\ m \in Nat
    BY <1>1, <1>5 DEF EscapeTo
  <2>2. ~Throughout(j + 1, m, OctalDigits)
    BY <1>3, <2>1 DEF Throughout
  <2>3. m = j + 2 \/ (m = j + 3 /\ c = CR /\ text[j + 2] = NL)
    BY <1>3, <1>5, <2>2 DEF EscapeTo
  <2>4. m = j + 3 => j + 2 <= Len(text)
    BY <1>1, <1>5
  <2>5. m <= e
    BY <1>1, <2>3, <2>4
  <2>6. ASSUME NEW k \in m .. e - 1 PROVE text[k] = NL
    BY <1>1, <2>1, <2>3, <2>6
  <2> QED BY <2>5, <2>6
<1> QED BY <1>2, <1>4, <1>5 DEF EscapeRight

LEMMA HexEscapeRight ==
  ASSUME IsText, NEW q \in Positions, NEW j \in Nat, j >= 1, q.at = j + 1, q.at <= Len(text), text[j] = "\\",
         text[j + 1] = "x"
  PROVE  EscapeRight(j, Scan(Past(Advance(q), HexDigits), ErrorIf(Past(Advance(q), HexDigits).at = q.at + 1, "no hexadecimal digit")))
<1> DEFINE r == Past(Advance(q), HexDigits)
           s == Scan(r, ErrorIf(r.at = q.at + 1, "no hexadecimal digit"))
           e == r.at
<1>1. Advance(q) \in Positions /\ Advance(q).at = j + 2 /\ Len(text) \in Nat
  <2>1. text[q.at] # CR
    BY DEF CR
  <2> QED BY <2>1, AdvanceOver
<1>2. r \in Positions /\ IsRun(j + 2, e, HexDigits)
  BY <1>1, CharacterClasses, PastRuns
<1>3. e \in Nat /\ e <= Len(text) + 1
  BY <1>1, <1>2 DEF Positions
<1>4. s.end.at = e /\ (s.errors = <<>> <=> e # j + 2)
  BY DEF Scan, ErrorIf
<1> HIDE DEF e, s, r
<1>5. e # j + 2 => EscapeTo(j, e)
  <2>1. j + 2 <= e /\ Throughout(j + 2, e, HexDigits)
    BY <1>2 DEF IsRun
  <2>2. e # j + 2 => j + 3 <= e
    BY <1>3, <2>1
  <2> QED BY <2>1, <2>2 DEF EscapeTo
<1>6. ASSUME NEW m \in j .. Len(text) + 1, EscapeTo(j, m) PROVE e # j + 2 /\ m <= e /\ \A k \in m .. e - 1 : text[k] \in HexDigits
  <2>1. j + 1 \in j + 1 .. m - 1 /\ m \in Nat
    BY <1>1, <1>6 DEF EscapeTo
  <2>2. ~Throughout(j + 1, m, OctalDigits)
    BY CharacterClasses, <2>1 DEF Throughout
  <2>3. j + 3 <= m /\ Throughout(j + 2, m, HexDigits)
    BY <1>6, <2>2, CharacterClasses DEF EscapeTo
  <2>4. m <= e
    <3>1. ASSUME e < m PROVE FALSE
      <4>1. e \in j + 2 .. m - 1 /\ e <= Len(text)
        BY <1>1, <1>2, <1>3, <2>1, <3>1 DEF IsRun
      <4> QED BY <1>2, <2>3, <4>1 DEF IsRun, Throughout
    <3> QED BY <1>3, <2>1, <3>1
  <2>5. e # j + 2
    BY <1>3, <2>1, <2>3, <2>4
  <2>6. ASSUME NEW k \in m .. e - 1 PROVE text[k] \in HexDigits
    <3>1. k \in j + 2 .. e - 1
      BY <1>3, <2>1, <2>3
    <3> QED BY <1>2, <3>1 DEF IsRun, Throughout
  <2> QED BY <2>4, <2>5, <2>6
<1>7. EscapeRight(j, s)
  BY <1>4, <1>5, <1>6 DEF EscapeRight
<1> QED BY <1>7 DEF s, r

LEMMA UnicodeEscapeRight ==
  ASSUME IsText, NEW q \in Positions, NEW j \in Nat, j >= 1, q.at = j + 1, q.at <= Len(text), text[j] = "\\",
         NEW n \in Nat, (text[j + 1] = "u" /\ n = 4) \/ (text[j + 1] = "U" /\ n = 8)
  PROVE  EscapeRight(j, UnicodeEscape(Advance(q), n))
<1> DEFINE r == PastAtMost(Advance(q), PlacesOf(HexDigits), n)
           s == UnicodeEscape(Advance(q), n)
           e == r.at
<1>1. Advance(q) \in Positions /\ Advance(q).at = j + 2 /\ Len(text) \in Nat
  <2>1. text[q.at] # CR
    BY DEF CR
  <2> QED BY <2>1, AdvanceOver
<1>2. /\ r \in Positions /\ e \in j + 2 .. (j + 2) + n
      /\ Throughout(j + 2, e, HexDigits)
      /\ e = (j + 2) + n \/ e > Len(text) \/ text[e] \notin HexDigits
  <2> DEFINE p == Advance(q)
  <2>1. p \in Positions /\ p.at = j + 2 /\ CR \notin HexDigits
    BY <1>1, CharacterClasses
  <2> HIDE DEF p
  <2>2. LET t == PastAtMost(p, PlacesOf(HexDigits), n)
        IN  /\ t \in Positions /\ t.at \in p.at .. p.at + n
            /\ Throughout(p.at, t.at, HexDigits)
            /\ t.at = p.at + n \/ t.at > Len(text) \/ text[t.at] \notin HexDigits
    BY <2>1, AtMostRuns
  <2> QED BY <2>1, <2>2 DEF p
<1>3. e \in Nat /\ e <= Len(text) + 1
  BY <1>1, <1>2 DEF Positions
<1>4. s.end.at = e /\ (s.errors = <<>> <=> e = (j + 2) + n)
  BY <1>1 DEF UnicodeEscape, Scan, ErrorIf
<1> HIDE DEF e, s, r
<1>5. e = (j + 2) + n => EscapeTo(j, e)
  <2>1. e = (j + 2) + n => j + 2 <= e /\ (n = 4 => e = j + 6) /\ (n = 8 => e = j + 10)
    BY <1>3
  <2> QED BY <1>2, <2>1 DEF EscapeTo
<1>6. ASSUME NEW m \in j .. Len(text) + 1, EscapeTo(j, m) PROVE e = (j + 2) + n /\ m = e
  <2>1. j + 1 \in j + 1 .. m - 1 /\ m \in Nat
    BY <1>1, <1>6 DEF EscapeTo
  <2>2. ~Throughout(j + 1, m, OctalDigits)
    BY CharacterClasses, <2>1 DEF Throughout
  <2>3. m = (j + 2) + n /\ Throughout(j + 2, m, HexDigits)
    <3>1. text[j + 1] = "u" => m = j + 6 /\ Throughout(j + 2, m, HexDigits)
      BY <1>6, <2>2, CharacterClasses DEF EscapeTo
    <3>2. text[j + 1] = "U" => m = j + 10 /\ Throughout(j + 2, m, HexDigits)
      BY <1>6, <2>2, CharacterClasses DEF EscapeTo
    <3> QED BY <3>1, <3>2
  <2>4. ASSUME e # (j + 2) + n PROVE FALSE
    <3>1. e \in j + 2 .. m - 1 /\ e <= Len(text)
      BY <1>1, <1>2, <1>3, <2>1, <2>3, <2>4
    <3> QED BY <1>1, <1>2, <1>3, <2>3, <2>4, <3>1 DEF Throughout
  <2> QED BY <2>3, <2>4
<1>7. EscapeRight(j, s)
  <2>1. \A m \in j .. Len(text) + 1 : EscapeTo(j, m) => m <= e /\ \A k \in m .. e - 1 : FALSE
    <3>1. e <= e /\ \A k \in e .. e - 1 : FALSE
      BY <1>3
    <3> QED BY <1>6, <3>1
  <2> QED BY <1>4, <1>5, <1>6, <2>1 DEF EscapeRight
<1> QED BY <1>7 DEF s

LEMMA OctalEscapeRight ==
  ASSUME IsText, NEW q \in Positions, NEW j \in Nat, j >= 1, q.at = j + 1, q.at <= Len(text), text[j] = "\\",
         text[j + 1] \in OctalDigits
  PROVE  EscapeRight(j, Scan(PastAtMost(q, PlacesOf(OctalDigits), 3), <<>>))
<1> DEFINE r == PastAtMost(q, PlacesOf(OctalDigits), 3)
           s == Scan(r, <<>>)
           e == r.at
<1>1. Len(text) \in Nat
  BY AdvanceOver
<1>2. /\ r \in Positions /\ e \in j + 1 .. (j + 1) + 3
      /\ Throughout(j + 1, e, OctalDigits)
      /\ e = (j + 1) + 3 \/ e > Len(text) \/ text[e] \notin OctalDigits
  <2>1. CR \notin OctalDigits /\ 3 \in Nat
    BY CharacterClasses
  <2>2. LET t == PastAtMost(q, PlacesOf(OctalDigits), 3)
        IN  /\ t \in Positions /\ t.at \in q.at .. q.at + 3
            /\ Throughout(q.at, t.at, OctalDigits)
            /\ t.at = q.at + 3 \/ t.at > Len(text) \/ text[t.at] \notin OctalDigits
    BY <2>1, AtMostRuns
  <2> QED BY <2>2
<1>3. e \in Nat /\ e <= Len(text) + 1
  BY <1>1, <1>2 DEF Positions
<1>4. s.end.at = e /\ s.errors = <<>>
  BY DEF Scan
<1> HIDE DEF e, s, r
<1>5. j + 2 <= e
  <2>1. e # j + 1
    BY <1>2, <1>1
  <2> QED BY <1>2, <2>1
<1>6. EscapeTo(j, e)
  <2>1. e <= j + 4
    BY <1>2
  <2> QED BY <1>2, <1>5, <2>1 DEF EscapeTo
<1>7. ASSUME NEW m \in j .. Len(text) + 1, EscapeTo(j, m) PROVE m <= e /\ \A k \in m .. e - 1 : text[k] \in HexDigits
  <2>1. j + 2 <= m /\ m \in Nat
    BY <1>1, <1>7 DEF EscapeTo
  <2>2. m <= j + 4 /\ Throughout(j + 1, m, OctalDigits)
    BY <1>7, CharacterClasses DEF EscapeTo
  <2>3. m <= e
    <3>1. ASSUME e < m PROVE FALSE
      <4>1. e \in j + 1 .. m - 1 /\ e <= Len(text) /\ e # (j + 1) + 3
        BY <1>1, <1>3, <1>5, <2>1, <2>2, <3>1
      <4> QED BY <1>1, <1>2, <1>3, <2>2, <4>1 DEF Throughout
    <3> QED BY <1>3, <2>1, <3>1
  <2>4. ASSUME NEW k \in m .. e - 1 PROVE text[k] \in HexDigits
    <3>1. k \in j + 1 .. e - 1
      BY <1>3, <2>1
    <3>2. text[k] \in OctalDigits
      BY <1>2, <3>1 DEF Throughout
    <3> QED BY <3>2, CharacterClasses
  <2> QED BY <2>3, <2>4
<1>8. EscapeRight(j, s)
  BY <1>4, <1>6, <1>7 DEF EscapeRight
<1> QED BY <1>8 DEF s, r

LEMMA EscapeIsRight ==
  ASSUME IsText, NEW q \in Positions, NEW j \in Nat, j >= 1, q.at = j + 1, text[j] = "\\"
  PROVE  EscapeRight(j, Escape(q))
<1> DEFINE s == Escape(q)
           c == Ahead(q)
<1>1. Len(text) \in Nat /\ (~AtEnd(q) => q.at <= Len(text) /\ c = text[j + 1]) /\ (AtEnd(q) => c = NUL /\ q.at = Len(text) + 1)
  BY AheadIs DEF AtEnd
<1>2. ASSUME s.errors # <<>>, AtEnd(q) \/ text[j + 1] \notin {"x", "u", "U"} \union LineEnds \union SimpleEscapes \union OctalDigits
      PROVE  EscapeRight(j, s)
  <2>1. ASSUME NEW m \in j .. Len(text) + 1, EscapeTo(j, m) PROVE FALSE
    <3>1. j + 2 <= m /\ m \in Nat /\ m <= Len(text) + 1 /\ j + 1 \in j + 1 .. m - 1
      BY <1>1, <2>1 DEF EscapeTo
    <3>2. ~AtEnd(q)
      BY <1>1, <3>1
    <3>3. ~Throughout(j + 1, m, OctalDigits)
      BY <1>2, <3>1, <3>2 DEF Throughout
    <3> QED BY <1>2, <2>1, <3>2, <3>3 DEF EscapeTo, LineEnds
  <2> HIDE DEF s
  <2> QED BY <1>2, <2>1 DEF EscapeRight
<1>3. CASE c = NUL
  <2>1. AtEnd(q) \/ text[j + 1] \notin {"x", "u", "U"} \union LineEnds \union SimpleEscapes \union OctalDigits
    BY <1>1, <1>3, CharacterClasses DEF LineEnds
  <2> QED BY <1>2, <1>3, <2>1, EscapeCases
<1>4. CASE c \notin {NUL, "x", "u", "U"} \union LineEnds \union SimpleEscapes \union OctalDigits
  <2>1. text[j + 1] \notin {"x", "u", "U"} \union LineEnds \union SimpleEscapes \union OctalDigits
    BY <1>1, <1>4
  <2> QED BY <1>2, <1>4, <2>1, EscapeCases
<1>5. c # NUL => q.at <= Len(text) /\ c = text[j + 1]
  BY <1>1
<1>6. CASE c # NUL /\ c \in LineEnds \union SimpleEscapes
  BY <1>5, <1>6, EscapeCases, SimpleEscapeRight
<1>7. CASE c # NUL /\ c = "x"
  BY <1>5, <1>7, EscapeCases, HexEscapeRight
<1>8. CASE c # NUL /\ c = "u"
  BY <1>5, <1>8, EscapeCases, UnicodeEscapeRight
<1>9. CASE c # NUL /\ c = "U"
  BY <1>5, <1>9, EscapeCases, UnicodeEscapeRight
<1>10. CASE c # NUL /\ c \in OctalDigits
  BY <1>5, <1>10, EscapeCases, OctalEscapeRight
<1> QED BY <1>3, <1>4, <1>6, <1>7, <1>8, <1>9, <1>10

-----------------------------------------------------------------------------
(* The lexer's literals are C's.                                           *)

LEMMA NoErrorsOfTwo ==
  ASSUME NEW S, NEW a \in Seq(S), NEW b \in Seq(S)
  PROVE  a \o b = <<>> <=> a = <<>> /\ b = <<>>
<1>1. Len(a \o b) = Len(a) + Len(b) /\ a \o b \in Seq(S) /\ Len(a) \in Nat /\ Len(b) \in Nat
  OBVIOUS
<1>2. a \o b = <<>> => Len(a) = 0 /\ Len(b) = 0
  <2>1. a \o b = <<>> => Len(a \o b) = 0
    OBVIOUS
  <2> QED BY <1>1, <2>1
<1> QED BY <1>2

(* Plain characters and digits of an escape may be taken at once.          *)
LEMMA MadeOn ==
  ASSUME IsText, NEW a \in Places, NEW c \in Places, a <= c, c <= Len(text), NEW quote \in Quotes, text[c] = quote,
         NEW m \in a .. c, Made(a, c, quote, m), NEW e \in Nat, m <= e, e <= Len(text) + 1,
         \A k \in m .. e - 1 : text[k] \in HexDigits \union {NL}
  PROVE  e <= c /\ Made(a, c, quote, e)
<1>1. a \in Nat /\ c \in Nat /\ m \in Nat /\ Len(text) \in Nat
  BY DEF Places, IsText
<1>2. quote \notin HexDigits \union {NL} /\ "\\" \notin HexDigits \union {NL}
  BY DEF Quotes, HexDigits, Digits, NL
<1> DEFINE Right(k) == m + k <= c /\ Made(a, c, quote, m + k)
           Bad == {k \in 0 .. e - m : ~Right(k)}
<1>3. ASSUME NEW k \in 1 .. e - m, Right(k - 1) PROVE Right(k)
  <2> DEFINE j == m + (k - 1)
  <2>1. j \in m .. e - 1 /\ j <= c /\ j \in a .. c /\ j + 1 = m + k
    BY <1>1, <1>3
  <2>2. text[j] \in HexDigits \union {NL}
    BY <2>1
  <2>3. j # c /\ text[j] # "\\"
    BY <1>2, <2>2
  <2>4. Made(a, c, quote, j)
    BY <1>3
  <2> HIDE DEF j
  <2>5. ~\E n \in j + 1 .. c : EscapeTo(j, n) /\ Made(a, c, quote, n)
    BY <2>3 DEF EscapeTo
  <2>6. Made(a, c, quote, j + 1)
    BY <2>1, <2>3, <2>4, <2>5, MadeIs
  <2> QED BY <1>1, <2>1, <2>3, <2>6
<1>4. Right(0)
  BY <1>1
<1> HIDE DEF Right
<1>5. ASSUME Bad # {} PROVE FALSE
  <2>1. Bad \in SUBSET Nat
    OBVIOUS
  <2>2. PICK x \in Bad : \A y \in Bad : x <= y
    <3> HIDE DEF Bad
    <3> QED BY <1>5, <2>1, LeastNumber
  <2>3. x \in 0 .. e - m /\ ~Right(x)
    OBVIOUS
  <2>4. x \in 1 .. e - m /\ x - 1 \in 0 .. e - m /\ ~(x <= x - 1)
    BY <1>4, <2>3
  <2>5. Right(x - 1)
    BY <2>2, <2>4
  <2> QED BY <1>3, <2>3, <2>4, <2>5
<1>6. e - m \in 0 .. e - m /\ m + (e - m) = e
  BY <1>1
<1>7. Right(e - m)
  BY <1>5, <1>6
<1> QED BY <1>6, <1>7 DEF Right

(* A turn of a literal's loop.                                             *)
LEMMA QuotedTurn ==
  ASSUME IsText, NEW p \in Positions, NEW errors, NEW quote \in Quotes
  PROVE  LET t == QuotedOn(Scan(p, errors), quote)
             Stops == p.at > Len(text) \/ text[p.at] \in {NL, CR, quote}
             slash == p.at <= Len(text) /\ text[p.at] = "\\"
             s == Escape(Advance(p))
         IN  /\ Stops => t = Scan(p, errors)
             /\ ~Stops /\ ~slash => t = Scan(Advance(p), errors) /\ Advance(p).at = p.at + 1
             /\ slash => ~Stops /\ t = Scan(s.end, errors \o s.errors) /\ EscapeRight(p.at, s)
<1> DEFINE t == QuotedOn(Scan(p, errors), quote)
           Stops == p.at > Len(text) \/ text[p.at] \in {NL, CR, quote}
           slash == p.at <= Len(text) /\ text[p.at] = "\\"
           s == Escape(Advance(p))
           plain == Scan(Advance(p), errors)
           escaped == Scan(s.end, errors \o s.errors)
<1>1. p.at \in Nat /\ p.at >= 1 /\ Len(text) \in Nat /\ (AtEnd(p) <=> p.at > Len(text)) /\ (~AtEnd(p) => Ahead(p) = text[p.at])
  BY AheadIs DEF AtEnd
<1>2. t = IF AtEnd(p) \/ Ahead(p) \in LineEnds \union {quote} THEN Scan(p, errors)
          ELSE IF Ahead(p) = "\\" THEN escaped
          ELSE plain
  BY DEF QuotedOn, Scan
<1>3. "\\" \notin {NL, CR, quote}
  BY DEF NL, CR, Quotes
<1>4. ASSUME ~Stops PROVE Advance(p) \in Positions /\ Advance(p).at = p.at + 1
  BY <1>1, <1>4, OneStep
<1>5. ASSUME slash PROVE EscapeRight(p.at, s)
  <2>1. Advance(p) \in Positions /\ Advance(p).at = p.at + 1 /\ text[p.at] = "\\"
    BY <1>3, <1>4, <1>5, <1>1
  <2> QED BY <1>1, <2>1, EscapeIsRight
<1>6. (AtEnd(p) \/ Ahead(p) \in LineEnds \union {quote}) <=> Stops
  BY <1>1 DEF LineEnds
<1>7. slash <=> ~AtEnd(p) /\ Ahead(p) = "\\"
  BY <1>1
<1>8. slash => ~Stops
  BY <1>1, <1>3
<1> HIDE DEF t, Stops, slash, s, plain, escaped
<1>9. /\ Stops => t = Scan(p, errors)
      /\ ~Stops /\ ~slash => t = plain
      /\ slash => t = escaped
  BY <1>2, <1>6, <1>7, <1>8
<1> QED BY <1>4, <1>5, <1>8, <1>9 DEF t, Stops, slash, s, plain, escaped

LEMMA ScanIsAScan ==
  ASSUME NEW i, NEW s \in Scans(i)
  PROVE  s = Scan(s.end, s.errors) /\ s.end \in PositionsFrom(i) /\ s.errors \in Seq(Messages)
BY DEF Scans, Scan

LiteralTo(o, b, quote) ==
  o + 2 <= b /\ text[o] = quote /\ text[b - 1] = quote /\ Made(o + 1, b - 1, quote, o + 1)

(* A literal that is not complained of is one.                             *)
LEMMA QuotedIsLiteral ==
  ASSUME IsText, NEW p \in Positions, NEW o \in Nat, o >= 1, p.at = o + 1, o <= Len(text), NEW quote \in Quotes,
         text[o] = quote, Quoted(p, quote).errors = <<>>
  PROVE  LiteralTo(o, Quoted(p, quote).end.at, quote)
<1> DEFINE n == Len(text)
           S == Scans(p.at)
           a == o + 1
<1>1. n \in Nat /\ p.at \in Nat /\ a \in Nat
  BY AheadIs
<1>2. PICK w : /\ w \in [0 .. n -> S] /\ w[0] = Scan(p, <<>>)
               /\ \A k \in 1 .. n : w[k] = QuotedOn(w[k - 1], quote)
               /\ Quoted(p, quote) = Closed(w[n], quote)
  BY QuotedTurns
<1> DEFINE inner == w[n]
           c == inner.end.at
<1>3. \A k \in 0 .. n : /\ w[k] = Scan(w[k].end, w[k].errors) /\ w[k].end \in Positions /\ w[k].errors \in Seq(Messages)
                        /\ w[k].end.at \in Nat /\ w[k].end.at >= a /\ w[k].end.at <= n + 1
  <2> TAKE k \in 0 .. n
  <2>1. w[k] \in S
    BY <1>2
  <2>2. w[k] = Scan(w[k].end, w[k].errors) /\ w[k].end \in PositionsFrom(p.at) /\ w[k].errors \in Seq(Messages)
    BY <2>1, ScanIsAScan
  <2>3. w[k].end \in Positions /\ w[k].end.at >= p.at
    BY <1>1, <2>2, FromIs DEF PositionsFrom
  <2> QED BY <1>1, <2>2, <2>3 DEF Positions
<1>4. n \in 0 .. n
  BY <1>1
<1>5. inner.end \in Positions /\ inner.errors \in Seq(Messages) /\ c \in Nat /\ c >= a /\ c <= n + 1
  BY <1>3, <1>4
<1>6. Ahead(inner.end) = quote /\ inner.errors = <<>> /\ Quoted(p, quote) = Scan(Advance(inner.end), inner.errors)
  <2> DEFINE message == "unterminated literal"
  <2>1. Append(inner.errors, message) # <<>>
    <3> DEFINE errors == inner.errors
    <3>1. errors \in Seq(Messages)
      BY <1>5
    <3>2. message \in Messages
      BY DEF Messages
    <3> HIDE DEF errors, message
    <3>3. Len(Append(errors, message)) = Len(errors) + 1 /\ Len(errors) \in Nat
      BY <3>1, <3>2
    <3>4. Append(errors, message) # <<>>
      <4> DEFINE longer == Append(errors, message)
      <4>1. Len(longer) = Len(errors) + 1 /\ Len(errors) \in Nat
        BY <3>3
      <4> HIDE DEF longer
      <4>2. longer # <<>>
        BY <4>1
      <4> QED BY <4>2 DEF longer
    <3> QED BY <3>4 DEF errors
  <2>2. Closed(inner, quote) = IF Ahead(inner.end) = quote THEN Scan(Advance(inner.end), inner.errors)
                               ELSE Scan(inner.end, Append(inner.errors, message))
    BY DEF Closed
  <2> HIDE DEF message, inner
  <2>3. Ahead(inner.end) = quote
    <3>1. ASSUME Ahead(inner.end) # quote PROVE FALSE
      <4>1. Closed(inner, quote).errors = Append(inner.errors, message)
        BY <2>2, <3>1 DEF Scan
      <4> QED BY <1>2, <2>1, <4>1 DEF inner
    <3> QED BY <3>1
  <2>4. Quoted(p, quote) = Scan(Advance(inner.end), inner.errors)
    BY <1>2, <2>2, <2>3 DEF inner
  <2> QED BY <2>3, <2>4 DEF Scan
<1> HIDE DEF S, n
<1>7. c <= n /\ text[c] = quote /\ Advance(inner.end).at = c + 1
  <2>1. quote # NUL /\ quote # CR
    BY DEF Quotes, NUL, CR
  <2>2. ~AtEnd(inner.end) /\ c <= n /\ text[c] = quote
    <3> HIDE DEF inner
    <3> QED BY <1>1, <1>5, <1>6, <2>1, AheadIs DEF AtEnd, n
  <2> HIDE DEF inner
  <2> QED BY <1>5, <2>1, <2>2, OneStep DEF n
<1>8. a \in Places /\ c \in Places /\ a <= c
  BY <1>1, <1>5 DEF Places, n
<1> DEFINE Right(k) == w[k].errors = <<>> /\ w[k].end.at <= c /\ Made(a, c, quote, w[k].end.at)
           Bad == {k \in 0 .. n : ~Right(n - k)}
<1> HIDE DEF a
<1>9. Right(n)
  <2>1. Made(a, c, quote, c)
    <3>1. c \in a .. c
      BY <1>8 DEF Places
    <3> HIDE DEF c
    <3> QED BY <1>8, <3>1, MadeIs
  <2> QED BY <1>5, <1>6, <2>1
<1>10. ASSUME NEW k \in 1 .. n, Right(k) PROVE Right(k - 1)
  <2> DEFINE q == w[k - 1].end
             errors == w[k - 1].errors
  <2>1. k - 1 \in 0 .. n /\ k \in 0 .. n
    BY <1>1
  <2>2. w[k - 1] = Scan(q, errors) /\ q \in Positions /\ errors \in Seq(Messages)
        /\ q.at \in Nat /\ q.at >= a /\ q.at <= n + 1
    BY <1>3, <2>1
  <2>3. w[k] = QuotedOn(Scan(q, errors), quote)
    BY <1>2, <2>2
  <2> DEFINE t == QuotedOn(Scan(q, errors), quote)
             Stops == q.at > Len(text) \/ text[q.at] \in {NL, CR, quote}
             slash == q.at <= Len(text) /\ text[q.at] = "\\"
             s == Escape(Advance(q))
  <2> HIDE DEF q, errors, inner, c
  <2>4. /\ Stops => t = Scan(q, errors)
        /\ ~Stops /\ ~slash => t = Scan(Advance(q), errors) /\ Advance(q).at = q.at + 1
        /\ slash => ~Stops /\ t = Scan(s.end, errors \o s.errors) /\ EscapeRight(q.at, s)
    BY <2>2, QuotedTurn
  <2>5. t.errors = <<>> /\ t.end.at <= c /\ Made(a, c, quote, t.end.at)
    BY <1>10, <2>3
  <2>6. s.errors \in Seq(Messages)
    <3>1. Advance(q) \in Positions
      <4>1. q.at \in Nat /\ Advance(q) \in PositionsFrom(q.at)
        BY <2>2, PastIs
      <4> QED BY <4>1, FromIs
    <3>2. s \in Scans(Advance(q).at)
      BY <3>1, EscapeIs
    <3> QED BY <3>2 DEF Scans
  <2>7. CASE Stops
    <3>1. t = Scan(q, errors)
      BY <2>4, <2>7
    <3>2. t.errors = errors /\ t.end.at = q.at
      BY <3>1 DEF Scan
    <3> HIDE DEF t
    <3> QED BY <2>5, <3>2 DEF errors, q
  <2>8. CASE ~Stops /\ ~slash
    <3>1. t = Scan(Advance(q), errors) /\ Advance(q).at = q.at + 1
      BY <2>4, <2>8
    <3>2. t.errors = errors /\ t.end.at = q.at + 1
      BY <3>1 DEF Scan
    <3>3. errors = <<>> /\ q.at + 1 <= c /\ Made(a, c, quote, q.at + 1)
      BY <2>5, <3>2
    <3>4. text[q.at] \notin {NL, CR, quote, "\\"} /\ q.at \in a .. c
      BY <1>1, <1>5, <1>8, <2>2, <2>8, <3>3 DEF c, n, Places
    <3>5. Made(a, c, quote, q.at)
      BY <1>8, <3>3, <3>4, MadeIs
    <3>6. q.at <= c
      BY <3>4
    <3> QED BY <3>3, <3>5, <3>6 DEF errors, q
  <2>9. CASE slash
    <3>1. ~Stops /\ t = Scan(s.end, errors \o s.errors) /\ EscapeRight(q.at, s)
      BY <2>4, <2>9
    <3> HIDE DEF s
    <3>2. t.errors = errors \o s.errors /\ t.end.at = s.end.at
      BY <3>1 DEF Scan
    <3>3. errors = <<>> /\ s.errors = <<>> /\ s.end.at <= c /\ Made(a, c, quote, s.end.at)
      BY <2>2, <2>5, <2>6, <3>2, NoErrorsOfTwo
    <3>4. EscapeTo(q.at, s.end.at) /\ q.at + 2 <= s.end.at
      BY <3>1, <3>3 DEF EscapeRight, EscapeTo
    <3>a. s.end.at \in Nat
      <4>1. t.end.at = w[k].end.at /\ w[k].end.at \in Nat
        BY <1>3, <2>1, <2>3
      <4> HIDE DEF t
      <4> QED BY <3>2, <4>1
    <3>5. s.end.at \in q.at + 1 .. c /\ q.at \in a .. c
      <4>1. Len(text) \in Nat /\ a \in Nat /\ c \in Nat /\ q.at \in Nat /\ a <= q.at
        BY <1>1, <1>8, <2>2 DEF Places, n
      <4>2. s.end.at <= c /\ q.at + 2 <= s.end.at /\ s.end.at \in Nat
        BY <3>3, <3>4, <3>a
      <4> QED BY ONLY <4>1, <4>2
    <3>6. Made(a, c, quote, q.at)
      BY <1>8, <3>3, <3>4, <3>5, MadeIs
    <3>7. q.at <= c
      BY <3>5
    <3> QED BY <3>3, <3>6, <3>7 DEF errors, q
  <2> HIDE DEF Stops, slash
  <2> QED BY <2>7, <2>8, <2>9
<1> HIDE DEF Right
<1>11. ASSUME Bad # {} PROVE FALSE
  <2>1. Bad \in SUBSET Nat
    OBVIOUS
  <2>2. PICK x \in Bad : \A y \in Bad : x <= y
    <3> HIDE DEF Bad
    <3> QED BY <1>11, <2>1, LeastNumber
  <2>3. x \in 0 .. n /\ ~Right(n - x)
    OBVIOUS
  <2>4. x \in 1 .. n /\ x - 1 \in 0 .. n /\ ~(x <= x - 1) /\ n - (x - 1) \in 1 .. n /\ (n - (x - 1)) - 1 = n - x
    <3>1. n - 0 = n
      BY <1>1
    <3>2. x # 0
      BY <1>9, <2>3, <3>1
    <3> QED BY <1>1, <2>3, <3>2
  <2>5. Right(n - (x - 1))
    BY <2>2, <2>4
  <2>6. Right((n - (x - 1)) - 1)
    BY <1>10, <2>4, <2>5
  <2> QED BY <2>3, <2>4, <2>6
<1>12. Made(a, c, quote, a)
  <2>1. 0 \in 0 .. n /\ n \in 0 .. n /\ n - n = 0
    BY <1>1
  <2>2. Right(0)
    BY <1>11, <2>1
  <2>3. w[0].end.at = a
    BY <1>2 DEF Scan, a
  <2> HIDE DEF c
  <2> QED BY <2>2, <2>3 DEF Right
<1>13. Quoted(p, quote).end.at = c + 1
  <2> HIDE DEF inner
  <2> QED BY <1>6, <1>7 DEF Scan
<1> HIDE DEF c
<1>14. o + 2 <= c + 1 /\ (c + 1) - 1 = c /\ c \in Nat
  BY <1>5, <1>8 DEF a, c, Places
<1> QED BY <1>7, <1>12, <1>13, <1>14 DEF LiteralTo, a

(* A literal of C is not complained of and lexed as long as it is.         *)
LEMMA LiteralIsQuoted ==
  ASSUME IsText, NEW p \in Positions, NEW o \in Nat, o >= 1, p.at = o + 1, NEW quote \in Quotes,
         NEW b \in 1 .. Len(text) + 1, LiteralTo(o, b, quote)
  PROVE  Quoted(p, quote).errors = <<>> /\ Quoted(p, quote).end.at = b
<1> DEFINE n == Len(text)
           S == Scans(p.at)
           a == o + 1
           c == b - 1
<1>1. n \in Nat /\ p.at \in Nat /\ a \in Nat /\ c \in Nat /\ a <= c /\ c <= n /\ c + 1 = b /\ p.at = a
      /\ a \in Places /\ c \in Places /\ a >= 1
  <2>1. n \in Nat /\ p.at \in Nat /\ o + 2 <= b
    BY AheadIs DEF LiteralTo
  <2> QED BY <2>1 DEF Places
<1>2. PICK w : /\ w \in [0 .. n -> S] /\ w[0] = Scan(p, <<>>)
               /\ \A k \in 1 .. n : w[k] = QuotedOn(w[k - 1], quote)
               /\ Quoted(p, quote) = Closed(w[n], quote)
  BY QuotedTurns
<1>3. \A k \in 0 .. n : /\ w[k] = Scan(w[k].end, w[k].errors) /\ w[k].end \in Positions /\ w[k].errors \in Seq(Messages)
                        /\ w[k].end.at \in Nat /\ w[k].end.at >= a /\ w[k].end.at <= n + 1
  <2> TAKE k \in 0 .. n
  <2>1. w[k] \in S
    BY <1>2
  <2>2. w[k] = Scan(w[k].end, w[k].errors) /\ w[k].end \in PositionsFrom(p.at) /\ w[k].errors \in Seq(Messages)
    BY <2>1, ScanIsAScan
  <2>3. w[k].end \in Positions /\ w[k].end.at >= p.at
    BY <1>1, <2>2, FromIs DEF PositionsFrom
  <2> QED BY <1>1, <2>2, <2>3 DEF Positions
<1>4. text[c] = quote /\ Made(a, c, quote, a)
  BY DEF LiteralTo
<1> DEFINE Right(k) == /\ w[k].errors = <<>> /\ w[k].end.at <= c /\ Made(a, c, quote, w[k].end.at)
                       /\ w[k].end.at = c \/ w[k].end.at >= a + k
           Bad == {k \in 0 .. n : ~Right(k)}
<1> HIDE DEF S, n, a, c
<1>5. Right(0)
  <2>1. w[0].errors = <<>> /\ w[0].end.at = a
    BY <1>1, <1>2 DEF Scan
  <2> QED BY <1>1, <1>4, <2>1
<1>6. ASSUME NEW k \in 1 .. n, Right(k - 1) PROVE Right(k)
  <2> DEFINE q == w[k - 1].end
             errors == w[k - 1].errors
  <2>1. k - 1 \in 0 .. n /\ k \in 0 .. n
    BY <1>1
  <2>2. w[k - 1] = Scan(q, errors) /\ q \in Positions /\ errors \in Seq(Messages)
        /\ q.at \in Nat /\ q.at >= a /\ q.at <= n + 1
    BY <1>3, <2>1
  <2>3. w[k] = QuotedOn(Scan(q, errors), quote)
    BY <1>2, <2>2
  <2>4. errors = <<>> /\ q.at <= c /\ Made(a, c, quote, q.at) /\ (q.at = c \/ q.at >= a + (k - 1))
    BY <1>6
  <2> DEFINE t == QuotedOn(Scan(q, errors), quote)
             Stops == q.at > Len(text) \/ text[q.at] \in {NL, CR, quote}
             slash == q.at <= Len(text) /\ text[q.at] = "\\"
             s == Escape(Advance(q))
  <2> HIDE DEF q, errors
  <2>5. /\ Stops => t = Scan(q, errors)
        /\ ~Stops /\ ~slash => t = Scan(Advance(q), errors) /\ Advance(q).at = q.at + 1
        /\ slash => ~Stops /\ t = Scan(s.end, errors \o s.errors) /\ EscapeRight(q.at, s)
    BY <2>2, QuotedTurn
  <2>6. q.at \in a .. c /\ q.at <= Len(text)
    BY <1>1, <2>2, <2>4 DEF n
  <2>7. CASE q.at = c
    <3>1. Stops
      BY <1>4, <2>7
    <3>2. t = Scan(q, errors)
      BY <2>5, <3>1
    <3>3. t.errors = <<>> /\ t.end.at = c
      BY <2>4, <2>7, <3>2 DEF Scan
    <3> HIDE DEF t
    <3> QED BY <1>1, <2>3, <2>4, <2>7, <3>3 DEF t
  <2>8. CASE q.at # c /\ text[q.at] \notin {NL, CR, quote, "\\"}
    <3>1. ~Stops /\ ~slash
      BY <2>6, <2>8
    <3>2. t = Scan(Advance(q), errors) /\ Advance(q).at = q.at + 1
      BY <2>5, <3>1
    <3>3. t.errors = <<>> /\ t.end.at = q.at + 1
      BY <2>4, <3>2 DEF Scan
    <3>4. Made(a, c, quote, q.at + 1)
      <4>1. ~\E m \in q.at + 1 .. c : EscapeTo(q.at, m) /\ Made(a, c, quote, m)
        BY <2>8 DEF EscapeTo
      <4> QED BY <1>1, <2>4, <2>6, <2>8, <4>1, MadeIs
    <3>5. q.at + 1 <= c /\ q.at + 1 >= a + k
      BY <1>1, <2>2, <2>4, <2>8
    <3> HIDE DEF t
    <3> QED BY <2>3, <3>3, <3>4, <3>5 DEF t
  <2>9. CASE q.at # c /\ text[q.at] \in {NL, CR, quote, "\\"}
    <3>1. PICK m \in q.at + 1 .. c : EscapeTo(q.at, m) /\ Made(a, c, quote, m)
      BY <1>1, <2>4, <2>6, <2>9, MadeIs
    <3>2. slash
      BY <2>6, <3>1 DEF EscapeTo
    <3>3. t = Scan(s.end, errors \o s.errors) /\ EscapeRight(q.at, s)
      BY <2>5, <3>2
    <3> HIDE DEF s
    <3>4. t.errors = errors \o s.errors /\ t.end.at = s.end.at
      BY <3>3 DEF Scan
    <3>5. s.end.at \in Nat /\ s.end.at <= n + 1
      <4>1. t.end.at = w[k].end.at /\ w[k].end.at \in Nat /\ w[k].end.at <= n + 1
        BY <1>3, <2>1, <2>3
      <4> HIDE DEF t
      <4> QED BY <3>4, <4>1
    <3>6. m \in q.at .. Len(text) + 1 /\ m \in a .. c
      BY <1>1, <2>2, <2>6 DEF n
    <3>7. /\ s.errors = <<>> /\ m <= s.end.at
          /\ \A j \in m .. s.end.at - 1 : text[j] \in HexDigits \union {NL}
      BY <3>1, <3>3, <3>6 DEF EscapeRight
    <3>8. s.end.at <= c /\ Made(a, c, quote, s.end.at)
      <4> DEFINE e == s.end.at
      <4>1. /\ e \in Nat /\ m <= e /\ e <= Len(text) + 1 /\ c <= Len(text)
            /\ \A j \in m .. e - 1 : text[j] \in HexDigits \union {NL}
        BY <1>1, <3>5, <3>7 DEF n
      <4>2. m \in a .. c /\ Made(a, c, quote, m) /\ a \in Places /\ c \in Places /\ a <= c /\ text[c] = quote
        BY <1>1, <1>4, <3>1, <3>6
      <4> HIDE DEF e
      <4>3. e <= c /\ Made(a, c, quote, e)
        BY ONLY IsText, quote \in Quotes, <4>1, <4>2, MadeOn
      <4> QED BY <4>3 DEF e
    <3>9. q.at + 2 <= m
      BY <3>1 DEF EscapeTo
    <3>10. s.end.at >= a + k
      <4>1. a \in Nat /\ k \in Nat /\ q.at \in Nat /\ q.at >= a + (k - 1)
        <5>1. a \in Nat /\ k \in Nat /\ q.at \in Nat
          BY <1>1, <2>2
        <5> QED BY <2>4, <2>9, <5>1
      <4>2. m \in Nat /\ m <= s.end.at /\ q.at + 2 <= m /\ s.end.at \in Nat
        BY <3>5, <3>6, <3>7, <3>9, <4>1
      <4> QED BY ONLY <4>1, <4>2
    <3>11. t.errors = <<>>
      BY <2>4, <3>4, <3>7
    <3> HIDE DEF t
    <3> QED BY <2>3, <3>4, <3>8, <3>10, <3>11 DEF t
  <2> HIDE DEF t, Stops, slash, s
  <2> QED BY <2>7, <2>8, <2>9
<1> HIDE DEF Right
<1>7. ASSUME Bad # {} PROVE FALSE
  <2>1. Bad \in SUBSET Nat
    OBVIOUS
  <2>2. PICK x \in Bad : \A y \in Bad : x <= y
    <3> HIDE DEF Bad
    <3> QED BY <1>7, <2>1, LeastNumber
  <2>3. x \in 0 .. n /\ ~Right(x)
    OBVIOUS
  <2>4. x \in 1 .. n /\ x - 1 \in 0 .. n /\ ~(x <= x - 1)
    BY <1>1, <1>5, <2>3
  <2>5. Right(x - 1)
    BY <2>2, <2>4
  <2> QED BY <1>6, <2>3, <2>4, <2>5
<1>8. n \in 0 .. n
  BY <1>1
<1> DEFINE inner == w[n]
<1>9. inner.errors = <<>> /\ inner.end.at = c /\ inner.end \in Positions
  <2>1. Right(n)
    BY <1>7, <1>8
  <2>2. inner.errors = <<>> /\ inner.end.at <= c /\ (inner.end.at = c \/ inner.end.at >= a + n)
    BY <2>1 DEF Right
  <2>3. inner.end \in Positions /\ inner.end.at \in Nat
    BY <1>3, <1>8
  <2> HIDE DEF inner
  <2> QED BY <1>1, <2>2, <2>3
<1> HIDE DEF inner
<1>10. Ahead(inner.end) = quote /\ Advance(inner.end).at = c + 1
  <2>1. quote # NUL /\ quote # CR
    BY DEF Quotes, NUL, CR
  <2>2. ~AtEnd(inner.end) /\ inner.end.at <= Len(text)
    BY <1>1, <1>9 DEF AtEnd, n
  <2> QED BY <1>4, <1>9, <2>1, <2>2, AheadIs, OneStep
<1>11. Closed(inner, quote) = Scan(Advance(inner.end), inner.errors)
  BY <1>10 DEF Closed
<1>12. Quoted(p, quote) = Scan(Advance(inner.end), inner.errors)
  BY <1>2, <1>11 DEF inner
<1> QED BY <1>1, <1>9, <1>10, <1>12 DEF Scan

-----------------------------------------------------------------------------
(* Prefixes, by where they end.                                            *)
PrefixTo(i, m, quote) ==
  \/ m = i
  \/ m = i + 1 /\ text[i] \in {"L", "u", "U"}
  \/ quote = "\"" /\ m = i + 2 /\ text[i] = "u" /\ text[i + 1] = "8"

QuotedTo(i, b, quote) == \E m \in i .. b : PrefixTo(i, m, quote) /\ LiteralTo(m, b, quote)

Literal(l, quote) ==
  Len(l) >= 2 /\ l[1] = quote /\ l[Len(l)] = quote /\ IsContents(SubSeq(l, 2, Len(l) - 1), quote)

LEMMA LiteralIs ==
  ASSUME IsText, NEW o \in Places, NEW b \in Places, o <= b, NEW quote
  PROVE  Literal(Word(o, b), quote) <=> LiteralTo(o, b, quote)
<1> DEFINE w == Word(o, b)
<1>1. o \in Nat /\ b \in Nat /\ Len(w) = b - o /\ (o < b => w[1] = text[o])
      /\ \A k \in o .. b - 1 : w[k - o + 1] = text[k]
  BY WordBegins
<1>2. ASSUME o + 2 <= b
      PROVE  /\ w[Len(w)] = text[b - 1]
             /\ IsContents(SubSeq(w, 2, Len(w) - 1), quote) <=> Made(o + 1, b - 1, quote, o + 1)
  <2>1. b - 1 \in o .. b - 1 /\ (b - 1) - o + 1 = Len(w)
    BY <1>1, <1>2
  <2>2. w[Len(w)] = text[b - 1]
    <3>1. w[(b - 1) - o + 1] = text[b - 1]
      BY <1>1, <2>1
    <3> QED BY <2>1, <3>1
  <2>3. o + 1 \in o .. b /\ b - 1 \in o + 1 .. b /\ (o + 1) - o + 1 = 2 /\ (b - 1) - o = Len(w) - 1
    BY <1>1, <1>2
  <2>4. SubSeq(w, 2, Len(w) - 1) = Word(o + 1, b - 1)
    <3>1. SubSeq(w, (o + 1) - o + 1, (b - 1) - o) = Word(o + 1, b - 1)
      BY <2>3, WordOfWord
    <3> QED BY <2>3, <3>1
  <2>5. (o + 1) - (o + 1) + 1 = 1
    BY <1>1
  <2>6. Made(o + 1, b - 1, quote, o + 1) <=> ContentsFrom(Word(o + 1, b - 1), quote)[1]
    BY <2>5 DEF Made
  <2> HIDE DEF w
  <2> QED BY <2>2, <2>4, <2>6, ContentsAreFrom
<1> HIDE DEF w
<1>3. Len(w) >= 2 <=> o + 2 <= b
  BY <1>1
<1>4. o + 2 <= b => w[1] = text[o]
  BY <1>1
<1> QED BY <1>2, <1>3, <1>4 DEF Literal, LiteralTo, w

LEMMA PrefixIs ==
  ASSUME IsText, NEW i \in Places, NEW m \in Places, i <= m
  PROVE  /\ Word(i, m) = <<>> <=> m = i
         /\ \A c \in {"L", "u", "U"} : Word(i, m) = <<c>> <=> m = i + 1 /\ text[i] = c
         /\ Word(i, m) = <<"u", "8">> <=> m = i + 2 /\ text[i] = "u" /\ text[i + 1] = "8"
<1> DEFINE v == Word(i, m)
<1>1. v \in Seq(STRING) /\ Len(v) = m - i
  BY WordIs
<1>2. i \in Nat /\ m \in Nat /\ (i < m => v[1] = text[i]) /\ (i + 1 < m => v[2] = text[i + 1])
  BY WordBegins
<1> HIDE DEF v
<1>3. v = <<>> <=> Len(v) = 0
  BY <1>1
<1>4. v = <<"u", "8">> <=> Len(v) = 2 /\ v[1] = "u" /\ v[2] = "8"
  <2>1. ASSUME NEW x, NEW y PROVE v = <<x, y>> <=> Len(v) = 2 /\ v[1] = x /\ v[2] = y
    BY ONLY <1>1, TwoAre
  <2> QED BY ONLY <2>1, Zenon
<1>5. ASSUME NEW c PROVE v = <<c>> <=> m = i + 1 /\ text[i] = c
  <2>1. v = <<c>> <=> Len(v) = 1 /\ v[1] = c
    BY ONLY <1>1, OneIsAWord
  <2>2. Len(v) = 1 <=> m = i + 1
    BY <1>1, <1>2
  <2>3. m = i + 1 => v[1] = text[i]
    BY <1>2
  <2> QED BY <2>1, <2>2, <2>3
<1>6. Len(v) = 2 <=> m = i + 2
  BY <1>1, <1>2
<1>7. m = i + 2 => v[1] = text[i] /\ v[2] = text[i + 1]
  BY <1>2
<1>8. Len(v) = 0 <=> m = i
  BY <1>1, <1>2
<1> QED BY <1>3, <1>4, <1>5, <1>6, <1>7, <1>8 DEF v

LEMMA StringsAndCharactersAre ==
  ASSUME IsText, NEW i \in Places, NEW b \in Places, i <= b
  PROVE  /\ IsString(Word(i, b)) <=> QuotedTo(i, b, "\"")
         /\ IsCharacter(Word(i, b)) <=> QuotedTo(i, b, "'")
<1> DEFINE w == Word(i, b)
           Strings == {<<"L">>, <<"u">>, <<"U">>, <<"u", "8">>}
           Characters1 == {<<"L">>, <<"u">>, <<"U">>}
           Prefix(p, prefixes) == p = <<>> \/ p \in prefixes
<1>1. ASSUME NEW quote, NEW prefixes,
             \A m \in i .. b : Prefix(Word(i, m), prefixes) <=> PrefixTo(i, m, quote)
      PROVE  IsQuoted(w, quote, prefixes) <=> QuotedTo(i, b, quote)
  <2>1. IsQuoted(w, quote, prefixes)
        <=> \E n \in 0 .. Len(w) : Prefix(UpTo(w, n), prefixes) /\ Literal(From(w, n + 1), quote)
    BY DEF IsQuoted, Splits, Literal
  <2>2. Len(w) = b - i
    BY SplitsAt
  <2>3. ASSUME NEW m \in i .. b PROVE Literal(Word(m, b), quote) <=> LiteralTo(m, b, quote)
    <3>1. m \in Places /\ m <= b
      BY DEF Places, IsText
    <3> QED BY <3>1, LiteralIs
  <2>4. ASSUME NEW n \in 0 .. b - i, Prefix(UpTo(w, n), prefixes), Literal(From(w, n + 1), quote) PROVE QuotedTo(i, b, quote)
    <3>1. i + n \in i .. b /\ UpTo(w, n) = Word(i, i + n) /\ From(w, n + 1) = Word(i + n, b)
      BY SplitsAt
    <3> HIDE DEF w, Prefix
    <3>2. PrefixTo(i, i + n, quote) /\ LiteralTo(i + n, b, quote)
      BY <1>1, <2>3, <2>4, <3>1
    <3> QED BY <3>1, <3>2 DEF QuotedTo
  <2>5. ASSUME NEW m \in i .. b, PrefixTo(i, m, quote), LiteralTo(m, b, quote)
        PROVE  \E n \in 0 .. b - i : Prefix(UpTo(w, n), prefixes) /\ Literal(From(w, n + 1), quote)
    <3>1. m - i \in 0 .. b - i /\ UpTo(w, m - i) = Word(i, m) /\ From(w, (m - i) + 1) = Word(m, b)
      BY SplitsAt
    <3> HIDE DEF w, Prefix
    <3>2. Prefix(UpTo(w, m - i), prefixes) /\ Literal(From(w, (m - i) + 1), quote)
      BY <1>1, <2>3, <2>5, <3>1
    <3> QED BY <3>1, <3>2
  <2> HIDE DEF w, Prefix
  <2> QED BY <2>1, <2>2, <2>4, <2>5 DEF QuotedTo
<1>2. ASSUME NEW m \in i .. b
      PROVE  /\ Prefix(Word(i, m), Strings) <=> PrefixTo(i, m, "\"")
             /\ Prefix(Word(i, m), Characters1) <=> PrefixTo(i, m, "'")
  <2>1. m \in Places /\ i <= m
    BY DEF Places, IsText
  <2> DEFINE v == Word(i, m)
  <2>2. /\ v = <<>> <=> m = i
        /\ \A c \in {"L", "u", "U"} : v = <<c>> <=> m = i + 1 /\ text[i] = c
        /\ v = <<"u", "8">> <=> m = i + 2 /\ text[i] = "u" /\ text[i + 1] = "8"
    BY <2>1, PrefixIs
  <2> HIDE DEF v
  <2>3. v \in Characters1 <=> m = i + 1 /\ text[i] \in {"L", "u", "U"}
    BY <2>2
  <2>4. v \in Strings <=> v \in Characters1 \/ v = <<"u", "8">>
    OBVIOUS
  <2> HIDE DEF Strings, Characters1
  <2>5. Prefix(v, Strings) <=> PrefixTo(i, m, "\"")
    BY <2>2, <2>3, <2>4 DEF PrefixTo
  <2>6. Prefix(v, Characters1) <=> PrefixTo(i, m, "'")
    BY <2>2, <2>3 DEF PrefixTo
  <2> QED BY <2>5, <2>6 DEF v
<1>3. IsString(w) <=> IsQuoted(w, "\"", Strings)
  BY DEF IsString
<1>4. IsCharacter(w) <=> IsQuoted(w, "'", Characters1)
  BY DEF IsCharacter
<1> HIDE DEF w, Strings, Characters1, Prefix
<1>5. IsQuoted(w, "\"", Strings) <=> QuotedTo(i, b, "\"")
  BY <1>1, <1>2
<1>6. IsQuoted(w, "'", Characters1) <=> QuotedTo(i, b, "'")
  BY <1>1, <1>2
<1> QED BY <1>3, <1>4, <1>5, <1>6 DEF w

-----------------------------------------------------------------------------
(* Which words are tokens, by the characters they begin with.              *)
IdentifierTo(i, b) == i < b /\ Throughout(i, b, IdentifierPart) /\ text[i] \notin Digits

LEMMA IdentifierIs ==
  ASSUME IsText, NEW i \in Places, NEW b \in Places, i <= b
  PROVE  IsIdentifier(Word(i, b)) <=> IdentifierTo(i, b)
<1>1. Letters \union Digits \union {"_"} = IdentifierPart
  <2> DEFINE L == Letters
             D == Digits
             u == "_"
  <2> HIDE DEF L, D, u
  <2>1. L \union D \union {u} = (L \union {u}) \union D
    OBVIOUS
  <2> QED BY <2>1 DEF IdentifierPart, IdentifierStart, L, D, u
<1>2. Some(Word(i, b), IdentifierPart) <=> i < b /\ Throughout(i, b, IdentifierPart)
  BY WordIs
<1>3. i < b => Word(i, b)[1] = text[i]
  BY WordBegins
<1> DEFINE w == Word(i, b)
<1> HIDE DEF w
<1>4. IsIdentifier(w) <=> Some(w, IdentifierPart) /\ w[1] \notin Digits
  BY <1>1 DEF IsIdentifier
<1> QED BY <1>2, <1>3, <1>4 DEF IdentifierTo, w

SpelledTo(i, b) == Spelled(Word(i, b)) # {}

LEMMA SpelledIs ==
  ASSUME IsText, NEW i \in Places, NEW b \in Places, i <= b
  PROVE  /\ SpelledTo(i, b) <=> \E j \in DOMAIN Spellings : Word(i, b) = Spellings[j]
         /\ SpelledTo(i, b) => \A k \in i .. b - 1 : text[k] \notin IdentifierPart \union Quotes \union Blanks
         /\ SpelledTo(i, b) => i < b
<1> DEFINE w == Word(i, b)
<1>1. Punctuator = {PunctuatorTable[j] : j \in DOMAIN PunctuatorTable}
  BY WordsAssumption
<1>2. DOMAIN Spellings = DOMAIN PunctuatorTable /\ \A j \in DOMAIN Spellings : Spellings[j] = Characters(PunctuatorTable[j])
  BY DEF Spellings
<1>3. i \in Nat /\ b \in Nat /\ Len(w) = b - i /\ \A k \in i .. b - 1 : k - i + 1 \in 1 .. b - i /\ w[k - i + 1] = text[k]
  BY WordBegins
<1> HIDE DEF w
<1>4. Spelled(w) # {} <=> \E j \in DOMAIN Spellings : w = Spellings[j]
  <2>1. Spelled(w) # {} <=> \E p \in Punctuator : Characters(p) = w
    BY DEF Spelled
  <2>2. (\E p \in Punctuator : Characters(p) = w) <=> \E j \in DOMAIN PunctuatorTable : Characters(PunctuatorTable[j]) = w
    BY <1>1
  <2> QED BY <1>2, <2>1, <2>2
<1>5. ASSUME NEW j \in DOMAIN Spellings, w = Spellings[j], NEW k \in i .. b - 1
      PROVE  text[k] \notin IdentifierPart \union Quotes \union Blanks
  <2>1. k - i + 1 \in 1 .. Len(Spellings[j])
    BY <1>3, <1>5
  <2>2. Spellings[j][k - i + 1] \notin IdentifierPart \union Quotes \union Blanks
    BY <2>1, WordsAssumption
  <2> QED BY <1>3, <1>5, <2>2
<1>6. ASSUME NEW j \in DOMAIN Spellings, w = Spellings[j] PROVE i < b
  <2>1. Len(w) >= 1
    BY <1>6, SpellingsAssumption
  <2> QED BY <1>3, <2>1
<1> QED BY <1>4, <1>5, <1>6 DEF SpelledTo, w

Quote(kind) == IF kind = "char" THEN "'" ELSE "\""

(* The kinds of a word, by the places where it begins and ends.            *)
LEMMA KindsHere ==
  ASSUME IsText, NEW i \in Places, NEW b \in Places, i <= b
  PROVE  /\ IsListed("identifier", Word(i, b)) <=> IdentifierTo(i, b) /\ Word(i, b) \notin Keywords
         /\ IsListed("keyword", Word(i, b)) <=> Word(i, b) \in Keywords
         /\ Word(i, b) \in Keywords => IdentifierTo(i, b)
         /\ IsListed("integer", Word(i, b)) <=> IntegerTo(i, b)
         /\ IsListed("float", Word(i, b)) <=> FloatTo(i, b)
         /\ IsListed("char", Word(i, b)) <=> QuotedTo(i, b, "'")
         /\ IsListed("string", Word(i, b)) <=> QuotedTo(i, b, "\"")
         /\ IsToken(Word(i, b)) => \/ SpelledTo(i, b) \/ IdentifierTo(i, b) \/ IntegerTo(i, b) \/ FloatTo(i, b)
                                   \/ QuotedTo(i, b, "'") \/ QuotedTo(i, b, "\"")
<1> DEFINE w == Word(i, b)
<1>1. w \in Keywords => IsIdentifier(w)
  BY WordsAssumption
<1>2. /\ IsIdentifier(w) <=> IdentifierTo(i, b)
      /\ IsInteger(w) <=> IntegerTo(i, b)
      /\ IsFloat(w) <=> FloatTo(i, b)
      /\ IsCharacter(w) <=> QuotedTo(i, b, "'")
      /\ IsString(w) <=> QuotedTo(i, b, "\"")
  BY IdentifierIs, IntegerIs, FloatIs, StringsAndCharactersAre
<1>3. SpelledTo(i, b) <=> Spelled(w) # {}
  BY DEF SpelledTo
<1> HIDE DEF w
<1>4. IsToken(w) => Spelled(w) # {} \/ IsIdentifier(w) \/ IsInteger(w) \/ IsFloat(w) \/ IsCharacter(w) \/ IsString(w)
  BY TokenIsOfAKind
<1> QED BY <1>1, <1>2, <1>3, <1>4, ListedIs DEF w

(* A word that is of one kind only.                                        *)
LEMMA OneKindHere ==
  ASSUME IsText, NEW i \in Places, NEW b \in Places, i <= b, ~SpelledTo(i, b)
  PROVE  LET alone(kind) == Kinds(Word(i, b)) = {kind}
             Number == IntegerTo(i, b) \/ FloatTo(i, b)
             String == QuotedTo(i, b, "\"")
             Character == QuotedTo(i, b, "'")
         IN  /\ ~Number /\ ~String /\ ~Character /\ IdentifierTo(i, b)
                  => alone(IF Word(i, b) \in Keywords THEN "keyword" ELSE "identifier")
             /\ ~IdentifierTo(i, b) /\ ~Number /\ String /\ ~Character => alone("string")
             /\ ~IdentifierTo(i, b) /\ ~Number /\ ~String /\ Character => alone("char")
             /\ ~IdentifierTo(i, b) /\ IntegerTo(i, b) /\ ~FloatTo(i, b) /\ ~String /\ ~Character => alone("integer")
             /\ ~IdentifierTo(i, b) /\ ~IntegerTo(i, b) /\ FloatTo(i, b) /\ ~String /\ ~Character => alone("float")
<1> DEFINE w == Word(i, b)
           Is(k) == IsListed(k, w)
<1>1. /\ Is("identifier") <=> IdentifierTo(i, b) /\ w \notin Keywords
      /\ Is("keyword") <=> w \in Keywords
      /\ w \in Keywords => IdentifierTo(i, b)
      /\ Is("integer") <=> IntegerTo(i, b)
      /\ Is("float") <=> FloatTo(i, b)
      /\ Is("char") <=> QuotedTo(i, b, "'")
      /\ Is("string") <=> QuotedTo(i, b, "\"")
  BY KindsHere
<1>2. Spelled(w) = {}
  BY DEF SpelledTo
<1>3. \A kind \in Listed : (\A k \in Listed : IsListed(k, w) <=> k = kind) => Kinds(w) = {kind}
  BY <1>2, OneKind
<1> HIDE DEF w
<1>4. \A kind \in Listed : (\A k \in Listed : Is(k) <=> k = kind) => Kinds(w) = {kind}
  BY <1>3
<1> HIDE DEF Is
<1>5. \A k \in Listed : \/ k = "identifier" \/ k = "keyword" \/ k = "integer" \/ k = "float" \/ k = "char" \/ k = "string"
  BY DEF Listed
<1>6. ASSUME NEW kind \in Listed, \A k \in Listed : Is(k) <=> k = kind PROVE Kinds(w) = {kind}
  BY <1>4, <1>6
<1> DEFINE None(K) == \A k \in Listed \ K : ~Is(k)
<1>7. ASSUME NEW kind \in Listed, Is(kind), None({kind}) PROVE Kinds(w) = {kind}
  <2>1. \A k \in Listed : Is(k) <=> k = kind
    BY <1>7
  <2> QED BY <1>6, <2>1
<1>8. ASSUME ~Is("integer"), ~Is("float"), ~Is("string"), ~Is("char"), IdentifierTo(i, b)
      PROVE  Kinds(w) = {IF w \in Keywords THEN "keyword" ELSE "identifier"}
  <2>1. CASE w \in Keywords
    <3>1. Is("keyword") /\ None({"keyword"}) /\ "keyword" \in Listed
      BY <1>1, <1>5, <1>8, <2>1 DEF Listed
    <3> HIDE DEF None
    <3> QED BY <1>7, <2>1, <3>1
  <2>2. CASE w \notin Keywords
    <3>1. Is("identifier") /\ None({"identifier"}) /\ "identifier" \in Listed
      BY <1>1, <1>5, <1>8, <2>2 DEF Listed
    <3> HIDE DEF None
    <3> QED BY <1>7, <2>2, <3>1
  <2> QED BY <2>1, <2>2
<1>9. ASSUME ~IdentifierTo(i, b), ~Is("integer"), ~Is("float"), Is("string"), ~Is("char")
      PROVE  Kinds(w) = {"string"}
  <2>1. None({"string"}) /\ "string" \in Listed
    BY <1>1, <1>5, <1>9 DEF Listed
  <2> HIDE DEF None
  <2> QED BY <1>7, <1>9, <2>1
<1>10. ASSUME ~IdentifierTo(i, b), ~Is("integer"), ~Is("float"), ~Is("string"), Is("char")
      PROVE  Kinds(w) = {"char"}
  <2>1. None({"char"}) /\ "char" \in Listed
    BY <1>1, <1>5, <1>10 DEF Listed
  <2> HIDE DEF None
  <2> QED BY <1>7, <1>10, <2>1
<1>11. ASSUME ~IdentifierTo(i, b), Is("integer"), ~Is("float"), ~Is("string"), ~Is("char")
      PROVE  Kinds(w) = {"integer"}
  <2>1. None({"integer"}) /\ "integer" \in Listed
    BY <1>1, <1>5, <1>11 DEF Listed
  <2> HIDE DEF None
  <2> QED BY <1>7, <1>11, <2>1
<1>12. ASSUME ~IdentifierTo(i, b), ~Is("integer"), Is("float"), ~Is("string"), ~Is("char")
      PROVE  Kinds(w) = {"float"}
  <2>1. None({"float"}) /\ "float" \in Listed
    BY <1>1, <1>5, <1>12 DEF Listed
  <2> HIDE DEF None
  <2> QED BY <1>7, <1>12, <2>1
<1> QED BY <1>1, <1>8, <1>9, <1>10, <1>11, <1>12 DEF w

(* Classes of characters that tokens of different kinds begin with.        *)
LEMMA FirstCharacters ==
  /\ "." \notin IdentifierPart \union Quotes /\ {"L", "u", "U", "8"} \subseteq IdentifierPart
  /\ \A c \in Digits : c \in IdentifierPart /\ c \notin IdentifierStart \union Quotes \union {"L", "u", "U", "."}
  /\ \A c \in Quotes : c \notin IdentifierPart \union Blanks /\ c \notin {".", "/", "L", "u", "U", "8"} /\ c # NUL /\ c # CR
  /\ \A c \in {"L", "u", "U"} : c \in IdentifierStart /\ c \notin Digits /\ c # "."
  /\ \A c \in IdentifierPart : c \in IdentifierStart <=> c \notin Digits
  /\ "\"" \in Quotes /\ "'" \in Quotes /\ Quotes = {"\"", "'"}
  /\ \A c \in IdentifierPart : c # CR
BY DEF IdentifierPart, IdentifierStart, Letters, Digits, Quotes, Blanks, NUL, CR, NL

LEMMA TokensBegin ==
  ASSUME IsText, NEW i \in Places, NEW b \in Places, i <= b
  PROVE  /\ SpelledTo(i, b) => text[i] \notin IdentifierPart \union Quotes \union Blanks
         /\ IdentifierTo(i, b) => text[i] \in IdentifierStart
         /\ IntegerTo(i, b) \/ FloatTo(i, b)
              => text[i] \in Digits \/ (text[i] = "." /\ i + 2 <= b /\ text[i + 1] \in Digits)
         /\ \A quote \in Quotes : QuotedTo(i, b, quote) =>
              \E m \in i .. b - 2 : /\ PrefixTo(i, m, quote) /\ LiteralTo(m, b, quote) /\ text[m] = quote
                                    /\ m = i \/ text[i] \in {"L", "u", "U"}
<1>1. i \in Nat /\ b \in Nat
  BY DEF Places, IsText
<1>2. SpelledTo(i, b) => text[i] \notin IdentifierPart \union Quotes \union Blanks
  <2>1. i < b => i \in i .. b - 1
    BY <1>1
  <2> QED BY <2>1, SpelledIs
<1>3. IdentifierTo(i, b) => text[i] \in IdentifierStart
  <2>1. i < b => i \in i .. b - 1
    BY <1>1
  <2> QED BY <2>1, FirstCharacters DEF IdentifierTo, Throughout
<1>4. ASSUME NEW quote \in Quotes, QuotedTo(i, b, quote)
      PROVE  \E m \in i .. b - 2 : /\ PrefixTo(i, m, quote) /\ LiteralTo(m, b, quote) /\ text[m] = quote
                                   /\ m = i \/ text[i] \in {"L", "u", "U"}
  <2>1. PICK m \in i .. b : PrefixTo(i, m, quote) /\ LiteralTo(m, b, quote)
    BY <1>4 DEF QuotedTo
  <2>2. m + 2 <= b /\ text[m] = quote
    BY <2>1 DEF LiteralTo
  <2>3. m \in i .. b - 2
    BY <1>1, <2>2
  <2>4. m = i \/ text[i] \in {"L", "u", "U"}
    BY <2>1 DEF PrefixTo
  <2> QED BY <2>1, <2>2, <2>3, <2>4
<1> QED BY <1>2, <1>3, <1>4, NumbersBegin

-----------------------------------------------------------------------------
(* The turn that lexes a literal.                                          *)

LEMMA LiteralHere ==
  ASSUME IsText, here \in Positions, AtToken
  PROVE  LET o == here.at + PrefixLength
             quote == Peek(here, PrefixLength)
         IN  /\ PrefixLength \in {0, 1, 2}
             /\ AtLiteral => /\ o <= Len(text) /\ text[o] = quote /\ quote \in Quotes
                             /\ PrefixTo(here.at, o, quote)
                             /\ \A k \in here.at .. o - 1 : text[k] \in IdentifierPart
                             /\ PrefixLength # 0 => text[here.at] \in {"L", "u", "U"}
             /\ \A m, q : m <= Len(text) /\ text[m] = q /\ q \in Quotes /\ PrefixTo(here.at, m, q)
                            => AtLiteral /\ m = o /\ q = quote
<1> DEFINE i == here.at
           x == text[i]
           y == Peek(here, 1)
           z == Peek(here, 2)
           q == PrefixLength
<1>1. /\ i \in Nat /\ i >= 1 /\ i <= Len(text) /\ Len(text) \in Nat
      /\ Ahead(here) = x /\ Peek(here, 0) = x
      /\ i + 1 <= Len(text) => y = text[i + 1]
      /\ ~(i + 1 <= Len(text)) => y = NUL
      /\ i + 2 <= Len(text) => z = text[i + 2]
      /\ ~(i + 2 <= Len(text)) => z = NUL
  BY TokenHere DEF Ahead
<1>2. NUL \notin Quotes /\ "8" \notin Quotes /\ "\"" \in Quotes /\ "8" # NUL /\ "u" \notin Quotes /\ "L" \notin Quotes /\ "U" \notin Quotes
      /\ {"L", "u", "U", "8"} \subseteq IdentifierPart
  BY FirstCharacters DEF NUL
<1>3. q = IF x = "u" /\ y = "8" /\ z = "\"" THEN 2
          ELSE IF x \in {"L", "u", "U"} /\ y \in Quotes THEN 1
          ELSE 0
  BY <1>1 DEF PrefixLength
<1>4. AtLiteral <=> Peek(here, q) \in Quotes
  BY DEF AtLiteral
<1> HIDE DEF q, x, y, z
<1>a. Peek(here, 0) = x /\ Peek(here, 1) = y /\ Peek(here, 2) = z
  BY <1>1 DEF y, z
<1>5. CASE x = "u" /\ y = "8" /\ z = "\""
  <2>1. q = 2
    BY <1>3, <1>5
  <2>2. i + 2 <= Len(text) /\ i + 1 <= Len(text) /\ text[i + 2] = "\"" /\ text[i + 1] = "8"
    BY <1>1, <1>2, <1>5
  <2>3. PrefixTo(i, i + 2, "\"")
    BY <1>5, <2>2 DEF PrefixTo, x
  <2>4. \A k \in i .. (i + 2) - 1 : text[k] \in IdentifierPart
    <3>1. \A k \in i .. (i + 2) - 1 : k = i \/ k = i + 1
      BY <1>1
    <3> QED BY <1>2, <1>5, <2>2, <3>1 DEF x
  <2>5. ASSUME NEW m, NEW r, m <= Len(text), text[m] = r, r \in Quotes, PrefixTo(i, m, r) PROVE m = i + 2 /\ r = "\""
    <3>1. m # i /\ m # i + 1
      BY <1>2, <1>5, <2>2, <2>5 DEF x
    <3> QED BY <2>5, <3>1 DEF PrefixTo
  <2> QED BY <1>2, <1>4, <1>5, <1>a, <2>1, <2>2, <2>3, <2>4, <2>5 DEF q, x
<1>6. CASE ~(x = "u" /\ y = "8" /\ z = "\"") /\ x \in {"L", "u", "U"} /\ y \in Quotes
  <2>1. q = 1
    BY <1>3, <1>6
  <2>2. i + 1 <= Len(text) /\ text[i + 1] = y
    BY <1>1, <1>2, <1>6
  <2>3. PrefixTo(i, i + 1, y)
    BY <1>6 DEF PrefixTo, x
  <2>4. \A k \in i .. (i + 1) - 1 : text[k] \in IdentifierPart
    <3>1. \A k \in i .. (i + 1) - 1 : k = i
      BY <1>1
    <3> QED BY <1>2, <1>6, <3>1 DEF x
  <2>5. ASSUME NEW m, NEW r, m <= Len(text), text[m] = r, r \in Quotes, PrefixTo(i, m, r) PROVE m = i + 1 /\ r = y
    <3>1. m # i
      BY <1>2, <1>6, <2>5 DEF x
    <3>2. ~(r = "\"" /\ m = i + 2 /\ text[i] = "u" /\ text[i + 1] = "8")
      BY <1>2, <1>6, <2>2
    <3> QED BY <2>2, <2>5, <3>1, <3>2 DEF PrefixTo
  <2> QED BY <1>4, <1>6, <1>a, <2>1, <2>2, <2>3, <2>4, <2>5 DEF q, x
<1>7. CASE ~(x = "u" /\ y = "8" /\ z = "\"") /\ ~(x \in {"L", "u", "U"} /\ y \in Quotes)
  <2>a. q = 0
    BY <1>3, <1>7
  <2>b. i + 0 = i
    BY <1>1
  <2>1. q = 0 /\ i + 0 = i
    BY <2>a, <2>b
  <2>2. PrefixTo(i, i, x)
    BY DEF PrefixTo
  <2>3. \A k \in i .. i - 1 : FALSE
    BY <1>1
  <2>5. ASSUME NEW m, NEW r, m <= Len(text), text[m] = r, r \in Quotes, PrefixTo(i, m, r) PROVE m = i /\ r = x
    <3>1. ~(m = i + 1 /\ text[i] \in {"L", "u", "U"})
      BY <1>1, <1>7, <2>5 DEF x
    <3>2. ~(r = "\"" /\ m = i + 2 /\ text[i] = "u" /\ text[i + 1] = "8")
      <4>1. ASSUME r = "\"", m = i + 2, text[i] = "u", text[i + 1] = "8" PROVE FALSE
        <5>1. i + 2 <= Len(text) /\ i + 1 <= Len(text)
          <6>1. i + 2 <= Len(text)
            BY <2>5, <4>1
          <6> QED BY <1>1, <6>1
        <5>2. y = "8" /\ z = "\""
          BY <1>1, <2>5, <4>1, <5>1
        <5> QED BY <1>7, <4>1, <5>2 DEF x
      <4> QED BY <4>1
    <3> QED BY <2>5, <3>1, <3>2 DEF PrefixTo, x
  <2>6. /\ q \in {0, 1, 2}
        /\ AtLiteral <=> x \in Quotes
        /\ i + q = i /\ Peek(here, q) = x
    BY <1>4, <1>a, <2>1
  <2>7. text[i] = x /\ q = 0
    BY <2>1 DEF x
  <2>8. \A m, r : m <= Len(text) /\ text[m] = r /\ r \in Quotes /\ PrefixTo(i, m, r)
                    => x \in Quotes /\ m = i /\ r = x
    BY <2>5
  <2> QED BY <1>1, <2>2, <2>3, <2>6, <2>7, <2>8 DEF q
<1> QED BY <1>5, <1>6, <1>7

LEMMA WordsOfTwo ==
  ASSUME NEW p, NEW q
  PROVE  /\ DOMAIN (<<p>> \o <<q>>) = 1 .. 2 /\ 2 \in DOMAIN (<<p>> \o <<q>>)
         /\ (<<p>> \o <<q>>)[1] = p /\ (<<p>> \o <<q>>)[2] = q
<1> DEFINE S == {p, q}
           a == <<p>>
           b == <<q>>
<1>1. a \in Seq(S) /\ Len(a) = 1 /\ a[1] = p /\ b \in Seq(S) /\ Len(b) = 1 /\ b[1] = q
  OBVIOUS
<1> HIDE DEF a, b, S
<1>2. /\ a \o b \in Seq(S) /\ Len(a \o b) = Len(a) + Len(b)
      /\ \A i \in 1 .. Len(a) + Len(b) : (a \o b)[i] = IF i <= Len(a) THEN a[i] ELSE b[i - Len(a)]
  BY <1>1, ConcatProperties
<1>4. Len(a) + Len(b) = 2 /\ 1 \in 1 .. 2 /\ 2 \in 1 .. 2 /\ 1 <= Len(a) /\ ~(2 <= Len(a)) /\ 2 - Len(a) = 1
  BY <1>1
<1>5. (a \o b)[1] = a[1] /\ (a \o b)[2] = b[1] /\ Len(a \o b) = 2
  BY <1>2, <1>4
<1>3. DOMAIN (a \o b) = 1 .. 2
  BY <1>2, <1>5
<1>6. 2 \in DOMAIN (a \o b)
  BY <1>3, <1>4
<1> QED BY <1>1, <1>5, <1>3, <1>6 DEF a, b

(* Where a token without a right piece follows.                            *)
LEMMA IllFormedNext ==
  ASSUME NEW p, NEW kind, kind \in {"open comment", "none"}, NEW i, NEW n
  PROVE  ~WellFormed(<<p>> \o <<Piece(kind, i, n)>>)
<1> DEFINE q == Piece(kind, i, n)
           s == <<p>> \o <<q>>
<1>1. q.kind = kind
  BY DEF Piece
<1> HIDE DEF q
<1>2. 2 \in DOMAIN s /\ s[2] = q
  BY WordsOfTwo
<1> HIDE DEF s
<1>3. ~WellFormed(s)
  BY <1>1, <1>2 DEF WellFormed
<1> QED BY <1>3 DEF s, q

LEMMA LiteralRight ==
  ASSUME IsText, here \in Positions, LexQuotedLiteral
  PROVE  \E kind, end, errors : RightAdd(kind, end, errors)
<1> DEFINE i == here.at
           q == PrefixLength
           o == i + q
           quote == Peek(here, q)
           kind == IF quote = "'" THEN "char" ELSE "string"
           p == AdvanceBy(here, q + 1)
           s == Quoted(p, quote)
<1>1. AtToken /\ AtLiteral /\ Add(kind, s)
  BY DEF LexQuotedLiteral
<1>2. /\ NeedsToken(i) /\ i \in Places /\ i \in Nat /\ i >= 1 /\ i <= Len(text) /\ Len(text) \in Nat
  BY <1>1, TokenHere
<1>3. /\ q \in {0, 1, 2} /\ q \in Nat
      /\ o <= Len(text) /\ text[o] = quote /\ quote \in Quotes
      /\ PrefixTo(i, o, quote)
      /\ \A k \in i .. o - 1 : text[k] \in IdentifierPart
      /\ q # 0 => text[i] \in {"L", "u", "U"}
      /\ \A m, r : m <= Len(text) /\ text[m] = r /\ r \in Quotes /\ PrefixTo(i, m, r) => m = o /\ r = quote
  <2>1. \A n \in {0, 1, 2} : n \in Nat
    OBVIOUS
  <2> QED BY <1>1, <2>1, LiteralHere
<1> HIDE DEF q, i, quote, kind
<1>4. o \in Nat /\ o >= 1 /\ o >= i /\ o \in Places
  BY <1>2, <1>3 DEF Places
<1>5. p \in Positions /\ p.at = o + 1
  <2>1. ASSUME NEW k \in i .. i + (q + 1) - 1 PROVE text[k] # CR
    <3>1. k \in i .. o - 1 \/ k = o
      BY <1>2, <1>3, <2>1
    <3> QED BY <1>3, <3>1, FirstCharacters
  <2>2. q + 1 \in Nat /\ i + (q + 1) <= Len(text) + 1 /\ i + (q + 1) = o + 1
    BY <1>2, <1>3
  <2>3. AdvanceBy(here, q + 1) \in Positions /\ AdvanceBy(here, q + 1).at = i + (q + 1)
    BY <2>1, <2>2, StepsOver DEF i
  <2> QED BY <2>2, <2>3
<1> HIDE DEF p
<1>6. s \in Scans(p.at)
  BY <1>5, QuotedIs
<1>7. /\ here' = s.end /\ tokens' = Append(tokens, TokenAt(kind, s.end)) /\ Complains(s.errors) /\ IsSequence(s.errors)
      /\ s.end \in Positions /\ s.end.at \in Nat /\ s.end.at <= Len(text) + 1 /\ s.end.at >= o + 1
  <2>1. s.end \in PositionsFrom(p.at) /\ s.errors \in Seq(Messages)
    BY <1>6 DEF Scans
  <2>2. s.end \in Positions /\ s.end.at >= p.at
    BY <2>1 DEF PositionsFrom
  <2>3. s.end.at \in Nat /\ s.end.at <= Len(text) + 1
    BY <1>2, <2>2 DEF Positions
  <2>4. here' = s.end /\ tokens' = Append(tokens, TokenAt(kind, s.end)) /\ Complains(s.errors)
    BY <1>1 DEF Add, Complains
  <2> QED BY <1>5, <2>1, <2>2, <2>3, <2>4 DEF IsSequence
<1> DEFINE e == s.end.at
<1>8. ASSUME NEW b \in i + 1 .. Len(text) + 1, NEW r \in Quotes, QuotedTo(i, b, r)
      PROVE  s.errors = <<>> /\ b = e /\ r = quote
  <2>1. b \in Places /\ i <= b /\ b \in Nat /\ b \in 1 .. Len(text) + 1
    BY <1>2, <1>8 DEF Places
  <2>2. PICK m \in i .. b - 2 : PrefixTo(i, m, r) /\ LiteralTo(m, b, r) /\ text[m] = r
    BY <1>2, <1>8, <2>1, TokensBegin
  <2>3. m <= Len(text)
    BY <1>2, <2>1, <2>2
  <2>4. m = o /\ r = quote
    BY <1>3, <1>8, <2>2, <2>3
  <2> QED BY <1>3, <1>4, <1>5, <2>1, <2>2, <2>4, LiteralIsQuoted
<1>9. ASSUME NEW b \in i + 1 .. Len(text) + 1
      PROVE  b \in Places /\ i <= b /\ ~SpelledTo(i, b) /\ ~IntegerTo(i, b) /\ ~FloatTo(i, b)
             /\ (IdentifierTo(i, b) => b <= o /\ q # 0)
  <2>1. b \in Places /\ i <= b /\ b \in Nat
    BY <1>2, <1>9 DEF Places
  <2>2. text[i] \in Quotes \/ text[i] \in {"L", "u", "U"}
    BY <1>2, <1>3
  <2>3. ~SpelledTo(i, b)
    <3>1. text[i] \in IdentifierPart \union Quotes
      BY <2>2, FirstCharacters
    <3> QED BY <1>2, <2>1, <3>1, TokensBegin
  <2>4. ~IntegerTo(i, b) /\ ~FloatTo(i, b)
    BY <1>2, <2>1, <2>2, TokensBegin, FirstCharacters
  <2>5. ASSUME IdentifierTo(i, b) PROVE b <= o
    <3>1. ASSUME o < b PROVE FALSE
      <4>1. o \in i .. b - 1
        BY <1>4, <2>1, <3>1
      <4> QED BY <1>3, <2>5, <4>1, FirstCharacters DEF IdentifierTo, Throughout
    <3> QED BY <1>4, <2>1, <3>1
  <2>6. b <= o => q # 0
    BY <1>2, <1>3, <2>1, <1>9
  <2> QED BY <2>1, <2>3, <2>4, <2>5, <2>6
<1>10. CASE s.errors = <<>>
  <2>1. LiteralTo(o, e, quote)
    BY <1>3, <1>4, <1>5, <1>10, QuotedIsLiteral
  <2>2. e \in i + 1 .. Len(text) + 1 /\ o \in i .. e
    BY <1>2, <1>4, <1>7
  <2>3. QuotedTo(i, e, quote)
    BY <1>3, <2>1, <2>2 DEF QuotedTo
  <2>4. ~IdentifierTo(i, e)
    BY <1>4, <1>7, <1>9, <2>2
  <2>5. Kinds(Word(i, e)) = {kind}
    <3>1. e \in Places /\ i <= e /\ ~SpelledTo(i, e) /\ ~IntegerTo(i, e) /\ ~FloatTo(i, e)
      BY <1>9, <2>2
    <3>2. \A r \in Quotes : QuotedTo(i, e, r) <=> r = quote
      BY <1>3, <1>8, <2>2, <2>3
    <3>3. CASE quote = "'"
      <4>1. QuotedTo(i, e, "'") /\ ~QuotedTo(i, e, "\"") /\ kind = "char"
        BY <3>2, <3>3, FirstCharacters DEF kind
      <4> QED BY <1>2, <2>4, <3>1, <4>1, OneKindHere
    <3>4. CASE quote # "'"
      <4>1. QuotedTo(i, e, "\"") /\ ~QuotedTo(i, e, "'") /\ kind = "string"
        BY <1>3, <3>2, <3>4, FirstCharacters DEF kind
      <4> QED BY <1>2, <2>4, <3>1, <4>1, OneKindHere
    <3> QED BY <3>3, <3>4
  <2>6. EndsToken(i, e)
    <3>1. IsToken(Word(i, e))
      BY <2>5 DEF IsToken
    <3>2. ASSUME NEW c \in e + 1 .. Len(text) + 1, IsToken(Word(i, c)) PROVE FALSE
      <4>1. c \in i + 1 .. Len(text) + 1 /\ c # e /\ ~(c <= o)
        BY <1>2, <1>4, <1>7, <3>2, <2>2
      <4>2. c \in Places /\ i <= c /\ ~SpelledTo(i, c) /\ ~IntegerTo(i, c) /\ ~FloatTo(i, c) /\ ~IdentifierTo(i, c)
        BY <1>9, <4>1
      <4>3. QuotedTo(i, c, "'") \/ QuotedTo(i, c, "\"")
        BY <1>2, <3>2, <4>2, KindsHere
      <4> QED BY <1>8, <4>1, <4>3, FirstCharacters
    <3> QED BY <2>2, <3>1, <3>2 DEF EndsToken
  <2>7. ~IsCut(text, Word(i, e), e)
    <3>1. ~IsInteger(Word(i, e)) /\ ~IsFloat(Word(i, e))
      BY <1>2, <1>9, <2>2, IntegerIs, FloatIs
    <3> QED BY <3>1 DEF IsCut
  <2>8. Rest(i) = <<Piece(kind, i, e - i)>> \o Rest(e) /\ kind \notin {"open comment", "none"}
    BY <1>2, <2>5, <2>6, <2>7, TokenIsTaken
  <2> HIDE DEF s
  <2>9. RightAdd(kind, s.end, s.errors)
    BY <1>7, <1>10, <2>8 DEF RightAdd, i
  <2> QED BY <2>9
<1>11. CASE s.errors # <<>>
  <2>1. ASSUME NEW b \in i + 1 .. Len(text) + 1, IsToken(Word(i, b)) PROVE IdentifierTo(i, b) /\ b <= o /\ q # 0
    <3>1. b \in Places /\ i <= b /\ ~SpelledTo(i, b) /\ ~IntegerTo(i, b) /\ ~FloatTo(i, b)
          /\ (IdentifierTo(i, b) => b <= o /\ q # 0)
      BY <1>9
    <3>2. ~QuotedTo(i, b, "'") /\ ~QuotedTo(i, b, "\"")
      BY <1>8, <1>11, FirstCharacters
    <3> QED BY <1>2, <2>1, <3>1, <3>2, KindsHere
  <2>2. ~WellFormed(Rest(i))
    <3>1. CASE q = 0
      <4>1. NoToken(i)
        BY <2>1, <3>1 DEF NoToken
      <4> QED BY <1>2, <4>1, NoTokenIsIllFormed
    <3>2. CASE q # 0
      <4>1. o \in i + 1 .. Len(text) + 1 /\ i < o
        BY <1>2, <1>3, <1>4, <3>2
      <4>2. IdentifierTo(i, o)
        <5>1. text[i] \notin Digits
          BY <1>3, <3>2, FirstCharacters
        <5> QED BY <1>3, <4>1, <5>1 DEF IdentifierTo, Throughout
      <4>3. IsToken(Word(i, o))
        <5>1. \E k \in Listed : IsListed(k, Word(i, o))
          <6>1. o \in Places /\ i <= o
            BY <1>9, <4>1
          <6>2. IsListed("identifier", Word(i, o)) \/ IsListed("keyword", Word(i, o))
            BY <1>2, <4>2, <6>1, KindsHere
          <6> QED BY <6>2 DEF Listed
        <5> QED BY <5>1, KindsSplit DEF IsToken
      <4>4. EndsToken(i, o)
        <5>1. ASSUME NEW c \in o + 1 .. Len(text) + 1, IsToken(Word(i, c)) PROVE FALSE
          <6>1. c \in i + 1 .. Len(text) + 1 /\ ~(c <= o)
            BY <1>2, <1>4, <5>1
          <6> QED BY <2>1, <5>1, <6>1
        <5> QED BY <4>1, <4>3, <5>1 DEF EndsToken
      <4>5. ~IsCut(text, Word(i, o), o)
        <5>1. ~IsInteger(Word(i, o)) /\ ~IsFloat(Word(i, o))
          BY <1>2, <1>9, <4>1, IntegerIs, FloatIs
        <5> QED BY <5>1 DEF IsCut
      <4>6. Rest(i) = <<Piece(CHOOSE k \in Kinds(Word(i, o)) : TRUE, i, o - i)>> \o Rest(o)
        BY <1>2, <4>4, <4>5, RestIsToken
      <4>7. NeedsToken(o)
        <5>1. text[o] \notin Blanks /\ text[o] # "/"
          BY <1>3, FirstCharacters
        <5> QED BY <1>3, <1>4, <5>1, TokenIsNeeded
      <4>8. ASSUME NEW b \in o + 1 .. Len(text) + 1, IsToken(Word(o, b)) PROVE FALSE
        <5>1. b \in Places /\ o <= b /\ b \in Nat /\ b \in 1 .. Len(text) + 1
          BY <1>2, <1>4, <4>8 DEF Places
        <5>2. text[o] \notin IdentifierPart /\ text[o] \notin Digits /\ text[o] # "." /\ text[o] \notin IdentifierStart
              /\ text[o] \notin {"L", "u", "U"}
          <6> DEFINE c == text[o]
          <6>1. c \in Quotes
            BY <1>3
          <6> HIDE DEF c
          <6>2. c \notin IdentifierPart /\ c \notin {".", "L", "u", "U"}
            BY <6>1, FirstCharacters
          <6>3. c \notin Digits /\ c \notin IdentifierStart
            BY <6>2 DEF IdentifierPart
          <6> QED BY <6>2, <6>3 DEF c
        <5>3. ~SpelledTo(o, b)
          BY <1>3, <1>4, <5>1, TokensBegin
        <5>4. ~IdentifierTo(o, b) /\ ~IntegerTo(o, b) /\ ~FloatTo(o, b)
          BY <1>4, <5>1, <5>2, TokensBegin
        <5>5. PICK r \in Quotes : QuotedTo(o, b, r)
          BY <1>4, <4>8, <5>1, <5>3, <5>4, KindsHere, FirstCharacters
        <5>6. PICK m \in o .. b - 2 : LiteralTo(m, b, r) /\ text[m] = r /\ (m = o \/ text[o] \in {"L", "u", "U"})
          BY <1>4, <5>1, <5>5, TokensBegin
        <5>7. LiteralTo(o, b, quote)
          BY <1>3, <5>2, <5>6
        <5> QED BY <1>3, <1>4, <1>5, <1>11, <5>1, <5>7, LiteralIsQuoted
      <4>9. Rest(o) = <<Piece("none", o, 1)>>
        <5>1. NoToken(o)
          BY <4>8 DEF NoToken
        <5> QED BY <4>7, <5>1, RestIsNone
      <4> QED BY <4>6, <4>9, IllFormedNext
    <3> QED BY <3>1, <3>2
  <2> HIDE DEF s
  <2>3. RightAdd(kind, s.end, s.errors)
    BY <1>7, <1>11, <2>2 DEF RightAdd, i
  <2> QED BY <2>3
<1> QED BY <1>10, <1>11

-----------------------------------------------------------------------------
(* The turns that lex identifiers and punctuators.                         *)

LEMMA NothingIsASequence == IsSequence(<<>>)
<1>1. <<>> \in Seq({})
  OBVIOUS
<1> QED BY <1>1 DEF IsSequence

(* A token that is no number is right if it is longest.                    *)
LEMMA TokenRight ==
  ASSUME IsText, here \in Positions, AtToken, NEW kind, NEW end, Add(kind, Scan(end, <<>>)),
         EndsToken(here.at, end.at), ~IntegerTo(here.at, end.at), ~FloatTo(here.at, end.at),
         Kinds(Word(here.at, end.at)) = {kind}
  PROVE  RightAdd(kind, end, <<>>)
<1> DEFINE i == here.at
           e == end.at
<1>1. NeedsToken(i) /\ i \in Places /\ i \in Nat
  BY TokenHere
<1>2. e \in Places /\ i <= e
  <2>1. e \in i + 1 .. Len(text) + 1
    BY DEF EndsToken
  <2> HIDE DEF e
  <2> QED BY <1>1, <2>1 DEF Places, IsText
<1>3. ~IsInteger(Word(i, e)) /\ ~IsFloat(Word(i, e))
  BY <1>1, <1>2, IntegerIs, FloatIs
<1>4. ~IsCut(text, Word(i, e), e)
  BY <1>3 DEF IsCut
<1>5. Rest(i) = <<Piece(kind, i, e - i)>> \o Rest(e) /\ kind \notin {"open comment", "none"}
  BY <1>1, <1>4, TokenIsTaken
<1>6. here' = end /\ tokens' = Append(tokens, TokenAt(kind, end)) /\ Complains(<<>>)
  BY DEF Add, Scan, Complains
<1> QED BY <1>5, <1>6, NothingIsASequence DEF RightAdd

LEMMA NoLiteralHere ==
  ASSUME IsText, here \in Positions, AtToken, ~AtLiteral, NEW b \in here.at + 1 .. Len(text) + 1, NEW r \in Quotes
  PROVE  ~QuotedTo(here.at, b, r)
<1> DEFINE i == here.at
<1>1. i \in Places /\ i \in Nat /\ i <= Len(text) /\ Len(text) \in Nat
  BY TokenHere
<1>2. b \in Places /\ i <= b /\ b \in Nat
  BY <1>1 DEF Places
<1>3. ASSUME QuotedTo(i, b, r) PROVE FALSE
  <2>1. PICK m \in i .. b - 2 : PrefixTo(i, m, r) /\ text[m] = r
    BY <1>1, <1>2, <1>3, TokensBegin
  <2>2. m <= Len(text)
    BY <1>1, <1>2, <2>1
  <2> QED BY <2>1, <2>2, LiteralHere
<1> QED BY <1>3

LEMMA IdentifierRight ==
  ASSUME IsText, here \in Positions, LexIdentifier
  PROVE  \E kind, end, errors : RightAdd(kind, end, errors)
<1> DEFINE i == here.at
           end == Past(here, IdentifierPart)
           e == end.at
           kind == IF Word(i, e) \in Keywords THEN "keyword" ELSE "identifier"
<1>1. AtToken /\ ~AtLiteral /\ Ahead(here) \in IdentifierStart /\ Add(kind, Scan(end, <<>>))
  BY DEF LexIdentifier, Word
<1>2. /\ NeedsToken(i) /\ i \in Places /\ i \in Nat /\ i >= 1 /\ i <= Len(text) /\ Len(text) \in Nat
      /\ text[i] \in IdentifierStart
  BY <1>1, TokenHere
<1>3. text[i] \in IdentifierPart /\ text[i] \notin Digits /\ text[i] \notin Quotes /\ text[i] # "."
  BY <1>2, FirstCharacters DEF IdentifierPart
<1>4. end \in Positions /\ IsRun(i, e, IdentifierPart)
  BY PastRuns, FirstCharacters
<1> HIDE DEF end, kind
<1>5. e \in Nat /\ e <= Len(text) + 1 /\ i < e
  <2>1. e \in Nat /\ e <= Len(text) + 1 /\ i <= e
    BY <1>2, <1>4 DEF Positions, IsRun
  <2>2. e # i
    BY <1>2, <1>3, <1>4 DEF IsRun
  <2> QED BY <1>2, <2>1, <2>2
<1>6. e \in Places /\ i <= e /\ e \in i + 1 .. Len(text) + 1
  BY <1>2, <1>5 DEF Places
<1>7. IdentifierTo(i, e)
  BY <1>3, <1>4, <1>5 DEF IdentifierTo, IsRun
<1>8. ASSUME NEW b \in i + 1 .. Len(text) + 1
      PROVE  b \in Places /\ i <= b /\ ~SpelledTo(i, b) /\ ~IntegerTo(i, b) /\ ~FloatTo(i, b)
             /\ ~QuotedTo(i, b, "'") /\ ~QuotedTo(i, b, "\"")
  <2>1. b \in Places /\ i <= b
    BY <1>2 DEF Places
  <2>2. ~SpelledTo(i, b) /\ ~IntegerTo(i, b) /\ ~FloatTo(i, b)
    BY <1>2, <1>3, <2>1, TokensBegin
  <2>3. ~QuotedTo(i, b, "'") /\ ~QuotedTo(i, b, "\"")
    BY <1>1, FirstCharacters, NoLiteralHere
  <2> QED BY <2>1, <2>2, <2>3
<1>9. Kinds(Word(i, e)) = {kind}
  BY <1>2, <1>6, <1>7, <1>8, OneKindHere DEF kind
<1>10. EndsToken(i, e)
  <2>1. IsToken(Word(i, e))
    BY <1>9 DEF IsToken
  <2>2. ASSUME NEW c \in e + 1 .. Len(text) + 1, IsToken(Word(i, c)) PROVE FALSE
    <3>1. c \in i + 1 .. Len(text) + 1 /\ e \in i .. c - 1 /\ e <= Len(text)
      BY <1>2, <1>5
    <3>2. IdentifierTo(i, c)
      BY <1>2, <1>8, <2>2, <3>1, KindsHere
    <3> QED BY <1>4, <3>1, <3>2 DEF IdentifierTo, Throughout, IsRun
  <2> QED BY <1>6, <2>1, <2>2 DEF EndsToken
<1>11. RightAdd(kind, end, <<>>)
  <2>1. ~IntegerTo(i, e) /\ ~FloatTo(i, e)
    BY <1>6, <1>8
  <2> QED BY <1>1, <1>9, <1>10, <2>1, TokenRight
<1> QED BY <1>11

-----------------------------------------------------------------------------
LEMMA SameSpellings ==
  ASSUME NEW p
  PROVE  KindOf(p) = PunctuatorKind(p)
<1>1. DOMAIN Alternative = {"<:", ":>", "<%", "%>", "%:", "%:%:"}
  BY DEF Alternative
<1>2. DOMAIN Digraphs = {"%:%:", "<:", ":>", "<%", "%>", "%:"}
  BY DEF Digraphs
<1>3. ASSUME p \in {"<:", ":>", "<%", "%>", "%:", "%:%:"} PROVE Alternative[p] = Digraphs[p]
  BY <1>3 DEF Alternative, Digraphs
<1>4. p \in DOMAIN Alternative <=> p \in DOMAIN Digraphs
  BY <1>1, <1>2
<1> QED BY <1>1, <1>3, <1>4 DEF KindOf, PunctuatorKind

(* Where punctuators begin nothing else does.                              *)
LEMMA OnlySpelledHere ==
  ASSUME IsText, here \in Positions, AtPunctuator, NEW b \in here.at + 1 .. Len(text) + 1
  PROVE  /\ b \in Places /\ here.at <= b
         /\ ~IdentifierTo(here.at, b) /\ ~IntegerTo(here.at, b) /\ ~FloatTo(here.at, b)
         /\ ~QuotedTo(here.at, b, "'") /\ ~QuotedTo(here.at, b, "\"")
         /\ IsToken(Word(here.at, b)) => SpelledTo(here.at, b)
         /\ {k \in Listed : IsListed(k, Word(here.at, b))} = {}
<1> DEFINE i == here.at
<1>1. AtToken /\ Ahead(here) \notin Quotes \union IdentifierPart /\ ~(Ahead(here) = "." /\ Peek(here, 1) \in Digits)
  BY DEF AtPunctuator
<1>2. /\ i \in Places /\ i \in Nat /\ i <= Len(text) /\ Len(text) \in Nat
      /\ text[i] \notin Quotes /\ text[i] \notin IdentifierPart
      /\ i + 1 <= Len(text) => ~(text[i] = "." /\ text[i + 1] \in Digits)
  BY <1>1, TokenHere
<1>3. b \in Places /\ i <= b /\ b \in Nat
  BY <1>2 DEF Places
<1>4. text[i] \notin IdentifierStart /\ text[i] \notin Digits /\ text[i] \notin {"L", "u", "U"}
  BY <1>2, FirstCharacters DEF IdentifierPart
<1>5. ~IdentifierTo(i, b)
  BY <1>2, <1>3, <1>4, TokensBegin
<1>6. ~IntegerTo(i, b) /\ ~FloatTo(i, b)
  <2>1. i + 2 <= b => i + 1 <= Len(text)
    BY <1>2, <1>3
  <2> QED BY <1>2, <1>3, <1>4, <2>1, TokensBegin
<1>7. ASSUME NEW r \in Quotes PROVE ~QuotedTo(i, b, r)
  BY <1>2, <1>3, <1>4, TokensBegin
<1>8. ~QuotedTo(i, b, "'") /\ ~QuotedTo(i, b, "\"")
  BY <1>7, FirstCharacters
<1>9. IsToken(Word(i, b)) => SpelledTo(i, b)
  BY <1>2, <1>3, <1>5, <1>6, <1>8, KindsHere
<1>10. ASSUME NEW k \in Listed PROVE ~IsListed(k, Word(i, b))
  <2>1. /\ ~IsListed("identifier", Word(i, b)) /\ ~IsListed("keyword", Word(i, b)) /\ ~IsListed("integer", Word(i, b))
        /\ ~IsListed("float", Word(i, b)) /\ ~IsListed("char", Word(i, b)) /\ ~IsListed("string", Word(i, b))
    BY <1>2, <1>3, <1>5, <1>6, <1>8, KindsHere
  <2> QED BY <2>1 DEF Listed
<1> QED BY <1>3, <1>5, <1>6, <1>8, <1>9, <1>10

LEMMA MatchesIs ==
  ASSUME IsText, here \in Positions, AtToken, NEW j \in DOMAIN Spellings
  PROVE  /\ Len(Spellings[j]) \in Nat /\ Len(Spellings[j]) >= 1
         /\ Matches(Spellings[j])
            <=> /\ here.at + Len(Spellings[j]) <= Len(text) + 1
                /\ Word(here.at, here.at + Len(Spellings[j])) = Spellings[j]
<1> DEFINE i == here.at
           n == Len(Spellings[j])
<1>1. i \in Nat /\ Len(text) \in Nat /\ n \in Nat /\ n >= 1
  BY TokenHere, SpellingsAssumption
<1> HIDE DEF n
<1>2. (i + n) - 1 <= Len(text) <=> i + n <= Len(text) + 1
  BY <1>1
<1>3. Matches(Spellings[j]) <=> (i + n) - 1 <= Len(text) /\ SubSeq(text, i, (i + n) - 1) = Spellings[j]
  BY DEF Matches, n
<1> QED BY <1>1, <1>2, <1>3 DEF Word, n

LEMMA PunctuatorRight ==
  ASSUME IsText, here \in Positions, LexPunctuator
  PROVE  \E kind, end, errors : RightAdd(kind, end, errors)
<1> DEFINE i == here.at
           j == FirstMatch
           n == Len(Spellings[j])
           b == i + n
           w == Word(i, b)
           end == AdvanceBy(here, n)
           kind == PunctuatorKind(PunctuatorTable[j])
<1>1. AtPunctuator /\ AtToken /\ Add(kind, Scan(end, <<>>)) /\ \E k \in DOMAIN Spellings : Matches(Spellings[k])
  BY DEF LexPunctuator, AtPunctuator
<1>2. /\ NeedsToken(i) /\ i \in Places /\ i \in Nat /\ i >= 1 /\ i <= Len(text) /\ Len(text) \in Nat
  BY <1>1, TokenHere
<1>3. j \in DOMAIN Spellings /\ Matches(Spellings[j]) /\ \A k \in 1 .. j - 1 : ~Matches(Spellings[k])
  BY <1>1, FirstMatchIs
<1>4. DOMAIN Spellings = DOMAIN PunctuatorTable
      /\ \A k \in DOMAIN Spellings : k \in Nat /\ k >= 1 /\ Spellings[k] = Characters(PunctuatorTable[k])
  <2>1. DOMAIN Spellings = DOMAIN PunctuatorTable
        /\ \A k \in DOMAIN Spellings : Spellings[k] = Characters(PunctuatorTable[k])
    BY DEF Spellings
  <2> DEFINE last == Len(PunctuatorTable)
  <2>2. DOMAIN PunctuatorTable = 1 .. last /\ last \in Nat
    BY DEF PunctuatorTable
  <2> HIDE DEF last
  <2> QED BY <2>1, <2>2
<1>5. n \in Nat /\ n >= 1 /\ b <= Len(text) + 1 /\ w = Spellings[j]
  BY <1>1, <1>3, MatchesIs
<1> HIDE DEF j
<1>6. b \in Places /\ i <= b /\ b \in i + 1 .. Len(text) + 1
  <2> HIDE DEF n
  <2> QED BY <1>2, <1>5 DEF Places
<1>7. SpelledTo(i, b) /\ \A k \in i .. b - 1 : text[k] \notin Blanks
  <2>1. SpelledTo(i, b)
    BY <1>2, <1>3, <1>5, <1>6, SpelledIs
  <2> QED BY <1>2, <1>6, <2>1, SpelledIs
<1>8. end \in Positions /\ end.at = b
  <2>1. \A k \in i .. b - 1 : text[k] # CR
    BY <1>7 DEF Blanks
  <2> HIDE DEF n
  <2>2. ASSUME NEW k \in i .. i + n - 1 PROVE text[k] # CR
    <3>1. k \in i .. b - 1
      BY <1>2, <1>5, <2>2
    <3> QED BY <2>1, <3>1
  <2> QED BY <1>5, <2>2, StepsOver
<1>9. Kinds(w) = {kind}
  <2>1. Spelled(w) = {PunctuatorTable[j]}
    <3>1. Punctuator = {PunctuatorTable[k] : k \in DOMAIN PunctuatorTable}
      BY WordsAssumption
    <3>2. ASSUME NEW k \in DOMAIN PunctuatorTable, Characters(PunctuatorTable[k]) = w PROVE k = j
      <4>1. Spellings[k] = Spellings[j] /\ k \in DOMAIN Spellings /\ k \in Nat /\ j \in Nat
        BY <1>3, <1>4, <1>5, <3>2
      <4>2. ~(k < j) /\ ~(j < k)
        BY <1>3, <4>1, WordsAssumption
      <4> QED BY <4>1, <4>2
    <3>3. PunctuatorTable[j] \in Spelled(w)
      BY <1>3, <1>4, <1>5, <3>1 DEF Spelled
    <3>4. ASSUME NEW p \in Spelled(w) PROVE p = PunctuatorTable[j]
      BY <3>1, <3>2 DEF Spelled
    <3> QED BY <3>3, <3>4
  <2>2. {k \in Listed : IsListed(k, w)} = {}
    BY <1>1, <1>6, OnlySpelledHere
  <2>3. KindOf(PunctuatorTable[j]) = kind
    BY SameSpellings
  <2> HIDE DEF w, kind
  <2>4. {KindOf(p) : p \in Spelled(w)} = {kind}
    BY <2>1, <2>3
  <2> QED BY <2>2, <2>4, KindsSplit
<1>10. EndsToken(i, b)
  <2>1. IsToken(w)
    BY <1>9 DEF IsToken
  <2>2. ASSUME NEW c \in b + 1 .. Len(text) + 1, IsToken(Word(i, c)) PROVE FALSE
    <3>1. c \in i + 1 .. Len(text) + 1 /\ c \in Places /\ i <= c /\ c \in Nat /\ b < c
      <4> HIDE DEF n
      <4> QED BY <1>2, <1>5, <1>6 DEF Places
    <3>2. SpelledTo(i, c)
      BY <1>1, <2>2, <3>1, OnlySpelledHere
    <3>3. PICK k \in DOMAIN Spellings : Word(i, c) = Spellings[k]
      BY <1>2, <3>1, <3>2, SpelledIs
    <3>4. Len(Spellings[k]) = c - i
      BY <1>2, <3>1, <3>3, WordBegins
    <3>5. i + Len(Spellings[k]) = c
      BY <1>2, <3>1, <3>4
    <3>6. Matches(Spellings[k])
      <4>1. i + Len(Spellings[k]) <= Len(text) + 1 /\ Word(i, i + Len(Spellings[k])) = Spellings[k]
        BY <3>1, <3>3, <3>5
      <4> QED BY <1>1, <4>1, MatchesIs
    <3>7. k \in Nat /\ j \in Nat /\ k >= 1 /\ ~(k < j)
      <4>1. k \in Nat /\ j \in Nat /\ k >= 1
        BY <1>3, <1>4
      <4>2. k \notin 1 .. j - 1
        BY <1>3, <3>6
      <4> QED BY <4>1, <4>2
    <3>8. k # j /\ n < c - i
      <4>1. n < c - i
        <5> HIDE DEF n
        <5> QED BY <1>2, <1>5, <3>1
      <4>2. k = j => n = c - i
        BY <3>4
      <4> QED BY <1>2, <1>5, <3>1, <4>1, <4>2
    <3>9. j < k
      BY <3>7, <3>8
    <3>10. n >= c - i
      BY <1>3, <3>4, <3>9, WordsAssumption
    <3> HIDE DEF n
    <3> QED BY <1>2, <1>5, <3>1, <3>8, <3>10
  <2> QED BY <1>6, <2>1, <2>2 DEF EndsToken
<1>11. ~IntegerTo(i, b) /\ ~FloatTo(i, b)
  BY <1>1, <1>6, OnlySpelledHere
<1> HIDE DEF kind, end, b
<1>12. RightAdd(kind, end, <<>>)
  BY <1>1, <1>8, <1>9, <1>10, <1>11, TokenRight
<1> QED BY <1>12

LEMMA InvalidRight ==
  ASSUME IsText, here \in Positions, LexInvalidCharacter
  PROVE  \E kind, end, errors : RightAdd(kind, end, errors)
<1> DEFINE i == here.at
           message == "unexpected character"
           kind == "invalid"
           end == Advance(here)
<1>1. AtPunctuator /\ AtToken /\ Add(kind, Scan(end, <<message>>)) /\ ~\E k \in DOMAIN Spellings : Matches(Spellings[k])
  BY DEF LexInvalidCharacter, AtPunctuator
<1>2. /\ NeedsToken(i) /\ i \in Places /\ i \in Nat /\ i >= 1 /\ i <= Len(text) /\ Len(text) \in Nat
  BY <1>1, TokenHere
<1>3. ASSUME NEW c \in i + 1 .. Len(text) + 1, IsToken(Word(i, c)) PROVE FALSE
  <2>1. c \in Places /\ i <= c /\ SpelledTo(i, c) /\ c \in Nat /\ c <= Len(text) + 1
    <3>1. c \in Nat /\ c <= Len(text) + 1
      BY <1>2
    <3>2. c \in Places /\ i <= c /\ SpelledTo(i, c)
      BY <1>1, <1>3, OnlySpelledHere
    <3> QED BY <3>1, <3>2
  <2>2. PICK k \in DOMAIN Spellings : Word(i, c) = Spellings[k]
    BY <1>2, <2>1, SpelledIs
  <2>3. Len(Spellings[k]) = c - i
    BY <1>2, <2>1, <2>2, WordBegins
  <2>4. i + Len(Spellings[k]) = c
    BY <1>2, <2>1, <2>3
  <2>5. i + Len(Spellings[k]) <= Len(text) + 1 /\ Word(i, i + Len(Spellings[k])) = Spellings[k]
    BY <2>1, <2>2, <2>4
  <2> QED BY <1>1, <2>5, MatchesIs
<1>4. ~WellFormed(Rest(i))
  <2>1. NoToken(i)
    BY <1>3 DEF NoToken
  <2> QED BY <1>2, <2>1, NoTokenIsIllFormed
<1> HIDE DEF message, kind, end
<1>5. here' = end /\ tokens' = Append(tokens, TokenAt(kind, end)) /\ Complains(<<message>>)
  BY <1>1 DEF Add, Scan, Complains
<1>6. IsSequence(<<message>>) /\ <<message>> # <<>>
  <2>1. <<message>> \in Seq({message}) /\ Len(<<message>>) = 1
    BY OneIs
  <2>2. IsSequence(<<message>>)
    BY <2>1 DEF IsSequence
  <2> QED BY <2>2
<1>7. RightAdd(kind, end, <<message>>)
  BY <1>4, <1>5, <1>6 DEF RightAdd
<1> QED BY <1>7

-----------------------------------------------------------------------------
(* How numbers are scanned.                                                *)

(* There is one position at a place.                                       *)
LEMMA SamePosition ==
  ASSUME IsText, NEW p \in Positions, NEW q \in Positions, p.at = q.at
  PROVE  p = q
<1>1. p \in PositionSet /\ q \in PositionSet /\ IsTrue(p) /\ IsTrue(q)
  BY DEF Positions
<1>2. p.line = q.line
  BY <1>1 DEF IsTrue
<1>3. PICK b \in Begun(p.at) : p.column = p.at - b + 1 /\ \A c \in Begun(p.at) : c <= b
  BY <1>1 DEF IsTrue
<1>4. PICK d \in Begun(p.at) : q.column = p.at - d + 1 /\ \A c \in Begun(p.at) : c <= d
  BY <1>1 DEF IsTrue
<1>5. b \in Int /\ d \in Int /\ b <= d /\ d <= b
  <2>1. Beginnings \subseteq Int
    BY DEF Beginnings, IsText
  <2> QED BY <1>3, <1>4, <2>1 DEF Begun
<1>6. b = d
  BY <1>5
<1>7. p.column = q.column
  BY <1>3, <1>4, <1>6
<1> QED BY <1>1, <1>2, <1>7 DEF PositionSet

LEMMA ErrorIfIs ==
  ASSUME NEW condition \in BOOLEAN, NEW error
  PROVE  IsSequence(ErrorIf(condition, error)) /\ (ErrorIf(condition, error) = <<>> <=> ~condition)
<1>1. <<error>> \in Seq({error}) /\ Len(<<error>>) = 1 /\ <<>> \in Seq({})
  BY OneIs
<1>2. IsSequence(<<error>>) /\ IsSequence(<<>>) /\ <<error>> # <<>>
  BY <1>1, NothingIsASequence DEF IsSequence
<1>3. CASE condition
  BY <1>2, <1>3 DEF ErrorIf
<1>4. CASE ~condition
  BY <1>2, <1>4 DEF ErrorIf
<1> QED BY <1>3, <1>4

LEMMA ErrorsTogether ==
  ASSUME NEW a, NEW b, IsSequence(a), IsSequence(b)
  PROVE  IsSequence(a \o b) /\ (a \o b = <<>> <=> a = <<>> /\ b = <<>>)
<1>1. PICK S : a \in Seq(S)
  BY DEF IsSequence
<1>2. PICK T : b \in Seq(T)
  BY DEF IsSequence
<1>3. a \in Seq(S \union T) /\ b \in Seq(S \union T)
  BY <1>1, <1>2
<1>4. a \o b \in Seq(S \union T)
  BY <1>3
<1> QED BY <1>3, <1>4, NoErrorsOfTwo DEF IsSequence

(* A character of a class lies at a place.                                 *)
Has(k, class) == k <= Len(text) /\ text[k] \in class

LEMMA RunEnds ==
  ASSUME IsText, NEW a \in Nat, NEW c \in Nat, NEW class, IsRun(a, c, class),
         NEW d \in Nat, a <= d, d <= Len(text) + 1, Throughout(a, d, class)
  PROVE  d <= c
<1>1. ASSUME c < d PROVE FALSE
  <2>1. c \in a .. d - 1 /\ c <= Len(text)
    BY <1>1 DEF IsRun, IsText
  <2> QED BY <2>1 DEF IsRun, Throughout
<1> QED BY <1>1

LEMMA RunStops ==
  ASSUME IsText, NEW a \in Nat, NEW c \in Nat, NEW class, IsRun(a, c, class),
         NEW d \in Nat, a <= d, d <= c, text[d] \notin class
  PROVE  d = c
<1>1. d < c => d \in a .. c - 1
  OBVIOUS
<1> QED BY <1>1 DEF IsRun, Throughout

(* Digits, a dot and digits, and an exponent, by where they end.           *)
IsShape(j, W, F, G, E, class, letters) ==
  /\ W \in Nat /\ F \in Nat /\ G \in Nat /\ E \in Nat
  /\ W <= Len(text) + 1 /\ F <= Len(text) + 1 /\ E <= Len(text) + 1
  /\ j <= W /\ W <= F /\ F <= G /\ G <= E
  /\ IsRun(j, W, class)
  /\ Has(W, {"."}) => IsRun(W + 1, F, class)
  /\ ~Has(W, {"."}) => F = W
  /\ Has(F, letters) => /\ Has(F + 1, Signs) => G = F + 2
                        /\ ~Has(F + 1, Signs) => G = F + 1
                        /\ IsRun(G, E, Digits)
  /\ ~Has(F, letters) => G = F /\ E = F

LEMMA HasAhead ==
  ASSUME IsText, NEW p \in Positions, NEW class, NUL \notin class
  PROVE  (Ahead(p) \in class <=> Has(p.at, class)) /\ (Ahead(p) = "." <=> Has(p.at, {"."}))
<1>1. p.at \in Nat /\ p.at >= 1 /\ Len(text) \in Nat /\ (~AtEnd(p) => Ahead(p) = text[p.at]) /\ (AtEnd(p) => Ahead(p) = NUL)
      /\ (AtEnd(p) <=> p.at > Len(text))
  BY AheadIs DEF AtEnd
<1>2. NUL # "."
  BY DEF NUL
<1> QED BY <1>1, <1>2 DEF Has

LEMMA ExponentEnds ==
  ASSUME IsText, NEW p \in Positions, p.at <= Len(text), text[p.at] # CR
  PROVE  LET F == p.at
             G == IF Has(F + 1, Signs) THEN F + 2 ELSE F + 1
             s == Exponent(p)
         IN  /\ s.end \in Positions /\ IsRun(G, s.end.at, Digits) /\ G \in Nat
             /\ IsSequence(s.errors) /\ (s.errors = <<>> <=> G < s.end.at)
<1> DEFINE F == p.at
           G == IF Has(F + 1, Signs) THEN F + 2 ELSE F + 1
           digits == PastOne(Advance(p), {"+", "-"})
           end == Past(digits, Digits)
           s == Exponent(p)
<1>1. F \in Nat /\ Len(text) \in Nat /\ Advance(p) \in Positions /\ Advance(p).at = F + 1
  BY AheadIs, OneStep
<1>2. digits \in Positions /\ digits.at = G
  <2>1. CR \notin {"+", "-"} /\ Signs = {"+", "-"}
    BY DEF CR, Signs
  <2>2. /\ digits \in Positions
        /\ Has(F + 1, Signs) => digits.at = (F + 1) + 1
        /\ ~Has(F + 1, Signs) => digits = Advance(p)
    BY <1>1, <2>1, PastOneIs DEF Has
  <2>3. (F + 1) + 1 = F + 2
    BY <1>1
  <2> HIDE DEF digits
  <2> QED BY <1>1, <2>2, <2>3
<1> HIDE DEF digits
<1>3. end \in Positions /\ IsRun(G, end.at, Digits)
  BY <1>2, FirstCharacters, PastRuns
<1>4. s.end = end /\ s.errors = ErrorIf(end = digits, "no digits in the exponent")
  BY DEF Exponent, Scan, digits
<1>5. G \in Nat /\ end.at \in Nat /\ G <= end.at
  BY <1>1, <1>3 DEF Positions, IsRun
<1>6. end = digits <=> ~(G < end.at)
  <2>1. end.at = digits.at => end = digits
    BY <1>2, <1>3, SamePosition
  <2>2. end = digits => end.at = G
    BY <1>2
  <2> HIDE DEF G, end
  <2> QED BY <1>2, <1>5, <2>1, <2>2
<1>7. IsSequence(s.errors) /\ (s.errors = <<>> <=> ~(end = digits))
  BY <1>4, ErrorIfIs
<1> HIDE DEF G, end, s
<1>8. /\ s.end \in Positions /\ IsRun(G, s.end.at, Digits) /\ G \in Nat
      /\ IsSequence(s.errors) /\ (s.errors = <<>> <=> G < s.end.at)
  BY <1>3, <1>4, <1>5, <1>6, <1>7
<1> QED BY <1>8 DEF G, s

(* The lexer's scan of digits, from a position on.                         *)
LEMMA DigitsScanned ==
  ASSUME IsText, NEW p \in Positions, NEW class, CR \notin class, NEW letters, CR \notin letters, NUL \notin letters
  PROVE  LET whole == Past(p, class)
             dotted == Ahead(whole) = "."
             fraction == IF dotted THEN Past(Advance(whole), class) ELSE whole
             powered == Ahead(fraction) \in letters
             power == IF powered THEN Exponent(fraction) ELSE Scan(fraction, <<>>)
         IN  /\ whole \in Positions /\ fraction \in Positions /\ power.end \in Positions
             /\ dotted <=> Has(whole.at, {"."})
             /\ powered <=> Has(fraction.at, letters)
             /\ IsSequence(power.errors)
             /\ \E G : /\ IsShape(p.at, whole.at, fraction.at, G, power.end.at, class, letters)
                       /\ power.errors = <<>> <=> (powered => G < power.end.at)
<1> DEFINE whole == Past(p, class)
           dotted == Ahead(whole) = "."
           fraction == IF dotted THEN Past(Advance(whole), class) ELSE whole
           powered == Ahead(fraction) \in letters
           power == IF powered THEN Exponent(fraction) ELSE Scan(fraction, <<>>)
           W == whole.at
           F == fraction.at
           E == power.end.at
           G == IF powered THEN (IF Has(F + 1, Signs) THEN F + 2 ELSE F + 1) ELSE F
<1>1. whole \in Positions /\ IsRun(p.at, W, class)
  BY PastRuns
<1>2. dotted <=> Has(W, {"."})
  <2>1. NUL \notin {}
    OBVIOUS
  <2> HIDE DEF whole
  <2> QED BY <1>1, <2>1, HasAhead
<1> HIDE DEF whole
<1>3. W \in Nat /\ W <= Len(text) + 1 /\ Len(text) \in Nat /\ p.at \in Nat
  BY <1>1, AheadIs DEF Positions
<1>4. /\ fraction \in Positions
      /\ dotted => IsRun(W + 1, F, class)
      /\ ~dotted => F = W
  <2>1. CASE dotted
    <3>1. W <= Len(text) /\ text[W] # CR
      BY <1>2, <2>1 DEF Has, CR
    <3>2. Advance(whole) \in Positions /\ Advance(whole).at = W + 1
      BY <1>1, <3>1, OneStep
    <3>3. fraction = Past(Advance(whole), class)
      BY <2>1
    <3> HIDE DEF fraction
    <3> QED BY <2>1, <3>2, <3>3, PastRuns
  <2>2. CASE ~dotted
    BY <1>1, <2>2
  <2> QED BY <2>1, <2>2
<1> HIDE DEF fraction, dotted
<1>5. F \in Nat /\ F <= Len(text) + 1 /\ W <= F
  <2>1. F \in Nat /\ F <= Len(text) + 1
    BY <1>3, <1>4 DEF Positions
  <2>2. dotted => W + 1 <= F
    BY <1>4 DEF IsRun
  <2> QED BY <1>3, <1>4, <2>1, <2>2
<1>6. powered <=> Has(F, letters)
  BY <1>4, HasAhead
<1>7. CASE powered
  <2>1. F <= Len(text) /\ text[F] # CR
    BY <1>6, <1>7 DEF Has
  <2>2. power = Exponent(fraction) /\ G = IF Has(F + 1, Signs) THEN F + 2 ELSE F + 1
    BY <1>7
  <2>3. /\ power.end \in Positions /\ IsRun(G, E, Digits) /\ G \in Nat
        /\ IsSequence(power.errors) /\ (power.errors = <<>> <=> G < E)
    BY <1>4, <2>1, <2>2, ExponentEnds
  <2>4. E \in Nat /\ E <= Len(text) + 1 /\ G <= E /\ F <= G
    <3>1. E \in Nat /\ E <= Len(text) + 1 /\ G <= E
      <4> HIDE DEF power, G
      <4> QED BY <1>3, <2>3 DEF Positions, IsRun
    <3>2. F <= G
      <4> HIDE DEF powered
      <4> QED BY <1>5, <2>2
    <3> QED BY <3>1, <3>2
  <2>5. (Has(F + 1, Signs) => G = F + 2) /\ (~Has(F + 1, Signs) => G = F + 1)
    BY <2>2
  <2> HIDE DEF power, G, powered
  <2>6. p.at <= W
    BY <1>1 DEF IsRun
  <2>7. IsShape(p.at, W, F, G, E, class, letters)
    BY <1>1, <1>2, <1>3, <1>4, <1>5, <1>6, <1>7, <2>3, <2>4, <2>5, <2>6 DEF IsShape
  <2> QED BY <1>1, <1>2, <1>4, <1>6, <1>7, <2>3, <2>7 DEF power, powered, fraction, dotted, whole
<1>8. CASE ~powered
  <2>1. power = Scan(fraction, <<>>) /\ G = F
    BY <1>8
  <2>2. power.end = fraction /\ power.errors = <<>> /\ E = F
    BY <2>1 DEF Scan
  <2>3. IsSequence(power.errors)
    BY <2>2, NothingIsASequence
  <2> HIDE DEF power, G, powered
  <2>6. p.at <= W
    BY <1>1 DEF IsRun
  <2>7. IsShape(p.at, W, F, G, E, class, letters)
    BY <1>1, <1>2, <1>3, <1>4, <1>5, <1>6, <1>8, <2>1, <2>2, <2>6 DEF IsShape
  <2>8. power.end \in Positions
    BY <1>4, <2>2
  <2> QED BY <1>1, <1>2, <1>4, <1>6, <1>8, <2>2, <2>3, <2>7, <2>8 DEF power, powered, fraction, dotted, whole
<1> QED BY <1>7, <1>8

-----------------------------------------------------------------------------
(* The numbers of a shape.                                                 *)

(* Digits enough for a number.                                             *)
Enough(j, W, F) == IF Has(W, {"."}) THEN j + 2 <= F ELSE j < W

(* Digits, with a dot or without.                                          *)
MantissaTo(j, d, class) == (j < d /\ Throughout(j, d, class)) \/ FractionTo(j, d, class)

(* Those and an exponent.                                                  *)
PoweredTo(j, m, class, letters) == \E d \in j .. m : MantissaTo(j, d, class) /\ PowerTo(d, m, letters)

LEMMA ShapeIs ==
  ASSUME IsText, NEW j \in Nat, NEW W, NEW F, NEW G, NEW E, NEW class, NEW letters, IsShape(j, W, F, G, E, class, letters)
  PROVE  /\ W \in Nat /\ F \in Nat /\ G \in Nat /\ E \in Nat /\ Len(text) \in Nat
         /\ W <= Len(text) + 1 /\ F <= Len(text) + 1 /\ E <= Len(text) + 1
         /\ j <= W /\ W <= F /\ F <= G /\ G <= E
         /\ W + 1 \in Nat
BY DEF IsShape, IsText

LEMMA MantissaOfShape ==
  ASSUME IsText, NEW j \in Nat, NEW W, NEW F, NEW G, NEW E, NEW class, NEW letters, IsShape(j, W, F, G, E, class, letters),
         "." \notin class, NEW d \in Nat, j <= d, d <= Len(text) + 1
  PROVE  /\ Throughout(j, d, class) => d <= W
         /\ FractionTo(j, d, class) => Has(W, {"."}) /\ j + 2 <= d /\ W + 1 <= d /\ d <= F
         /\ MantissaTo(j, d, class) => d <= F
<1>1. /\ W \in Nat /\ F \in Nat /\ Len(text) \in Nat /\ j <= W /\ W <= F /\ W + 1 \in Nat /\ W <= Len(text) + 1
      /\ IsRun(j, W, class) /\ (Has(W, {"."}) => IsRun(W + 1, F, class))
  BY ShapeIs DEF IsShape
<1>2. Throughout(j, d, class) => d <= W
  BY <1>1, RunEnds
<1>3. ASSUME FractionTo(j, d, class) PROVE Has(W, {"."}) /\ j + 2 <= d /\ W + 1 <= d /\ d <= F
  <2>1. j + 2 <= d
    BY <1>3 DEF FractionTo
  <2>2. PICK k \in j .. d - 1 : text[k] = "." /\ Throughout(j, k, class) /\ Throughout(k + 1, d, class)
    BY <1>3 DEF FractionTo
  <2>3. k \in Nat /\ j <= k /\ k <= Len(text) /\ k <= Len(text) + 1 /\ k + 1 <= d
    BY <1>1
  <2>4. k <= W
    BY <1>1, <2>2, <2>3, RunEnds
  <2>5. k = W
    BY <1>1, <2>2, <2>3, <2>4, RunStops
  <2>6. Has(W, {"."})
    BY <2>2, <2>3, <2>5 DEF Has
  <2>7. d <= F
    BY <1>1, <2>2, <2>3, <2>5, <2>6, RunEnds
  <2> QED BY <2>1, <2>3, <2>5, <2>6, <2>7
<1>4. Throughout(j, d, class) => d <= F
  BY <1>1, <1>2
<1> QED BY <1>2, <1>3, <1>4 DEF MantissaTo

LEMMA MantissaEnds ==
  ASSUME IsText, NEW j \in Nat, NEW W, NEW F, NEW G, NEW E, NEW class, NEW letters, IsShape(j, W, F, G, E, class, letters),
         "." \notin class, NEW d \in Nat, j <= d, d <= Len(text) + 1, MantissaTo(j, d, class),
         text[d] \in letters, "." \notin letters, class \intersect letters = {}
  PROVE  d = F /\ Enough(j, W, F)
<1>1. /\ W \in Nat /\ F \in Nat /\ Len(text) \in Nat /\ j <= W /\ W <= F /\ W + 1 \in Nat
      /\ IsRun(j, W, class) /\ (Has(W, {"."}) => IsRun(W + 1, F, class)) /\ (~Has(W, {"."}) => F = W)
  BY ShapeIs DEF IsShape
<1>2. text[d] \notin class
  OBVIOUS
<1>3. CASE FractionTo(j, d, class)
  <2>1. Has(W, {"."}) /\ j + 2 <= d /\ W + 1 <= d /\ d <= F
    BY <1>3, MantissaOfShape
  <2>2. d = F
    BY <1>1, <1>2, <2>1, RunStops
  <2> QED BY <2>1, <2>2 DEF Enough
<1>4. CASE j < d /\ Throughout(j, d, class)
  <2>1. d <= W
    BY <1>4, MantissaOfShape
  <2>2. d = W
    BY <1>1, <1>2, <2>1, RunStops
  <2>3. ~Has(W, {"."})
    BY <2>2 DEF Has
  <2> QED BY <1>1, <1>4, <2>2, <2>3 DEF Enough
<1> QED BY <1>3, <1>4 DEF MantissaTo

LEMMA MantissaThere ==
  ASSUME IsText, NEW j \in Nat, NEW W, NEW F, NEW G, NEW E, NEW class, NEW letters, IsShape(j, W, F, G, E, class, letters)
  PROVE  /\ Has(W, {"."}) /\ j + 2 <= F => FractionTo(j, F, class)
         /\ Enough(j, W, F) => MantissaTo(j, F, class) /\ j < F
<1>1. /\ W \in Nat /\ F \in Nat /\ Len(text) \in Nat /\ j <= W /\ W <= F
      /\ IsRun(j, W, class) /\ (Has(W, {"."}) => IsRun(W + 1, F, class)) /\ (~Has(W, {"."}) => F = W)
  BY ShapeIs DEF IsShape
<1>2. ASSUME Has(W, {"."}), j + 2 <= F PROVE FractionTo(j, F, class)
  <2>1. Throughout(j, W, class) /\ Throughout(W + 1, F, class) /\ W + 1 <= F /\ text[W] = "."
    BY <1>1, <1>2 DEF IsRun, Has
  <2>2. W \in j .. F - 1
    BY <1>1, <2>1
  <2> QED BY <1>2, <2>1, <2>2 DEF FractionTo
<1>3. ASSUME Enough(j, W, F) PROVE MantissaTo(j, F, class) /\ j < F
  <2>1. CASE Has(W, {"."})
    <3>1. j + 2 <= F
      BY <1>3, <2>1 DEF Enough
    <3>2. j < F
      BY <1>1, <3>1
    <3> QED BY <1>2, <2>1, <3>1, <3>2 DEF MantissaTo
  <2>2. CASE ~Has(W, {"."})
    BY <1>1, <1>3, <2>2 DEF Enough, MantissaTo, IsRun
  <2> QED BY <2>1, <2>2
<1> QED BY <1>2, <1>3

LEMMA SignsAreNoDigits == \A c \in Signs : c \notin Digits
BY DEF Signs, Digits

LEMMA PowerOfShape ==
  ASSUME IsText, NEW j \in Nat, NEW W, NEW F, NEW G, NEW E, NEW class, NEW letters, IsShape(j, W, F, G, E, class, letters),
         NEW m \in Nat, m <= Len(text) + 1
  PROVE  /\ PowerTo(F, m, letters) => Has(F, letters) /\ G < m /\ m <= E
         /\ Has(F, letters) /\ G < E => PowerTo(F, E, letters)
<1>1. /\ F \in Nat /\ G \in Nat /\ E \in Nat /\ Len(text) \in Nat /\ F + 1 \in Nat /\ F + 2 \in Nat
      /\ Has(F, letters) => /\ Has(F + 1, Signs) => G = F + 2
                            /\ ~Has(F + 1, Signs) => G = F + 1
                            /\ IsRun(G, E, Digits)
  BY ShapeIs DEF IsShape
<1>2. ASSUME PowerTo(F, m, letters) PROVE Has(F, letters) /\ G < m /\ m <= E
  <2>1. F + 2 <= m /\ text[F] \in letters
    BY <1>2 DEF PowerTo
  <2>2. F <= Len(text) /\ F + 1 <= Len(text) /\ F + 1 <= m /\ F + 1 \in F + 1 .. m - 1
    BY <1>1, <2>1
  <2>3. Has(F, letters)
    BY <2>1, <2>2 DEF Has
  <2>4. CASE Throughout(F + 1, m, Digits)
    <3>1. text[F + 1] \in Digits
      BY <2>2, <2>4 DEF Throughout
    <3>2. ~Has(F + 1, Signs)
      BY <3>1, SignsAreNoDigits DEF Has
    <3>3. G = F + 1
      BY <1>1, <2>3, <3>2
    <3>4. m <= E
      BY <1>1, <2>2, <2>3, <2>4, <3>3, RunEnds
    <3>5. G < m
      BY <1>1, <2>1, <3>3
    <3> QED BY <2>3, <3>4, <3>5
  <2>5. CASE text[F + 1] \in Signs /\ F + 3 <= m /\ Throughout(F + 2, m, Digits)
    <3>1. Has(F + 1, Signs)
      BY <2>2, <2>5 DEF Has
    <3>2. G = F + 2
      BY <1>1, <2>3, <3>1
    <3>3. F + 2 <= m
      BY <2>1
    <3>4. m <= E
      BY <1>1, <2>3, <2>5, <3>2, <3>3, RunEnds
    <3>5. G < m
      BY <1>1, <2>5, <3>2
    <3> QED BY <2>3, <3>4, <3>5
  <2> QED BY <1>2, <2>4, <2>5 DEF PowerTo
<1>3. ASSUME Has(F, letters), G < E PROVE PowerTo(F, E, letters)
  <2>1. text[F] \in letters /\ Throughout(G, E, Digits)
    BY <1>1, <1>3 DEF Has, IsRun
  <2>2. CASE Has(F + 1, Signs)
    <3>1. G = F + 2 /\ text[F + 1] \in Signs
      BY <1>1, <1>3, <2>2 DEF Has
    <3>2. F + 2 <= E /\ F + 3 <= E
      BY <1>1, <1>3, <3>1
    <3> QED BY <2>1, <3>1, <3>2 DEF PowerTo
  <2>3. CASE ~Has(F + 1, Signs)
    <3>1. G = F + 1
      BY <1>1, <1>3, <2>3
    <3>2. F + 2 <= E
      BY <1>1, <1>3, <3>1
    <3> QED BY <2>1, <3>1, <3>2 DEF PowerTo
  <2> QED BY <2>2, <2>3
<1> QED BY <1>2, <1>3

LEMMA PoweredOfShape ==
  ASSUME IsText, NEW j \in Nat, NEW W, NEW F, NEW G, NEW E, NEW class, NEW letters, IsShape(j, W, F, G, E, class, letters),
         "." \notin class, "." \notin letters, class \intersect letters = {}
  PROVE  /\ \A m \in Nat : m <= Len(text) + 1 /\ PoweredTo(j, m, class, letters)
               => Has(F, letters) /\ G < m /\ m <= E /\ Enough(j, W, F)
         /\ Has(F, letters) /\ G < E /\ Enough(j, W, F) => PoweredTo(j, E, class, letters)
<1>1. F \in Nat /\ G \in Nat /\ E \in Nat /\ Len(text) \in Nat /\ j <= W /\ W <= F /\ F <= G /\ E <= Len(text) + 1 /\ W \in Nat
  BY ShapeIs
<1>2. ASSUME NEW m \in Nat, m <= Len(text) + 1, PoweredTo(j, m, class, letters)
      PROVE  Has(F, letters) /\ G < m /\ m <= E /\ Enough(j, W, F)
  <2>1. PICK d \in j .. m : MantissaTo(j, d, class) /\ PowerTo(d, m, letters)
    BY <1>2 DEF PoweredTo
  <2>2. d \in Nat /\ j <= d /\ d <= Len(text) + 1
    BY <1>1, <1>2
  <2>3. text[d] \in letters
    BY <2>1 DEF PowerTo
  <2>4. d = F /\ Enough(j, W, F)
    BY <2>1, <2>2, <2>3, MantissaEnds
  <2> QED BY <1>2, <2>1, <2>4, PowerOfShape
<1>3. ASSUME Has(F, letters), G < E, Enough(j, W, F) PROVE PoweredTo(j, E, class, letters)
  <2>1. MantissaTo(j, F, class)
    BY <1>3, MantissaThere
  <2>2. PowerTo(F, E, letters)
    BY <1>1, <1>3, PowerOfShape
  <2>3. F \in j .. E
    BY <1>1, <1>3
  <2> QED BY <2>1, <2>2, <2>3 DEF PoweredTo
<1> QED BY <1>2, <1>3

(* The lexer's scan of a suffix.                                           *)
IsSuffix(P, S, float) ==
  /\ S \in Nat /\ P <= S /\ S <= Len(text) + 1
  /\ float => (Has(P, FloatSuffixes) => S = P + 1) /\ (~Has(P, FloatSuffixes) => S = P)
  /\ float => Throughout(P, S, FloatSuffixes)
  /\ ~float => IsRun(P, S, IntegerSuffixes)

LEMMA SuffixScanned ==
  ASSUME IsText, NEW p \in Positions, NEW float \in BOOLEAN
  PROVE  LET s == Suffixed(p, float)
         IN  /\ s.end \in Positions /\ IsSequence(s.errors)
             /\ \E S : /\ IsSuffix(p.at, S, float) /\ IsRun(S, s.end.at, IdentifierPart)
                       /\ s.errors = <<>> <=> s.end.at = S
<1> DEFINE end == IF float THEN PastOne(p, {"f", "F", "l", "L"}) ELSE Past(p, {"u", "U", "l", "L"})
           tail == Past(end, IdentifierPart)
           s == Suffixed(p, float)
           S == end.at
           P == p.at
<1>1. s.end = tail /\ s.errors = ErrorIf(tail # end, "invalid suffix")
  BY DEF Suffixed, Scan
<1>2. CR \notin FloatSuffixes /\ CR \notin IntegerSuffixes
      /\ FloatSuffixes = {"f", "F", "l", "L"} /\ IntegerSuffixes = {"u", "U", "l", "L"}
  BY DEF CR, FloatSuffixes, IntegerSuffixes
<1>3. P \in Nat /\ Len(text) \in Nat /\ P <= Len(text) + 1
  BY AheadIs DEF Positions
<1>4. ASSUME float
      PROVE  /\ end \in Positions /\ P <= S
             /\ (Has(P, FloatSuffixes) => S = P + 1) /\ (~Has(P, FloatSuffixes) => S = P)
             /\ Throughout(P, S, FloatSuffixes)
  <2>1. end = PastOne(p, FloatSuffixes)
    BY <1>2, <1>4
  <2> HIDE DEF end
  <2>2. /\ end \in Positions
        /\ Has(P, FloatSuffixes) => S = P + 1
        /\ ~Has(P, FloatSuffixes) => end = p
    BY <1>2, <2>1, PastOneIs DEF Has
  <2>3. CASE Has(P, FloatSuffixes)
    <3>1. S = P + 1 /\ P <= S /\ \A k \in P .. S - 1 : k = P
      BY <1>3, <2>2, <2>3
    <3>2. Throughout(P, S, FloatSuffixes)
      BY <2>3, <3>1 DEF Throughout, Has
    <3> QED BY <2>2, <2>3, <3>1, <3>2
  <2>4. CASE ~Has(P, FloatSuffixes)
    <3>1. S = P /\ P <= S /\ P .. S - 1 = {}
      BY <1>3, <2>2, <2>4
    <3>2. Throughout(P, S, FloatSuffixes)
      BY <3>1 DEF Throughout
    <3> QED BY <2>2, <2>4, <3>1, <3>2
  <2> QED BY <2>3, <2>4
<1>5. ASSUME ~float PROVE end \in Positions /\ IsRun(P, S, IntegerSuffixes) /\ P <= S
  <2>1. end = Past(p, IntegerSuffixes)
    BY <1>2, <1>5
  <2> HIDE DEF end
  <2>2. end \in Positions /\ IsRun(P, S, IntegerSuffixes)
    BY <1>2, <2>1, PastRuns
  <2> QED BY <2>2 DEF IsRun
<1>6. end \in Positions /\ P <= S
  <2> HIDE DEF end
  <2> QED BY <1>4, <1>5
<1> HIDE DEF end
<1>7. tail \in Positions /\ IsRun(S, tail.at, IdentifierPart)
  BY <1>6, PastRuns, FirstCharacters
<1>8. tail = end <=> tail.at = S
  BY <1>6, <1>7, SamePosition
<1>9. S \in Nat /\ S <= Len(text) + 1
  BY <1>3, <1>6 DEF Positions
<1>10. IsSuffix(P, S, float)
  BY <1>4, <1>5, <1>6, <1>9 DEF IsSuffix
<1>11. IsSequence(s.errors) /\ (s.errors = <<>> <=> ~(tail # end))
  BY <1>1, ErrorIfIs
<1> HIDE DEF s, tail
<1>12. /\ s.end \in Positions /\ IsSequence(s.errors)
       /\ IsSuffix(P, S, float) /\ IsRun(S, s.end.at, IdentifierPart)
       /\ (s.errors = <<>> <=> s.end.at = S)
  BY <1>1, <1>7, <1>8, <1>10, <1>11
<1> QED BY <1>12 DEF s

-----------------------------------------------------------------------------
(* Where numbers begin, and the longest of them.                           *)
NumberTo(i, b) == IntegerTo(i, b) \/ FloatTo(i, b)

AtNumber(i) == Has(i, Digits) \/ (Has(i, {"."}) /\ Has(i + 1, Digits))

LongestNumber(i, b) ==
  /\ b \in i + 1 .. Len(text) + 1 /\ NumberTo(i, b)
  /\ \A c \in b + 1 .. Len(text) + 1 : ~NumberTo(i, c)

(* What cuts a number off.                                                 *)
CutAt(i, b) == Has(b, IdentifierPart) \/ (Has(b, {"."}) /\ BasedTo(i, b, Xs, HexDigits))

LEMMA NothingIsThroughout ==
  ASSUME NEW a \in Int, NEW class
  PROVE  Throughout(a, a, class)
<1>1. a .. a - 1 = {}
  OBVIOUS
<1> QED BY <1>1 DEF Throughout

LEMMA OneIsThroughout ==
  ASSUME NEW a \in Int, NEW class, text[a] \in class
  PROVE  Throughout(a, a + 1, class)
<1>1. \A k \in a .. (a + 1) - 1 : k = a
  OBVIOUS
<1> QED BY <1>1 DEF Throughout

(* One digit is a number.                                                  *)
LEMMA OneDigit ==
  ASSUME IsText, NEW i \in Places, Has(i, Digits)
  PROVE  NumberTo(i, i + 1) /\ IntegerTo(i, i + 1) /\ DigitsTo(i, i + 1)
<1>1. i \in Int /\ i + 1 \in i .. i + 1 /\ i < i + 1 /\ i + 1 \in Int
  BY DEF Places, IsText
<1>2. Throughout(i, i + 1, Digits)
  BY <1>1, OneIsThroughout DEF Has
<1>3. text[i] = "0" => Throughout(i, i + 1, OctalDigits)
  <2>1. "0" \in OctalDigits
    BY DEF OctalDigits, Digits
  <2> QED BY <1>1, <2>1, OneIsThroughout
<1>4. DigitsTo(i, i + 1)
  BY <1>1, <1>2, <1>3 DEF DigitsTo
<1>5. Throughout(i + 1, i + 1, IntegerSuffixes)
  BY <1>1, NothingIsThroughout
<1>6. IntegerTo(i, i + 1)
  BY <1>1, <1>4, <1>5 DEF IntegerTo
<1> QED BY <1>4, <1>6 DEF NumberTo

LEMMA FloatWithoutSuffix ==
  ASSUME IsText, NEW i \in Places, NEW m \in Places, i <= m, DecimalFloatTo(i, m) \/ HexFloatTo(i, m)
  PROVE  FloatTo(i, m) /\ NumberTo(i, m)
<1>1. i \in Int /\ m \in Int /\ m \in i .. m /\ m <= m + 1
  BY DEF Places, IsText
<1>2. FloatSuffixTo(m, m)
  BY <1>1, NothingIsThroughout DEF FloatSuffixTo
<1> QED BY <1>1, <1>2 DEF FloatTo, NumberTo

LEMMA SomeNumber ==
  ASSUME IsText, NEW i \in Places, AtNumber(i)
  PROVE  IF Has(i, Digits) THEN NumberTo(i, i + 1) ELSE i + 2 <= Len(text) + 1 /\ NumberTo(i, i + 2)
<1>1. CASE Has(i, Digits)
  BY <1>1, OneDigit
<1>2. CASE ~Has(i, Digits)
  <2>1. text[i] = "." /\ i + 1 <= Len(text) /\ text[i + 1] \in Digits
    BY <1>2 DEF AtNumber, Has
  <2>2. i \in Int /\ i + 1 \in Int /\ i + 2 = (i + 1) + 1 /\ i \in i .. (i + 2) - 1 /\ i + 2 <= i + 2 /\ i + 2 \in i .. i + 2
        /\ i + 2 \in Places /\ i <= i + 2 /\ i + 2 <= Len(text) + 1
    BY <2>1 DEF Places, IsText
  <2>3. Throughout(i, i, Digits) /\ Throughout(i + 1, i + 2, Digits)
    BY <2>1, <2>2, NothingIsThroughout, OneIsThroughout
  <2>4. FractionTo(i, i + 2, Digits)
    BY <2>1, <2>2, <2>3 DEF FractionTo
  <2>5. DecimalFloatTo(i, i + 2)
    BY <2>2, <2>4 DEF DecimalFloatTo
  <2>6. NumberTo(i, i + 2)
    BY <2>2, <2>5, FloatWithoutSuffix
  <2> QED BY <1>2, <2>2, <2>6
<1> QED BY <1>1, <1>2

(* Nothing else begins there, but for a dot.                               *)
LEMMA TokensOfNumbers ==
  ASSUME IsText, NEW i \in Places, AtNumber(i), NEW b \in i + 1 .. Len(text) + 1
  PROVE  /\ b \in Places /\ i <= b
         /\ ~IdentifierTo(i, b) /\ ~QuotedTo(i, b, "'") /\ ~QuotedTo(i, b, "\"")
         /\ SpelledTo(i, b) => text[i] = "." /\ b = i + 1
         /\ NumberTo(i, b) => ~SpelledTo(i, b)
         /\ IsToken(Word(i, b)) <=> SpelledTo(i, b) \/ NumberTo(i, b)
<1>1. i \in Nat /\ i >= 1 /\ b \in Nat /\ b \in Places /\ i <= b /\ Len(text) \in Nat /\ i < b
  BY DEF Places, IsText
<1>2. text[i] \in Digits \/ text[i] = "."
  BY DEF AtNumber, Has
<1>3. text[i] \notin IdentifierStart /\ text[i] \notin Quotes /\ text[i] \notin {"L", "u", "U"}
  <2>1. "." \notin IdentifierStart
    BY DEF IdentifierStart, Letters
  <2>2. CASE text[i] \in Digits
    BY <2>2, FirstCharacters
  <2>3. CASE text[i] = "."
    <3>1. "." \notin Quotes /\ "." \notin {"L", "u", "U"}
      BY DEF Quotes
    <3> QED BY <2>1, <2>3, <3>1
  <2> QED BY <1>2, <2>2, <2>3
<1>4. ~IdentifierTo(i, b)
  BY <1>1, <1>3, TokensBegin
<1>5. ASSUME NEW r \in Quotes PROVE ~QuotedTo(i, b, r)
  <2>1. ASSUME QuotedTo(i, b, r) PROVE FALSE
    <3>1. PICK m \in i .. b - 2 : text[m] = r /\ (m = i \/ text[i] \in {"L", "u", "U"})
      BY <1>1, <2>1, TokensBegin
    <3> QED BY <1>3, <3>1
  <2> QED BY <2>1
<1>6. SpelledTo(i, b) => text[i] = "." /\ b = i + 1
  <2>1. ASSUME SpelledTo(i, b) PROVE text[i] = "." /\ b = i + 1
    <3>1. \A k \in i .. b - 1 : text[k] \notin IdentifierPart
      BY <1>1, <2>1, SpelledIs
    <3>2. text[i] \notin IdentifierPart
      BY <1>1, <3>1
    <3>3. text[i] = "." /\ Has(i + 1, Digits)
      BY <1>2, <3>2, FirstCharacters DEF AtNumber, Has
    <3>4. ASSUME b # i + 1 PROVE FALSE
      <4>1. i + 1 \in i .. b - 1
        BY <1>1, <3>4
      <4>2. text[i + 1] \notin IdentifierPart /\ text[i + 1] \in Digits
        BY <3>1, <3>3, <4>1 DEF Has
      <4> QED BY <4>2, FirstCharacters
    <3> QED BY <3>3, <3>4
  <2> QED BY <2>1
<1>7. NumberTo(i, b) => ~SpelledTo(i, b)
  <2>1. ASSUME NumberTo(i, b), SpelledTo(i, b) PROVE FALSE
    <3>1. text[i] = "." /\ b = i + 1
      BY <1>6, <2>1
    <3>2. text[i] \in Digits \/ i + 2 <= b
      BY <1>1, <2>1, TokensBegin DEF NumberTo
    <3>3. "." \notin Digits
      BY DEF Digits
    <3> QED BY <1>1, <3>1, <3>2, <3>3
  <2> QED BY <2>1
<1>8. IsToken(Word(i, b)) <=> SpelledTo(i, b) \/ NumberTo(i, b)
  <2>1. IsToken(Word(i, b)) => SpelledTo(i, b) \/ NumberTo(i, b)
    BY <1>1, <1>4, <1>5, KindsHere, FirstCharacters DEF NumberTo
  <2>2. SpelledTo(i, b) => IsToken(Word(i, b))
    BY KindsSplit DEF SpelledTo, IsToken
  <2>3. NumberTo(i, b) => IsListed("integer", Word(i, b)) \/ IsListed("float", Word(i, b))
    BY <1>1, KindsHere DEF NumberTo
  <2>4. NumberTo(i, b) => IsToken(Word(i, b))
    BY <2>3, KindsSplit DEF IsToken, Listed
  <2> QED BY <2>1, <2>2, <2>4
<1> QED BY <1>1, <1>4, <1>5, <1>6, <1>7, <1>8, FirstCharacters

LEMMA LongestIsNumber ==
  ASSUME IsText, NEW i \in Places, AtNumber(i), NEW b
  PROVE  EndsToken(i, b) <=> LongestNumber(i, b)
<1>1. i \in Nat /\ Len(text) \in Nat
  BY DEF Places, IsText
<1>2. ASSUME EndsToken(i, b) PROVE LongestNumber(i, b)
  <2>1. b \in i + 1 .. Len(text) + 1 /\ IsToken(Word(i, b)) /\ \A c \in b + 1 .. Len(text) + 1 : ~IsToken(Word(i, c))
    BY <1>2 DEF EndsToken
  <2>2. \A c \in b + 1 .. Len(text) + 1 : c \in i + 1 .. Len(text) + 1
    BY <1>1, <2>1
  <2>3. \A c \in b + 1 .. Len(text) + 1 : ~NumberTo(i, c)
    BY <2>1, <2>2, TokensOfNumbers
  <2>4. ASSUME ~NumberTo(i, b) PROVE FALSE
    <3>1. text[i] = "." /\ b = i + 1
      BY <2>1, <2>4, TokensOfNumbers
    <3>2. ~Has(i, Digits)
      <4>1. "." \notin Digits
        BY DEF Digits
      <4> QED BY <3>1, <4>1 DEF Has
    <3>3. i + 2 <= Len(text) + 1 /\ NumberTo(i, i + 2)
      BY <3>2, SomeNumber
    <3>4. i + 2 \in b + 1 .. Len(text) + 1
      BY <1>1, <3>1, <3>3
    <3> QED BY <2>3, <3>3, <3>4
  <2> QED BY <2>1, <2>3, <2>4 DEF LongestNumber
<1>3. ASSUME LongestNumber(i, b) PROVE EndsToken(i, b)
  <2>1. b \in i + 1 .. Len(text) + 1 /\ NumberTo(i, b) /\ \A c \in b + 1 .. Len(text) + 1 : ~NumberTo(i, c)
    BY <1>3 DEF LongestNumber
  <2>2. ASSUME NEW c \in b + 1 .. Len(text) + 1, IsToken(Word(i, c)) PROVE FALSE
    <3>1. c \in i + 1 .. Len(text) + 1 /\ c # i + 1
      BY <1>1, <2>1
    <3> QED BY <2>1, <2>2, <3>1, TokensOfNumbers
  <2> QED BY <2>1, <2>2, TokensOfNumbers DEF EndsToken
<1> QED BY <1>2, <1>3

LEMMA NumberIsCut ==
  ASSUME IsText, NEW i \in Places, NEW b \in Places, i <= b, NumberTo(i, b)
  PROVE  IsCut(text, Word(i, b), b) <=> CutAt(i, b)
<1>1. IsInteger(Word(i, b)) \/ IsFloat(Word(i, b))
  BY IntegerIs, FloatIs DEF NumberTo
<1>2. IsHexInteger(Word(i, b)) <=> BasedTo(i, b, Xs, HexDigits)
  BY BasedIs DEF IsHexInteger, Xs
<1> QED BY <1>1, <1>2 DEF IsCut, CutAt, EndsNumber, Has

(* Where the longest number is cut off, nothing grammatical goes on.       *)
LEMMA CutNumberIsIllFormed ==
  ASSUME IsText, NEW i \in Places, AtNumber(i), NeedsToken(i),
         \A b : LongestNumber(i, b) => CutAt(i, b)
  PROVE  ~WellFormed(Rest(i))
<1>1. CASE NoToken(i)
  BY <1>1, NoTokenIsIllFormed
<1>2. CASE ~NoToken(i)
  <2>1. PICK b : EndsToken(i, b)
    BY <1>2, SomeTokenEnds
  <2>2. LongestNumber(i, b) /\ CutAt(i, b)
    BY <2>1, LongestIsNumber
  <2>3. b \in Places /\ i <= b /\ NumberTo(i, b)
    BY <2>2, TokensOfNumbers DEF LongestNumber
  <2>4. IsCut(text, Word(i, b), b)
    BY <2>2, <2>3, NumberIsCut
  <2> QED BY <2>1, <2>4, CutTokenIsIllFormed
<1> QED BY <1>1, <1>2

LEMMA NumberTaken ==
  ASSUME IsText, NEW i \in Places, AtNumber(i), NeedsToken(i), NEW b, LongestNumber(i, b), ~CutAt(i, b),
         NEW float \in BOOLEAN, float => ~IntegerTo(i, b), ~float => ~FloatTo(i, b)
  PROVE  Rest(i) = <<Piece(NumberKind(float), i, b - i)>> \o Rest(b) /\ NumberKind(float) \notin {"open comment", "none"}
<1> DEFINE kind == NumberKind(float)
<1>1. EndsToken(i, b) /\ b \in i + 1 .. Len(text) + 1 /\ NumberTo(i, b)
  BY LongestIsNumber DEF LongestNumber
<1>2. b \in Places /\ i <= b /\ ~IdentifierTo(i, b) /\ ~QuotedTo(i, b, "'") /\ ~QuotedTo(i, b, "\"") /\ ~SpelledTo(i, b)
  BY <1>1, TokensOfNumbers
<1>3. ~IsCut(text, Word(i, b), b)
  BY <1>1, <1>2, NumberIsCut
<1>4. Kinds(Word(i, b)) = {kind}
  <2>1. CASE float
    <3>1. FloatTo(i, b) /\ ~IntegerTo(i, b) /\ kind = "float"
      BY <1>1, <2>1 DEF NumberTo, NumberKind
    <3> QED BY <1>2, <3>1, OneKindHere
  <2>2. CASE ~float
    <3>1. IntegerTo(i, b) /\ ~FloatTo(i, b) /\ kind = "integer"
      BY <1>1, <2>2 DEF NumberTo, NumberKind
    <3> QED BY <1>2, <3>1, OneKindHere
  <2> QED BY <2>1, <2>2
<1> HIDE DEF kind
<1>5. Rest(i) = <<Piece(kind, i, b - i)>> \o Rest(b) /\ kind \notin {"open comment", "none"}
  BY <1>1, <1>3, <1>4, TokenIsTaken
<1> QED BY <1>5 DEF kind

(* A number is lexed right if what its digits end with is right.           *)
LEMMA NumberRight ==
  ASSUME IsText, here \in Positions, AtToken, AtNumber(here.at),
         NEW p \in Positions, NEW float \in BOOLEAN, NEW errors, IsSequence(errors), AddNumber(p, float, errors),
         errors # <<>> => \A b : LongestNumber(here.at, b) => CutAt(here.at, b),
         errors = <<>> => \A S : IsSuffix(p.at, S, float)
                            => /\ LongestNumber(here.at, S)
                               /\ float => ~IntegerTo(here.at, S)
                               /\ ~float => ~FloatTo(here.at, S)
                               /\ ~(Has(S, {"."}) /\ BasedTo(here.at, S, Xs, HexDigits))
  PROVE  \E kind, end, all : RightAdd(kind, end, all)
<1> DEFINE i == here.at
           s == Suffixed(p, float)
           kind == NumberKind(float)
           all == errors \o s.errors
<1>1. NeedsToken(i) /\ i \in Places /\ Len(text) \in Nat
  BY TokenHere
<1>2. s.end \in Positions /\ IsSequence(s.errors)
  BY SuffixScanned
<1>3. PICK S : /\ IsSuffix(p.at, S, float) /\ IsRun(S, s.end.at, IdentifierPart)
               /\ s.errors = <<>> <=> s.end.at = S
  BY SuffixScanned
<1>4. here' = s.end /\ tokens' = Append(tokens, TokenAt(kind, s.end)) /\ Complains(all)
  BY DEF AddNumber, Add, Scan, Complains
<1>5. IsSequence(all) /\ (all = <<>> <=> errors = <<>> /\ s.errors = <<>>)
  BY <1>2, ErrorsTogether
<1> HIDE DEF s, kind, all
<1>6. S \in Nat /\ S <= Len(text) + 1 /\ s.end.at \in Nat
  BY <1>2, <1>3 DEF IsSuffix, Positions
<1>7. CASE errors # <<>>
  <2>1. ~WellFormed(Rest(i))
    BY <1>1, <1>7, CutNumberIsIllFormed
  <2>2. RightAdd(kind, s.end, all)
    BY <1>4, <1>5, <1>7, <2>1 DEF RightAdd
  <2> QED BY <2>2
<1>8. CASE errors = <<>>
  <2>1. /\ LongestNumber(i, S) /\ (float => ~IntegerTo(i, S)) /\ (~float => ~FloatTo(i, S))
        /\ ~(Has(S, {"."}) /\ BasedTo(i, S, Xs, HexDigits))
    BY <1>3, <1>8
  <2>2. CASE s.errors = <<>>
    <3>1. s.end.at = S
      BY <1>3, <2>2
    <3>2. ~Has(S, IdentifierPart)
      BY <1>3, <3>1 DEF Has, IsRun
    <3>3. ~CutAt(i, S)
      BY <2>1, <3>2 DEF CutAt
    <3>4. Rest(i) = <<Piece(kind, i, S - i)>> \o Rest(S) /\ kind \notin {"open comment", "none"}
      BY <1>1, <2>1, <3>3, NumberTaken DEF kind
    <3>5. all = <<>>
      BY <1>5, <1>8, <2>2
    <3>6. RightAdd(kind, s.end, all)
      BY <1>4, <1>5, <3>1, <3>4, <3>5 DEF RightAdd
    <3> QED BY <3>6
  <2>3. CASE s.errors # <<>>
    <3>1. S < s.end.at /\ S \in S .. s.end.at - 1 /\ S <= Len(text)
      <4>1. s.end.at # S /\ S <= s.end.at /\ s.end.at <= Len(text) + 1
        BY <1>2, <1>3, <2>3 DEF IsRun, Positions
      <4> QED BY <1>1, <1>6, <4>1
    <3>2. Has(S, IdentifierPart)
      BY <1>3, <3>1 DEF Has, IsRun, Throughout
    <3>3. ASSUME NEW b, LongestNumber(i, b) PROVE b = S
      <4>1. b \in Int /\ S \in Int /\ b <= Len(text) + 1 /\ NumberTo(i, b) /\ NumberTo(i, S)
        BY <1>1, <2>1, <3>3 DEF LongestNumber, Places
      <4>2. ~(b \in S + 1 .. Len(text) + 1) /\ ~(S \in b + 1 .. Len(text) + 1)
        BY <2>1, <3>3, <4>1 DEF LongestNumber
      <4> QED BY <1>1, <1>6, <4>1, <4>2
    <3>4. \A b : LongestNumber(i, b) => CutAt(i, b)
      BY <3>2, <3>3 DEF CutAt
    <3>5. ~WellFormed(Rest(i))
      BY <1>1, <3>4, CutNumberIsIllFormed
    <3>6. all # <<>>
      BY <1>5, <2>3
    <3>7. RightAdd(kind, s.end, all)
      BY <1>4, <1>5, <3>5, <3>6 DEF RightAdd
    <3> QED BY <3>7
  <2> QED BY <2>2, <2>3
<1> QED BY <1>7, <1>8

-----------------------------------------------------------------------------
(* Decimal numbers.                                                        *)

LEMMA StopsAtOnce ==
  ASSUME NEW m \in Int, NEW b \in Int, m <= b, NEW class, Throughout(m, b, class), text[m] \notin class
  PROVE  b = m
<1>1. m < b => m \in m .. b - 1
  OBVIOUS
<1> QED BY <1>1 DEF Throughout

(* No class of characters has to do with another.                          *)
LEMMA ClassesOfNumbers ==
  /\ \A c \in Digits : c \notin IntegerSuffixes \union FloatSuffixes \union Es \union {"."} /\ c \in IdentifierPart
  /\ \A c \in Es \union Ps : c \notin IntegerSuffixes \union FloatSuffixes /\ c \in IdentifierPart /\ c # "."
  /\ "." \notin IntegerSuffixes \union FloatSuffixes \union Digits \union HexDigits \union Es \union Ps
  /\ OctalDigits \subseteq Digits /\ (\A c \in Digits : c \in OctalDigits \/ c \in {"8", "9"}) /\ "0" \in Digits
  /\ \A c \in {"8", "9"} : c \notin OctalDigits
  /\ Digits \intersect Es = {} /\ HexDigits \intersect Ps = {}
  /\ Es = {"e", "E"} /\ Ps = {"p", "P"} /\ CR \notin Digits /\ CR \notin Es /\ NUL \notin Es /\ CR \notin HexDigits
  /\ CR \notin Ps /\ NUL \notin Ps
<1>1. \A c \in Digits : c \notin IntegerSuffixes \union FloatSuffixes \union Es \union {"."} /\ c \in IdentifierPart
  <2>1. \A c \in Digits : c \notin IntegerSuffixes \union FloatSuffixes \union Es \union {"."}
    BY DEF Digits, IntegerSuffixes, FloatSuffixes, Es
  <2> QED BY <2>1, FirstCharacters
<1>2. \A c \in Es \union Ps : c \notin IntegerSuffixes \union FloatSuffixes /\ c \in IdentifierPart /\ c # "."
  <2>1. {"e", "E", "p", "P"} \subseteq Letters
    BY DEF Letters
  <2>2. \A c \in {"e", "E", "p", "P"} : c \notin IntegerSuffixes \union FloatSuffixes /\ c # "."
    BY DEF IntegerSuffixes, FloatSuffixes
  <2>3. Es \union Ps = {"e", "E", "p", "P"}
    BY DEF Es, Ps
  <2>4. Letters \subseteq IdentifierPart
    BY DEF IdentifierPart, IdentifierStart
  <2> QED BY <2>1, <2>2, <2>3, <2>4
<1>3. "." \notin IntegerSuffixes \union FloatSuffixes \union Digits \union HexDigits \union Es \union Ps
  BY DEF Digits, HexDigits, IntegerSuffixes, FloatSuffixes, Es, Ps
<1>4. OctalDigits \subseteq Digits /\ (\A c \in Digits : c \in OctalDigits \/ c \in {"8", "9"}) /\ "0" \in Digits
  BY DEF OctalDigits, Digits
<1>5. \A c \in {"8", "9"} : c \notin OctalDigits
  BY DEF OctalDigits
<1>6. Digits \intersect Es = {} /\ HexDigits \intersect Ps = {}
  BY DEF Digits, HexDigits, Es, Ps
<1>7. /\ Es = {"e", "E"} /\ Ps = {"p", "P"} /\ CR \notin Digits /\ CR \notin Es /\ NUL \notin Es /\ CR \notin HexDigits
      /\ CR \notin Ps /\ NUL \notin Ps
  BY DEF Digits, HexDigits, Es, Ps, CR, NUL
<1> QED BY <1>1, <1>2, <1>3, <1>4, <1>5, <1>6, <1>7

(* At a number there are digits enough.                                    *)
LEMMA EnoughDigits ==
  ASSUME IsText, NEW i \in Places, NEW W, NEW F, NEW G, NEW E, IsShape(i, W, F, G, E, Digits, Es), AtNumber(i)
  PROVE  Enough(i, W, F)
<1>1. /\ i \in Nat /\ W \in Nat /\ F \in Nat /\ Len(text) \in Nat /\ i <= W /\ W <= F
      /\ IsRun(i, W, Digits) /\ (Has(W, {"."}) => IsRun(W + 1, F, Digits)) /\ (~Has(W, {"."}) => F = W)
  BY ShapeIs DEF IsShape, Places, IsText
<1>2. CASE Has(i, Digits)
  <2>1. i < W
    BY <1>1, <1>2 DEF IsRun, Has
  <2>2. Has(W, {"."}) => i + 2 <= F
    BY <1>1, <2>1 DEF IsRun
  <2> QED BY <2>1, <2>2 DEF Enough
<1>3. CASE Has(i, {"."}) /\ Has(i + 1, Digits)
  <2>1. text[i] \notin Digits
    BY <1>3, ClassesOfNumbers DEF Has
  <2>2. i = W
    BY <1>1, <2>1, RunStops
  <2>3. Has(W, {"."}) /\ W + 1 <= F
    BY <1>1, <1>3, <2>2 DEF IsRun
  <2>4. W + 1 # F
    BY <1>1, <1>3, <2>2, <2>3 DEF IsRun, Has
  <2> QED BY <1>1, <2>2, <2>3, <2>4 DEF Enough
<1> QED BY <1>2, <1>3 DEF AtNumber

LEMMA DecimalNumbers ==
  ASSUME IsText, NEW i \in Places, NEW W, NEW F, NEW G, NEW E, IsShape(i, W, F, G, E, Digits, Es),
         ~(text[i] = "0" /\ Has(i + 1, Xs \union Bs)), NEW b \in Nat, i < b, b <= Len(text) + 1
  PROVE  /\ \A letters \in {Xs, Bs} : \A digits : ~BasedTo(i, b, letters, digits)
         /\ IntegerTo(i, b) =>
              \E m \in Nat : /\ i < m /\ m <= b /\ m <= W
                             /\ text[i] = "0" => Throughout(i, m, OctalDigits)
                             /\ Throughout(m, b, IntegerSuffixes)
                             /\ m < W => b = m
         /\ FloatTo(i, b) =>
              \E m \in Nat : /\ i <= m /\ m <= b /\ FloatSuffixTo(m, b)
                             /\ FractionTo(i, m, Digits) \/ PoweredTo(i, m, Digits, Es)
<1>1. i \in Nat /\ W \in Nat /\ Len(text) \in Nat /\ i <= W /\ W <= Len(text) + 1 /\ IsRun(i, W, Digits)
  BY ShapeIs DEF IsShape, Places, IsText
<1>2. ASSUME NEW m \in Nat, m <= Len(text) + 1, NEW letters \in {Xs, Bs}, NEW digits PROVE ~BasedTo(i, m, letters, digits)
  <2>1. ASSUME BasedTo(i, m, letters, digits) PROVE FALSE
    <3>1. i + 3 <= m /\ text[i] = "0" /\ text[i + 1] \in letters
      BY <2>1 DEF BasedTo
    <3>2. i + 1 <= Len(text)
      BY <1>1, <1>2, <3>1
    <3> QED BY <3>1, <3>2 DEF Has
  <2> QED BY <2>1
<1>3. ASSUME IntegerTo(i, b)
      PROVE  \E m \in Nat : /\ i < m /\ m <= b /\ m <= W
                            /\ text[i] = "0" => Throughout(i, m, OctalDigits)
                            /\ Throughout(m, b, IntegerSuffixes)
                            /\ m < W => b = m
  <2>1. PICK m \in i .. b : DigitsTo(i, m) /\ Throughout(m, b, IntegerSuffixes)
    BY <1>3 DEF IntegerTo
  <2>2. m \in Nat /\ i <= m /\ m <= b /\ m <= Len(text) + 1
    BY <1>1, <2>1
  <2>3. ~BasedTo(i, m, Xs, HexDigits) /\ ~BasedTo(i, m, Bs, BinaryDigits)
    BY <1>2, <2>2
  <2>4. i < m /\ Throughout(i, m, Digits) /\ (text[i] = "0" => Throughout(i, m, OctalDigits))
    BY <2>1, <2>3, ClassesOfNumbers DEF DigitsTo, Throughout
  <2>5. m <= W
    BY <1>1, <2>2, <2>4, RunEnds
  <2>6. ASSUME m < W PROVE b = m
    <3>1. m \in i .. W - 1
      BY <1>1, <2>2, <2>6
    <3>2. text[m] \notin IntegerSuffixes
      BY <1>1, <3>1, ClassesOfNumbers DEF IsRun, Throughout
    <3> QED BY <2>1, <2>2, <3>2, StopsAtOnce
  <2> QED BY <2>1, <2>2, <2>4, <2>5, <2>6
<1>4. ASSUME FloatTo(i, b)
      PROVE  \E m \in Nat : /\ i <= m /\ m <= b /\ FloatSuffixTo(m, b)
                            /\ FractionTo(i, m, Digits) \/ PoweredTo(i, m, Digits, Es)
  <2>1. PICK m \in i .. b : (DecimalFloatTo(i, m) \/ HexFloatTo(i, m)) /\ FloatSuffixTo(m, b)
    BY <1>4 DEF FloatTo
  <2>2. m \in Nat /\ i <= m /\ m <= b /\ m <= Len(text) + 1
    BY <1>1, <2>1
  <2>3. ASSUME HexFloatTo(i, m) PROVE FALSE
    <3>1. i + 3 <= m /\ text[i] = "0" /\ text[i + 1] \in Xs
      BY <2>3 DEF HexFloatTo
    <3>2. i + 1 <= Len(text)
      BY <1>1, <2>2, <3>1
    <3> QED BY <3>1, <3>2 DEF Has
  <2>4. FractionTo(i, m, Digits) \/ PoweredTo(i, m, Digits, Es)
    BY <2>1, <2>3 DEF DecimalFloatTo, PoweredTo, MantissaTo
  <2> QED BY <2>1, <2>2, <2>4
<1> QED BY <1>2, <1>3, <1>4

LEMMA IntegersOfShape ==
  ASSUME IsText, NEW i \in Places, NEW W, NEW F, NEW G, NEW E, IsShape(i, W, F, G, E, Digits, Es),
         ~(text[i] = "0" /\ Has(i + 1, Xs \union Bs)), NEW b \in Nat, i < b, b <= Len(text) + 1, IntegerTo(i, b)
  PROVE  /\ b < W \/ Throughout(W, b, IntegerSuffixes)
         /\ text[i] = "0" => (b < W \/ Throughout(i, W, OctalDigits))
<1>1. W \in Nat
  BY ShapeIs DEF Places, IsText
<1>2. PICK m \in Nat : /\ i < m /\ m <= b /\ m <= W
                       /\ text[i] = "0" => Throughout(i, m, OctalDigits)
                       /\ Throughout(m, b, IntegerSuffixes)
                       /\ m < W => b = m
  BY DecimalNumbers
<1>3. b < W \/ m = W
  BY <1>1, <1>2
<1> QED BY <1>2, <1>3

IsWrongOctal(i, W, float) == ~float /\ text[i] = "0" /\ \E k \in i .. W - 1 : text[k] \in {"8", "9"}

(* Numbers behind which there is no suffix.                                *)
LEMMA FloatsOfShape ==
  ASSUME IsText, NEW i \in Places, NEW W, NEW F, NEW G, NEW E, IsShape(i, W, F, G, E, Digits, Es),
         ~(text[i] = "0" /\ Has(i + 1, Xs \union Bs)), NEW b \in Nat, i < b, b <= Len(text) + 1, FloatTo(i, b)
  PROVE  /\ Has(W, {"."}) \/ Has(F, Es)
         /\ \/ Has(W, {"."}) /\ b <= F
            \/ Has(F, Es) /\ G < E /\ b <= E
            \/ b = E + 1 /\ Has(E, FloatSuffixes)
<1>1. PICK m \in Nat : /\ i <= m /\ m <= b /\ FloatSuffixTo(m, b)
                       /\ FractionTo(i, m, Digits) \/ PoweredTo(i, m, Digits, Es)
  BY DecimalNumbers
<1>2. /\ i \in Nat /\ W \in Nat /\ F \in Nat /\ G \in Nat /\ E \in Nat /\ Len(text) \in Nat /\ i <= W /\ W <= F /\ F <= G /\ G <= E
      /\ IsRun(i, W, Digits) /\ (Has(W, {"."}) => IsRun(W + 1, F, Digits)) /\ (~Has(F, Es) => E = F)
      /\ (Has(F, Es) => IsRun(G, E, Digits))
  BY ShapeIs DEF IsShape, Places, IsText
<1>3. m <= Len(text) + 1
  BY <1>1, <1>2
<1>4. m < b => b = m + 1 /\ text[m] \in FloatSuffixes /\ m <= Len(text)
  <2>1. ASSUME m < b PROVE b = m + 1 /\ text[m] \in FloatSuffixes /\ m <= Len(text)
    <3>1. b = m + 1 /\ m \in m .. b - 1 /\ m <= Len(text)
      BY <1>1, <1>2, <2>1 DEF FloatSuffixTo
    <3> QED BY <1>1, <3>1 DEF FloatSuffixTo, Throughout
  <2> QED BY <2>1
<1>5. CASE FractionTo(i, m, Digits)
  <2>1. Has(W, {"."}) /\ W + 1 <= m /\ m <= F
    BY <1>1, <1>2, <1>3, <1>5, ClassesOfNumbers, MantissaOfShape
  <2>2. m < F => text[m] \in Digits
    <3>1. m < F => m \in W + 1 .. F - 1
      BY <1>2, <2>1
    <3> QED BY <1>2, <2>1, <3>1 DEF IsRun, Throughout
  <2>3. m < F => b = m
    BY <1>1, <1>4, <2>2, ClassesOfNumbers
  <2>4. CASE m < F
    BY <2>1, <2>3, <2>4
  <2>5. CASE m = F /\ m = b
    BY <2>1, <2>5
  <2>6. CASE m = F /\ m < b
    <3>1. ~Has(F, Es)
      BY <1>4, <2>6, ClassesOfNumbers DEF Has
    <3> QED BY <1>2, <1>4, <2>1, <2>6, <3>1 DEF Has
  <2> QED BY <1>1, <1>2, <2>1, <2>4, <2>5, <2>6
<1>6. CASE PoweredTo(i, m, Digits, Es)
  <2>1. Has(F, Es) /\ G < m /\ m <= E
    BY <1>2, <1>3, <1>6, ClassesOfNumbers, PoweredOfShape
  <2>2. m < E => text[m] \in Digits
    <3>1. m < E => m \in G .. E - 1
      BY <1>2, <2>1
    <3> QED BY <1>2, <2>1, <3>1 DEF IsRun, Throughout
  <2>3. m < E => b = m
    BY <1>1, <1>4, <2>2, ClassesOfNumbers
  <2>4. G < E
    BY <1>2, <2>1
  <2>5. CASE b = m
    BY <2>1, <2>4, <2>5
  <2>6. CASE b # m
    <3>1. m < b /\ m = E
      BY <1>1, <1>2, <2>1, <2>3, <2>6
    <3> QED BY <1>4, <2>1, <3>1 DEF Has
  <2> QED BY <2>5, <2>6
<1> QED BY <1>1, <1>5, <1>6

LEMMA RightDecimal ==
  ASSUME IsText, NEW i \in Places, NEW W, NEW F, NEW G, NEW E, IsShape(i, W, F, G, E, Digits, Es), AtNumber(i),
         ~(text[i] = "0" /\ Has(i + 1, Xs \union Bs)),
         NEW float \in BOOLEAN, float <=> Has(W, {"."}) \/ Has(F, Es),
         Has(F, Es) => G < E, ~IsWrongOctal(i, W, float), NEW S, IsSuffix(E, S, float)
  PROVE  /\ LongestNumber(i, S)
         /\ float => ~IntegerTo(i, S)
         /\ ~float => ~FloatTo(i, S)
         /\ ~(Has(S, {"."}) /\ BasedTo(i, S, Xs, HexDigits))
<1>1. /\ i \in Nat /\ W \in Nat /\ F \in Nat /\ G \in Nat /\ E \in Nat /\ Len(text) \in Nat /\ i <= W /\ W <= F /\ F <= G /\ G <= E
      /\ IsRun(i, W, Digits) /\ (Has(W, {"."}) => IsRun(W + 1, F, Digits)) /\ (~Has(F, Es) => E = F /\ G = F)
      /\ (~Has(W, {"."}) => F = W) /\ (Has(F, Es) => F + 1 <= G)
      /\ F <= Len(text) + 1 /\ E <= Len(text) + 1
  <2>1. /\ i \in Nat /\ W \in Nat /\ F \in Nat /\ G \in Nat /\ E \in Nat /\ Len(text) \in Nat /\ i <= W /\ W <= F /\ F <= G /\ G <= E
        /\ F <= Len(text) + 1 /\ E <= Len(text) + 1
    BY ShapeIs DEF Places, IsText
  <2>2. Has(F, Es) => G = F + 1 \/ G = F + 2
    BY DEF IsShape
  <2>3. Has(F, Es) => F + 1 <= G
    BY <2>1, <2>2
  <2> QED BY <2>1, <2>3 DEF IsShape
<1>2. Enough(i, W, F) /\ i < F /\ MantissaTo(i, F, Digits)
  BY <1>1, EnoughDigits, MantissaThere
<1>3. /\ S \in Nat /\ E <= S /\ S <= Len(text) + 1 /\ i < S /\ S \in Places /\ i <= S /\ S \in i + 1 .. Len(text) + 1
      /\ E \in Places /\ i <= E /\ F \in i .. E /\ E \in i .. S
  <2>1. S \in Nat /\ E <= S /\ S <= Len(text) + 1
    BY DEF IsSuffix
  <2> QED BY <1>1, <1>2, <2>1 DEF Places
<1>4. ~BasedTo(i, S, Xs, HexDigits)
  BY <1>3, DecimalNumbers
<1>5. CASE float
  <2>1. W < E /\ text[W] \notin IntegerSuffixes
    <3>1. CASE Has(W, {"."})
      <4>1. W + 1 <= F
        BY <1>1, <3>1 DEF IsRun
      <4>2. W < E
        BY <1>1, <4>1
      <4> QED BY <3>1, <4>2, ClassesOfNumbers DEF Has
    <3>2. CASE ~Has(W, {"."})
      <4>1. Has(F, Es) /\ F = W
        BY <1>1, <1>5, <3>2
      <4>2. W < E
        BY <1>1, <4>1
      <4> QED BY <4>1, <4>2, ClassesOfNumbers DEF Has
    <3> QED BY <3>1, <3>2
  <2>2. ASSUME NEW c \in Nat, S <= c, c <= Len(text) + 1 PROVE ~IntegerTo(i, c)
    <3>1. ASSUME IntegerTo(i, c) PROVE FALSE
      <4>1. i < c
        BY <1>1, <1>3, <2>2
      <4>2. Throughout(W, c, IntegerSuffixes)
        <5>1. c < W \/ Throughout(W, c, IntegerSuffixes)
          BY <2>2, <3>1, <4>1, IntegersOfShape
        <5> QED BY <1>1, <1>3, <2>1, <2>2, <5>1
      <4>3. W \in W .. c - 1
        BY <1>1, <1>3, <2>1, <2>2
      <4> QED BY <2>1, <4>2, <4>3 DEF Throughout
    <3> QED BY <3>1
  <2>3. FloatTo(i, S)
    <3>1. DecimalFloatTo(i, E)
      <4>1. CASE Has(F, Es)
        <5>1. PoweredTo(i, E, Digits, Es)
          BY <1>1, <1>2, <4>1, ClassesOfNumbers, PoweredOfShape
        <5> QED BY <5>1 DEF PoweredTo, MantissaTo, DecimalFloatTo
      <4>2. CASE ~Has(F, Es)
        <5>1. Has(W, {"."}) /\ E = F
          BY <1>1, <1>5, <4>2
        <5>2. i + 2 <= F
          BY <1>2, <5>1 DEF Enough
        <5>3. FractionTo(i, F, Digits)
          BY <1>1, <5>1, <5>2, MantissaThere
        <5> QED BY <1>3, <5>1, <5>3 DEF DecimalFloatTo
      <4> QED BY <4>1, <4>2
    <3>2. FloatSuffixTo(E, S)
      <4>1. S <= E + 1 /\ Throughout(E, S, FloatSuffixes)
        BY <1>1, <1>5 DEF IsSuffix
      <4> QED BY <4>1 DEF FloatSuffixTo
    <3> QED BY <1>3, <3>1, <3>2 DEF FloatTo
  <2>4. ASSUME NEW c \in S + 1 .. Len(text) + 1 PROVE ~NumberTo(i, c)
    <3>1. c \in Nat /\ S <= c /\ c <= Len(text) + 1 /\ i < c /\ E < c /\ S < c
      BY <1>1, <1>3
    <3>2. ASSUME FloatTo(i, c) PROVE FALSE
      <4>1. \/ Has(W, {"."}) /\ c <= F
            \/ Has(F, Es) /\ G < E /\ c <= E
            \/ c = E + 1 /\ Has(E, FloatSuffixes)
        BY <3>1, <3>2, FloatsOfShape
      <4>2. c = E + 1 /\ Has(E, FloatSuffixes)
        BY <1>1, <3>1, <4>1
      <4>3. S = E + 1
        BY <1>5, <4>2 DEF IsSuffix
      <4> QED BY <1>1, <3>1, <4>2, <4>3
    <3> QED BY <2>2, <3>1, <3>2 DEF NumberTo
  <2>5. LongestNumber(i, S)
    BY <1>3, <2>3, <2>4 DEF LongestNumber, NumberTo
  <2> QED BY <1>3, <1>4, <1>5, <2>2, <2>5
<1>6. CASE ~float
  <2>1. ~Has(W, {"."}) /\ ~Has(F, Es) /\ F = W /\ E = W /\ i < W
    BY <1>1, <1>2, <1>6
  <2>2. IsRun(W, S, IntegerSuffixes)
    BY <1>6, <2>1 DEF IsSuffix
  <2>3. ASSUME NEW c \in Nat, i < c, c <= Len(text) + 1 PROVE ~FloatTo(i, c)
    BY <2>1, <2>3, FloatsOfShape
  <2>4. IntegerTo(i, S)
    <3>1. Throughout(i, W, Digits)
      BY <1>1 DEF IsRun
    <3>2. text[i] = "0" => Throughout(i, W, OctalDigits)
      <4>1. ASSUME text[i] = "0", NEW k \in i .. W - 1 PROVE text[k] \in OctalDigits
        <5>1. text[k] \notin {"8", "9"}
          BY <1>6, <4>1 DEF IsWrongOctal
        <5>2. text[k] \in Digits
          BY <3>1 DEF Throughout
        <5> QED BY <5>1, <5>2, ClassesOfNumbers
      <4> QED BY <4>1 DEF Throughout
    <3>3. DigitsTo(i, W)
      BY <2>1, <3>1, <3>2 DEF DigitsTo
    <3> QED BY <1>3, <2>1, <2>2, <3>3 DEF IntegerTo, IsRun
  <2>5. ASSUME NEW c \in S + 1 .. Len(text) + 1 PROVE ~NumberTo(i, c)
    <3>1. c \in Nat /\ c <= Len(text) + 1 /\ i < c /\ W < c /\ S < c
      BY <1>1, <1>3, <2>1
    <3>2. ASSUME IntegerTo(i, c) PROVE FALSE
      <4>1. c < W \/ Throughout(W, c, IntegerSuffixes)
        BY <3>1, <3>2, IntegersOfShape
      <4>2. W <= c /\ Throughout(W, c, IntegerSuffixes)
        BY <1>1, <3>1, <4>1
      <4>3. c <= S
        BY <1>1, <1>3, <2>2, <3>1, <4>2, RunEnds
      <4> QED BY <1>3, <3>1, <4>3
    <3> QED BY <2>3, <3>1, <3>2 DEF NumberTo
  <2>6. LongestNumber(i, S)
    BY <1>3, <2>4, <2>5 DEF LongestNumber, NumberTo
  <2> QED BY <1>3, <1>4, <1>6, <2>3, <2>6
<1> QED BY <1>5, <1>6

LEMMA WrongDecimal ==
  ASSUME IsText, NEW i \in Places, NEW W, NEW F, NEW G, NEW E, IsShape(i, W, F, G, E, Digits, Es), AtNumber(i),
         ~(text[i] = "0" /\ Has(i + 1, Xs \union Bs)),
         NEW float \in BOOLEAN, float <=> Has(W, {"."}) \/ Has(F, Es),
         ~(Has(F, Es) => G < E) \/ IsWrongOctal(i, W, float), NEW b, LongestNumber(i, b)
  PROVE  CutAt(i, b)
<1>1. /\ i \in Nat /\ W \in Nat /\ F \in Nat /\ G \in Nat /\ E \in Nat /\ Len(text) \in Nat /\ i <= W /\ W <= F /\ F <= G /\ G <= E
      /\ IsRun(i, W, Digits) /\ (~Has(W, {"."}) => F = W) /\ F <= Len(text) + 1 /\ W <= Len(text) + 1
      /\ (~Has(F, Es) => E = F)
  BY ShapeIs DEF IsShape, Places, IsText
<1>2. b \in Nat /\ i < b /\ b <= Len(text) + 1 /\ NumberTo(i, b) /\ \A c \in b + 1 .. Len(text) + 1 : ~NumberTo(i, c)
  BY <1>1 DEF LongestNumber
<1>3. \A c \in Digits \union Es : c \in IdentifierPart
  BY ClassesOfNumbers
<1>4. ASSUME b < W PROVE CutAt(i, b)
  <2>1. b \in i .. W - 1 /\ b <= Len(text)
    BY <1>1, <1>2, <1>4
  <2>2. Has(b, IdentifierPart)
    BY <1>1, <1>3, <2>1 DEF IsRun, Throughout, Has
  <2> QED BY <2>2 DEF CutAt
<1>5. ASSUME IntegerTo(i, b)
      PROVE  /\ b < W \/ Throughout(W, b, IntegerSuffixes)
             /\ text[i] = "0" => (b < W \/ Throughout(i, W, OctalDigits))
  BY <1>2, <1>5, IntegersOfShape
<1>6. CASE Has(F, Es) /\ ~(G < E)
  <2>1. F <= Len(text) /\ text[F] \in IdentifierPart /\ text[F] \notin IntegerSuffixes /\ text[F] \notin FloatSuffixes
    BY <1>6, ClassesOfNumbers DEF Has
  <2>2. Has(F, IdentifierPart)
    BY <2>1 DEF Has
  <2>3. b = F => CutAt(i, b)
    BY <2>2 DEF CutAt
  <2>4. ASSUME IntegerTo(i, b) PROVE b <= W
    <3>1. text[W] \notin IntegerSuffixes
      <4>1. CASE Has(W, {"."})
        BY <4>1, ClassesOfNumbers DEF Has
      <4>2. CASE ~Has(W, {"."})
        BY <1>1, <2>1, <4>2
      <4> QED BY <4>1, <4>2
    <3>2. CASE Throughout(W, b, IntegerSuffixes) /\ ~(b < W)
      <4>1. b = W
        BY <1>1, <1>2, <3>1, <3>2, StopsAtOnce
      <4> QED BY <1>1, <4>1
    <3> QED BY <1>1, <1>2, <1>5, <2>4, <3>2
  <2>5. ASSUME FloatTo(i, b) PROVE Has(W, {"."}) /\ b <= F
    <3>1. \/ Has(W, {"."}) /\ b <= F
          \/ Has(F, Es) /\ G < E /\ b <= E
          \/ b = E + 1 /\ Has(E, FloatSuffixes)
      BY <1>2, <2>5, FloatsOfShape
    <3>2. ASSUME Has(E, FloatSuffixes), b = E + 1 PROVE FALSE
      <4>1. PICK m \in Nat : /\ i <= m /\ m <= b /\ FloatSuffixTo(m, b)
                             /\ FractionTo(i, m, Digits) \/ PoweredTo(i, m, Digits, Es)
        BY <1>2, <2>5, DecimalNumbers
      <4>2. m <= Len(text) + 1 /\ b <= m + 1 /\ E <= m
        BY <1>1, <1>2, <3>2, <4>1 DEF FloatSuffixTo
      <4>3. CASE FractionTo(i, m, Digits)
        <5>1. m <= F
          BY <1>1, <4>1, <4>2, <4>3, ClassesOfNumbers, MantissaOfShape
        <5>2. E = F
          BY <1>1, <4>2, <5>1
        <5> QED BY <2>1, <3>2, <5>2 DEF Has
      <4>4. CASE PoweredTo(i, m, Digits, Es)
        <5>1. G < m /\ m <= E
          BY <1>1, <4>1, <4>2, <4>4, ClassesOfNumbers, PoweredOfShape
        <5> QED BY <1>1, <1>6, <4>1, <5>1
      <4> QED BY <4>1, <4>3, <4>4
    <3> QED BY <1>6, <3>1, <3>2
  <2>6. CASE Has(W, {"."})
    <3>1. b <= F
      BY <1>1, <1>2, <2>4, <2>5 DEF NumberTo
    <3>2. i + 2 <= F /\ i < F
      <4>1. i + 2 <= F
        BY <2>6, EnoughDigits DEF Enough
      <4> QED BY <1>1, <4>1
    <3>3. NumberTo(i, F)
      <4>1. FractionTo(i, F, Digits)
        BY <1>1, <2>6, <3>2, MantissaThere
      <4>2. F \in i .. F /\ F \in Places /\ i <= F
        BY <1>1, <3>2 DEF Places
      <4>3. DecimalFloatTo(i, F)
        BY <4>1, <4>2 DEF DecimalFloatTo
      <4> QED BY <4>2, <4>3, FloatWithoutSuffix
    <3>4. ~(F \in b + 1 .. Len(text) + 1)
      BY <1>2, <3>3
    <3>5. b = F
      BY <1>1, <1>2, <3>1, <3>4
    <3> QED BY <2>3, <3>5
  <2>7. CASE ~Has(W, {"."})
    <3>1. F = W /\ b <= W
      BY <1>1, <1>2, <2>4, <2>5, <2>7 DEF NumberTo
    <3>2. b < W \/ b = F
      BY <1>1, <1>2, <3>1
    <3> QED BY <1>4, <2>3, <3>2
  <2> QED BY <2>6, <2>7
<1>7. CASE IsWrongOctal(i, W, float)
  <2>1. ~Has(W, {"."}) /\ ~Has(F, Es) /\ text[i] = "0"
    BY <1>7 DEF IsWrongOctal
  <2>2. PICK k \in i .. W - 1 : text[k] \in {"8", "9"}
    BY <1>7 DEF IsWrongOctal
  <2>3. ~Throughout(i, W, OctalDigits)
    BY <2>2, ClassesOfNumbers DEF Throughout
  <2>4. ~FloatTo(i, b)
    BY <1>2, <2>1, FloatsOfShape
  <2>5. IntegerTo(i, b)
    BY <1>2, <2>4 DEF NumberTo
  <2>6. b < W
    BY <1>5, <2>1, <2>3, <2>5
  <2> QED BY <1>4, <2>6
<1> QED BY <1>6, <1>7

-----------------------------------------------------------------------------
(* Hexadecimal and binary numbers.                                         *)

LEMMA ClassesOfBases ==
  /\ \A c \in Xs \union Bs : c \in IdentifierPart /\ c # "." /\ c \notin Digits \union Es \union IntegerSuffixes
  /\ \A c \in HexDigits \union BinaryDigits : c \in IdentifierPart /\ c \notin IntegerSuffixes
  /\ Xs \intersect Bs = {} /\ "0" \in Digits /\ "0" # "." /\ "." \notin HexDigits
  /\ OctalDigits \subseteq Digits /\ CR \notin BinaryDigits
  /\ \A c \in Xs \union Bs : c # CR
<1>1. \A c \in Xs \union Bs : c \in IdentifierPart /\ c # "." /\ c \notin Digits \union Es \union IntegerSuffixes
  <2>1. Xs \union Bs = {"x", "X", "b", "B"}
    BY DEF Xs, Bs
  <2>2. {"x", "X", "b", "B"} \subseteq Letters
    BY DEF Letters
  <2>3. Letters \subseteq IdentifierPart
    BY DEF IdentifierPart, IdentifierStart
  <2>4. \A c \in {"x", "X", "b", "B"} : c # "." /\ c \notin Digits \union Es \union IntegerSuffixes
    BY DEF Digits, Es, IntegerSuffixes
  <2> QED BY <2>1, <2>2, <2>3, <2>4
<1>2. \A c \in HexDigits \union BinaryDigits : c \in IdentifierPart /\ c \notin IntegerSuffixes
  <2>1. {"a", "b", "c", "d", "e", "f", "A", "B", "C", "D", "E", "F"} \subseteq Letters
    BY DEF Letters
  <2>2. Letters \subseteq IdentifierPart /\ Digits \subseteq IdentifierPart
    BY DEF IdentifierPart, IdentifierStart
  <2>3. HexDigits \subseteq IdentifierPart
    BY <2>1, <2>2 DEF HexDigits
  <2>4. BinaryDigits \subseteq Digits
    BY DEF BinaryDigits, Digits
  <2>5. \A c \in HexDigits : c \notin IntegerSuffixes
    BY DEF HexDigits, Digits, IntegerSuffixes
  <2>6. \A c \in BinaryDigits : c \notin IntegerSuffixes
    BY DEF BinaryDigits, IntegerSuffixes
  <2> QED BY <2>2, <2>3, <2>4, <2>5, <2>6
<1>3. Xs \intersect Bs = {} /\ "0" \in Digits /\ "0" # "." /\ "." \notin HexDigits
  BY DEF Xs, Bs, Digits, HexDigits
<1>4. OctalDigits \subseteq Digits /\ CR \notin BinaryDigits
  BY DEF OctalDigits, BinaryDigits, CR
<1>5. \A c \in Xs \union Bs : c # CR
  BY DEF Xs, Bs, CR
<1> QED BY <1>1, <1>2, <1>3, <1>4, <1>5

LEMMA BasesDiffer == Xs # Bs
<1>1. "x" \in Xs /\ "x" \notin Bs
  BY DEF Xs, Bs
<1> QED BY <1>1

(* A base, by the letter behind the zero and its digits.                   *)
IsBase(letters, class) ==
  (letters = Xs /\ class = HexDigits) \/ (letters = Bs /\ class = BinaryDigits)

StartsWith(i, letters) == i + 1 <= Len(text) /\ text[i] = "0" /\ text[i + 1] \in letters

LEMMA BasedNumbers ==
  ASSUME IsText, NEW i \in Places, NEW letters, NEW class, IsBase(letters, class), StartsWith(i, letters),
         NEW W \in Nat, IsRun(i + 2, W, class), NEW b \in Nat, i < b, b <= Len(text) + 1
  PROVE  /\ IntegerTo(i, b) => \/ b = i + 1
                               \/ i + 3 <= b /\ b < W
                               \/ i + 3 <= W /\ W <= b /\ Throughout(W, b, IntegerSuffixes)
         /\ ~DecimalFloatTo(i, b)
         /\ \A other \in {Xs, Bs} \ {letters} : \A digits : ~BasedTo(i, b, other, digits)
<1>1. i \in Nat /\ i >= 1 /\ Len(text) \in Nat /\ i + 2 \in Nat /\ i + 2 <= W /\ Throughout(i + 2, W, class)
      /\ text[i] = "0" /\ text[i + 1] \in letters
  BY DEF Places, IsText, IsRun, StartsWith
<1>2. text[i + 1] \notin Digits \union Es \union IntegerSuffixes \union {"."} /\ letters \in {Xs, Bs}
  BY <1>1, ClassesOfBases DEF IsBase
<1>3. \A c \in class : c \notin IntegerSuffixes
  BY ClassesOfBases DEF IsBase
<1>4. ASSUME NEW other \in {Xs, Bs} \ {letters}, NEW m \in Nat, NEW digits, BasedTo(i, m, other, digits) PROVE FALSE
  <2>1. text[i + 1] \in other
    BY <1>4 DEF BasedTo
  <2> QED BY <1>1, <1>2, <2>1, ClassesOfBases
<1>5. ASSUME NEW m \in Nat, i < m, Throughout(i, m, Digits) PROVE m = i + 1
  <2>1. i + 1 < m => i + 1 \in i .. m - 1
    BY <1>1
  <2>2. ~(i + 1 < m)
    BY <1>2, <1>5, <2>1 DEF Throughout
  <2> QED BY <1>1, <1>5, <2>2
<1>6. ASSUME IntegerTo(i, b)
      PROVE  \/ b = i + 1
             \/ i + 3 <= b /\ b < W
             \/ i + 3 <= W /\ W <= b /\ Throughout(W, b, IntegerSuffixes)
  <2>1. PICK m \in i .. b : DigitsTo(i, m) /\ Throughout(m, b, IntegerSuffixes)
    BY <1>6 DEF IntegerTo
  <2>2. m \in Nat /\ m <= b /\ m <= Len(text) + 1
    BY <1>1, <2>1
  <2>3. CASE i < m /\ Throughout(i, m, OctalDigits)
    <3>1. Throughout(i, m, Digits)
      BY <2>3, ClassesOfBases DEF Throughout
    <3>2. m = i + 1
      BY <1>5, <2>2, <2>3, <3>1
    <3>3. b = i + 1
      BY <1>2, <2>1, <2>2, <3>2, StopsAtOnce
    <3> QED BY <3>3
  <2>4. CASE BasedTo(i, m, letters, class)
    <3>1. i + 3 <= m /\ Throughout(i + 2, m, class) /\ i + 2 <= m
      BY <1>1, <2>4 DEF BasedTo
    <3>2. m <= W
      BY <1>1, <2>2, <3>1, RunEnds
    <3>3. CASE m = W
      BY <2>1, <2>2, <3>1, <3>3
    <3>4. CASE m < W
      <4>1. m \in i + 2 .. W - 1
        BY <1>1, <2>2, <3>1, <3>4
      <4>2. text[m] \notin IntegerSuffixes
        BY <1>1, <1>3, <4>1 DEF Throughout
      <4>3. b = m
        BY <2>1, <2>2, <4>2, StopsAtOnce
      <4> QED BY <3>1, <3>4, <4>3
    <3> QED BY <2>2, <3>2, <3>3, <3>4
  <2>5. DigitsTo(i, m) => (i < m /\ Throughout(i, m, OctalDigits)) \/ BasedTo(i, m, Xs, HexDigits) \/ BasedTo(i, m, Bs, BinaryDigits)
    BY <1>1 DEF DigitsTo
  <2>6. BasedTo(i, m, Xs, HexDigits) => BasedTo(i, m, letters, class)
    <3>1. CASE letters = Bs /\ class = BinaryDigits
      <4>1. Xs \in {Xs, Bs} \ {letters}
        BY <3>1, BasesDiffer
      <4> QED BY <1>4, <2>2, <4>1
    <3> QED BY <3>1 DEF IsBase
  <2>7. BasedTo(i, m, Bs, BinaryDigits) => BasedTo(i, m, letters, class)
    <3>1. CASE letters = Xs /\ class = HexDigits
      <4>1. Bs \in {Xs, Bs} \ {letters}
        BY <3>1, BasesDiffer
      <4> QED BY <1>4, <2>2, <4>1
    <3> QED BY <3>1 DEF IsBase
  <2> QED BY <2>1, <2>3, <2>4, <2>5, <2>6, <2>7
<1>7. ASSUME DecimalFloatTo(i, b) PROVE FALSE
  <2>1. PICK d \in i .. b : \/ i < d /\ Throughout(i, d, Digits) /\ PowerTo(d, b, Es)
                            \/ FractionTo(i, d, Digits) /\ (d = b \/ PowerTo(d, b, Es))
    BY <1>7 DEF DecimalFloatTo
  <2>2. d \in Nat
    BY <1>1, <2>1
  <2>3. CASE i < d /\ Throughout(i, d, Digits) /\ PowerTo(d, b, Es)
    <3>1. d = i + 1
      BY <1>5, <2>2, <2>3
    <3>2. text[i + 1] \in Es
      BY <2>3, <3>1 DEF PowerTo
    <3> QED BY <1>2, <3>2
  <2>4. CASE FractionTo(i, d, Digits)
    <3>1. PICK k \in i .. d - 1 : text[k] = "." /\ Throughout(i, k, Digits)
      BY <2>4 DEF FractionTo
    <3>2. k # i /\ k \in Nat /\ i < k
      BY <1>1, <3>1, ClassesOfBases
    <3>3. k = i + 1
      BY <1>5, <3>1, <3>2
    <3> QED BY <1>2, <3>1, <3>3
  <2> QED BY <2>1, <2>3, <2>4
<1> QED BY <1>4, <1>6, <1>7

LEMMA DecimalGoesOn ==
  ASSUME NEW i \in Nat, NEW m \in Nat, DecimalFloatTo(i, m)
  PROVE  i < m
<1>1. PICK d \in i .. m : \/ i < d /\ Throughout(i, d, Digits) /\ PowerTo(d, m, Es)
                          \/ FractionTo(i, d, Digits) /\ (d = m \/ PowerTo(d, m, Es))
  BY DEF DecimalFloatTo
<1>2. i < d
  BY <1>1 DEF FractionTo
<1> QED BY <1>1, <1>2

LEMMA NoBinaryFloats ==
  ASSUME IsText, NEW i \in Places, StartsWith(i, Bs), NEW W \in Nat, IsRun(i + 2, W, BinaryDigits),
         NEW b \in Nat, i < b, b <= Len(text) + 1
  PROVE  ~FloatTo(i, b)
<1>1. i \in Nat /\ Len(text) \in Nat /\ text[i + 1] \in Bs /\ IsBase(Bs, BinaryDigits)
  BY DEF Places, IsText, StartsWith, IsBase
<1>2. ASSUME FloatTo(i, b) PROVE FALSE
  <2>1. PICK m \in i .. b : (DecimalFloatTo(i, m) \/ HexFloatTo(i, m)) /\ FloatSuffixTo(m, b)
    BY <1>2 DEF FloatTo
  <2>2. DecimalFloatTo(i, m)
    BY <1>1, <2>1, ClassesOfBases DEF HexFloatTo
  <2>3. m \in Nat /\ m <= Len(text) + 1
    BY <1>1, <2>1
  <2>4. i < m
    BY <1>1, <2>2, <2>3, DecimalGoesOn
  <2> QED BY <1>1, <2>2, <2>3, <2>4, BasedNumbers
<1> QED BY <1>2

LEMMA HexFloats ==
  ASSUME IsText, NEW i \in Places, StartsWith(i, Xs), NEW j \in Nat, j = i + 2, NEW W, NEW F, NEW G, NEW E,
         IsShape(j, W, F, G, E, HexDigits, Ps), NEW b \in Nat, i < b, b <= Len(text) + 1, FloatTo(i, b)
  PROVE  Has(F, Ps) /\ G < E /\ Enough(j, W, F) /\ (b <= E \/ (b = E + 1 /\ Has(E, FloatSuffixes)))
<1>1. /\ i \in Nat /\ W \in Nat /\ F \in Nat /\ G \in Nat /\ E \in Nat /\ Len(text) \in Nat
      /\ IsRun(j, W, HexDigits) /\ (Has(F, Ps) => IsRun(G, E, Digits))
  BY ShapeIs DEF IsShape, Places, IsText
<1>2. PICK m \in i .. b : (DecimalFloatTo(i, m) \/ HexFloatTo(i, m)) /\ FloatSuffixTo(m, b)
  BY DEF FloatTo
<1>3. m \in Nat /\ m <= Len(text) + 1 /\ m <= b
  BY <1>1, <1>2
<1>4. ~DecimalFloatTo(i, m)
  <2>1. IsBase(Xs, HexDigits)
    BY DEF IsBase
  <2>2. i <= m
    BY <1>1, <1>2
  <2> QED BY <1>1, <1>3, <2>1, <2>2, DecimalGoesOn, BasedNumbers
<1>5. PoweredTo(j, m, HexDigits, Ps)
  BY <1>2, <1>4 DEF HexFloatTo, PoweredTo, MantissaTo
<1>6. Has(F, Ps) /\ G < m /\ m <= E /\ Enough(j, W, F)
  BY <1>1, <1>3, <1>5, ClassesOfNumbers, PoweredOfShape
<1>7. G < E
  BY <1>1, <1>3, <1>6
<1>8. CASE m < b
  <2>1. b = m + 1 /\ m \in m .. b - 1 /\ m <= Len(text)
    BY <1>1, <1>2, <1>3, <1>8 DEF FloatSuffixTo
  <2>2. text[m] \in FloatSuffixes
    BY <1>2, <2>1 DEF FloatSuffixTo, Throughout
  <2>3. m = E
    <3>1. m < E => m \in G .. E - 1
      BY <1>1, <1>3, <1>6
    <3>2. m < E => text[m] \in Digits
      BY <1>1, <1>6, <3>1 DEF IsRun, Throughout
    <3>3. ~(m < E)
      BY <2>2, <3>2, ClassesOfNumbers
    <3> QED BY <1>1, <1>3, <1>6, <3>3
  <2>4. b = E + 1 /\ Has(E, FloatSuffixes)
    BY <2>1, <2>2, <2>3 DEF Has
  <2> QED BY <1>6, <1>7, <2>4
<1>9. CASE ~(m < b)
  <2>1. b <= E
    BY <1>1, <1>3, <1>6, <1>9
  <2> QED BY <1>6, <1>7, <2>1
<1> QED BY <1>8, <1>9

LEMMA RightHex ==
  ASSUME IsText, NEW i \in Places, StartsWith(i, Xs), NEW j \in Nat, j = i + 2, NEW W, NEW F, NEW G, NEW E,
         IsShape(j, W, F, G, E, HexDigits, Ps), NEW float \in BOOLEAN, float <=> Has(W, {"."}) \/ Has(F, Ps),
         Enough(j, W, F), Has(F, Ps) => G < E, Has(W, {"."}) => Has(F, Ps), NEW S, IsSuffix(E, S, float)
  PROVE  /\ LongestNumber(i, S)
         /\ float => ~IntegerTo(i, S)
         /\ ~float => ~FloatTo(i, S)
         /\ ~(Has(S, {"."}) /\ BasedTo(i, S, Xs, HexDigits))
<1>1. /\ i \in Nat /\ W \in Nat /\ F \in Nat /\ G \in Nat /\ E \in Nat /\ Len(text) \in Nat /\ j <= W /\ W <= F /\ F <= G /\ G <= E
      /\ IsRun(j, W, HexDigits) /\ (~Has(F, Ps) => E = F) /\ (~Has(W, {"."}) => F = W)
      /\ W <= Len(text) + 1 /\ E <= Len(text) + 1
      /\ text[i] = "0" /\ text[i + 1] \in Xs /\ IsBase(Xs, HexDigits) /\ IsRun(i + 2, W, HexDigits)
  BY ShapeIs DEF IsShape, Places, IsText, StartsWith, IsBase
<1>2. j < F /\ MantissaTo(j, F, HexDigits)
  BY <1>1, MantissaThere
<1>3. /\ S \in Nat /\ E <= S /\ S <= Len(text) + 1 /\ i + 3 <= E /\ i < S /\ S \in i + 1 .. Len(text) + 1 /\ E \in i .. S
      /\ i + 1 < S
  <2>1. S \in Nat /\ E <= S /\ S <= Len(text) + 1
    BY DEF IsSuffix
  <2> QED BY <1>1, <1>2, <2>1
<1>4. BasedTo(i, S, Xs, HexDigits) => S <= W
  <2>1. ASSUME BasedTo(i, S, Xs, HexDigits) PROVE S <= W
    <3>1. Throughout(j, S, HexDigits) /\ j <= S
      BY <1>1, <1>3, <2>1 DEF BasedTo
    <3> QED BY <1>1, <1>3, <3>1, RunEnds
  <2> QED BY <2>1
<1>5. CASE float
  <2>1. Has(F, Ps) /\ G < E /\ W < E
    BY <1>1, <1>5
  <2>2. text[W] \notin IntegerSuffixes
    <3>1. CASE Has(W, {"."})
      BY <3>1, ClassesOfNumbers DEF Has
    <3>2. CASE ~Has(W, {"."})
      BY <1>1, <2>1, <3>2, ClassesOfNumbers DEF Has
    <3> QED BY <3>1, <3>2
  <2>3. ASSUME NEW c \in Nat, S <= c, c <= Len(text) + 1 PROVE ~IntegerTo(i, c)
    <3>1. ASSUME IntegerTo(i, c) PROVE FALSE
      <4>1. i < c /\ c # i + 1 /\ ~(c < W) /\ W \in W .. c - 1
        BY <1>1, <1>3, <2>1, <2>3
      <4>2. Throughout(W, c, IntegerSuffixes)
        BY <1>1, <2>3, <3>1, <4>1, BasedNumbers
      <4> QED BY <2>2, <4>1, <4>2 DEF Throughout
    <3> QED BY <3>1
  <2>4. FloatTo(i, S)
    <3>1. PoweredTo(j, E, HexDigits, Ps)
      BY <1>1, <2>1, ClassesOfNumbers, PoweredOfShape
    <3>2. HexFloatTo(i, E)
      BY <1>1, <1>3, <3>1 DEF PoweredTo, MantissaTo, HexFloatTo
    <3>3. FloatSuffixTo(E, S)
      <4>1. S <= E + 1 /\ Throughout(E, S, FloatSuffixes)
        BY <1>1, <1>5 DEF IsSuffix
      <4> QED BY <4>1 DEF FloatSuffixTo
    <3> QED BY <1>3, <3>2, <3>3 DEF FloatTo
  <2>5. ASSUME NEW c \in S + 1 .. Len(text) + 1 PROVE ~NumberTo(i, c)
    <3>1. c \in Nat /\ S <= c /\ c <= Len(text) + 1 /\ i < c /\ E < c /\ S < c
      BY <1>1, <1>3
    <3>2. ASSUME FloatTo(i, c) PROVE FALSE
      <4>1. c <= E \/ (c = E + 1 /\ Has(E, FloatSuffixes))
        BY <3>1, <3>2, HexFloats
      <4>2. c = E + 1 /\ Has(E, FloatSuffixes)
        BY <1>1, <3>1, <4>1
      <4>3. S = E + 1
        BY <1>5, <4>2 DEF IsSuffix
      <4> QED BY <1>1, <3>1, <4>2, <4>3
    <3> QED BY <2>3, <3>1, <3>2 DEF NumberTo
  <2>6. LongestNumber(i, S)
    BY <1>3, <2>4, <2>5 DEF LongestNumber, NumberTo
  <2>7. ~BasedTo(i, S, Xs, HexDigits)
    BY <1>1, <1>3, <1>4, <2>1
  <2> QED BY <1>3, <1>5, <2>3, <2>6, <2>7
<1>6. CASE ~float
  <2>1. ~Has(W, {"."}) /\ ~Has(F, Ps) /\ F = W /\ E = W /\ i + 3 <= W
    BY <1>1, <1>3, <1>6
  <2>2. IsRun(W, S, IntegerSuffixes)
    BY <1>6, <2>1 DEF IsSuffix
  <2>3. ASSUME NEW c \in Nat, i < c, c <= Len(text) + 1 PROVE ~FloatTo(i, c)
    BY <2>1, <2>3, HexFloats
  <2>4. IntegerTo(i, S)
    <3>1. DigitsTo(i, W)
      BY <1>1, <2>1 DEF DigitsTo, BasedTo, IsRun
    <3> QED BY <1>3, <2>1, <2>2, <3>1 DEF IntegerTo, IsRun
  <2>5. ASSUME NEW c \in S + 1 .. Len(text) + 1 PROVE ~NumberTo(i, c)
    <3>1. c \in Nat /\ c <= Len(text) + 1 /\ i < c /\ W <= c /\ S < c /\ c # i + 1 /\ ~(c < W)
      BY <1>1, <1>3, <2>1
    <3>2. ASSUME IntegerTo(i, c) PROVE FALSE
      <4>1. Throughout(W, c, IntegerSuffixes)
        BY <1>1, <3>1, <3>2, BasedNumbers
      <4>2. c <= S
        BY <1>1, <1>3, <2>2, <3>1, <4>1, RunEnds
      <4> QED BY <1>3, <3>1, <4>2
    <3> QED BY <2>3, <3>1, <3>2 DEF NumberTo
  <2>6. LongestNumber(i, S)
    BY <1>3, <2>4, <2>5 DEF LongestNumber, NumberTo
  <2>7. ~(Has(S, {"."}) /\ BasedTo(i, S, Xs, HexDigits))
    <3>1. BasedTo(i, S, Xs, HexDigits) => S = W
      BY <1>1, <1>3, <1>4, <2>1
    <3> QED BY <2>1, <3>1
  <2> QED BY <1>3, <1>6, <2>3, <2>6, <2>7
<1> QED BY <1>5, <1>6

LEMMA WrongHex ==
  ASSUME IsText, NEW i \in Places, StartsWith(i, Xs), NEW j \in Nat, j = i + 2, NEW W, NEW F, NEW G, NEW E,
         IsShape(j, W, F, G, E, HexDigits, Ps),
         ~(Enough(j, W, F) /\ (Has(F, Ps) => G < E) /\ (Has(W, {"."}) => Has(F, Ps))), NEW b, LongestNumber(i, b)
  PROVE  CutAt(i, b)
<1>1. /\ i \in Nat /\ W \in Nat /\ F \in Nat /\ G \in Nat /\ E \in Nat /\ Len(text) \in Nat /\ j <= W /\ W <= F
      /\ IsRun(j, W, HexDigits) /\ (~Has(W, {"."}) => F = W) /\ W <= Len(text) + 1
      /\ i + 1 <= Len(text) /\ text[i] = "0" /\ text[i + 1] \in Xs /\ IsBase(Xs, HexDigits) /\ IsRun(i + 2, W, HexDigits)
  BY ShapeIs DEF IsShape, Places, IsText, StartsWith, IsBase
<1>2. b \in Nat /\ i < b /\ b <= Len(text) + 1 /\ NumberTo(i, b)
  BY <1>1 DEF LongestNumber
<1>3. ~FloatTo(i, b)
  BY <1>1, <1>2, HexFloats
<1>4. \/ b = i + 1
      \/ i + 3 <= b /\ b < W
      \/ i + 3 <= W /\ W <= b /\ Throughout(W, b, IntegerSuffixes)
  BY <1>1, <1>2, <1>3, BasedNumbers DEF NumberTo
<1>5. CASE b = i + 1
  <2>1. Has(b, IdentifierPart)
    BY <1>1, <1>5, ClassesOfBases DEF Has
  <2> QED BY <2>1 DEF CutAt
<1>6. CASE i + 3 <= b /\ b < W
  <2>1. b \in j .. W - 1 /\ b <= Len(text)
    BY <1>1, <1>2, <1>6
  <2>2. Has(b, IdentifierPart)
    BY <1>1, <2>1, ClassesOfBases DEF Has, IsRun, Throughout
  <2> QED BY <2>2 DEF CutAt
<1>7. CASE i + 3 <= W /\ W <= b /\ Throughout(W, b, IntegerSuffixes)
  <2>1. CASE Has(W, {"."})
    <3>1. text[W] \notin IntegerSuffixes
      BY <2>1, ClassesOfNumbers DEF Has
    <3>2. b = W
      BY <1>1, <1>2, <1>7, <3>1, StopsAtOnce
    <3>3. BasedTo(i, W, Xs, HexDigits)
      BY <1>1, <1>7 DEF BasedTo, IsRun
    <3> QED BY <2>1, <3>2, <3>3 DEF CutAt
  <2>2. CASE ~Has(W, {"."})
    <3>1. F = W /\ j < W
      BY <1>1, <1>7, <2>2
    <3>2. Enough(j, W, F)
      BY <2>2, <3>1 DEF Enough
    <3>3. Has(W, Ps)
      BY <2>2, <3>1, <3>2
    <3>4. text[W] \notin IntegerSuffixes /\ Has(W, IdentifierPart)
      BY <3>3, ClassesOfNumbers DEF Has
    <3>5. b = W
      BY <1>1, <1>2, <1>7, <3>4, StopsAtOnce
    <3> QED BY <3>4, <3>5 DEF CutAt
  <2> QED BY <2>1, <2>2
<1> QED BY <1>4, <1>5, <1>6, <1>7

LEMMA RightBinary ==
  ASSUME IsText, NEW i \in Places, StartsWith(i, Bs), NEW W \in Nat, W <= Len(text) + 1, IsRun(i + 2, W, BinaryDigits),
         i + 2 < W, NEW S, IsSuffix(W, S, FALSE)
  PROVE  /\ LongestNumber(i, S)
         /\ ~FloatTo(i, S)
         /\ ~BasedTo(i, S, Xs, HexDigits)
<1>1. /\ i \in Nat /\ Len(text) \in Nat /\ text[i] = "0" /\ text[i + 1] \in Bs /\ IsBase(Bs, BinaryDigits) /\ i + 3 <= W
      /\ Throughout(i + 2, W, BinaryDigits)
  BY DEF Places, IsText, StartsWith, IsBase, IsRun
<1>2. IsRun(W, S, IntegerSuffixes) /\ S \in Nat /\ W <= S /\ S <= Len(text) + 1
  BY DEF IsSuffix
<1>3. S \in i + 1 .. Len(text) + 1 /\ i < S /\ W \in i .. S
  BY <1>1, <1>2
<1>4. Xs \in {Xs, Bs} \ {Bs}
  BY BasesDiffer
<1>5. ASSUME NEW c \in Nat, i < c, c <= Len(text) + 1 PROVE ~FloatTo(i, c)
  BY <1>5, NoBinaryFloats
<1>6. IntegerTo(i, S)
  <2>1. DigitsTo(i, W)
    BY <1>1 DEF DigitsTo, BasedTo
  <2> QED BY <1>2, <1>3, <2>1 DEF IntegerTo, IsRun
<1>7. ASSUME NEW c \in S + 1 .. Len(text) + 1 PROVE ~NumberTo(i, c)
  <2>1. c \in Nat /\ c <= Len(text) + 1 /\ i < c /\ W <= c /\ S < c /\ c # i + 1 /\ ~(c < W)
    BY <1>1, <1>2
  <2>2. ASSUME IntegerTo(i, c) PROVE FALSE
    <3>1. Throughout(W, c, IntegerSuffixes)
      BY <1>1, <2>1, <2>2, BasedNumbers
    <3>2. c <= S
      BY <1>1, <1>2, <2>1, <3>1, RunEnds
    <3> QED BY <1>2, <2>1, <3>2
  <2> QED BY <1>5, <2>1, <2>2 DEF NumberTo
<1>8. LongestNumber(i, S)
  BY <1>3, <1>6, <1>7 DEF LongestNumber, NumberTo
<1>9. ~BasedTo(i, S, Xs, HexDigits)
  BY <1>1, <1>2, <1>3, <1>4, BasedNumbers
<1> QED BY <1>2, <1>3, <1>5, <1>8, <1>9

LEMMA WrongBinary ==
  ASSUME IsText, NEW i \in Places, StartsWith(i, Bs), NEW W \in Nat, W <= Len(text) + 1, IsRun(i + 2, W, BinaryDigits),
         i + 2 < W => Has(W, Digits), NEW b, LongestNumber(i, b)
  PROVE  CutAt(i, b)
<1>1. /\ i \in Nat /\ Len(text) \in Nat /\ i + 1 <= Len(text) /\ text[i] = "0" /\ text[i + 1] \in Bs /\ IsBase(Bs, BinaryDigits)
  BY DEF Places, IsText, StartsWith, IsBase
<1>2. b \in Nat /\ i < b /\ b <= Len(text) + 1 /\ NumberTo(i, b)
  BY <1>1 DEF LongestNumber
<1>3. ~FloatTo(i, b)
  BY <1>2, NoBinaryFloats
<1>4. \/ b = i + 1
      \/ i + 3 <= b /\ b < W
      \/ i + 3 <= W /\ W <= b /\ Throughout(W, b, IntegerSuffixes)
  BY <1>1, <1>2, <1>3, BasedNumbers DEF NumberTo
<1>5. CASE b = i + 1
  <2>1. Has(b, IdentifierPart)
    BY <1>1, <1>5, ClassesOfBases DEF Has
  <2> QED BY <2>1 DEF CutAt
<1>6. CASE i + 3 <= b /\ b < W
  <2>1. b \in i + 2 .. W - 1 /\ b <= Len(text)
    BY <1>1, <1>2, <1>6
  <2>2. Has(b, IdentifierPart)
    BY <1>1, <2>1, ClassesOfBases DEF Has, IsRun, Throughout
  <2> QED BY <2>2 DEF CutAt
<1>7. CASE i + 3 <= W /\ W <= b /\ Throughout(W, b, IntegerSuffixes)
  <2>1. i + 2 < W
    BY <1>1, <1>7
  <2>2. text[W] \notin IntegerSuffixes /\ Has(W, IdentifierPart)
    BY <2>1, ClassesOfNumbers DEF Has
  <2>3. b = W
    BY <1>2, <1>7, <2>2, StopsAtOnce
  <2> QED BY <2>2, <2>3 DEF CutAt
<1> QED BY <1>4, <1>5, <1>6, <1>7

-----------------------------------------------------------------------------
(* The turns that lex numbers.                                             *)

LEMMA StartsBasedIs ==
  ASSUME IsText, here \in Positions, AtToken, NEW letters, NUL \notin letters
  PROVE  StartsBased(letters) <=> StartsWith(here.at, letters)
BY TokenHere DEF StartsBased, StartsWith

LEMMA BehindTheBase ==
  ASSUME IsText, here \in Positions, AtToken, NEW letters \in {Xs, Bs}, StartsWith(here.at, letters)
  PROVE  /\ AdvanceBy(here, 2) \in Positions /\ AdvanceBy(here, 2).at = here.at + 2 /\ here.at + 2 \in Nat
         /\ AtNumber(here.at)
<1> DEFINE i == here.at
<1>1. i \in Places /\ i \in Nat /\ i >= 1 /\ Len(text) \in Nat /\ i + 2 \in Nat /\ i <= Len(text)
      /\ i + 1 <= Len(text) /\ text[i] = "0" /\ text[i + 1] \in letters
  BY TokenHere DEF StartsWith
<1>2. text[i + 1] # CR /\ text[i] # CR
  <2>1. text[i + 1] \in Xs \union Bs
    BY <1>1
  <2> QED BY <1>1, <2>1, ClassesOfBases DEF CR
<1>3. AdvanceBy(here, 2) \in Positions /\ AdvanceBy(here, 2).at = i + 2
  BY <1>1, <1>2, TwoCharacters
<1>4. AtNumber(i)
  BY <1>1, ClassesOfBases DEF AtNumber, Has
<1> QED BY <1>1, <1>3, <1>4

LEMMA NoNumberLetter == NUL \notin Xs /\ NUL \notin Bs /\ NUL \notin Xs \union Bs
BY DEF NUL, Xs, Bs

LEMMA DecimalRight ==
  ASSUME IsText, here \in Positions, LexDecimalLiteral
  PROVE  \E kind, end, errors : RightAdd(kind, end, errors)
<1> DEFINE i == here.at
           whole == Past(here, Digits)
           dotted == Ahead(whole) = "."
           fraction == IF dotted THEN Past(Advance(whole), Digits) ELSE whole
           powered == Ahead(fraction) \in Es
           power == IF powered THEN Exponent(fraction) ELSE Scan(fraction, <<>>)
           float == dotted \/ powered
           octal == InvalidOctal(whole, float)
           octalError == ErrorIf(octal, "not an octal digit")
           errors == power.errors \o octalError
           W == whole.at
           F == fraction.at
           E == power.end.at
<1>1. /\ AtToken /\ ~StartsBased({"x", "X", "b", "B"})
      /\ Ahead(here) \in Digits \/ (Ahead(here) = "." /\ Peek(here, 1) \in Digits)
  BY DEF LexDecimalLiteral
<1>2. AddNumber(power.end, float, errors)
  BY DEF LexDecimalLiteral, Es
<1>3. /\ whole \in Positions /\ fraction \in Positions /\ power.end \in Positions
      /\ dotted <=> Has(W, {"."})
      /\ powered <=> Has(F, Es)
      /\ IsSequence(power.errors)
      /\ \E G : /\ IsShape(i, W, F, G, E, Digits, Es)
                /\ power.errors = <<>> <=> (powered => G < E)
  <2>1. CR \notin Digits /\ CR \notin Es /\ NUL \notin Es
    BY ClassesOfNumbers
  <2> QED BY ONLY IsText, here \in Positions, <2>1, DigitsScanned
<1> HIDE DEF power, fraction, whole, powered, dotted
<1>4. PICK G : /\ IsShape(i, W, F, G, E, Digits, Es)
               /\ power.errors = <<>> <=> (powered => G < E)
  BY <1>3
<1>5. i \in Places /\ i \in Nat /\ i <= Len(text) /\ Len(text) \in Nat /\ Ahead(here) = text[i]
      /\ (i + 1 <= Len(text) => Peek(here, 1) = text[i + 1]) /\ (~(i + 1 <= Len(text)) => Peek(here, 1) = NUL)
  BY <1>1, TokenHere
<1>6. AtNumber(i)
  <2>1. NUL \notin Digits
    BY DEF NUL, Digits
  <2> QED BY <1>1, <1>5, <2>1 DEF AtNumber, Has
<1>7. ~(text[i] = "0" /\ Has(i + 1, Xs \union Bs))
  <2>1. Xs \union Bs = {"x", "X", "b", "B"}
    BY DEF Xs, Bs
  <2>2. ~StartsWith(i, Xs \union Bs)
    BY <1>1, <2>1, NoNumberLetter, StartsBasedIs
  <2> QED BY <2>2 DEF StartsWith, Has
<1>8. float \in BOOLEAN /\ octal \in BOOLEAN
  BY DEF InvalidOctal, dotted, powered
<1>9. octal <=> IsWrongOctal(i, W, float)
  BY <1>5 DEF InvalidOctal, IsWrongOctal
<1>10. IsSequence(octalError) /\ (octalError = <<>> <=> ~octal)
  BY <1>8, ErrorIfIs
<1>11. float <=> Has(W, {"."}) \/ Has(F, Es)
  BY <1>3
<1> HIDE DEF octal, octalError, float, W, F, E
<1>12. IsSequence(errors) /\ (errors = <<>> <=> power.errors = <<>> /\ octalError = <<>>)
  BY <1>3, <1>10, ErrorsTogether
<1>13. errors = <<>> <=> (Has(F, Es) => G < E) /\ ~IsWrongOctal(i, W, float)
  BY <1>3, <1>4, <1>9, <1>10, <1>12
<1> HIDE DEF errors
<1>14. ASSUME errors # <<>>, NEW b, LongestNumber(i, b) PROVE CutAt(i, b)
  BY <1>4, <1>5, <1>6, <1>7, <1>8, <1>11, <1>13, <1>14, WrongDecimal
<1>15. ASSUME errors = <<>>, NEW S, IsSuffix(E, S, float)
       PROVE  /\ LongestNumber(i, S)
              /\ float => ~IntegerTo(i, S)
              /\ ~float => ~FloatTo(i, S)
              /\ ~(Has(S, {"."}) /\ BasedTo(i, S, Xs, HexDigits))
  BY <1>4, <1>5, <1>6, <1>7, <1>8, <1>11, <1>13, <1>15, RightDecimal
<1> QED BY <1>1, <1>2, <1>3, <1>6, <1>8, <1>12, <1>14, <1>15, NumberRight DEF E

LEMMA HexRight ==
  ASSUME IsText, here \in Positions, LexHexLiteral
  PROVE  \E kind, end, errors : RightAdd(kind, end, errors)
<1> DEFINE i == here.at
           first == AdvanceBy(here, 2)
           whole == Past(first, HexDigits)
           dotted == Ahead(whole) = "."
           fraction == IF dotted THEN Past(Advance(whole), HexDigits) ELSE whole
           digits == (fraction.at - first.at) - (IF dotted THEN 1 ELSE 0)
           powered == Ahead(fraction) \in Ps
           power == IF powered THEN Exponent(fraction) ELSE Scan(fraction, <<>>)
           float == dotted \/ powered
           none == digits = 0
           unpowered == dotted /\ ~powered
           digitError == ErrorIf(none, "no hexadecimal digit")
           powerError == ErrorIf(unpowered, "no exponent")
           errors == digitError \o power.errors \o powerError
           W == whole.at
           F == fraction.at
           E == power.end.at
           j == i + 2
<1>1. AtToken /\ StartsBased({"x", "X"})
  BY DEF LexHexLiteral
<1>2. AddNumber(power.end, float, errors)
  BY DEF LexHexLiteral, Ps
<1>3. StartsWith(i, Xs)
  <2>1. Xs = {"x", "X"}
    BY DEF Xs
  <2> QED BY <1>1, <2>1, NoNumberLetter, StartsBasedIs
<1>4. first \in Positions /\ first.at = j /\ j \in Nat /\ AtNumber(i)
  BY <1>1, <1>3, BehindTheBase
<1>5. i \in Places /\ Len(text) \in Nat
  BY <1>1, TokenHere
<1> HIDE DEF first
<1>6. /\ whole \in Positions /\ fraction \in Positions /\ power.end \in Positions
      /\ dotted <=> Has(W, {"."})
      /\ powered <=> Has(F, Ps)
      /\ IsSequence(power.errors)
      /\ \E G : /\ IsShape(first.at, W, F, G, E, HexDigits, Ps)
                /\ power.errors = <<>> <=> (powered => G < E)
  <2>1. CR \notin HexDigits /\ CR \notin Ps /\ NUL \notin Ps
    BY ClassesOfNumbers
  <2> QED BY ONLY IsText, <1>4, <2>1, DigitsScanned
<1> HIDE DEF power, fraction, whole
<1>7. PICK G : /\ IsShape(j, W, F, G, E, HexDigits, Ps)
               /\ power.errors = <<>> <=> (powered => G < E)
  BY <1>4, <1>6
<1>8. float \in BOOLEAN /\ none \in BOOLEAN /\ unpowered \in BOOLEAN
  OBVIOUS
<1>9. none <=> ~Enough(j, W, F)
  <2>1. W \in Nat /\ F \in Nat /\ j <= W /\ W <= F /\ (~Has(W, {"."}) => F = W) /\ (Has(W, {"."}) => W + 1 <= F)
    BY <1>4, <1>7, ShapeIs DEF IsShape, IsRun
  <2>2. CASE dotted
    <3>1. none <=> (F - j) - 1 = 0
      BY <1>4, <2>2
    <3>2. W + 1 <= F /\ (Enough(j, W, F) <=> j + 2 <= F)
      BY <1>6, <2>1, <2>2 DEF Enough
    <3> HIDE DEF none, W, F, j
    <3> QED BY <1>4, <2>1, <3>1, <3>2
  <2>3. CASE ~dotted
    <3>1. none <=> (F - j) - 0 = 0
      BY <1>4, <2>3
    <3>2. F = W /\ (Enough(j, W, F) <=> j < W)
      BY <1>6, <2>1, <2>3 DEF Enough
    <3> HIDE DEF none, W, F, j
    <3> QED BY <1>4, <2>1, <3>1, <3>2
  <2> QED BY <2>2, <2>3
<1>10. unpowered <=> ~(Has(W, {"."}) => Has(F, Ps))
  BY <1>6
<1>11. float <=> Has(W, {"."}) \/ Has(F, Ps)
  BY <1>6
<1> HIDE DEF none, unpowered, float, digits, dotted, powered, W, F, E, j
<1>12. /\ IsSequence(digitError) /\ (digitError = <<>> <=> ~none)
       /\ IsSequence(powerError) /\ (powerError = <<>> <=> ~unpowered)
  BY <1>8, ErrorIfIs
<1> HIDE DEF digitError, powerError
<1>13. IsSequence(errors) /\ (errors = <<>> <=> digitError = <<>> /\ power.errors = <<>> /\ powerError = <<>>)
  <2>1. IsSequence(digitError \o power.errors) /\ (digitError \o power.errors = <<>> <=> digitError = <<>> /\ power.errors = <<>>)
    BY <1>6, <1>12, ErrorsTogether
  <2>2. /\ IsSequence((digitError \o power.errors) \o powerError)
        /\ (digitError \o power.errors) \o powerError = <<>> <=> digitError \o power.errors = <<>> /\ powerError = <<>>
    BY <1>12, <2>1, ErrorsTogether
  <2> QED BY <2>1, <2>2
<1>14. errors = <<>> <=> Enough(j, W, F) /\ (Has(F, Ps) => G < E) /\ (Has(W, {"."}) => Has(F, Ps))
  BY <1>6, <1>7, <1>9, <1>10, <1>12, <1>13
<1> HIDE DEF errors
<1>15. j = i + 2
  BY DEF j
<1>16. ASSUME errors # <<>>, NEW b, LongestNumber(i, b) PROVE CutAt(i, b)
  BY <1>3, <1>4, <1>5, <1>7, <1>14, <1>15, <1>16, WrongHex
<1>17. ASSUME errors = <<>>, NEW S, IsSuffix(E, S, float)
       PROVE  /\ LongestNumber(i, S)
              /\ float => ~IntegerTo(i, S)
              /\ ~float => ~FloatTo(i, S)
              /\ ~(Has(S, {"."}) /\ BasedTo(i, S, Xs, HexDigits))
  BY <1>3, <1>4, <1>5, <1>7, <1>8, <1>11, <1>14, <1>15, <1>17, RightHex
<1> QED BY <1>1, <1>2, <1>4, <1>6, <1>8, <1>13, <1>16, <1>17, NumberRight DEF E

LEMMA BinaryRight ==
  ASSUME IsText, here \in Positions, LexBinaryLiteral
  PROVE  \E kind, end, errors : RightAdd(kind, end, errors)
<1> DEFINE i == here.at
           first == AdvanceBy(here, 2)
           digits == Past(first, BinaryDigits)
           end == Past(digits, Digits)
           none == digits = first
           others == end # digits
           digitError == ErrorIf(none, "no binary digit")
           otherError == ErrorIf(others, "digits other than 0 and 1")
           errors == digitError \o otherError
           W == digits.at
<1>1. AtToken /\ StartsBased({"b", "B"})
  BY DEF LexBinaryLiteral
<1>2. AddNumber(end, FALSE, errors)
  BY DEF LexBinaryLiteral
<1>3. StartsWith(i, Bs)
  <2>1. Bs = {"b", "B"}
    BY DEF Bs
  <2> QED BY <1>1, <2>1, NoNumberLetter, StartsBasedIs
<1>4. first \in Positions /\ first.at = i + 2 /\ i + 2 \in Nat /\ AtNumber(i)
  BY <1>1, <1>3, BehindTheBase
<1>5. i \in Places /\ Len(text) \in Nat
  BY <1>1, TokenHere
<1> HIDE DEF first
<1>6. digits \in Positions /\ IsRun(i + 2, W, BinaryDigits)
  BY <1>4, ClassesOfBases, PastRuns
<1> HIDE DEF digits
<1>7. end \in Positions /\ IsRun(W, end.at, Digits)
  BY <1>6, ClassesOfNumbers, PastRuns
<1> HIDE DEF end
<1>8. none \in BOOLEAN /\ others \in BOOLEAN
  OBVIOUS
<1>9. W \in Nat /\ W <= Len(text) + 1 /\ end.at \in Nat /\ end.at <= Len(text) + 1 /\ i + 2 <= W /\ W <= end.at
  BY <1>5, <1>6, <1>7 DEF Positions, IsRun
<1>10. none <=> ~(i + 2 < W)
  <2>1. W = i + 2 => none
    BY <1>4, <1>6, SamePosition
  <2>2. none => W = i + 2
    BY <1>4
  <2> HIDE DEF none, W
  <2> QED BY <1>4, <1>9, <2>1, <2>2
<1>11. others <=> Has(W, Digits)
  <2>1. W = end.at => end = digits
    BY <1>6, <1>7, SamePosition
  <2>2. others <=> W # end.at
    BY <2>1
  <2>3. CASE W = end.at
    BY <1>7, <2>2, <2>3 DEF IsRun, Has
  <2>4. CASE W # end.at
    <3>1. W \in W .. end.at - 1 /\ W <= Len(text)
      BY <1>5, <1>9, <2>4
    <3> QED BY <1>7, <2>2, <2>4, <3>1 DEF IsRun, Has, Throughout
  <2> QED BY <2>3, <2>4
<1> HIDE DEF none, others, W
<1>12. /\ IsSequence(digitError) /\ (digitError = <<>> <=> ~none)
       /\ IsSequence(otherError) /\ (otherError = <<>> <=> ~others)
  BY <1>8, ErrorIfIs
<1> HIDE DEF digitError, otherError
<1>13. IsSequence(errors) /\ (errors = <<>> <=> digitError = <<>> /\ otherError = <<>>)
  BY <1>12, ErrorsTogether
<1>14. errors = <<>> <=> i + 2 < W /\ ~Has(W, Digits)
  BY <1>10, <1>11, <1>12, <1>13
<1> HIDE DEF errors
<1>15. ASSUME errors # <<>>, NEW b, LongestNumber(i, b) PROVE CutAt(i, b)
  BY <1>3, <1>5, <1>6, <1>9, <1>14, <1>15, WrongBinary
<1>16. ASSUME errors = <<>>, NEW S, IsSuffix(end.at, S, FALSE)
       PROVE  /\ LongestNumber(i, S)
              /\ FALSE => ~IntegerTo(i, S)
              /\ ~FALSE => ~FloatTo(i, S)
              /\ ~(Has(S, {"."}) /\ BasedTo(i, S, Xs, HexDigits))
  <2>1. end.at = W
    <3>1. ~Has(W, Digits) /\ ~others
      BY <1>11, <1>14, <1>16
    <3> QED BY <3>1 DEF others, W
  <2>2. IsSuffix(W, S, FALSE)
    BY <1>16, <2>1
  <2> QED BY <1>3, <1>5, <1>6, <1>9, <1>14, <1>16, <2>2, RightBinary
<1>17. FALSE \in BOOLEAN
  OBVIOUS
<1> QED BY <1>1, <1>2, <1>4, <1>7, <1>13, <1>15, <1>16, <1>17, NumberRight

-----------------------------------------------------------------------------
(* The tokens are the pieces.                                              *)

(* What is from a place on is nothing, or something of which what is       *)
(* further on is the rest.                                                 *)
LEMMA RestsAre ==
  ASSUME IsText, NEW i \in Places
  PROVE  \/ Rest(i) = <<>>
         \/ \E j \in Places : j > i /\ Rest(i) = Rest(j)
         \/ \E p : Rest(i) = <<p>>
         \/ \E p : \E j \in Places : j > i /\ Rest(i) = <<p>> \o Rest(j)
<1> DEFINE trivia == LongestTrivia(text, i)
           n == LongestToken(text, i)
           word == SubSeq(text, i, i + n - 1)
           Cut == IsCut(text, word, i + n)
           Opened == Opens(From(text, i))
           one == Piece("open comment", i, Len(text) - i + 1)
           none == Piece("none", i, 1)
           token == Piece(CHOOSE k \in Kinds(word) : TRUE, i, n)
<1>1. /\ i \in Nat /\ Len(text) \in Nat /\ i >= 1 /\ i <= Len(text) + 1
      /\ trivia \in Nat /\ trivia <= Len(text) - i + 1
      /\ n \in Nat /\ n <= Len(text) - i + 1
  <2>1. i \in 1 .. Len(text) + 1 /\ text \in Seq(STRING) /\ Len(text) \in Nat
    BY DEF Places, IsText
  <2>2. trivia \in 0 .. Len(text) - i + 1 /\ n \in 0 .. Len(text) - i + 1
    BY <2>1, LongestInText
  <2> HIDE DEF trivia, n
  <2> QED BY <2>1, <2>2
<1>2. Rest(i) = CASE i > Len(text) -> <<>>
                  [] i <= Len(text) /\ trivia > 0 -> Rest(i + trivia)
                  [] i <= Len(text) /\ trivia = 0 /\ Opened -> <<one>>
                  [] OTHER -> IF n = 0 \/ Cut THEN <<none>> ELSE <<token>> \o Rest(i + n)
  <2>1. Rest(i) = PiecesAt(text, PiecesFrom(text), i)
    BY RestIs
  <2> QED BY <2>1 DEF PiecesAt, Rest
<1> HIDE DEF trivia, n, Cut, Opened, one, none, token
<1>3. CASE i > Len(text)
  BY <1>1, <1>2, <1>3
<1>4. CASE ~(i > Len(text)) /\ trivia > 0
  <2>1. i + trivia \in Places /\ i + trivia > i
    BY <1>1, <1>4 DEF Places
  <2>2. Rest(i) = Rest(i + trivia)
    BY <1>1, <1>2, <1>4
  <2> QED BY <2>1, <2>2
<1>5. CASE ~(i > Len(text)) /\ ~(trivia > 0)
  <2>1. trivia = 0 /\ i <= Len(text)
    BY <1>1, <1>5
  <2>2. CASE Opened
    BY <1>2, <1>5, <2>1, <2>2
  <2>3. CASE ~Opened
    <3>1. Rest(i) = IF n = 0 \/ Cut THEN <<none>> ELSE <<token>> \o Rest(i + n)
      BY <1>2, <1>5, <2>1, <2>3
    <3>2. CASE n = 0 \/ Cut
      BY <3>1, <3>2
    <3>3. CASE ~(n = 0 \/ Cut)
      <4>1. i + n \in Places /\ i + n > i
        BY <1>1, <3>3 DEF Places
      <4>2. Rest(i) = <<token>> \o Rest(i + n)
        BY <3>1, <3>3
      <4> QED BY <4>1, <4>2
    <3> QED BY <3>2, <3>3
  <2> QED BY <2>2, <2>3
<1> QED BY <1>3, <1>4, <1>5

(* Sequences one behind the other, and which of them are well-formed.      *)
LEMMA ConcatIs ==
  ASSUME NEW s, IsSequence(s), NEW t, IsSequence(t)
  PROVE  /\ IsSequence(s \o t)
         /\ s \o t = <<>> <=> s = <<>> /\ t = <<>>
         /\ WellFormed(s \o t) <=> WellFormed(s) /\ WellFormed(t)
<1>1. PICK A : s \in Seq(A)
  BY DEF IsSequence
<1>2. PICK B : t \in Seq(B)
  BY DEF IsSequence
<1> DEFINE S == A \union B
           st == s \o t
<1>3. s \in Seq(S) /\ t \in Seq(S)
  BY <1>1, <1>2
<1> HIDE DEF S
<1>4. /\ st \in Seq(S) /\ Len(st) = Len(s) + Len(t)
      /\ \A i \in 1 .. Len(s) + Len(t) : st[i] = IF i <= Len(s) THEN s[i] ELSE t[i - Len(s)]
  BY <1>3, ConcatProperties
<1>5. /\ Len(s) \in Nat /\ Len(t) \in Nat
      /\ DOMAIN s = 1 .. Len(s) /\ DOMAIN t = 1 .. Len(t) /\ DOMAIN st = 1 .. Len(s) + Len(t)
  BY <1>3, <1>4
<1>6. IsSequence(st)
  BY <1>4 DEF IsSequence
<1>7. st = <<>> <=> s = <<>> /\ t = <<>>
  BY <1>3, <1>4
<1> HIDE DEF st
<1>8. ASSUME NEW i \in DOMAIN s PROVE i \in DOMAIN st /\ st[i] = s[i]
  BY <1>4, <1>5
<1>9. ASSUME NEW i \in DOMAIN t PROVE i + Len(s) \in DOMAIN st /\ st[i + Len(s)] = t[i]
  <2>1. i + Len(s) \in 1 .. Len(s) + Len(t) /\ ~(i + Len(s) <= Len(s)) /\ (i + Len(s)) - Len(s) = i
    BY <1>5
  <2> QED BY <1>4, <1>5, <2>1
<1>10. ASSUME NEW i \in DOMAIN st
       PROVE  (i \in DOMAIN s /\ st[i] = s[i]) \/ (i - Len(s) \in DOMAIN t /\ st[i] = t[i - Len(s)])
  <2>1. i \in 1 .. Len(s) + Len(t)
    BY <1>5
  <2>2. CASE i <= Len(s)
    BY <1>4, <1>5, <2>1, <2>2
  <2>3. CASE ~(i <= Len(s))
    <3>1. i - Len(s) \in 1 .. Len(t)
      BY <1>5, <2>1, <2>3
    <3>2. st[i] = t[i - Len(s)]
      BY <1>4, <2>1, <2>3
    <3> QED BY <1>5, <3>1, <3>2
  <2> QED BY <2>2, <2>3
<1>11. WellFormed(st) => WellFormed(s)
  BY <1>8, Zenon DEF WellFormed
<1>12. WellFormed(st) => WellFormed(t)
  BY <1>9, Zenon DEF WellFormed
<1>13. WellFormed(s) /\ WellFormed(t) => WellFormed(st)
  BY <1>10, Zenon DEF WellFormed
<1> QED BY <1>6, <1>7, <1>11, <1>12, <1>13 DEF st

(* A place's rest is a sequence.                                           *)
LEMMA RestIsASequence ==
  ASSUME IsText, NEW i \in Places
  PROVE  IsSequence(Rest(i))
<1> DEFINE z == Len(text) + 1
           Bad == {k \in Nat : z - k \in Places /\ ~IsSequence(Rest(z - k))}
<1>1. z \in Nat /\ Places = 1 .. z
  BY DEF IsText, Places
<1> HIDE DEF z
<1>2. ASSUME NEW k \in Bad, \A y \in Bad : k <= y PROVE FALSE
  <2>1. k \in Nat /\ z - k \in Places /\ ~IsSequence(Rest(z - k))
    OBVIOUS
  <2> DEFINE j == z - k
  <2>2. ASSUME NEW m \in Places, m > j PROVE IsSequence(Rest(m))
    <3>1. z - m \in Nat /\ z - (z - m) = m /\ ~(k <= z - m)
      BY <1>1, <2>1, <2>2
    <3> QED BY <1>2, <3>1
  <2> HIDE DEF j
  <2>3. j \in Places /\ ~IsSequence(Rest(j))
    BY <2>1 DEF j
  <2>4. ASSUME NEW p PROVE IsSequence(<<p>>)
    BY OneIs DEF IsSequence
  <2>5. CASE Rest(j) = <<>>
    BY <2>3, <2>5, NothingIsASequence
  <2>6. CASE \E m \in Places : m > j /\ Rest(j) = Rest(m)
    BY <2>2, <2>3, <2>6
  <2>7. CASE \E p : Rest(j) = <<p>>
    BY <2>3, <2>4, <2>7
  <2>8. CASE \E p : \E m \in Places : m > j /\ Rest(j) = <<p>> \o Rest(m)
    <3>0. PICK p : \E m \in Places : m > j /\ Rest(j) = <<p>> \o Rest(m)
      BY <2>8
    <3>1. PICK m \in Places : m > j /\ Rest(j) = <<p>> \o Rest(m)
      BY <3>0
    <3>2. IsSequence(<<p>>) /\ IsSequence(Rest(m))
      BY <2>2, <2>4, <3>1
    <3> QED BY <2>3, <3>1, <3>2, ConcatIs
  <2> QED BY <2>3, <2>5, <2>6, <2>7, <2>8, RestsAre
<1>3. Bad \in SUBSET Nat
  OBVIOUS
<1>4. Bad = {}
  <2> HIDE DEF Bad
  <2> QED BY <1>2, <1>3, LeastNumber
<1>5. z - i \in Nat /\ z - (z - i) = i
  BY <1>1
<1> QED BY <1>4, <1>5

(* What the tokens cover.                                                  *)
Extents(s) == [i \in DOMAIN s |-> Extent(s[i])]

LEMMA ExtentsGrow ==
  ASSUME NEW s, IsSequence(s), NEW e
  PROVE  /\ IsSequence(Extents(s))
         /\ Extents(Append(s, e)) = Extents(s) \o <<Extent(e)>>
         /\ UpTo(Append(s, e), Len(Append(s, e)) - 1) = s
<1>1. PICK A : s \in Seq(A)
  BY DEF IsSequence
<1> DEFINE S == A \union {e}
           x == Extents(s)
           X == {Extent(a) : a \in S}
           g == Append(s, e)
<1>2. s \in Seq(S) /\ e \in S
  BY <1>1
<1> HIDE DEF S
<1>3. /\ Len(s) \in Nat /\ DOMAIN s = 1 .. Len(s) /\ g \in Seq(S) /\ Len(g) = Len(s) + 1
      /\ DOMAIN g = 1 .. Len(s) + 1
      /\ g[Len(s) + 1] = e /\ \A i \in 1 .. Len(s) : g[i] = s[i]
  BY <1>2, AppendProperties
<1>4. \A i \in 1 .. Len(s) : s[i] \in S
  BY <1>2
<1>5. x \in Seq(X) /\ Len(x) = Len(s) /\ DOMAIN x = 1 .. Len(s) /\ \A i \in 1 .. Len(s) : x[i] = Extent(s[i])
  <2>1. x \in [1 .. Len(s) -> X]
    BY <1>3, <1>4 DEF Extents
  <2>2. DOMAIN x = 1 .. Len(s) /\ \A i \in 1 .. Len(s) : x[i] = Extent(s[i])
    BY <1>3 DEF Extents
  <2> HIDE DEF x, X
  <2> QED BY <1>3, <2>1, <2>2
<1>6. IsSequence(x)
  BY <1>5 DEF IsSequence
<1>7. UpTo(g, Len(g) - 1) = s
  <2>1. Len(g) - 1 = Len(s)
    BY <1>3
  <2>2. SubSeq(g, 1, Len(s)) = s
    BY <1>2, <1>3
  <2> QED BY <2>1, <2>2 DEF UpTo
<1>8. Extents(g) = x \o <<Extent(e)>>
  <2> DEFINE c == x \o <<Extent(e)>>
             one == <<Extent(e)>>
  <2>1. Extent(e) \in X
    BY <1>2
  <2> HIDE DEF X, x
  <2>2. one \in Seq(X) /\ Len(one) = 1 /\ one[1] = Extent(e)
    BY <2>1
  <2>3. /\ c \in Seq(X) /\ Len(c) = Len(x) + Len(one)
        /\ \A i \in 1 .. Len(x) + Len(one) : c[i] = IF i <= Len(x) THEN x[i] ELSE one[i - Len(x)]
    BY <1>5, <2>2, ConcatProperties
  <2> HIDE DEF one, g
  <2>4. DOMAIN c = 1 .. Len(s) + 1
    BY <1>3, <1>5, <2>2, <2>3
  <2>5. ASSUME NEW i \in 1 .. Len(s) PROVE c[i] = Extent(g[i])
    BY <1>3, <1>5, <2>2, <2>3
  <2>6. c[Len(s) + 1] = Extent(e)
    <3>1. Len(s) + 1 \in 1 .. Len(x) + Len(one) /\ ~(Len(s) + 1 <= Len(x)) /\ (Len(s) + 1) - Len(x) = 1
      BY <1>3, <1>5, <2>2
    <3> QED BY <2>2, <2>3, <3>1
  <2>7. ASSUME NEW i \in 1 .. Len(s) + 1 PROVE c[i] = Extent(g[i])
    <3>1. i \in 1 .. Len(s) \/ i = Len(s) + 1
      BY <1>3
    <3> QED BY <1>3, <2>5, <2>6, <3>1
  <2>8. DOMAIN c = DOMAIN g /\ c = [i \in DOMAIN c |-> c[i]]
    BY <1>3, <2>3, <2>4
  <2> HIDE DEF c
  <2>9. Extents(g) = c
    BY <1>3, <2>4, <2>7, <2>8 DEF Extents
  <2> QED BY <2>9 DEF c, one
<1> QED BY <1>6, <1>7, <1>8

-----------------------------------------------------------------------------
(* A text without a complaint so far is the tokens so far and what is from *)
(* here on; one with a complaint is not well-formed.                       *)
TokensAndRest == Rest(1) = Extents(tokens) \o Rest(here.at) /\ WellFormed(Extents(tokens))

TokensInv ==
  /\ PlacesInv
  /\ IsSequence(complaints)
  /\ complaints # <<>> => ~WellFormed(Rest(1))
  /\ complaints = <<>> /\ ~done => TokensAndRest
  /\ complaints = <<>> /\ done => Rest(1) = Extents(Lexed) /\ WellFormed(Rest(1))

LEMMA TokensInvInit == Init => TokensInv
<1> SUFFICES ASSUME Init PROVE TokensInv
  OBVIOUS
<1>1. PlacesInv
  BY PlacesInit
<1>2. complaints = <<>> /\ tokens = <<>> /\ ~done /\ here.at = 1
  BY DEF Init
<1>3. IsText /\ 1 \in Places
  BY <1>1 DEF PlacesInv, IsText, Places
<1>4. IsSequence(Rest(1))
  BY <1>3, RestIsASequence
<1>5. Extents(tokens) = <<>>
  BY <1>2 DEF Extents
<1>6. <<>> \o Rest(1) = Rest(1)
  <2>1. PICK S : Rest(1) \in Seq(S)
    BY <1>4 DEF IsSequence
  <2> QED BY <2>1, ConcatEmptySeq
<1>7. WellFormed(<<>>)
  <2>1. DOMAIN <<>> = {}
    OBVIOUS
  <2> QED BY <2>1, Zenon DEF WellFormed
<1> QED BY <1>1, <1>2, <1>5, <1>6, <1>7, NothingIsASequence DEF TokensInv, TokensAndRest

(* Every turn that consumes characters is one of the two.                  *)
LEMMA TurnsAreRight ==
  ASSUME IsText, here \in Positions, Next
  PROVE  /\ ~done /\ text' = text
         /\ \/ RightSkip /\ UNCHANGED <<tokens, done>>
            \/ (\E kind, end, errors : RightAdd(kind, end, errors)) /\ UNCHANGED done
            \/ EndOfFile
<1>1. ~done /\ (SkippedTrivia \/ Added \/ EndOfFile)
  BY TurnsAre
<1>2. CASE SkipBlank \/ SkipLineComment \/ SkipBlockComment
  BY <1>1, <1>2, SkipsRight
<1>3. CASE LexQuotedLiteral
  BY <1>1, <1>3, LiteralRight DEF LexQuotedLiteral, Add
<1>4. CASE LexIdentifier
  BY <1>1, <1>4, IdentifierRight DEF LexIdentifier, Add
<1>5. CASE LexHexLiteral
  BY <1>1, <1>5, HexRight DEF LexHexLiteral, AddNumber, Add
<1>6. CASE LexBinaryLiteral
  BY <1>1, <1>6, BinaryRight DEF LexBinaryLiteral, AddNumber, Add
<1>7. CASE LexDecimalLiteral
  BY <1>1, <1>7, DecimalRight DEF LexDecimalLiteral, AddNumber, Add
<1>8. CASE LexPunctuator
  BY <1>1, <1>8, PunctuatorRight DEF LexPunctuator, Add
<1>9. CASE LexInvalidCharacter
  BY <1>1, <1>9, InvalidRight DEF LexInvalidCharacter, Add
<1>10. CASE EndOfFile
  BY <1>1, <1>10 DEF EndOfFile
<1> QED BY <1>2, <1>3, <1>4, <1>5, <1>6, <1>7, <1>8, <1>9, <1>10 DEF Next

LEMMA ComplaintsGrow ==
  ASSUME IsSequence(complaints), NEW errors, IsSequence(errors), Complains(errors)
  PROVE  IsSequence(complaints') /\ (complaints' = <<>> <=> complaints = <<>> /\ errors = <<>>)
BY ConcatIs DEF Complains

LEMMA TokensInvSkip ==
  ASSUME TokensInv, PlacesInv', ~done, text' = text, RightSkip, UNCHANGED <<tokens, done>>
  PROVE  TokensInv'
<1>1. IsText /\ here \in Positions /\ here.at \in Places
  BY DEF TokensInv, PlacesInv, Positions, Places
<1>2. \A i : Rest(i)' = Rest(i)
  BY DEF Rest
<1>3. Extents(tokens)' = Extents(tokens)
  OBVIOUS
<1>4. IsSequence(complaints)
  BY DEF TokensInv
<1>5. CASE Complains(<<>>) /\ Rest(here.at) = Rest(here'.at)
  <2>1. IsSequence(complaints') /\ (complaints' = <<>> <=> complaints = <<>>)
    BY <1>4, <1>5, ComplaintsGrow, NothingIsASequence
  <2> QED BY <1>2, <1>3, <1>5, <2>1 DEF TokensInv, TokensAndRest
<1>6. CASE \E error : Complains(<<error>>) /\ ~WellFormed(Rest(here.at))
  <2>1. PICK error : Complains(<<error>>) /\ ~WellFormed(Rest(here.at))
    BY <1>6
  <2>2. IsSequence(<<error>>) /\ <<error>> # <<>>
    BY OneIs DEF IsSequence
  <2>3. IsSequence(complaints') /\ complaints' # <<>>
    BY <1>4, <2>1, <2>2, ComplaintsGrow
  <2>4. ~WellFormed(Rest(1))
    <3>1. CASE complaints = <<>>
      <4>1. IsSequence(Rest(here.at)) /\ IsSequence(tokens)
        BY <1>1, RestIsASequence DEF TokensInv, PlacesInv
      <4>2. IsSequence(Extents(tokens))
        BY <4>1, ExtentsGrow
      <4>3. WellFormed(Extents(tokens) \o Rest(here.at)) => WellFormed(Rest(here.at))
        BY <4>1, <4>2, ConcatIs
      <4>4. Rest(1) = Extents(tokens) \o Rest(here.at)
        BY <3>1 DEF TokensInv, TokensAndRest
      <4> QED BY <2>1, <4>3, <4>4
    <3> QED BY <3>1 DEF TokensInv
  <2> QED BY <1>2, <2>3, <2>4 DEF TokensInv
<1> QED BY <1>5, <1>6 DEF RightSkip

LEMMA TokensInvAdd ==
  ASSUME TokensInv, PlacesInv', ~done, text' = text, UNCHANGED done,
         NEW kind, NEW end, NEW errors, RightAdd(kind, end, errors)
  PROVE  TokensInv'
<1> DEFINE piece == Piece(kind, here.at, end.at - here.at)
           token == TokenAt(kind, end)
           x == Extents(tokens)
           behind == Rest(end.at)
<1>1. IsText /\ here.at \in Places /\ IsSequence(tokens) /\ IsSequence(complaints)
  BY DEF TokensInv, PlacesInv, Positions, Places
<1>2. here' = end /\ tokens' = Append(tokens, token) /\ Complains(errors) /\ IsSequence(errors)
  BY DEF RightAdd
<1>3. end.at \in Places
  <2>1. here' \in Positions'
    BY DEF PlacesInv
  <2> QED BY <1>2, <2>1 DEF Positions, Places
<1>4. \A i : Rest(i)' = Rest(i)
  BY DEF Rest
<1>5. IsSequence(complaints') /\ (complaints' = <<>> <=> complaints = <<>> /\ errors = <<>>)
  BY <1>1, <1>2, ComplaintsGrow
<1>6. IsSequence(x) /\ IsSequence(Rest(here.at)) /\ IsSequence(behind)
  BY <1>1, <1>3, RestIsASequence, ExtentsGrow
<1>7. complaints' # <<>> => ~WellFormed(Rest(1))
  <2>1. CASE complaints = <<>> /\ errors # <<>>
    <3>1. Rest(1) = x \o Rest(here.at) /\ ~WellFormed(Rest(here.at))
      BY <2>1 DEF TokensInv, TokensAndRest, RightAdd
    <3>2. WellFormed(x \o Rest(here.at)) => WellFormed(Rest(here.at))
      BY <1>6, ConcatIs
    <3> QED BY <3>1, <3>2
  <2> QED BY <1>5, <2>1 DEF TokensInv
<1>8. ASSUME complaints' = <<>> PROVE TokensAndRest'
  <2>1. /\ Rest(1) = x \o Rest(here.at) /\ WellFormed(x)
        /\ Rest(here.at) = <<piece>> \o behind /\ kind \notin {"open comment", "none"}
    BY <1>5, <1>8 DEF TokensInv, TokensAndRest, RightAdd
  <2>2. Extent(token) = piece
    <3>1. here.at \in Int /\ end.at \in Int
      BY <1>1, <1>3 DEF Places, IsText
    <3>2. end.at - 1 = here.at + (end.at - here.at) - 1
      BY <3>1
    <3> QED BY <3>2 DEF Extent, TokenAt, Piece
  <2>3. Extents(tokens') = x \o <<piece>>
    BY <1>1, <1>2, <2>2, ExtentsGrow
  <2>4. IsSequence(<<piece>>) /\ WellFormed(<<piece>>)
    <3>1. piece.kind = kind
      BY DEF Piece
    <3> HIDE DEF piece
    <3>2. DOMAIN <<piece>> = {1} /\ <<piece>>[1] = piece
      OBVIOUS
    <3>3. IsSequence(<<piece>>)
      BY OneIs DEF IsSequence
    <3> QED BY <2>1, <3>1, <3>2, <3>3 DEF WellFormed
  <2> HIDE DEF piece, x, behind, token
  <2>5. WellFormed(x \o <<piece>>)
    BY <1>6, <2>1, <2>4, ConcatIs
  <2>6. x \o (<<piece>> \o behind) = (x \o <<piece>>) \o behind
    <3>1. PICK A : x \in Seq(A)
      BY <1>6 DEF IsSequence
    <3>2. PICK B : behind \in Seq(B)
      BY <1>6 DEF IsSequence
    <3> DEFINE S == (A \union B) \union {piece}
    <3>3. x \in Seq(S) /\ behind \in Seq(S) /\ <<piece>> \in Seq(S)
      BY <3>1, <3>2
    <3> HIDE DEF S
    <3> QED BY <3>3, ConcatAssociative
  <2>7. Rest(1) = Extents(tokens') \o behind
    BY <2>1, <2>3, <2>6
  <2>8. Rest(1)' = Rest(1) /\ Rest(here.at)' = behind
    BY <1>2, <1>4 DEF behind, Rest
  <2>9. Extents(tokens)' = Extents(tokens')
    BY DEF Extents
  <2>10. WellFormed(Extents(tokens))'
    BY <2>3, <2>5, <2>9 DEF WellFormed
  <2> QED BY <2>7, <2>8, <2>9, <2>10 DEF TokensAndRest
<1> QED BY <1>4, <1>5, <1>7, <1>8 DEF TokensInv

LEMMA TokensInvEnd ==
  ASSUME TokensInv, PlacesInv', EndOfFile
  PROVE  TokensInv'
<1>1. /\ IsText /\ IsSequence(tokens) /\ ~done /\ done' = TRUE /\ text' = text /\ complaints' = complaints
      /\ tokens' = Append(tokens, TokenAt("eof", here)) /\ here.at = Len(text) + 1
  BY PlacesAgree DEF TokensInv, PlacesInv, EndOfFile
<1>2. Rest(here.at) = <<>>
  BY <1>1, NothingAtEnd
<1>3. IsSequence(Extents(tokens)) /\ Lexed' = tokens
  BY <1>1, ExtentsGrow DEF Lexed
<1>4. Extents(tokens) \o <<>> = Extents(tokens)
  <2>1. PICK S : Extents(tokens) \in Seq(S)
    BY <1>3 DEF IsSequence
  <2> QED BY <2>1, ConcatEmptySeq
<1>5. Rest(1)' = Rest(1)
  BY <1>1 DEF Rest
<1>6. Extents(Lexed)' = Extents(tokens)
  BY <1>3 DEF Extents
<1> QED BY <1>1, <1>2, <1>4, <1>5, <1>6 DEF TokensInv, TokensAndRest

LEMMA TokensInvNext == TokensInv /\ [Next]_vars => TokensInv'
<1> SUFFICES ASSUME TokensInv, [Next]_vars PROVE TokensInv'
  OBVIOUS
<1>1. PlacesInv /\ PlacesInv'
  BY PlacesNext DEF TokensInv
<1>2. CASE Next
  <2>1. /\ ~done /\ text' = text
        /\ \/ RightSkip /\ UNCHANGED <<tokens, done>>
           \/ (\E kind, end, errors : RightAdd(kind, end, errors)) /\ UNCHANGED done
           \/ EndOfFile
    BY <1>1, <1>2, TurnsAreRight DEF PlacesInv
  <2>2. CASE RightSkip /\ UNCHANGED <<tokens, done>>
    BY <1>1, <2>1, <2>2, TokensInvSkip
  <2>3. CASE (\E kind, end, errors : RightAdd(kind, end, errors)) /\ UNCHANGED done
    BY <1>1, <2>1, <2>3, TokensInvAdd
  <2>4. CASE EndOfFile
    BY <1>1, <2>4, TokensInvEnd
  <2> QED BY <2>1, <2>2, <2>3, <2>4
<1>3. CASE UNCHANGED vars
  BY <1>1, <1>3 DEF TokensInv, TokensAndRest, Lexed, vars, Rest, Extents
<1> QED BY <1>2, <1>3

LEMMA TokensInvImplies == TokensInv => TokensAreLongest
<1> SUFFICES ASSUME TokensInv, done PROVE TokensAreLongest
  BY DEF TokensAreLongest
<1>1. Pieces(text) = Rest(1)
  BY PiecesAreFrom DEF Rest
<1>2. Extents(Lexed) = [i \in DOMAIN Lexed |-> Extent(Lexed[i])]
  BY DEF Extents
<1>3. complaints = <<>> <=> WellFormed(Rest(1))
  BY DEF TokensInv
<1>4. complaints = <<>> => Rest(1) = Extents(Lexed)
  BY DEF TokensInv
<1> HIDE DEF Extents
<1> QED BY <1>1, <1>2, <1>3, <1>4 DEF TokensAreLongest

(* The lexer takes exactly the texts that fall into C's tokens, the next   *)
(* one always the longest there is, and takes them as these: what it tries *)
(* first and how far it reads decide nothing else (cc_lex_source).         *)
THEOREM TokensAreAlwaysLongest == Spec => []TokensAreLongest
<1>1. Spec => []TokensInv
  BY TokensInvInit, TokensInvNext, PTL DEF Spec
<1> QED BY <1>1, TokensInvImplies, PTL

=============================================================================
