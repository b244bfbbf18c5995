----------------------------- MODULE NamesProofs ----------------------------
(***************************************************************************)
(* The three name tables of the compiler against C, for any names, any     *)
(* number of declarations and any depth of scopes.                         *)
(*                                                                         *)
(* No two live locals share an emitted name.  That invariant is about the  *)
(* bindings alone: a local is emitted bare only when no live binding has   *)
(* its source name, and with the counter otherwise; the counter is above   *)
(* every number in use, which is what keeps a new name apart.              *)
(*                                                                         *)
(* The other four theorems rest on one invariant, NamesInv: as long as     *)
(* nothing is reported the three tables agree with the scopes of C.  Each  *)
(* list of the symbol table has what the scope of C declares, each name    *)
(* once; each mark of the parser's table belongs to an open brace, a type  *)
(* of that scope is below the next mark and every name above the first one *)
(* is a builtin or a type of an open scope; each list of the code generator*)
(* binds the objects of a scope to the names they were emitted under.      *)
(***************************************************************************)
EXTENDS Names, FiniteSetTheorems, WellFoundedInduction, TLAPS

Entries == [name : Names, number : Int]

NumbersBelow(b) ==
    \A i \in DOMAIN b.scopes : \A j \in DOMAIN b.scopes[i] : b.scopes[i][j].number < b.counter

Apart(b) ==
    \A i, k \in DOMAIN b.scopes :
        \A j \in DOMAIN b.scopes[i], l \in DOMAIN b.scopes[k] :
            b.scopes[i][j] = b.scopes[k][l] => i = k /\ j = l

BindingsInv(b) ==
    /\ b \in [scopes : Seq(Seq(Entries)), counter : Nat]
    /\ NumbersBelow(b)
    /\ Apart(b)

-----------------------------------------------------------------------------
(* The first bindings of a unit are empty.                                  *)
LEMMA NoBindingsHold == BindingsInv(Emit!NoBindings)
  BY DEF BindingsInv, NumbersBelow, Apart, Emit!NoBindings

(* A new scope binds nothing.                                               *)
LEMMA PushHolds ==
    ASSUME NEW b, BindingsInv(b)
    PROVE  BindingsInv(Emit!ScopePushed(b))
<1> DEFINE c == Emit!ScopePushed(b)
<1>1. c = [scopes |-> Append(b.scopes, <<>>), counter |-> b.counter]
  BY DEF Emit!ScopePushed
<1>2. c.scopes \in Seq(Seq(Entries)) /\ c.counter \in Nat
  BY <1>1 DEF BindingsInv
<1>3. ASSUME NEW i \in DOMAIN c.scopes, NEW j \in DOMAIN c.scopes[i]
      PROVE  i \in DOMAIN b.scopes /\ c.scopes[i] = b.scopes[i]
  <2>1. i = Len(b.scopes) + 1 => c.scopes[i] = <<>>
    BY <1>1 DEF BindingsInv
  <2>2. i # Len(b.scopes) + 1
    BY <2>1
  <2> QED
    BY <1>1, <2>2 DEF BindingsInv
<1> HIDE DEF c
<1> QED
  BY <1>1, <1>2, <1>3 DEF BindingsInv, NumbersBelow, Apart, c

(* Closing a scope takes bindings away.                                     *)
LEMMA PopHolds ==
    ASSUME NEW b, BindingsInv(b)
    PROVE  BindingsInv(Emit!ScopePopped(b))
<1> DEFINE c == Emit!ScopePopped(b)
<1>1. CASE b.scopes = <<>>
  BY <1>1 DEF Emit!ScopePopped
<1>2. CASE b.scopes # <<>>
  <2>1. c = [scopes |-> SubSeq(b.scopes, 1, Len(b.scopes) - 1), counter |-> b.counter]
    BY <1>2 DEF BindingsInv, Emit!ScopePopped
  <2>2. c.scopes \in Seq(Seq(Entries)) /\ c.counter \in Nat
    BY <1>2, <2>1 DEF BindingsInv
  <2>3. ASSUME NEW i \in DOMAIN c.scopes
        PROVE  i \in DOMAIN b.scopes /\ c.scopes[i] = b.scopes[i]
    BY <1>2, <2>1 DEF BindingsInv
  <2> HIDE DEF c
  <2> QED
    BY <2>1, <2>2, <2>3 DEF BindingsInv, NumbersBelow, Apart, c
<1> QED BY <1>1, <1>2

(* The number a new local gets is below the next counter and makes its name *)
(* different from every name in use.                                        *)
LEMMA NumberIsFresh ==
    ASSUME NEW b, BindingsInv(b), NEW n \in Names
    PROVE  /\ Emit!Bound(b, n).counter \in Nat
           /\ Emit!Bound(b, n).counter >= b.counter
           /\ Emit!NumberFor(b, n) \in Int
           /\ Emit!NumberFor(b, n) < Emit!Bound(b, n).counter
           /\ \A i \in DOMAIN b.scopes : \A j \in DOMAIN b.scopes[i] :
                  b.scopes[i][j] # Emit!Emitted(n, Emit!NumberFor(b, n))
<1>1. CASE Emit!Binding(b, n) = {}
  BY <1>1 DEF BindingsInv, Emit!Bound, Emit!NumberFor, Emit!Binding, Emit!Bare, Emit!Emitted
<1>2. CASE Emit!Binding(b, n) # {}
  BY <1>2 DEF BindingsInv, NumbersBelow, Emit!Bound, Emit!NumberFor, Emit!Bare, Emit!Emitted
<1> QED BY <1>1, <1>2

(* Binding a local keeps the names apart.                                   *)
LEMMA BindHolds ==
    ASSUME NEW b, BindingsInv(b), NEW n \in Names
    PROVE  BindingsInv(Emit!Bound(b, n))
<1> DEFINE e == Emit!Emitted(n, Emit!NumberFor(b, n))
           c == Emit!Bound(b, n)
           top == Len(b.scopes)
<1>1. /\ e \in Entries /\ e.number < c.counter
      /\ c.counter \in Nat /\ c.counter >= b.counter
      /\ \A i \in DOMAIN b.scopes : \A j \in DOMAIN b.scopes[i] : b.scopes[i][j] # e
  BY NumberIsFresh DEF Entries, Emit!Emitted
<1>2. c = [scopes |-> [b.scopes EXCEPT ![top] = Append(@, e)], counter |-> c.counter]
  BY DEF Emit!Bound
<1>3. CASE b.scopes = <<>>
  BY <1>1, <1>2, <1>3 DEF BindingsInv, NumbersBelow, Apart
<1>4. CASE b.scopes # <<>>
  <2>1. top \in DOMAIN b.scopes /\ b.scopes \in Seq(Seq(Entries))
    BY <1>4 DEF BindingsInv
  <2>2. /\ DOMAIN c.scopes = DOMAIN b.scopes
        /\ c.scopes[top] = Append(b.scopes[top], e)
        /\ \A i \in DOMAIN b.scopes : i # top => c.scopes[i] = b.scopes[i]
    BY <1>2, <2>1
  <2>3. b.scopes[top] \in Seq(Entries) /\ Append(b.scopes[top], e) \in Seq(Entries)
    BY <1>1, <2>1
  <2>4. c.scopes \in Seq(Seq(Entries))
    <3> HIDE DEF e, top
    <3>1. c.scopes = [b.scopes EXCEPT ![top] = Append(b.scopes[top], e)]
      BY <1>2
    <3> HIDE DEF c
    <3> QED
      BY <2>1, <2>3, <3>1
  <2> HIDE DEF e, c, top
  (* An entry of c is an entry of b in its place, or e at the end of top.   *)
  <2>5. ASSUME NEW i \in DOMAIN c.scopes, NEW j \in DOMAIN c.scopes[i]
        PROVE  \/ j \in DOMAIN b.scopes[i] /\ c.scopes[i][j] = b.scopes[i][j]
               \/ i = top /\ j = Len(b.scopes[top]) + 1 /\ c.scopes[i][j] = e
    <3>1. CASE i = top
      <4> DEFINE s == b.scopes[top]
      <4>1. s \in Seq(Entries) /\ c.scopes[i] = Append(s, e)
        BY <2>2, <2>3, <3>1
      <4> HIDE DEF s
      <4>2. j \in 1..(Len(s) + 1)
        BY <4>1
      <4>3. CASE j = Len(s) + 1
        BY <3>1, <4>1, <4>3 DEF s
      <4>4. CASE j \in 1..Len(s)
        <5>1. Append(s, e)[j] = s[j] /\ j \in DOMAIN s
          BY <4>1, <4>4
        <5> QED
          BY <3>1, <4>1, <5>1 DEF s
      <4> QED
        BY <4>1, <4>2, <4>3, <4>4
    <3>2. CASE i # top
      BY <2>2, <3>2
    <3> QED BY <3>1, <3>2
  <2>6. NumbersBelow(c)
    <3> SUFFICES ASSUME NEW i \in DOMAIN c.scopes, NEW j \in DOMAIN c.scopes[i]
                 PROVE  c.scopes[i][j].number < c.counter
      BY DEF NumbersBelow
    <3>1. CASE j \in DOMAIN b.scopes[i] /\ c.scopes[i][j] = b.scopes[i][j]
      <4>1. b.scopes[i][j] \in Entries /\ b.counter \in Nat
        BY <2>1, <2>2, <3>1 DEF BindingsInv
      <4>2. b.scopes[i][j].number < b.counter
        BY <2>2, <3>1 DEF BindingsInv, NumbersBelow
      <4> QED
        BY <1>1, <3>1, <4>1, <4>2 DEF Entries
    <3>2. CASE c.scopes[i][j] = e
      BY <1>1, <3>2
    <3> QED BY <2>5, <3>1, <3>2
  <2>7. Apart(c)
    BY <1>1, <2>2, <2>5 DEF Apart, BindingsInv
  <2>8. c \in [scopes : Seq(Seq(Entries)), counter : Nat]
    BY <1>1, <1>2, <2>4
  <2> QED BY <2>6, <2>7, <2>8 DEF BindingsInv, c
<1> QED BY <1>3, <1>4

-----------------------------------------------------------------------------
(* Every step leaves the bindings, binds a local, opens a scope or closes   *)
(* one.                                                                     *)
LEMMA StepHolds ==
    ASSUME BindingsInv(bindings), [Next]_vars
    PROVE  BindingsInv(bindings')
<1> SUFFICES \/ bindings' = bindings
             \/ \E n \in Names : bindings' = Emit!Bound(bindings, n)
             \/ bindings' = Emit!ScopePushed(bindings)
             \/ bindings' = Emit!ScopePopped(bindings)
  BY BindHolds, PushHolds, PopHolds
<1>1. ASSUME NEW spec \in TypeNames, NEW n \in Names,
             DeclareObject(spec, n) \/ DeclareTypedef(spec, n)
      PROVE  bindings' = bindings \/ bindings' = Emit!Bound(bindings, n)
  BY <1>1 DEF DeclareObject, DeclareTypedef, EmitLocal, EmitGlobal, EmitNothing
<1>2. ASSUME NEW n \in Names, NEW type \in FunctionTypes,
             DeclareFunction(n, type) \/ OpenFunction(n, type)
      PROVE  bindings' = bindings \/ bindings' = Emit!ScopePushed(bindings)
  BY <1>2 DEF DeclareFunction, OpenFunction, AddFunction
<1>3. ASSUME NEW n \in Names, DeclareParameter(n)
      PROVE  bindings' = Emit!Bound(bindings, n)
  BY <1>3 DEF DeclareParameter, EmitLocal
<1>4. OpenBody => bindings' = bindings
  BY DEF OpenBody
<1>5. OpenBlock \/ OpenFor => bindings' = Emit!ScopePushed(bindings)
  BY DEF OpenBlock, OpenFor
<1>6. Close => bindings' = Emit!ScopePopped(bindings)
  BY DEF Close
<1>7. ASSUME NEW n \in Names, NEW place, Use(n, place)
      PROVE  bindings' = bindings
  BY <1>7 DEF Use
<1>8. UNCHANGED vars => bindings' = bindings
  BY DEF vars
<1> QED BY <1>1, <1>2, <1>3, <1>4, <1>5, <1>6, <1>7, <1>8 DEF Next, Declare

-----------------------------------------------------------------------------
(* Greatest and least numbers.                                              *)

(* The least-number principle, from the well-foundedness of < on Nat.       *)
LEMMA LeastNumber ==
    ASSUME NEW T \in SUBSET Nat, T # {}
    PROVE  \E x \in T : \A y \in T : x <= y
<1> DEFINE R == OpToRel(<, Nat)
<1>1. IsWellFoundedOn(R, Nat)
  BY NatLessThanWellFounded
<1>2. \A x, y \in Nat : <<x, y>> \in R <=> x < y
  BY DEF OpToRel
<1> HIDE DEF R
<1>3. PICK x \in T : \A y \in T : ~ (<<y, x>> \in R)
  BY <1>1, WFMin, Zenon
<1>4. ASSUME NEW y \in T PROVE x <= y
  <2>1. x \in Nat /\ y \in Nat
    OBVIOUS
  <2>2. ~ (y < x)
    BY <1>2, <1>3, <2>1
  <2> QED BY <2>1, <2>2
<1> QED BY <1>4

(* A set of positions has a last one.                                       *)
LEMMA GreatestNumber ==
    ASSUME NEW L \in Nat, NEW S \in SUBSET (1..L), S # {}
    PROVE  \E x \in S : \A y \in S : y <= x
<1> DEFINE T == {L - x : x \in S}
<1>1. T \in SUBSET Nat /\ T # {}
  <2>1. \A x \in S : L - x \in Nat
    OBVIOUS
  <2>2. PICK x \in S : TRUE
    OBVIOUS
  <2>3. L - x \in T
    BY <2>2
  <2>4. T \subseteq Nat
    BY <2>1
  <2> QED BY <2>3, <2>4
<1>2. PICK z \in T : \A y \in T : z <= y
  <2> HIDE DEF T
  <2> QED BY <1>1, LeastNumber
<1>3. PICK x \in S : z = L - x
  OBVIOUS
<1>4. ASSUME NEW y \in S PROVE y <= x
  <2>1. z <= L - y
    BY <1>2
  <2> QED BY <1>3, <2>1
<1> QED BY <1>4

(* The innermost of a set of scopes, as the two lookups choose it.          *)
LEMMA InnermostIs ==
    ASSUME NEW L \in Nat, NEW S \in SUBSET (1..L), NEW x \in S, \A y \in S : y <= x
    PROVE  /\ Sema!Max(S) = x
           /\ (CHOOSE i \in S : \A j \in S : j <= i) = x
<1>1. ASSUME NEW z \in S, \A y \in S : y <= z PROVE z = x
  <2>1. z <= x /\ x <= z
    BY <1>1
  <2> QED BY <2>1
<1>2. ASSUME NEW z \in S, \A y \in S : z >= y PROVE z = x
  <2>1. z <= x /\ x <= z
    BY <1>2
  <2> QED BY <2>1
<1>3. (CHOOSE i \in S : \A j \in S : j <= i) = x
  BY <1>1
<1>4. \A y \in S : x >= y
  OBVIOUS
<1>5. Sema!Max(S) = x
  BY <1>2, <1>4 DEF Sema!Max
<1> QED BY <1>3, <1>5

(* The first of one.                                                        *)
LEMMA FirstOfOne ==
    ASSUME NEW j \in Nat
    PROVE  Sema!Min({j}) = j
<1>1. \A y \in {j} : j =< y
  OBVIOUS
<1> QED BY <1>1 DEF Sema!Min

-----------------------------------------------------------------------------
(* The symbol table: the scopes of C.                                       *)

Kinds == {"object", "typedef", "function"}

SymbolSet ==
    [name : Names, kind : Kinds, type : {"int"} \union FunctionTypes, defined : BOOLEAN, id : Nat]

EntitySet == [id : Nat, kind : Kinds, type : {"int"} \union FunctionTypes, defined : BOOLEAN]

DeclaresSet == [Names -> EntitySet \union {NoDeclaration}]

Openers == {"file", "parameters", "function", "block", "for", "for-init"}

ScopeSet == [opener : Openers, declares : DeclaresSet]

(* What C calls a symbol of the table.                                      *)
EntityOf(s) == [id |-> s.id, kind |-> s.kind, type |-> s.type, defined |-> s.defined]

(* A scope of the table holds what the scope of C declares, each name once. *)
ScopeAgrees(scope, declares) ==
    \A n \in Names :
        IF declares[n] = NoDeclaration
        THEN \A j \in DOMAIN scope : scope[j].name # n
        ELSE \E j \in DOMAIN scope :
                 /\ scope[j].name = n
                 /\ declares[n] = EntityOf(scope[j])
                 /\ \A k \in DOMAIN scope : scope[k].name = n => k = j

TablesAgree(s, c) ==
    /\ s \in Seq(Seq(SymbolSet))
    /\ c \in Seq(ScopeSet)
    /\ Len(s) = Len(c)
    /\ Len(c) >= 1
    /\ \A i \in DOMAIN c : ScopeAgrees(s[i], c[i].declares)

-----------------------------------------------------------------------------
(* A symbol stands for a declaration.                                       *)
LEMMA EntitiesTyped ==
    ASSUME NEW s \in SymbolSet
    PROVE  EntityOf(s) \in EntitySet /\ EntityOf(s) # NoDeclaration
  BY DEF SymbolSet, EntityOf, EntitySet, Kinds, NoDeclaration

(* A scope that has just been opened declares nothing.                      *)
LEMMA EmptyAgrees ==
    ASSUME NEW opener \in Openers
    PROVE  /\ EmptyScope(opener) \in ScopeSet
           /\ ScopeAgrees(<<>>, EmptyScope(opener).declares)
           /\ EmptyScope(opener).opener = opener
           /\ \A n \in Names : EmptyScope(opener).declares[n] = NoDeclaration
  BY DEF EmptyScope, ScopeSet, DeclaresSet, ScopeAgrees

(* Opening a scope, closing one and going on to its next part.              *)
LEMMA PushAgrees ==
    ASSUME NEW s, NEW c, TablesAgree(s, c), NEW opener \in Openers
    PROVE  TablesAgree(Sema!ScopePushed(s), Opened(c, opener))
<1> DEFINE e == EmptyScope(opener)
           t == Append(s, <<>>)
           d == Append(c, e)
<1>1. e \in ScopeSet /\ ScopeAgrees(<<>>, e.declares)
  BY EmptyAgrees
<1> HIDE DEF e
<1>2. s \in Seq(Seq(SymbolSet)) /\ c \in Seq(ScopeSet) /\ Len(s) = Len(c) /\ Len(c) >= 1
  BY DEF TablesAgree
<1>3. t \in Seq(Seq(SymbolSet)) /\ d \in Seq(ScopeSet) /\ Len(t) = Len(d) /\ Len(d) >= 1
  BY <1>1, <1>2
<1>4. ASSUME NEW i \in DOMAIN d PROVE ScopeAgrees(t[i], d[i].declares)
  <2>1. CASE i = Len(d)
    <3>1. t[i] = <<>> /\ d[i] = e
      BY <1>1, <1>2, <2>1
    <3> QED BY <1>1, <3>1
  <2>2. CASE i # Len(d)
    <3>1. Len(c) \in Nat /\ Len(d) = Len(c) + 1 /\ DOMAIN d = 1..Len(d)
      BY <1>1, <1>2
    <3>2. i \in 1..Len(c)
      BY <2>2, <3>1
    <3>3. i \in DOMAIN c
      BY <1>2, <3>2
    <3>4. t[i] = s[i]
      BY <1>2, <3>2
    <3>5. d[i] = c[i]
      BY <1>1, <1>2, <3>2
    <3> QED BY <3>3, <3>4, <3>5 DEF TablesAgree
  <2> QED BY <2>1, <2>2
<1>5. TablesAgree(t, d)
  <2> HIDE DEF t, d
  <2> QED BY <1>3, <1>4 DEF TablesAgree
<1> QED BY <1>5 DEF Sema!ScopePushed, Opened, e

(* Closing the innermost scope of both.                                     *)
LEMMA PopAgrees ==
    ASSUME NEW s, NEW c, TablesAgree(s, c), Len(c) > 1
    PROVE  TablesAgree(Sema!ScopePopped(s), Closed(c))
<1> DEFINE t == SubSeq(s, 1, Len(s) - 1)
           d == SubSeq(c, 1, Len(c) - 1)
<1>1. s \in Seq(Seq(SymbolSet)) /\ c \in Seq(ScopeSet) /\ Len(s) = Len(c)
  BY DEF TablesAgree
<1>2. t \in Seq(Seq(SymbolSet)) /\ d \in Seq(ScopeSet) /\ Len(t) = Len(d) /\ Len(d) >= 1
  BY <1>1
<1>3. ASSUME NEW i \in DOMAIN d PROVE ScopeAgrees(t[i], d[i].declares)
  <2>1. i \in DOMAIN c /\ t[i] = s[i] /\ d[i] = c[i]
    BY <1>1
  <2> QED BY <2>1 DEF TablesAgree
<1>4. TablesAgree(t, d)
  <2> HIDE DEF t, d
  <2> QED BY <1>2, <1>3 DEF TablesAgree
<1>5. s # <<>>
  BY <1>1
<1> QED BY <1>4, <1>5 DEF Sema!ScopePopped, Sema!Front, Closed

(* Another pair of innermost scopes that agree.                             *)
LEMMA TopAgrees ==
    ASSUME NEW s, NEW c, TablesAgree(s, c),
           NEW t \in Seq(SymbolSet), NEW e \in ScopeSet, ScopeAgrees(t, e.declares)
    PROVE  TablesAgree([s EXCEPT ![Len(s)] = t], [c EXCEPT ![Len(c)] = e])
<1> DEFINE u == [s EXCEPT ![Len(s)] = t]
           d == [c EXCEPT ![Len(c)] = e]
<1>1. s \in Seq(Seq(SymbolSet)) /\ c \in Seq(ScopeSet) /\ Len(s) = Len(c) /\ Len(c) >= 1
  BY DEF TablesAgree
<1>2. u \in Seq(Seq(SymbolSet)) /\ d \in Seq(ScopeSet) /\ Len(u) = Len(d) /\ Len(d) >= 1
  BY <1>1
<1>3. ASSUME NEW i \in DOMAIN d PROVE ScopeAgrees(u[i], d[i].declares)
  <2>1. CASE i = Len(c)
    <3>1. u[i] = t /\ d[i] = e
      BY <1>1, <2>1
    <3> QED BY <3>1
  <2>2. CASE i # Len(c)
    <3>1. i \in DOMAIN c /\ u[i] = s[i] /\ d[i] = c[i]
      BY <1>1, <2>2
    <3> QED BY <3>1 DEF TablesAgree
  <2> QED BY <2>1, <2>2
<1> HIDE DEF u, d
<1>4. TablesAgree(u, d)
  BY <1>2, <1>3 DEF TablesAgree
<1> QED BY <1>4 DEF u, d

(* A construct that goes on to its next part.                               *)
LEMMA ContinueAgrees ==
    ASSUME NEW s, NEW c, TablesAgree(s, c), NEW opener \in Openers
    PROVE  TablesAgree(s, Continued(c, opener))
<1> DEFINE e == [c[Len(c)] EXCEPT !.opener = opener]
           t == s[Len(s)]
<1>1. s \in Seq(Seq(SymbolSet)) /\ c \in Seq(ScopeSet) /\ Len(s) = Len(c) /\ Len(c) >= 1
  BY DEF TablesAgree
<1>2. t \in Seq(SymbolSet) /\ c[Len(c)] \in ScopeSet
  BY <1>1
<1>3. e \in ScopeSet /\ e.declares = c[Len(c)].declares
  BY <1>2 DEF ScopeSet
<1>4. ScopeAgrees(t, e.declares)
  BY <1>1, <1>3 DEF TablesAgree
<1>5. Continued(c, opener) = [c EXCEPT ![Len(c)] = e]
  BY DEF Continued
<1>6. s = [s EXCEPT ![Len(s)] = t]
  BY <1>1
<1> HIDE DEF t, e
<1>7. TablesAgree([s EXCEPT ![Len(s)] = t], [c EXCEPT ![Len(c)] = e])
  BY <1>2, <1>3, <1>4, TopAgrees
<1> QED BY <1>5, <1>6, <1>7, Zenon

-----------------------------------------------------------------------------
(* cc_lookup_symbol finds what C means.                                     *)
LEMMA LookupIsMeaning ==
    ASSUME NEW s, NEW c, TablesAgree(s, c), NEW n \in Names
    PROVE  /\ Sema!Lookup(s, n).kind = Meaning(c, n).kind
           /\ Sema!Lookup(s, n).id = Meaning(c, n).id
           /\ Sema!Lookup(s, n).defined = Meaning(c, n).defined
<1> DEFINE holding == Sema!ScopesWith(s, n)
<1>1. s \in Seq(Seq(SymbolSet)) /\ c \in Seq(ScopeSet) /\ Len(s) = Len(c)
  BY DEF TablesAgree
<1>2. ASSUME NEW i \in DOMAIN c
      PROVE  /\ Sema!PositionsOf(s[i], n) = {} <=> c[i].declares[n] = NoDeclaration
             /\ c[i].declares[n] # NoDeclaration =>
                    c[i].declares[n] = EntityOf(Sema!FoundIn(s[i], n))
  <2>1. s[i] \in Seq(SymbolSet)
    BY <1>1
  <2>2. CASE c[i].declares[n] = NoDeclaration
    <3>1. \A j \in DOMAIN s[i] : s[i][j].name # n
      BY <2>2 DEF TablesAgree, ScopeAgrees
    <3> QED BY <2>2, <3>1 DEF Sema!PositionsOf
  <2>3. CASE c[i].declares[n] # NoDeclaration
    <3>1. PICK j \in DOMAIN s[i] :
              /\ s[i][j].name = n
              /\ c[i].declares[n] = EntityOf(s[i][j])
              /\ \A k \in DOMAIN s[i] : s[i][k].name = n => k = j
      BY <2>3 DEF TablesAgree, ScopeAgrees
    <3>2. Sema!PositionsOf(s[i], n) = {j}
      BY <3>1 DEF Sema!PositionsOf
    <3>3. j \in Nat
      BY <2>1
    <3>4. Sema!FoundIn(s[i], n) = s[i][j]
      BY <3>2, <3>3, FirstOfOne DEF Sema!FoundIn
    <3> QED BY <2>3, <3>1, <3>2, <3>4
  <2> QED BY <2>2, <2>3
<1>3. holding = ScopesOf(c, n)
  <2>1. DOMAIN s = DOMAIN c
    BY <1>1
  <2>2. \A i \in DOMAIN c : Sema!PositionsOf(s[i], n) # {} <=> c[i].declares[n] # NoDeclaration
    BY <1>2
  <2> QED BY <2>1, <2>2, Zenon DEF Sema!ScopesWith, ScopesOf
<1>4. CASE holding = {}
  BY <1>3, <1>4 DEF Sema!Lookup, Meaning, Sema!NoSymbol, NoDeclaration
<1>5. CASE holding # {}
  <2>1. holding \in SUBSET (1..Len(c)) /\ Len(c) \in Nat
    BY <1>1, <1>3 DEF ScopesOf
  <2> HIDE DEF holding
  <2>2. PICK x \in holding : \A y \in holding : y <= x
    BY <1>5, <2>1, GreatestNumber
  <2>3. Sema!Max(holding) = x /\ (CHOOSE i \in holding : \A j \in holding : j <= i) = x
    BY <2>1, <2>2, InnermostIs
  <2>4. x \in DOMAIN c /\ c[x].declares[n] # NoDeclaration
    BY <1>3 DEF ScopesOf
  <2>5. Sema!Lookup(s, n) = Sema!FoundIn(s[x], n)
    BY <1>5, <2>3 DEF Sema!Lookup, holding
  <2>6. Meaning(c, n) = c[x].declares[n]
    BY <1>3, <1>5, <2>3 DEF Meaning
  <2>7. Meaning(c, n) = EntityOf(Sema!Lookup(s, n))
    BY <1>2, <2>4, <2>5, <2>6
  <2> QED BY <2>7 DEF EntityOf
<1> QED BY <1>4, <1>5

-----------------------------------------------------------------------------
(* The symbol table: what a declaration leaves.                             *)

(* What stands for a name after a declaration that may follow the one here. *)
Redeclaring(here, entity) ==
    IF here # NoDeclaration /\ MayFollow(here, entity)
    THEN [entity EXCEPT !.id = here.id, !.defined = @ \/ here.defined]
    ELSE entity

(* A name that is new in a scope.                                           *)
LEMMA AppendAgrees ==
    ASSUME NEW t \in Seq(SymbolSet), NEW d \in DeclaresSet, ScopeAgrees(t, d),
           NEW new \in SymbolSet, d[new.name] = NoDeclaration
    PROVE  ScopeAgrees(Append(t, new), [d EXCEPT ![new.name] = EntityOf(new)])
<1> DEFINE u == Append(t, new)
           n == new.name
           entity == EntityOf(new)
           e == [d EXCEPT ![n] = entity]
<1>1. n \in Names /\ entity # NoDeclaration
  BY EntitiesTyped DEF SymbolSet
<1>2. /\ Len(t) + 1 \in DOMAIN u /\ u[Len(t) + 1] = new
      /\ \A k \in DOMAIN u : k = Len(t) + 1 \/ (k \in DOMAIN t /\ u[k] = t[k])
      /\ \A k \in DOMAIN t : k \in DOMAIN u /\ u[k] = t[k]
  OBVIOUS
<1>3. e[n] = entity /\ \A m \in Names : m # n => e[m] = d[m]
  BY <1>1 DEF DeclaresSet
<1> HIDE DEF u, e, entity
<1>4. ASSUME NEW m \in Names
      PROVE  IF e[m] = NoDeclaration
             THEN \A j \in DOMAIN u : u[j].name # m
             ELSE \E j \in DOMAIN u :
                      /\ u[j].name = m
                      /\ e[m] = EntityOf(u[j])
                      /\ \A k \in DOMAIN u : u[k].name = m => k = j
  <2>1. CASE m = n
    <3>1. \A k \in DOMAIN t : t[k].name # n
      BY <1>1 DEF ScopeAgrees
    <3>2. \A k \in DOMAIN u : u[k].name = n => k = Len(t) + 1
      BY <1>2, <3>1
    <3>3. e[m] = EntityOf(u[Len(t) + 1])
      BY <1>2, <1>3, <2>1 DEF entity
    <3> QED BY <1>1, <1>2, <1>3, <2>1, <3>2, <3>3
  <2>2. CASE m # n /\ d[m] = NoDeclaration
    <3>1. \A k \in DOMAIN t : t[k].name # m
      BY <2>2 DEF ScopeAgrees
    <3> QED BY <1>2, <1>3, <2>2, <3>1
  <2>3. CASE m # n /\ d[m] # NoDeclaration
    <3>1. PICK j \in DOMAIN t :
              /\ t[j].name = m
              /\ d[m] = EntityOf(t[j])
              /\ \A k \in DOMAIN t : t[k].name = m => k = j
      BY <2>3 DEF ScopeAgrees
    <3>2. j \in DOMAIN u /\ u[j].name = m /\ e[m] = EntityOf(u[j])
      BY <1>2, <1>3, <2>3, <3>1
    <3>3. \A k \in DOMAIN u : u[k].name = m => k = j
      BY <1>2, <2>3, <3>1
    <3> QED BY <1>3, <2>3, <3>2, <3>3
  <2> QED BY <2>1, <2>2, <2>3
<1>5. ScopeAgrees(u, e)
  BY <1>4 DEF ScopeAgrees
<1> QED BY <1>5 DEF u, e, entity

(* A function that is defined after it was declared.                        *)
LEMMA DefineAgrees ==
    ASSUME NEW t \in Seq(SymbolSet), NEW d \in DeclaresSet, ScopeAgrees(t, d),
           NEW j \in DOMAIN t, NEW entity \in EntitySet,
           entity = EntityOf([t[j] EXCEPT !.defined = TRUE]),
           \A k \in DOMAIN t : t[k].name = t[j].name => k = j
    PROVE  ScopeAgrees([t EXCEPT ![j] = [t[j] EXCEPT !.defined = TRUE]],
                       [d EXCEPT ![t[j].name] = entity])
<1> DEFINE x == [t[j] EXCEPT !.defined = TRUE]
           n == t[j].name
           u == [t EXCEPT ![j] = x]
           e == [d EXCEPT ![n] = entity]
<1>1. n \in Names /\ entity # NoDeclaration
  <2>1. t[j] \in SymbolSet
    OBVIOUS
  <2>2. entity.kind \in Kinds
    BY DEF EntitySet
  <2>3. entity # NoDeclaration
    BY <2>2 DEF NoDeclaration, Kinds
  <2> QED BY <2>1, <2>3 DEF SymbolSet
<1>2. x.name = n /\ entity = EntityOf(x)
  <2>1. t[j] \in SymbolSet
    OBVIOUS
  <2> QED BY <2>1 DEF SymbolSet
<1>3. e[n] = entity /\ \A m \in Names : m # n => e[m] = d[m]
  BY <1>1 DEF DeclaresSet
<1> HIDE DEF x
<1>4. /\ DOMAIN u = DOMAIN t /\ u[j] = x
      /\ \A k \in DOMAIN t : k # j => u[k] = t[k]
  OBVIOUS
<1> HIDE DEF u, e, n
<1>5. \A k \in DOMAIN t : u[k].name = t[k].name
  BY <1>2, <1>4 DEF n
<1>6. ASSUME NEW m \in Names
      PROVE  IF e[m] = NoDeclaration
             THEN \A k \in DOMAIN u : u[k].name # m
             ELSE \E k \in DOMAIN u :
                      /\ u[k].name = m
                      /\ e[m] = EntityOf(u[k])
                      /\ \A l \in DOMAIN u : u[l].name = m => l = k
  <2>1. CASE m = n
    <3>1. e[m] # NoDeclaration /\ u[j].name = m /\ e[m] = EntityOf(u[j])
      BY <1>1, <1>2, <1>3, <1>4, <2>1
    <3>2. \A l \in DOMAIN u : u[l].name = m => l = j
      BY <1>4, <1>5, <2>1 DEF n
    <3> QED BY <1>4, <3>1, <3>2
  <2>2. CASE m # n /\ d[m] = NoDeclaration
    <3>1. \A k \in DOMAIN t : t[k].name # m
      BY <2>2 DEF ScopeAgrees
    <3> QED BY <1>3, <1>4, <1>5, <2>2, <3>1
  <2>3. CASE m # n /\ d[m] # NoDeclaration
    <3>1. PICK i \in DOMAIN t :
              /\ t[i].name = m
              /\ d[m] = EntityOf(t[i])
              /\ \A k \in DOMAIN t : t[k].name = m => k = i
      BY <2>3 DEF ScopeAgrees
    <3>2. i # j
      BY <2>3, <3>1 DEF n
    <3>3. i \in DOMAIN u /\ u[i].name = m /\ e[m] = EntityOf(u[i])
      BY <1>3, <1>4, <2>3, <3>1, <3>2
    <3>4. \A k \in DOMAIN u : u[k].name = m => k = i
      BY <1>4, <1>5, <3>1
    <3> QED BY <1>3, <2>3, <3>3, <3>4
  <2> QED BY <2>1, <2>2, <2>3
<1>7. ScopeAgrees(u, e)
  BY <1>6 DEF ScopeAgrees
<1> QED BY <1>7 DEF u, e, x, n

(* Two fields of an entity changed.                                         *)
LEMMA EntityUpdated ==
    ASSUME NEW e \in EntitySet, NEW a, NEW b
    PROVE  [e EXCEPT !.id = a, !.defined = b]
               = [id |-> a, kind |-> e.kind, type |-> e.type, defined |-> b]
<1> DEFINE r == [e EXCEPT !.id = a, !.defined = b]
<1>1. r \in [id : {a}, kind : {e.kind}, type : {e.type}, defined : {b}]
  BY DEF EntitySet
<1> HIDE DEF r
<1>2. r = [id |-> a, kind |-> e.kind, type |-> e.type, defined |-> b]
  BY <1>1
<1> QED BY <1>2 DEF r

(* cc_add_symbol_to_current_scope refuses what C does not let follow, and   *)
(* otherwise leaves the table in agreement with C.                          *)
LEMMA AddAgrees ==
    ASSUME NEW s, NEW c, TablesAgree(s, c), NEW new \in SymbolSet
    PROVE  LET add == Sema!Added(s, new)
               here == Here(c, new.name)
           IN  /\ add.refused <=> ~MayFollow(here, EntityOf(new))
               /\ add.refused \in BOOLEAN /\ add.added \in BOOLEAN
               /\ add.added <=> here = NoDeclaration
               /\ ~add.refused =>
                      TablesAgree(add.scopes,
                                  Declaring(c, new.name, Redeclaring(here, EntityOf(new))))
<1> DEFINE n == new.name
           entity == EntityOf(new)
           here == Here(c, n)
           redeclared == Redeclaring(here, entity)
           add == Sema!Added(s, new)
           L == Len(c)
           t == s[L]
           d == c[L].declares
           e == [c[L] EXCEPT !.declares = [d EXCEPT ![n] = redeclared]]
<1>1. s \in Seq(Seq(SymbolSet)) /\ c \in Seq(ScopeSet) /\ Len(s) = L /\ L \in DOMAIN c /\ L \in DOMAIN s
  BY DEF TablesAgree
<1>2. t \in Seq(SymbolSet) /\ c[L] \in ScopeSet /\ d \in DeclaresSet /\ ScopeAgrees(t, d)
  <2>1. t \in Seq(SymbolSet) /\ c[L] \in ScopeSet
    BY <1>1
  <2>2. d \in DeclaresSet
    BY <2>1 DEF ScopeSet
  <2>3. ScopeAgrees(t, d)
    BY <1>1 DEF TablesAgree
  <2> QED BY <2>1, <2>2, <2>3
<1>3. n \in Names /\ here = d[n] /\ entity \in EntitySet /\ entity # NoDeclaration
  BY EntitiesTyped DEF SymbolSet, Here, Top
<1>4. Declaring(c, n, redeclared) = [c EXCEPT ![L] = e]
  BY DEF Declaring
<1>5. redeclared \in EntitySet =>
          e \in ScopeSet /\ e.declares = [d EXCEPT ![n] = redeclared]
  BY <1>2, <1>3 DEF ScopeSet, DeclaresSet
<1>6. CASE here = NoDeclaration
  <2>1. \A j \in DOMAIN t : t[j].name # n
    BY <1>2, <1>3, <1>6 DEF ScopeAgrees
  <2>2. Sema!PositionsOf(s[Len(s)], n) = {}
    BY <1>1, <2>1 DEF Sema!PositionsOf
  <2>3. add = [scopes |-> [s EXCEPT ![Len(s)] = Append(t, new)], added |-> TRUE, refused |-> FALSE]
    BY <1>1, <2>2 DEF Sema!Added
  <2>4. MayFollow(here, entity)
    BY <1>6 DEF MayFollow
  <2>5. redeclared = entity
    BY <1>6 DEF Redeclaring
  <2>6. ScopeAgrees(Append(t, new), [d EXCEPT ![n] = entity])
    BY <1>2, <1>3, <1>6, AppendAgrees
  <2>7. Append(t, new) \in Seq(SymbolSet)
    BY <1>2
  <2> HIDE DEF e, redeclared, entity, t, d, n
  <2>8. ScopeAgrees(Append(t, new), e.declares) /\ e \in ScopeSet
    BY <1>3, <1>5, <2>5, <2>6
  <2>9. TablesAgree([s EXCEPT ![Len(s)] = Append(t, new)], [c EXCEPT ![L] = e])
    BY <2>7, <2>8, TopAgrees
  <2>10. add.added /\ ~add.refused /\ add.scopes = [s EXCEPT ![Len(s)] = Append(t, new)]
         /\ add.refused \in BOOLEAN /\ add.added \in BOOLEAN
    BY <2>3
  <2>11. TablesAgree(add.scopes, Declaring(c, n, redeclared))
    BY <1>4, <2>9, <2>10
  <2> HIDE DEF add, here
  <2> QED BY <1>6, <2>4, <2>10, <2>11 DEF n, entity, add, here, redeclared
<1>7. CASE here # NoDeclaration
  <2>1. PICK j \in DOMAIN t :
            /\ t[j].name = n
            /\ here = EntityOf(t[j])
            /\ \A k \in DOMAIN t : t[k].name = n => k = j
    BY <1>2, <1>3, <1>7 DEF ScopeAgrees
  <2>2. Sema!PositionsOf(s[Len(s)], n) = {j}
    BY <1>1, <2>1 DEF Sema!PositionsOf
  <2>3. Sema!Min({j}) = j
    BY <1>2, FirstOfOne
  <2>4. t[j] \in SymbolSet
    BY <1>2
  <2> DEFINE agrees == Sema!Agrees(t[j], new)
             x == [t[j] EXCEPT !.defined = TRUE]
             t2 == [t EXCEPT ![j] = x]
  <2>5. add = [scopes  |-> IF agrees /\ new.defined
                           THEN [s EXCEPT ![Len(s)] = t2] ELSE s,
               added   |-> FALSE,
               refused |-> ~agrees]
    <3>1. s[Len(s)] = t
      BY <1>1
    <3>2. [s EXCEPT ![Len(s)][j].defined = TRUE] = [s EXCEPT ![Len(s)] = t2]
      BY <3>1
    <3> HIDE DEF t2, x, agrees
    <3> QED BY <2>2, <2>3, <3>1, <3>2 DEF Sema!Added, agrees
  <2>6. agrees <=> MayFollow(here, entity)
    BY <1>7, <2>1 DEF Sema!Agrees, MayFollow, EntityOf
  <2>7. /\ agrees \in BOOLEAN /\ add.refused = ~agrees /\ add.added = FALSE
        /\ add.scopes = IF agrees /\ new.defined THEN [s EXCEPT ![Len(s)] = t2] ELSE s
    BY <2>5 DEF Sema!Agrees
  <2>8. ASSUME agrees PROVE redeclared = [id |-> here.id, kind |-> "function", type |-> here.type,
                                          defined |-> new.defined \/ t[j].defined]
                            /\ here.kind = "function"
    <3> DEFINE either == entity.defined \/ here.defined
    <3>1. redeclared = [entity EXCEPT !.id = here.id, !.defined = either]
      BY <1>7, <2>6, <2>8 DEF Redeclaring
    <3>3. \A b : [entity EXCEPT !.id = here.id, !.defined = b]
                    = [id |-> here.id, kind |-> entity.kind, type |-> entity.type, defined |-> b]
      <4> HIDE DEF here, entity
      <4> QED BY <1>3, EntityUpdated
    <3>4. redeclared = [id |-> here.id, kind |-> entity.kind, type |-> entity.type, defined |-> either]
      <4> HIDE DEF either, redeclared, entity, here
      <4> QED BY <3>1, <3>3
    <3>5. /\ entity.kind = new.kind /\ entity.type = new.type
          /\ here.kind = t[j].kind /\ here.type = t[j].type
      BY <2>1 DEF EntityOf
    <3>6. entity.defined = new.defined /\ here.defined = t[j].defined
      BY <2>1 DEF EntityOf
    <3>7. either = (new.defined \/ t[j].defined)
      BY <3>6
    <3>2. new.kind = "function" /\ new.type = t[j].type /\ t[j].kind = "function"
      BY <2>8 DEF Sema!Agrees
    <3> HIDE DEF either, redeclared, entity, here
    <3> QED BY <3>2, <3>4, <3>5, <3>7
  <2>9. ASSUME agrees, new.defined PROVE TablesAgree(add.scopes, Declaring(c, n, redeclared))
    <3>1. t[j].defined \in BOOLEAN /\ new.defined \in BOOLEAN
      BY <2>4 DEF SymbolSet
    <3>2. redeclared = EntityOf(x)
      <4>1. /\ x.id = t[j].id /\ x.kind = t[j].kind /\ x.type = t[j].type
            /\ x.defined = TRUE
        BY <2>4 DEF SymbolSet
      <4>2. EntityOf(x) = [id |-> t[j].id, kind |-> t[j].kind, type |-> t[j].type, defined |-> TRUE]
        <5> HIDE DEF x
        <5> QED BY <4>1 DEF EntityOf
      <4>3. here.id = t[j].id /\ here.type = t[j].type /\ here.kind = t[j].kind
        BY <2>1 DEF EntityOf
      <4> HIDE DEF x, redeclared, here
      <4> QED BY <2>8, <2>9, <3>1, <4>2, <4>3
    <3>3. x \in SymbolSet
      BY <2>4 DEF SymbolSet
    <3>4. redeclared \in EntitySet
      <4> HIDE DEF x, redeclared
      <4> QED BY <3>2, <3>3, EntitiesTyped
    <3>5. ScopeAgrees(t2, [d EXCEPT ![n] = redeclared])
      <4>1. \A k \in DOMAIN t : t[k].name = t[j].name => k = j
        BY <2>1
      <4> HIDE DEF redeclared, t, d
      <4>2. ScopeAgrees([t EXCEPT ![j] = [t[j] EXCEPT !.defined = TRUE]],
                        [d EXCEPT ![t[j].name] = redeclared])
        BY <1>2, <3>2, <3>4, <4>1, DefineAgrees
      <4> QED BY <2>1, <4>2
    <3>6. t2 \in Seq(SymbolSet)
      <4> HIDE DEF x, t
      <4> QED BY <1>2, <3>3
    <3> HIDE DEF e, redeclared, t2, d, n, add, agrees
    <3>7. ScopeAgrees(t2, e.declares) /\ e \in ScopeSet
      BY <1>5, <3>4, <3>5
    <3>8. TablesAgree([s EXCEPT ![Len(s)] = t2], [c EXCEPT ![L] = e])
      BY <3>6, <3>7, TopAgrees
    <3> QED BY <1>4, <2>7, <2>9, <3>8
  <2>10. ASSUME agrees, ~new.defined PROVE TablesAgree(add.scopes, Declaring(c, n, redeclared))
    <3>1. t[j].defined \in BOOLEAN /\ new.defined = FALSE
      BY <2>4, <2>10 DEF SymbolSet
    <3>2. redeclared = here
      <4>1. here = [id |-> t[j].id, kind |-> t[j].kind, type |-> t[j].type, defined |-> t[j].defined]
        BY <2>1 DEF EntityOf
      <4>2. redeclared = [id |-> here.id, kind |-> here.kind, type |-> here.type,
                          defined |-> t[j].defined]
        <5>1. (new.defined \/ t[j].defined) = t[j].defined
          BY <3>1
        <5> HIDE DEF redeclared, here
        <5> QED BY <2>8, <2>10, <5>1
      <4> HIDE DEF redeclared, here
      <4> QED BY <4>1, <4>2
    <3>3. Declaring(c, n, redeclared) = c
      <4>1. [d EXCEPT ![n] = redeclared] = d
        BY <1>2, <1>3, <3>2 DEF DeclaresSet
      <4>2. e = c[L]
        <5> HIDE DEF redeclared, n
        <5> QED BY <1>2, <4>1 DEF ScopeSet
      <4> HIDE DEF e
      <4> QED BY <1>1, <1>4, <4>2
    <3>4. add.scopes = s
      BY <2>7, <2>10
    <3> HIDE DEF add, redeclared, n
    <3> QED BY <3>3, <3>4
  <2> HIDE DEF add, agrees, redeclared, here
  <2>11. add.refused <=> ~MayFollow(here, entity)
    BY <2>6, <2>7
  <2>12. ~add.refused => TablesAgree(add.scopes, Declaring(c, n, redeclared))
    BY <2>7, <2>9, <2>10
  <2>13. add.refused \in BOOLEAN /\ add.added \in BOOLEAN /\ ~add.added
    BY <2>7
  <2> HIDE DEF n, entity
  <2> QED BY <1>7, <2>11, <2>12, <2>13 DEF n, entity, add, here, redeclared
<1> QED BY <1>6, <1>7

-----------------------------------------------------------------------------
(* The typedef names of the parser.                                         *)

Braces == {"file", "function", "block"}

IsTypedefIn(c, i, n) == c[i].declares[n].kind = "typedef"

(* The marks of the table belong to the scopes that have braces, g[k] being *)
(* the one of mark k: a name that such a scope declares as a type is in the *)
(* table below the next mark, and a name of the table is a builtin or a     *)
(* type of a scope whose mark is below it.                                  *)
TableKnows(table, c, g) ==
    /\ table \in [names : Seq(Names), starts : Seq(Nat)]
    /\ g \in Seq(Nat)
    /\ Len(g) = Len(table.starts)
    /\ \A k \in DOMAIN g : g[k] \in DOMAIN c /\ table.starts[k] <= Len(table.names)
    /\ \A k, l \in DOMAIN g : k < l => g[k] < g[l] /\ table.starts[k] <= table.starts[l]
    /\ \A i \in DOMAIN c : c[i].opener \in Braces <=> \E k \in DOMAIN g : g[k] = i
    /\ \A i \in DOMAIN c, n \in Names :
           IsTypedefIn(c, i, n) =>
               \E k \in DOMAIN g, j \in DOMAIN table.names :
                   /\ g[k] = i
                   /\ table.names[j] = n
                   /\ k + 1 \in DOMAIN g => j <= table.starts[k + 1]
    /\ \A j \in DOMAIN table.names :
           \/ \E i \in DOMAIN Builtins : Builtins[i] = table.names[j]
           \/ \E k \in DOMAIN g :
                  table.starts[k] < j /\ IsTypedefIn(c, g[k], table.names[j])

-----------------------------------------------------------------------------
(* A step that declares no type and opens or closes no brace.               *)
LEMMA KnownWithout ==
    ASSUME NEW table, NEW c \in Seq(ScopeSet), NEW g, TableKnows(table, c, g),
           NEW d \in Seq(ScopeSet), Len(d) >= Len(c),
           \A i \in DOMAIN c :
               /\ d[i].opener \in Braces <=> c[i].opener \in Braces
               /\ \A n \in Names : IsTypedefIn(d, i, n) <=> IsTypedefIn(c, i, n),
           \A i \in DOMAIN d :
               i > Len(c) => d[i].opener \notin Braces /\ \A n \in Names : ~IsTypedefIn(d, i, n)
    PROVE  TableKnows(table, d, g)
<1>1. /\ table \in [names : Seq(Names), starts : Seq(Nat)] /\ g \in Seq(Nat)
      /\ Len(g) = Len(table.starts)
      /\ \A k \in DOMAIN g : g[k] \in DOMAIN c /\ table.starts[k] <= Len(table.names)
      /\ \A k, l \in DOMAIN g : k < l => g[k] < g[l] /\ table.starts[k] <= table.starts[l]
  BY DEF TableKnows
<1>2. \A i \in DOMAIN c : i \in DOMAIN d
  OBVIOUS
<1>3. \A i \in DOMAIN d : i \in DOMAIN c \/ i > Len(c)
  OBVIOUS
<1>4. ASSUME NEW i \in DOMAIN d
      PROVE  d[i].opener \in Braces <=> \E k \in DOMAIN g : g[k] = i
  <2>1. CASE i \in DOMAIN c
    BY <2>1 DEF TableKnows
  <2>2. CASE i > Len(c)
    <3>1. \A k \in DOMAIN g : g[k] # i
      BY <1>1, <2>2
    <3> QED BY <2>2, <3>1
  <2> QED BY <1>3, <2>1, <2>2
<1>5. ASSUME NEW i \in DOMAIN d, NEW n \in Names, IsTypedefIn(d, i, n)
      PROVE  \E k \in DOMAIN g, j \in DOMAIN table.names :
                 /\ g[k] = i
                 /\ table.names[j] = n
                 /\ k + 1 \in DOMAIN g => j <= table.starts[k + 1]
  <2>1. i \in DOMAIN c /\ IsTypedefIn(c, i, n)
    BY <1>3, <1>5
  <2> QED BY <2>1 DEF TableKnows
<1>6. ASSUME NEW j \in DOMAIN table.names
      PROVE  \/ \E i \in DOMAIN Builtins : Builtins[i] = table.names[j]
             \/ \E k \in DOMAIN g :
                    table.starts[k] < j /\ IsTypedefIn(d, g[k], table.names[j])
  <2>1. table.names[j] \in Names
    BY <1>1
  <2>2. CASE \E i \in DOMAIN Builtins : Builtins[i] = table.names[j]
    BY <2>2
  <2>3. CASE \E k \in DOMAIN g : table.starts[k] < j /\ IsTypedefIn(c, g[k], table.names[j])
    BY <1>1, <2>1, <2>3
  <2> QED BY <2>2, <2>3 DEF TableKnows
<1> QED BY <1>1, <1>2, <1>4, <1>5, <1>6 DEF TableKnows

(* A brace: the parser opens a scope.                                       *)
LEMMA KnownPush ==
    ASSUME NEW table, NEW c \in Seq(ScopeSet), NEW g, TableKnows(table, c, g),
           NEW d \in Seq(ScopeSet), Len(d) \in {Len(c), Len(c) + 1}, Len(d) > 0,
           Len(d) = Len(c) => c[Len(c)].opener \notin Braces,
           \A i \in DOMAIN c : i # Len(d) =>
               /\ d[i].opener \in Braces <=> c[i].opener \in Braces
               /\ \A n \in Names : IsTypedefIn(d, i, n) <=> IsTypedefIn(c, i, n),
           d[Len(d)].opener \in Braces,
           \A n \in Names : ~IsTypedefIn(d, Len(d), n)
    PROVE  TableKnows(Parser!ScopePushed(table), d, Append(g, Len(d)))
<1> DEFINE L == Len(d)
           h == Append(g, L)
           K == Len(g) + 1
           starts == Append(table.starts, Len(table.names))
           u == [names |-> table.names, starts |-> starts]
<1>1. /\ table \in [names : Seq(Names), starts : Seq(Nat)] /\ g \in Seq(Nat)
      /\ table.names \in Seq(Names) /\ table.starts \in Seq(Nat)
      /\ Len(g) = Len(table.starts)
      /\ \A k \in DOMAIN g : g[k] \in DOMAIN c /\ table.starts[k] <= Len(table.names)
      /\ \A k, l \in DOMAIN g : k < l => g[k] < g[l] /\ table.starts[k] <= table.starts[l]
  BY DEF TableKnows
<1>2. Parser!ScopePushed(table) = u
  <2> DEFINE v == [table EXCEPT !.starts = starts]
  <2>1. v \in [names : {table.names}, starts : {starts}]
    <3> HIDE DEF starts
    <3> QED BY <1>1
  <2>2. Parser!ScopePushed(table) = v
    BY DEF Parser!ScopePushed
  <2> HIDE DEF v, starts
  <2>3. v = u
    BY <2>1
  <2> QED BY <2>2, <2>3
<1>3. /\ L \in Nat /\ L \in DOMAIN d
      /\ h \in Seq(Nat) /\ starts \in Seq(Nat) /\ Len(h) = Len(starts)
      /\ DOMAIN h = 1..K /\ h[K] = L /\ starts[K] = Len(table.names)
      /\ \A k \in DOMAIN g : k \in DOMAIN h /\ k < K /\ h[k] = g[k] /\ starts[k] = table.starts[k]
      /\ \A k \in DOMAIN h : k # K => k \in DOMAIN g
  BY <1>1
<1>4. ASSUME NEW k \in DOMAIN g PROVE g[k] < L
  <2>1. g[k] \in DOMAIN c
    BY <1>1
  <2>2. CASE L = Len(c) + 1
    BY <2>1, <2>2
  <2>3. CASE L = Len(c)
    <3>1. L \in DOMAIN c
      BY <2>3
    <3>2. \A l \in DOMAIN g : g[l] # L
      BY <2>3, <3>1 DEF TableKnows
    <3> QED BY <2>1, <2>3, <3>2
  <2> QED BY <2>2, <2>3
<1>5. \A i \in DOMAIN d : i = L \/ (i \in DOMAIN c /\ i # L)
  OBVIOUS
<1> HIDE DEF h, starts, L, K
<1>6. \A k \in DOMAIN h : h[k] \in DOMAIN d /\ starts[k] <= Len(table.names)
  <2> SUFFICES ASSUME NEW k \in DOMAIN h
               PROVE  h[k] \in DOMAIN d /\ starts[k] <= Len(table.names)
    OBVIOUS
  <2>1. CASE k = K
    BY <1>1, <1>3, <2>1
  <2>2. CASE k # K
    <3>1. k \in DOMAIN g /\ h[k] = g[k] /\ starts[k] = table.starts[k]
      BY <1>3, <2>2
    <3>2. g[k] < L /\ g[k] \in DOMAIN c /\ table.starts[k] <= Len(table.names)
      BY <1>1, <1>4, <3>1
    <3>3. g[k] \in DOMAIN d
      BY <3>2 DEF L
    <3> QED BY <3>1, <3>2, <3>3
  <2> QED BY <2>1, <2>2
<1>7. \A k, l \in DOMAIN h : k < l => h[k] < h[l] /\ starts[k] <= starts[l]
  <2> SUFFICES ASSUME NEW k \in DOMAIN h, NEW l \in DOMAIN h, k < l
               PROVE  h[k] < h[l] /\ starts[k] <= starts[l]
    OBVIOUS
  <2>1. k # K
    BY <1>1, <1>3 DEF K
  <2>2. CASE l = K
    BY <1>1, <1>3, <1>4, <2>1, <2>2
  <2>3. CASE l # K
    BY <1>1, <1>3, <2>1, <2>3
  <2> QED BY <2>2, <2>3
<1>8. ASSUME NEW i \in DOMAIN d
      PROVE  d[i].opener \in Braces <=> \E k \in DOMAIN h : h[k] = i
  <2>1. CASE i = L
    <3>1. K \in DOMAIN h /\ h[K] = L
      BY <1>1, <1>3 DEF K
    <3> QED BY <2>1, <3>1 DEF L
  <2>2. CASE i \in DOMAIN c /\ i # L
    <3>1. d[i].opener \in Braces <=> c[i].opener \in Braces
      BY <2>2 DEF L
    <3>2. c[i].opener \in Braces <=> \E k \in DOMAIN g : g[k] = i
      BY <2>2 DEF TableKnows
    <3>3. (\E k \in DOMAIN g : g[k] = i) <=> (\E k \in DOMAIN h : h[k] = i)
      BY <1>3, <2>2
    <3> QED BY <3>1, <3>2, <3>3
  <2> QED BY <1>5, <2>1, <2>2
<1>9. ASSUME NEW i \in DOMAIN d, NEW n \in Names, IsTypedefIn(d, i, n)
      PROVE  \E k \in DOMAIN h, j \in DOMAIN table.names :
                 /\ h[k] = i
                 /\ table.names[j] = n
                 /\ k + 1 \in DOMAIN h => j <= starts[k + 1]
  <2>1. i # L
    BY <1>9 DEF L
  <2>2. i \in DOMAIN c /\ IsTypedefIn(c, i, n)
    BY <1>5, <1>9, <2>1 DEF L
  <2>3. PICK k \in DOMAIN g, j \in DOMAIN table.names :
            /\ g[k] = i
            /\ table.names[j] = n
            /\ k + 1 \in DOMAIN g => j <= table.starts[k + 1]
    BY <2>2 DEF TableKnows
  <2>4. k \in DOMAIN h /\ h[k] = i
    BY <1>3, <2>3
  <2>5. ASSUME k + 1 \in DOMAIN h PROVE j <= starts[k + 1]
    <3>1. CASE k + 1 = K
      <4>1. starts[k + 1] = Len(table.names)
        BY <1>3, <3>1
      <4>2. j <= Len(table.names)
        BY <1>1
      <4> QED BY <4>1, <4>2
    <3>2. CASE k + 1 # K
      BY <1>3, <2>3, <2>5, <3>2
    <3> QED BY <3>1, <3>2
  <2> QED BY <2>3, <2>4, <2>5
<1>10. ASSUME NEW j \in DOMAIN table.names
       PROVE  \/ \E i \in DOMAIN Builtins : Builtins[i] = table.names[j]
              \/ \E k \in DOMAIN h :
                     starts[k] < j /\ IsTypedefIn(d, h[k], table.names[j])
  <2>1. table.names[j] \in Names
    BY <1>1
  <2>2. CASE \E i \in DOMAIN Builtins : Builtins[i] = table.names[j]
    BY <2>2
  <2>3. CASE \E k \in DOMAIN g : table.starts[k] < j /\ IsTypedefIn(c, g[k], table.names[j])
    <3>1. PICK k \in DOMAIN g : table.starts[k] < j /\ IsTypedefIn(c, g[k], table.names[j])
      BY <2>3
    <3>2. g[k] \in DOMAIN c /\ g[k] # L
      <4>1. g[k] \in DOMAIN c
        BY <1>1
      <4>2. g[k] < L
        BY <1>4
      <4>3. g[k] \in Nat
        BY <1>1
      <4> QED BY <1>3, <4>1, <4>2, <4>3
    <3>3. IsTypedefIn(d, g[k], table.names[j])
      BY <2>1, <3>1, <3>2 DEF L
    <3>4. k \in DOMAIN h /\ h[k] = g[k] /\ starts[k] = table.starts[k]
      BY <1>3
    <3> QED BY <3>1, <3>3, <3>4
  <2> QED BY <2>2, <2>3 DEF TableKnows
<1>11. TableKnows(u, d, h)
  <2>1. u \in [names : Seq(Names), starts : Seq(Nat)] /\ u.names = table.names /\ u.starts = starts
    BY <1>1, <1>3
  <2> HIDE DEF u
  <2> QED BY <1>3, <1>6, <1>7, <1>8, <1>9, <1>10, <2>1 DEF TableKnows
<1> QED BY <1>2, <1>11 DEF h, L
(* A sequence without its last element.                                     *)
LEMMA AllButLast ==
    ASSUME NEW T, NEW q \in Seq(T), Len(q) \in DOMAIN q
    PROVE  /\ SubSeq(q, 1, Len(q) - 1) \in Seq(T)
           /\ Len(SubSeq(q, 1, Len(q) - 1)) = Len(q) - 1
           /\ \A k \in 1..(Len(q) - 1) : SubSeq(q, 1, Len(q) - 1)[k] = q[k]
  OBVIOUS

(* The end of a scope that has no brace.                                    *)
LEMMA KnownClosed ==
    ASSUME NEW table, NEW c \in Seq(ScopeSet), NEW g, TableKnows(table, c, g),
           Len(c) > 1, c[Len(c)].opener \notin Braces
    PROVE  TableKnows(table, Closed(c), g)
<1> DEFINE d == SubSeq(c, 1, Len(c) - 1)
<1>1. /\ table \in [names : Seq(Names), starts : Seq(Nat)] /\ g \in Seq(Nat)
      /\ Len(g) = Len(table.starts)
      /\ \A k \in DOMAIN g : g[k] \in DOMAIN c /\ table.starts[k] <= Len(table.names)
      /\ \A k, l \in DOMAIN g : k < l => g[k] < g[l] /\ table.starts[k] <= table.starts[l]
  BY DEF TableKnows
<1>2. /\ DOMAIN d = 1..(Len(c) - 1) /\ DOMAIN c = 1..Len(c) /\ Len(c) \in Nat
      /\ \A i \in DOMAIN d : d[i] = c[i] /\ i \in DOMAIN c
  OBVIOUS
<1>3. \A k \in DOMAIN g : g[k] # Len(c)
  <2>1. Len(c) \in DOMAIN c
    BY <1>2
  <2> QED BY <2>1 DEF TableKnows
<1>4. \A k \in DOMAIN g : g[k] \in DOMAIN d
  BY <1>1, <1>2, <1>3
<1> HIDE DEF d
<1>5. \A i \in DOMAIN d : d[i].opener \in Braces <=> \E k \in DOMAIN g : g[k] = i
  BY <1>2 DEF TableKnows
<1>6. \A i \in DOMAIN d, n \in Names :
           IsTypedefIn(d, i, n) =>
               \E k \in DOMAIN g, j \in DOMAIN table.names :
                   /\ g[k] = i
                   /\ table.names[j] = n
                   /\ k + 1 \in DOMAIN g => j <= table.starts[k + 1]
  <2> SUFFICES ASSUME NEW i \in DOMAIN d, NEW n \in Names, IsTypedefIn(d, i, n)
               PROVE  \E k \in DOMAIN g, j \in DOMAIN table.names :
                          /\ g[k] = i
                          /\ table.names[j] = n
                          /\ k + 1 \in DOMAIN g => j <= table.starts[k + 1]
    OBVIOUS
  <2>1. i \in DOMAIN c /\ IsTypedefIn(c, i, n)
    BY <1>2 DEF IsTypedefIn
  <2> QED BY <2>1 DEF TableKnows
<1>7. ASSUME NEW j \in DOMAIN table.names
      PROVE  \/ \E i \in DOMAIN Builtins : Builtins[i] = table.names[j]
             \/ \E k \in DOMAIN g :
                    table.starts[k] < j /\ IsTypedefIn(d, g[k], table.names[j])
  <2>1. CASE \E i \in DOMAIN Builtins : Builtins[i] = table.names[j]
    BY <2>1
  <2>2. CASE \E k \in DOMAIN g : table.starts[k] < j /\ IsTypedefIn(c, g[k], table.names[j])
    BY <1>2, <1>4, <2>2 DEF IsTypedefIn
  <2> QED BY <2>1, <2>2 DEF TableKnows
<1>8. TableKnows(table, d, g)
  BY <1>1, <1>4, <1>5, <1>6, <1>7 DEF TableKnows
<1> QED BY <1>8 DEF Closed, d

(* A closing brace: the names recorded since its mark go.                   *)
LEMMA KnownPop ==
    ASSUME NEW table, NEW c \in Seq(ScopeSet), NEW g, TableKnows(table, c, g),
           Len(c) > 1, c[Len(c)].opener \in Braces
    PROVE  TableKnows(Parser!ScopePopped(table), Closed(c), SubSeq(g, 1, Len(g) - 1))
<1> DEFINE d == SubSeq(c, 1, Len(c) - 1)
           K == Len(g)
           h == SubSeq(g, 1, K - 1)
           top == table.starts[K]
           starts == SubSeq(table.starts, 1, K - 1)
           names == SubSeq(table.names, 1, top)
           u == [names |-> names, starts |-> starts]
<1>1. /\ table \in [names : Seq(Names), starts : Seq(Nat)] /\ g \in Seq(Nat)
      /\ table.names \in Seq(Names) /\ table.starts \in Seq(Nat)
      /\ Len(g) = Len(table.starts)
      /\ \A k \in DOMAIN g : g[k] \in DOMAIN c /\ table.starts[k] <= Len(table.names)
      /\ \A k, l \in DOMAIN g : k < l => g[k] < g[l] /\ table.starts[k] <= table.starts[l]
  BY DEF TableKnows
<1>2. /\ DOMAIN d = 1..(Len(c) - 1) /\ DOMAIN c = 1..Len(c) /\ Len(c) \in Nat
      /\ \A i \in DOMAIN d : d[i] = c[i] /\ i \in DOMAIN c
  OBVIOUS
<1>3. PICK k0 \in DOMAIN g : g[k0] = Len(c)
  <2>1. Len(c) \in DOMAIN c
    BY <1>2
  <2> QED BY <2>1 DEF TableKnows
<1>4. K \in DOMAIN g /\ K \in Nat /\ k0 = K /\ g[K] = Len(c)
  <2>1. K \in DOMAIN g /\ K \in Nat /\ k0 <= K /\ k0 \in Nat
    BY <1>1, <1>3
  <2>2. g[K] \in 1..Len(c)
    BY <1>1, <1>2, <2>1
  <2>3. ~ (k0 < K)
    BY <1>1, <1>2, <1>3, <2>1, <2>2
  <2>4. k0 = K
    BY <2>1, <2>3
  <2> QED BY <1>3, <2>1, <2>4
<1>5. /\ top \in Nat /\ top <= Len(table.names) /\ table.starts # <<>>
      /\ h \in Seq(Nat) /\ starts \in Seq(Nat) /\ Len(h) = Len(starts)
      /\ DOMAIN h = 1..(K - 1) /\ DOMAIN g = 1..K
      /\ \A k \in DOMAIN h : /\ k \in DOMAIN g /\ k < K
                              /\ h[k] = g[k] /\ starts[k] = table.starts[k]
  <2>1. DOMAIN g = 1..K /\ DOMAIN table.starts = 1..K
    BY <1>1, <1>4
  <2>2. top \in Nat /\ top <= Len(table.names) /\ table.starts # <<>>
    BY <1>1, <1>4, <2>1
  <2>3. h \in Seq(Nat) /\ Len(h) = K - 1 /\ \A k \in 1..(K - 1) : h[k] = g[k]
    BY <1>1, <1>4, AllButLast
  <2>4. starts \in Seq(Nat) /\ Len(starts) = K - 1 /\ \A k \in 1..(K - 1) : starts[k] = table.starts[k]
    <3> DEFINE q == table.starts
    <3>1. q \in Seq(Nat) /\ Len(q) = K /\ Len(q) \in DOMAIN q
      BY <1>1, <1>4, <2>1
    <3> HIDE DEF q
    <3>2. /\ SubSeq(q, 1, Len(q) - 1) \in Seq(Nat)
          /\ Len(SubSeq(q, 1, Len(q) - 1)) = Len(q) - 1
          /\ \A k \in 1..(Len(q) - 1) : SubSeq(q, 1, Len(q) - 1)[k] = q[k]
      BY <3>1, AllButLast
    <3> QED BY <3>1, <3>2 DEF q
  <2>5. DOMAIN h = 1..(K - 1) /\ \A k \in 1..(K - 1) : k \in 1..K /\ k < K
    BY <1>4, <2>3
  <2> HIDE DEF top, h, starts, K
  <2> QED BY <2>1, <2>2, <2>3, <2>4, <2>5
<1>6. /\ names \in Seq(Names) /\ Len(names) = top
      /\ \A j \in DOMAIN names : j \in DOMAIN table.names /\ names[j] = table.names[j] /\ j <= top
      /\ \A j \in DOMAIN table.names : j <= top => j \in DOMAIN names
  <2> HIDE DEF top
  <2> QED BY <1>1, <1>5
<1>7. Parser!ScopePopped(table) = u
  <2>1. Parser!Last(table.starts) = top
    BY <1>1 DEF Parser!Last
  <2>2. Parser!Front(table.starts) = starts
    BY <1>1 DEF Parser!Front
  <2> QED BY <1>5, <2>1, <2>2 DEF Parser!ScopePopped
<1> HIDE DEF d, h, top, starts, names, K
<1>8. ASSUME NEW k \in DOMAIN h PROVE h[k] \in DOMAIN d /\ starts[k] <= top
  <2>1. g[k] < g[K] /\ table.starts[k] <= table.starts[K]
    BY <1>1, <1>4, <1>5
  <2>2. g[k] \in DOMAIN c
    BY <1>1, <1>5
  <2>3. g[k] \in DOMAIN d
    BY <1>2, <1>4, <2>1, <2>2
  <2> QED BY <1>5, <2>1, <2>3 DEF top
<1>9. ASSUME NEW k \in DOMAIN h, NEW l \in DOMAIN h, k < l
      PROVE  h[k] < h[l] /\ starts[k] <= starts[l]
  BY <1>1, <1>5, <1>9
<1>10. ASSUME NEW i \in DOMAIN d
       PROVE  d[i].opener \in Braces <=> \E k \in DOMAIN h : h[k] = i
  <2>1. i \in DOMAIN c /\ d[i] = c[i] /\ i # Len(c)
    BY <1>2
  <2>2. c[i].opener \in Braces <=> \E k \in DOMAIN g : g[k] = i
    BY <2>1 DEF TableKnows
  <2>3. ASSUME NEW k \in DOMAIN g, g[k] = i PROVE k \in DOMAIN h /\ h[k] = i
    <3>1. k # K
      BY <1>4, <2>1, <2>3
    <3>2. k \in DOMAIN h
      BY <1>4, <1>5, <3>1
    <3> QED BY <1>5, <2>3, <3>2
  <2>4. ASSUME NEW k \in DOMAIN h, h[k] = i PROVE k \in DOMAIN g /\ g[k] = i
    BY <1>5, <2>4
  <2> QED BY <2>1, <2>2, <2>3, <2>4
<1>11. ASSUME NEW i \in DOMAIN d, NEW n \in Names, IsTypedefIn(d, i, n)
       PROVE  \E k \in DOMAIN h, j \in DOMAIN names :
                  /\ h[k] = i
                  /\ names[j] = n
                  /\ k + 1 \in DOMAIN h => j <= starts[k + 1]
  <2>1. i \in DOMAIN c /\ IsTypedefIn(c, i, n) /\ i # Len(c)
    BY <1>2, <1>11 DEF IsTypedefIn
  <2>2. PICK k \in DOMAIN g, j \in DOMAIN table.names :
            /\ g[k] = i
            /\ table.names[j] = n
            /\ k + 1 \in DOMAIN g => j <= table.starts[k + 1]
    BY <2>1 DEF TableKnows
  <2>3. k # K
    BY <1>4, <2>1, <2>2
  <2>4. k \in DOMAIN h /\ h[k] = i /\ k + 1 \in DOMAIN g /\ k \in Nat
    <3>1. k \in 1..K /\ K \in Nat
      BY <1>4, <1>5, <2>2
    <3>2. k \in 1..(K - 1) /\ k + 1 \in 1..K /\ k \in Nat
      BY <2>3, <3>1
    <3>3. k \in DOMAIN h /\ k + 1 \in DOMAIN g
      BY <1>5, <3>2
    <3> QED BY <1>5, <2>2, <3>2, <3>3
  <2>5. j <= top
    <3>1. CASE k + 1 = K
      BY <2>2, <2>4, <3>1 DEF top
    <3>2. CASE k + 1 # K
      <4>1. k + 1 < K
        BY <1>4, <1>5, <2>4, <3>2
      <4>2. table.starts[k + 1] <= table.starts[K]
        BY <1>1, <1>4, <2>4, <4>1
      <4>3. table.starts[k + 1] \in Nat /\ table.starts[K] \in Nat /\ j \in Nat
        BY <1>1, <1>4, <2>4
      <4> QED BY <2>2, <2>4, <4>2, <4>3 DEF top
    <3> QED BY <3>1, <3>2
  <2>6. j \in DOMAIN names /\ names[j] = n
    BY <1>6, <2>2, <2>5
  <2>7. ASSUME k + 1 \in DOMAIN h PROVE j <= starts[k + 1]
    BY <1>5, <2>2, <2>7
  <2> QED BY <2>4, <2>6, <2>7
<1>12. ASSUME NEW j \in DOMAIN names
       PROVE  \/ \E i \in DOMAIN Builtins : Builtins[i] = names[j]
              \/ \E k \in DOMAIN h : starts[k] < j /\ IsTypedefIn(d, h[k], names[j])
  <2>1. j \in DOMAIN table.names /\ names[j] = table.names[j] /\ j <= top
    BY <1>6
  <2>2. CASE \E i \in DOMAIN Builtins : Builtins[i] = table.names[j]
    BY <2>1, <2>2
  <2>3. CASE \E k \in DOMAIN g : table.starts[k] < j /\ IsTypedefIn(c, g[k], table.names[j])
    <3>1. PICK k \in DOMAIN g : table.starts[k] < j /\ IsTypedefIn(c, g[k], table.names[j])
      BY <2>3
    <3>2. k # K
      <4>1. j \in Nat /\ table.starts[k] \in Nat
        <5>1. k \in DOMAIN table.starts
          BY <1>1
        <5> QED BY <1>1, <2>1, <5>1
      <4>2. ~ (top < j)
        BY <1>5, <2>1, <4>1
      <4> QED BY <3>1, <4>2 DEF top
    <3>3. k \in DOMAIN h /\ h[k] = g[k] /\ starts[k] = table.starts[k]
      BY <1>4, <1>5, <3>2
    <3>4. h[k] \in DOMAIN d
      BY <1>8, <3>3
    <3>5. IsTypedefIn(d, h[k], names[j])
      BY <1>2, <2>1, <3>1, <3>3, <3>4 DEF IsTypedefIn
    <3> QED BY <3>1, <3>3, <3>5
  <2> QED BY <2>1, <2>2, <2>3 DEF TableKnows
<1>13. TableKnows(u, d, h)
  <2>1. u \in [names : Seq(Names), starts : Seq(Nat)] /\ u.names = names /\ u.starts = starts
    BY <1>5, <1>6
  <2> HIDE DEF u
  <2> QED BY <1>5, <1>6, <1>8, <1>9, <1>10, <1>11, <1>12, <2>1 DEF TableKnows
<1> QED BY <1>7, <1>13 DEF Closed, d, h, K

(* `typedef spec n;` where n is new in the innermost scope, which has a     *)
(* brace.                                                                   *)
LEMMA KnownRecord ==
    ASSUME NEW table, NEW c \in Seq(ScopeSet), NEW g, TableKnows(table, c, g),
           Len(c) > 0, c[Len(c)].opener \in Braces,
           NEW n \in Names, NEW d \in Seq(ScopeSet), Len(d) = Len(c),
           \A i \in DOMAIN c :
               /\ d[i].opener = c[i].opener
               /\ \A m \in Names :
                      IsTypedefIn(d, i, m) <=> IsTypedefIn(c, i, m) \/ (i = Len(c) /\ m = n)
    PROVE  TableKnows(Parser!Recorded(table, n), d, g)
<1> DEFINE L == Len(c)
           K == Len(g)
           names == IF Parser!NameExists(table, n) THEN table.names ELSE Append(table.names, n)
           u == [names |-> names, starts |-> table.starts]
<1>1. /\ table \in [names : Seq(Names), starts : Seq(Nat)] /\ g \in Seq(Nat)
      /\ table.names \in Seq(Names) /\ table.starts \in Seq(Nat)
      /\ Len(g) = Len(table.starts)
      /\ \A k \in DOMAIN g : g[k] \in DOMAIN c /\ table.starts[k] <= Len(table.names)
      /\ \A k, l \in DOMAIN g : k < l => g[k] < g[l] /\ table.starts[k] <= table.starts[l]
  BY DEF TableKnows
<1>2. L \in DOMAIN c /\ L \in Nat /\ DOMAIN c = 1..L /\ DOMAIN d = DOMAIN c
  OBVIOUS
<1>3. PICK k0 \in DOMAIN g : g[k0] = L
  BY <1>2 DEF TableKnows
<1>4. K \in DOMAIN g /\ K \in Nat /\ g[K] = L /\ DOMAIN g = 1..K /\ DOMAIN table.starts = 1..K
  <2>1. K \in DOMAIN g /\ K \in Nat /\ k0 <= K /\ k0 \in Nat /\ DOMAIN g = 1..K /\ DOMAIN table.starts = 1..K
    BY <1>1, <1>3
  <2>2. g[K] \in 1..L
    BY <1>1, <1>2, <2>1
  <2>3. ~ (k0 < K)
    <3>1. k0 < K => g[k0] < g[K]
      BY <1>1, <2>1
    <3> QED BY <1>2, <1>3, <2>2, <3>1
  <2>4. k0 = K
    BY <2>1, <2>3
  <2> QED BY <1>3, <2>1, <2>4
<1>5. Parser!Recorded(table, n) = u
  <2>1. CASE Parser!NameExists(table, n)
    BY <1>1, <2>1 DEF Parser!Recorded
  <2>2. CASE ~Parser!NameExists(table, n)
    <3> DEFINE v == [table EXCEPT !.names = names]
    <3>1. v \in [names : {names}, starts : {table.starts}]
      <4> HIDE DEF names
      <4> QED BY <1>1
    <3>2. Parser!Recorded(table, n) = v
      BY <2>2 DEF Parser!Recorded
    <3> HIDE DEF v, names
    <3>3. v = u
      BY <3>1
    <3> QED BY <3>2, <3>3
  <2> QED BY <2>1, <2>2
<1>6. /\ names \in Seq(Names) /\ Len(names) >= Len(table.names)
      /\ \A j \in DOMAIN table.names : j \in DOMAIN names /\ names[j] = table.names[j]
      /\ \A j \in DOMAIN names :
             j \in DOMAIN table.names \/ (j = Len(table.names) + 1 /\ names[j] = n)
      /\ \E j \in DOMAIN names : names[j] = n
  <2>1. CASE Parser!NameExists(table, n)
    BY <1>1, <2>1 DEF Parser!NameExists
  <2>2. CASE ~Parser!NameExists(table, n)
    <3>1. names = Append(table.names, n)
      BY <2>2
    <3> HIDE DEF names
    <3>2. /\ names \in Seq(Names) /\ Len(names) = Len(table.names) + 1
          /\ DOMAIN names = 1..(Len(table.names) + 1)
          /\ names[Len(table.names) + 1] = n
          /\ \A j \in 1..Len(table.names) : names[j] = table.names[j]
          /\ DOMAIN table.names = 1..Len(table.names) /\ Len(table.names) \in Nat
      BY <1>1, <3>1
    <3>3. Len(table.names) + 1 \in DOMAIN names
      BY <3>2
    <3> QED BY <3>2, <3>3
  <2> QED BY <2>1, <2>2
<1> HIDE DEF names, K, L
<1>7. \A k \in DOMAIN g : g[k] \in DOMAIN d /\ table.starts[k] <= Len(names)
  <2> SUFFICES ASSUME NEW k \in DOMAIN g PROVE g[k] \in DOMAIN d /\ table.starts[k] <= Len(names)
    OBVIOUS
  <2>1. table.starts[k] \in Nat /\ Len(names) \in Nat /\ Len(table.names) \in Nat
    <3>1. k \in DOMAIN table.starts
      BY <1>4
    <3>2. table.starts[k] \in Nat
      BY <1>1, <3>1
    <3> QED BY <1>1, <1>6, <3>2
  <2>2. g[k] \in DOMAIN c /\ table.starts[k] <= Len(table.names)
    BY <1>1
  <2> QED BY <1>2, <1>6, <2>1, <2>2
<1>8. ASSUME NEW i \in DOMAIN d
      PROVE  d[i].opener \in Braces <=> \E k \in DOMAIN g : g[k] = i
  BY <1>2 DEF TableKnows
<1>9. ASSUME NEW i \in DOMAIN d, NEW m \in Names, IsTypedefIn(d, i, m)
      PROVE  \E k \in DOMAIN g, j \in DOMAIN names :
                 /\ g[k] = i
                 /\ names[j] = m
                 /\ k + 1 \in DOMAIN g => j <= table.starts[k + 1]
  <2>1. CASE i = L /\ m = n
    <3>1. K + 1 \notin DOMAIN g
      BY <1>4
    <3>2. PICK j \in DOMAIN names : names[j] = n
      BY <1>6
    <3> QED BY <1>4, <2>1, <3>1, <3>2
  <2>2. CASE IsTypedefIn(c, i, m)
    <3>1. PICK k \in DOMAIN g, j \in DOMAIN table.names :
              /\ g[k] = i
              /\ table.names[j] = m
              /\ k + 1 \in DOMAIN g => j <= table.starts[k + 1]
      BY <1>2, <2>2 DEF TableKnows
    <3>2. j \in DOMAIN names /\ names[j] = m
      BY <1>6, <3>1
    <3> QED BY <3>1, <3>2
  <2> QED BY <1>2, <1>9, <2>1, <2>2 DEF L
<1>10. ASSUME NEW j \in DOMAIN names
       PROVE  \/ \E i \in DOMAIN Builtins : Builtins[i] = names[j]
              \/ \E k \in DOMAIN g : table.starts[k] < j /\ IsTypedefIn(d, g[k], names[j])
  <2>1. CASE j \in DOMAIN table.names
    <3>1. names[j] = table.names[j] /\ table.names[j] \in Names
      BY <1>1, <1>6, <2>1
    <3>2. CASE \E i \in DOMAIN Builtins : Builtins[i] = table.names[j]
      BY <3>1, <3>2
    <3>3. CASE \E k \in DOMAIN g : table.starts[k] < j /\ IsTypedefIn(c, g[k], table.names[j])
      <4>1. PICK k \in DOMAIN g : table.starts[k] < j /\ IsTypedefIn(c, g[k], table.names[j])
        BY <3>3
      <4>2. g[k] \in DOMAIN c
        BY <1>1
      <4>3. IsTypedefIn(d, g[k], names[j])
        BY <3>1, <4>1, <4>2
      <4> QED BY <4>1, <4>3
    <3> QED BY <2>1, <3>2, <3>3 DEF TableKnows
  <2>2. CASE j = Len(table.names) + 1 /\ names[j] = n
    <3>1. IsTypedefIn(d, L, n)
      BY <1>2 DEF L
    <3>2. table.starts[K] <= Len(table.names) /\ table.starts[K] \in Nat /\ Len(table.names) \in Nat
      BY <1>1, <1>4
    <3>3. table.starts[K] < j
      BY <2>2, <3>2
    <3> QED BY <1>4, <2>2, <3>1, <3>3
  <2> QED BY <1>6, <2>1, <2>2
<1>11. TableKnows(u, d, g)
  <2>1. u \in [names : Seq(Names), starts : Seq(Nat)] /\ u.names = names /\ u.starts = table.starts
    BY <1>1, <1>6
  <2> HIDE DEF u
  <2> QED BY <1>1, <1>7, <1>8, <1>9, <1>10, <2>1 DEF TableKnows
<1> QED BY <1>5, <1>11

(* What the parser takes for a type name, by the table.                     *)
LEMMA KnownNames ==
    ASSUME NEW table, NEW c, NEW g, TableKnows(table, c, g), NEW n \in Names
    PROVE  /\ (\E i \in DOMAIN c : IsTypedefIn(c, i, n)) => Parser!NameExists(table, n)
           /\ Parser!NameExists(table, n) =>
                  \/ \E i \in DOMAIN Builtins : Builtins[i] = n
                  \/ \E i \in DOMAIN c : IsTypedefIn(c, i, n)
<1>1. ASSUME NEW i \in DOMAIN c, IsTypedefIn(c, i, n)
      PROVE  Parser!NameExists(table, n)
  BY <1>1 DEF TableKnows, Parser!NameExists
<1>2. ASSUME NEW j \in DOMAIN table.names, table.names[j] = n
      PROVE  \/ \E i \in DOMAIN Builtins : Builtins[i] = n
             \/ \E i \in DOMAIN c : IsTypedefIn(c, i, n)
  BY <1>2 DEF TableKnows
<1> QED BY <1>1, <1>2 DEF Parser!NameExists

-----------------------------------------------------------------------------
(* The emitted names.                                                       *)

EmittedSet == Entries \union {NotEmitted}

(* A scope of the code generator binds the objects of a scope of C, each    *)
(* once and to the name it was emitted under.                               *)
ScopeBinds(scope, declares, emitted) ==
    \A n \in Names :
        IF declares[n].kind = "object"
        THEN \E j \in DOMAIN scope :
                 /\ scope[j].name = n
                 /\ scope[j] = emitted[declares[n].id]
                 /\ \A k \in DOMAIN scope : scope[k].name = n => k = j
        ELSE \A k \in DOMAIN scope : scope[k].name # n

FileScopeIsBare(declares, emitted) ==
    \A n \in Names :
        declares[n].kind \in {"object", "function"} =>
            emitted[declares[n].id] = Emit!Emitted(n, Emit!Bare)

NumberedUpTo(declares, count) ==
    \A n \in Names : declares[n].id \in 0..count /\ (declares[n].id = 0 => declares[n] = NoDeclaration)

BindingsAgree(scopes, c, emitted, count) ==
    /\ scopes \in Seq(Seq(Entries))
    /\ c \in Seq(ScopeSet)
    /\ Len(c) >= 1
    /\ Len(scopes) = Len(c) - 1
    /\ emitted \in Seq(EmittedSet)
    /\ count = Len(emitted)
    /\ \A i \in DOMAIN c : NumberedUpTo(c[i].declares, count)
    /\ \A i \in DOMAIN c : i > 1 =>
           /\ \A n \in Names : c[i].declares[n].kind # "function"
           /\ ScopeBinds(scopes[i - 1], c[i].declares, emitted)
    /\ FileScopeIsBare(c[1].declares, emitted)

-----------------------------------------------------------------------------
(* A scope that has just been opened binds nothing.                         *)
LEMMA PushBinds ==
    ASSUME NEW s, NEW c, NEW em, NEW k, BindingsAgree(s, c, em, k), NEW opener \in Openers
    PROVE  BindingsAgree(Append(s, <<>>), Opened(c, opener), em, k)
<1> DEFINE e == EmptyScope(opener)
           t == Append(s, <<>>)
           d == Append(c, e)
<1>1. e \in ScopeSet /\ \A n \in Names : e.declares[n] = NoDeclaration
  BY EmptyAgrees
<1> HIDE DEF e
<1>2. /\ s \in Seq(Seq(Entries)) /\ c \in Seq(ScopeSet) /\ Len(c) >= 1 /\ Len(s) = Len(c) - 1
      /\ em \in Seq(EmittedSet) /\ k = Len(em)
      /\ FileScopeIsBare(c[1].declares, em)
  BY DEF BindingsAgree
<1>3. /\ t \in Seq(Seq(Entries)) /\ d \in Seq(ScopeSet) /\ Len(d) >= 1 /\ Len(t) = Len(d) - 1
      /\ d[1] = c[1] /\ k \in Nat
  BY <1>1, <1>2
<1>4. NumberedUpTo(e.declares, k) /\ ScopeBinds(<<>>, e.declares, em)
      /\ \A n \in Names : e.declares[n].kind # "function"
  BY <1>1, <1>3 DEF NumberedUpTo, ScopeBinds, NoDeclaration
<1>5. ASSUME NEW i \in DOMAIN d
      PROVE  /\ NumberedUpTo(d[i].declares, k)
             /\ i > 1 => /\ \A n \in Names : d[i].declares[n].kind # "function"
                         /\ ScopeBinds(t[i - 1], d[i].declares, em)
  <2>1. CASE i = Len(d)
    <3>1. d[i] = e /\ t[i - 1] = <<>>
      BY <1>1, <1>2, <2>1
    <3> QED BY <1>4, <3>1
  <2>2. CASE i # Len(d)
    <3>1. i \in DOMAIN c /\ d[i] = c[i]
      BY <1>1, <1>2, <2>2
    <3>2. i > 1 => t[i - 1] = s[i - 1]
      BY <1>2, <3>1
    <3> QED BY <3>1, <3>2 DEF BindingsAgree
  <2> QED BY <2>1, <2>2
<1>6. BindingsAgree(t, d, em, k)
  <2> HIDE DEF t, d
  <2> QED BY <1>2, <1>3, <1>5 DEF BindingsAgree
<1> QED BY <1>6 DEF Opened, e

(* Closing the innermost scope of both.                                     *)
LEMMA PopBinds ==
    ASSUME NEW s, NEW c, NEW em, NEW k, BindingsAgree(s, c, em, k), Len(c) > 1
    PROVE  BindingsAgree(SubSeq(s, 1, Len(s) - 1), Closed(c), em, k)
<1> DEFINE t == SubSeq(s, 1, Len(s) - 1)
           d == SubSeq(c, 1, Len(c) - 1)
<1>2. /\ s \in Seq(Seq(Entries)) /\ c \in Seq(ScopeSet) /\ Len(c) >= 1 /\ Len(s) = Len(c) - 1
      /\ em \in Seq(EmittedSet) /\ k = Len(em)
      /\ FileScopeIsBare(c[1].declares, em)
  BY DEF BindingsAgree
<1>3. /\ t \in Seq(Seq(Entries)) /\ d \in Seq(ScopeSet) /\ Len(d) >= 1 /\ Len(t) = Len(d) - 1
      /\ d[1] = c[1]
  BY <1>2
<1>5. ASSUME NEW i \in DOMAIN d
      PROVE  /\ NumberedUpTo(d[i].declares, k)
             /\ i > 1 => /\ \A n \in Names : d[i].declares[n].kind # "function"
                         /\ ScopeBinds(t[i - 1], d[i].declares, em)
  <2>1. i \in DOMAIN c /\ d[i] = c[i]
    BY <1>2
  <2>2. i > 1 => t[i - 1] = s[i - 1]
    BY <1>2
  <2> QED BY <2>1, <2>2 DEF BindingsAgree
<1>6. BindingsAgree(t, d, em, k)
  <2> HIDE DEF t, d
  <2> QED BY <1>2, <1>3, <1>5 DEF BindingsAgree
<1> QED BY <1>6 DEF Closed

(* One more declaration has been emitted.                                   *)
LEMMA EmitBinds ==
    ASSUME NEW s, NEW c, NEW em, NEW k, BindingsAgree(s, c, em, k),
           NEW x \in EmittedSet
    PROVE  /\ BindingsAgree(s, c, Append(em, x), k + 1)
           /\ Append(em, x)[k + 1] = x
<1> DEFINE f == Append(em, x)
<1>1. /\ s \in Seq(Seq(Entries)) /\ c \in Seq(ScopeSet) /\ Len(c) >= 1 /\ Len(s) = Len(c) - 1
      /\ em \in Seq(EmittedSet) /\ k = Len(em)
      /\ FileScopeIsBare(c[1].declares, em)
  BY DEF BindingsAgree
<1>2. /\ f \in Seq(EmittedSet) /\ k + 1 = Len(f) /\ k \in Nat
      /\ f[k + 1] = x /\ \A i \in 1..k : f[i] = em[i]
  BY <1>1
<1> HIDE DEF f
<1>3. ASSUME NEW i \in DOMAIN c, NEW n \in Names
      PROVE  /\ c[i].declares[n].id \in 0..k
             /\ c[i].declares[n].id = 0 => c[i].declares[n] = NoDeclaration
             /\ c[i].declares[n].kind \in {"object", "function"} =>
                    f[c[i].declares[n].id] = em[c[i].declares[n].id]
  <2>1. /\ c[i].declares[n].id \in 0..k
        /\ c[i].declares[n].id = 0 => c[i].declares[n] = NoDeclaration
    BY DEF BindingsAgree, NumberedUpTo
  <2>2. c[i].declares[n].kind \in {"object", "function"} => c[i].declares[n].id \in 1..k
    BY <1>2, <2>1 DEF NoDeclaration
  <2> QED BY <1>2, <2>1, <2>2
<1>4. ASSUME NEW i \in DOMAIN c PROVE NumberedUpTo(c[i].declares, k + 1)
  <2> SUFFICES ASSUME NEW n \in Names
               PROVE  /\ c[i].declares[n].id \in 0..(k + 1)
                      /\ c[i].declares[n].id = 0 => c[i].declares[n] = NoDeclaration
    BY DEF NumberedUpTo
  <2> QED BY <1>2, <1>3
<1>5. ASSUME NEW i \in DOMAIN c, i > 1
      PROVE  /\ \A n \in Names : c[i].declares[n].kind # "function"
             /\ ScopeBinds(s[i - 1], c[i].declares, f)
  <2>1. /\ \A n \in Names : c[i].declares[n].kind # "function"
        /\ ScopeBinds(s[i - 1], c[i].declares, em)
    BY <1>5 DEF BindingsAgree
  <2> QED BY <1>3, <2>1 DEF ScopeBinds
<1>6. FileScopeIsBare(c[1].declares, f)
  <2>1. 1 \in DOMAIN c
    BY <1>1
  <2> QED BY <1>1, <1>3, <2>1 DEF FileScopeIsBare
<1>7. BindingsAgree(s, c, f, k + 1)
  BY <1>1, <1>2, <1>4, <1>5, <1>6 DEF BindingsAgree
<1> QED BY <1>2, <1>7 DEF f

(* A change of the innermost scope that is not the file's.                  *)
LEMMA TopBinds ==
    ASSUME NEW s, NEW c, NEW em, NEW k, BindingsAgree(s, c, em, k), Len(c) > 1,
           NEW t \in Seq(Entries), NEW e \in ScopeSet,
           NumberedUpTo(e.declares, k), ScopeBinds(t, e.declares, em),
           \A n \in Names : e.declares[n].kind # "function"
    PROVE  BindingsAgree([s EXCEPT ![Len(s)] = t], [c EXCEPT ![Len(c)] = e], em, k)
<1> DEFINE u == [s EXCEPT ![Len(s)] = t]
           d == [c EXCEPT ![Len(c)] = e]
<1>2. /\ s \in Seq(Seq(Entries)) /\ c \in Seq(ScopeSet) /\ Len(c) >= 1 /\ Len(s) = Len(c) - 1
      /\ em \in Seq(EmittedSet) /\ k = Len(em)
      /\ FileScopeIsBare(c[1].declares, em)
  BY DEF BindingsAgree
<1>3. /\ u \in Seq(Seq(Entries)) /\ d \in Seq(ScopeSet) /\ Len(d) >= 1 /\ Len(u) = Len(d) - 1
      /\ d[1] = c[1]
  BY <1>2
<1>5. ASSUME NEW i \in DOMAIN d
      PROVE  /\ NumberedUpTo(d[i].declares, k)
             /\ i > 1 => /\ \A n \in Names : d[i].declares[n].kind # "function"
                         /\ ScopeBinds(u[i - 1], d[i].declares, em)
  <2>1. CASE i = Len(c)
    <3>1. d[i] = e /\ u[i - 1] = t
      BY <1>2, <2>1
    <3> QED BY <3>1
  <2>2. CASE i # Len(c)
    <3>1. i \in DOMAIN c /\ d[i] = c[i]
      BY <1>2, <2>2
    <3>2. i > 1 => u[i - 1] = s[i - 1]
      BY <1>2, <2>2, <3>1
    <3> QED BY <3>1, <3>2 DEF BindingsAgree
  <2> QED BY <2>1, <2>2
<1> HIDE DEF u, d
<1>6. BindingsAgree(u, d, em, k)
  BY <1>2, <1>3, <1>5 DEF BindingsAgree
<1> QED BY <1>6 DEF u, d

(* A sequence with another last element.                                    *)
LEMMA LastChanged ==
    ASSUME NEW T, NEW q \in Seq(T), Len(q) \in DOMAIN q, NEW x \in T
    PROVE  /\ [q EXCEPT ![Len(q)] = x] \in Seq(T)
           /\ Len([q EXCEPT ![Len(q)] = x]) = Len(q)
           /\ [q EXCEPT ![Len(q)] = x][Len(q)] = x
  OBVIOUS

(* A change of the file scope.                                              *)
LEMMA FileBinds ==
    ASSUME NEW s, NEW c, NEW em, NEW k, BindingsAgree(s, c, em, k), Len(c) = 1,
           NEW e \in ScopeSet,
           NumberedUpTo(e.declares, k), FileScopeIsBare(e.declares, em)
    PROVE  BindingsAgree(s, [c EXCEPT ![Len(c)] = e], em, k)
<1> DEFINE d == [c EXCEPT ![Len(c)] = e]
<1>2. /\ s \in Seq(Seq(Entries)) /\ c \in Seq(ScopeSet) /\ Len(s) = Len(c) - 1
      /\ em \in Seq(EmittedSet) /\ k = Len(em)
  BY DEF BindingsAgree
<1>3. d \in Seq(ScopeSet) /\ Len(d) = 1 /\ DOMAIN d = 1..1 /\ d[1] = e
  <2>0. Len(c) \in DOMAIN c
    BY <1>2
  <2>1. d \in Seq(ScopeSet) /\ Len(d) = Len(c) /\ d[Len(c)] = e
    BY <1>2, <2>0, LastChanged
  <2> HIDE DEF d
  <2> QED BY <2>1
<1> HIDE DEF d
<1>4. \A i \in DOMAIN d : i = 1
  BY <1>3
<1>6. BindingsAgree(s, d, em, k)
  BY <1>2, <1>3, <1>4 DEF BindingsAgree
<1> QED BY <1>6 DEF d

(* A construct that goes on to its next part.                               *)
LEMMA ContinueBinds ==
    ASSUME NEW s, NEW c, NEW em, NEW k, BindingsAgree(s, c, em, k), NEW opener \in Openers
    PROVE  BindingsAgree(s, Continued(c, opener), em, k)
<1> DEFINE L == Len(c)
           e == [c[L] EXCEPT !.opener = opener]
           d == Continued(c, opener)
<1>1. /\ s \in Seq(Seq(Entries)) /\ c \in Seq(ScopeSet) /\ L >= 1 /\ Len(s) = L - 1
      /\ em \in Seq(EmittedSet) /\ k = Len(em)
      /\ FileScopeIsBare(c[1].declares, em)
  BY DEF BindingsAgree
<1>2. c[L] \in ScopeSet
  BY <1>1
<1>3. e \in ScopeSet /\ e.declares = c[L].declares
  BY <1>2 DEF ScopeSet
<1>4. d = [c EXCEPT ![L] = e]
  BY DEF Continued
<1> HIDE DEF e, d
<1>5. /\ d \in Seq(ScopeSet) /\ Len(d) = L /\ DOMAIN d = DOMAIN c
      /\ \A i \in DOMAIN c : i # L => d[i] = c[i]
      /\ d[L] = e
  BY <1>1, <1>3, <1>4
<1>6. \A i \in DOMAIN c : d[i].declares = c[i].declares
  BY <1>3, <1>5
<1>7. 1 \in DOMAIN c
  BY <1>1
<1>8. ASSUME NEW i \in DOMAIN d
      PROVE  /\ NumberedUpTo(d[i].declares, k)
             /\ i > 1 => /\ \A n \in Names : d[i].declares[n].kind # "function"
                         /\ ScopeBinds(s[i - 1], d[i].declares, em)
  <2>1. i \in DOMAIN c /\ d[i].declares = c[i].declares
    BY <1>5, <1>6
  <2> QED BY <2>1 DEF BindingsAgree
<1>9. FileScopeIsBare(d[1].declares, em)
  BY <1>1, <1>6, <1>7
<1>10. BindingsAgree(s, d, em, k)
  BY <1>1, <1>5, <1>8, <1>9 DEF BindingsAgree
<1> QED BY <1>10 DEF d

-----------------------------------------------------------------------------
(* A declaration in the innermost scope.                                    *)
Placed(c, n, entity, e) ==
    /\ Declaring(c, n, entity) = [c EXCEPT ![Len(c)] = e]
    /\ e.opener = c[Len(c)].opener
    /\ e.declares[n] = entity
    /\ \A m \in Names : m # n => e.declares[m] = c[Len(c)].declares[m]

(* A declaration changes one name of the innermost scope.                   *)
LEMMA DeclaringTop ==
    ASSUME NEW c \in Seq(ScopeSet), Len(c) >= 1, NEW n \in Names, NEW entity \in EntitySet
    PROVE  \E e \in ScopeSet : Placed(c, n, entity, e)
<1> DEFINE L == Len(c)
           d == [c[L].declares EXCEPT ![n] = entity]
           e == [c[L] EXCEPT !.declares = d]
<1>1. c[L] \in ScopeSet
  OBVIOUS
<1>2. c[L].declares \in DeclaresSet
  BY <1>1 DEF ScopeSet
<1>3. d \in DeclaresSet /\ d[n] = entity /\ \A m \in Names : m # n => d[m] = c[L].declares[m]
  BY <1>2 DEF DeclaresSet
<1>4. Declaring(c, n, entity) = [c EXCEPT ![L] = e]
  BY DEF Declaring
<1> HIDE DEF d
<1>5. e \in ScopeSet /\ e.declares = d /\ e.opener = c[L].opener
  BY <1>1, <1>3 DEF ScopeSet
<1> HIDE DEF e
<1>6. e.declares[n] = entity /\ \A m \in Names : m # n => e.declares[m] = c[L].declares[m]
  BY <1>3, <1>5
<1>7. Placed(c, n, entity, e)
  BY <1>4, <1>5, <1>6, Zenon DEF Placed
<1> QED BY <1>5, <1>7, Zenon

(* cc_bind_local_name: a local that C declares is bound to its emitted name.*)
LEMMA LocalBinds ==
    ASSUME NEW s, NEW c, NEW em, NEW k, BindingsAgree(s, c, em, k), Len(c) > 1,
           NEW n \in Names, NEW entity \in EntitySet,
           entity.kind = "object", entity.id = k, k > 0, em[k] \in Entries, em[k].name = n,
           Here(c, n) = NoDeclaration
    PROVE  BindingsAgree([s EXCEPT ![Len(s)] = Append(@, em[k])], Declaring(c, n, entity), em, k)
<1> DEFINE L == Len(c)
           q == s[Len(s)]
           d == c[L].declares
           t == Append(q, em[k])
<1>1. /\ s \in Seq(Seq(Entries)) /\ c \in Seq(ScopeSet) /\ Len(s) = L - 1 /\ k = Len(em)
      /\ em \in Seq(EmittedSet)
      /\ L \in DOMAIN c /\ Len(s) \in DOMAIN s /\ L >= 1
  BY DEF BindingsAgree
<1>2. /\ q \in Seq(Entries) /\ NumberedUpTo(d, k) /\ ScopeBinds(q, d, em) /\ k \in Nat
      /\ \A m \in Names : d[m].kind # "function"
  BY <1>1 DEF BindingsAgree
<1>0. c \in Seq(ScopeSet) /\ Len(c) >= 1
  BY <1>1
<1>12. PICK e \in ScopeSet : Placed(c, n, entity, e)
  BY <1>0, DeclaringTop, Zenon
<1>3. /\ Declaring(c, n, entity) = [c EXCEPT ![L] = e]
      /\ e.declares[n] = entity
      /\ \A m \in Names : m # n => e.declares[m] = d[m]
  BY <1>12, Zenon DEF Placed
<1>4. d[n] = NoDeclaration
  BY DEF Here, Top
<1>5. /\ t \in Seq(Entries)
      /\ Len(q) + 1 \in DOMAIN t /\ t[Len(q) + 1] = em[k]
      /\ \A l \in DOMAIN t : l = Len(q) + 1 \/ (l \in DOMAIN q /\ t[l] = q[l])
      /\ \A l \in DOMAIN q : l \in DOMAIN t /\ t[l] = q[l]
  BY <1>2
<1> HIDE DEF t, q
<1>6. NumberedUpTo(e.declares, k)
  <2> SUFFICES ASSUME NEW m \in Names
               PROVE  /\ e.declares[m].id \in 0..k
                      /\ e.declares[m].id = 0 => e.declares[m] = NoDeclaration
    BY DEF NumberedUpTo
  <2>1. CASE m = n
    BY <1>2, <1>3, <2>1
  <2>2. CASE m # n
    BY <1>2, <1>3, <2>2 DEF NumberedUpTo
  <2> QED BY <2>1, <2>2
<1>7. \A m \in Names : e.declares[m].kind # "function"
  BY <1>2, <1>3
<1>8. ASSUME NEW m \in Names
      PROVE  IF e.declares[m].kind = "object"
             THEN \E j \in DOMAIN t :
                      /\ t[j].name = m
                      /\ t[j] = em[e.declares[m].id]
                      /\ \A l \in DOMAIN t : t[l].name = m => l = j
             ELSE \A l \in DOMAIN t : t[l].name # m
  <2>1. CASE m = n
    <3>1. \A l \in DOMAIN q : q[l].name # n
      BY <1>2, <1>4 DEF ScopeBinds, NoDeclaration
    <3>2. \A l \in DOMAIN t : t[l].name = n => l = Len(q) + 1
      BY <1>5, <3>1
    <3> QED BY <1>3, <1>5, <2>1, <3>2
  <2>2. CASE m # n /\ d[m].kind = "object"
    <3>1. PICK j \in DOMAIN q :
              /\ q[j].name = m
              /\ q[j] = em[d[m].id]
              /\ \A l \in DOMAIN q : q[l].name = m => l = j
      BY <1>2, <2>2 DEF ScopeBinds
    <3>2. j \in DOMAIN t /\ t[j].name = m /\ t[j] = em[e.declares[m].id]
      BY <1>3, <1>5, <2>2, <3>1
    <3>3. \A l \in DOMAIN t : t[l].name = m => l = j
      BY <1>5, <2>2, <3>1
    <3> QED BY <1>3, <2>2, <3>2, <3>3
  <2>3. CASE m # n /\ d[m].kind # "object"
    <3>1. \A l \in DOMAIN q : q[l].name # m
      BY <1>2, <2>3 DEF ScopeBinds
    <3> QED BY <1>3, <1>5, <2>3, <3>1
  <2> QED BY <2>1, <2>2, <2>3
<1>9. ScopeBinds(t, e.declares, em)
  BY <1>8 DEF ScopeBinds
<1>10. BindingsAgree([s EXCEPT ![Len(s)] = t], [c EXCEPT ![L] = e], em, k)
  BY <1>5, <1>6, <1>7, <1>9, TopBinds
<1>11. [s EXCEPT ![Len(s)] = Append(@, em[k])] = [s EXCEPT ![Len(s)] = t]
  BY DEF t, q
<1> QED BY <1>3, <1>10, <1>11, Zenon

(* A typedef is not bound.                                                  *)
LEMMA TypedefBinds ==
    ASSUME NEW s, NEW c, NEW em, NEW k, BindingsAgree(s, c, em, k),
           NEW n \in Names, NEW entity \in EntitySet,
           entity.kind = "typedef", entity.id = k, k > 0,
           Here(c, n) = NoDeclaration
    PROVE  BindingsAgree(s, Declaring(c, n, entity), em, k)
<1> DEFINE L == Len(c)
           d == c[L].declares
           q == s[L - 1]
<1>1. /\ s \in Seq(Seq(Entries)) /\ c \in Seq(ScopeSet) /\ Len(s) = L - 1 /\ k = Len(em)
      /\ em \in Seq(EmittedSet)
      /\ L \in DOMAIN c /\ L \in Nat /\ L >= 1
  BY DEF BindingsAgree
<1>2. NumberedUpTo(d, k) /\ k \in Nat
  BY <1>1 DEF BindingsAgree
<1>0. c \in Seq(ScopeSet) /\ Len(c) >= 1
  BY <1>1
<1>12. PICK e \in ScopeSet : Placed(c, n, entity, e)
  BY <1>0, DeclaringTop, Zenon
<1>3. /\ Declaring(c, n, entity) = [c EXCEPT ![L] = e]
      /\ e.declares[n] = entity
      /\ \A m \in Names : m # n => e.declares[m] = d[m]
  BY <1>12, Zenon DEF Placed
<1>4. d[n] = NoDeclaration
  BY DEF Here, Top
<1>5. NumberedUpTo(e.declares, k)
  <2> SUFFICES ASSUME NEW m \in Names
               PROVE  /\ e.declares[m].id \in 0..k
                      /\ e.declares[m].id = 0 => e.declares[m] = NoDeclaration
    BY DEF NumberedUpTo
  <2>1. CASE m = n
    BY <1>2, <1>3, <2>1
  <2>2. CASE m # n
    BY <1>2, <1>3, <2>2 DEF NumberedUpTo
  <2> QED BY <2>1, <2>2
<1>6. CASE L = 1
  <2>1. FileScopeIsBare(d, em)
    BY <1>6 DEF BindingsAgree
  <2>2. FileScopeIsBare(e.declares, em)
    BY <1>3, <2>1 DEF FileScopeIsBare
  <2>3. BindingsAgree(s, [c EXCEPT ![L] = e], em, k)
    BY <1>5, <1>6, <2>2, FileBinds
  <2> QED BY <1>3, <2>3, Zenon
<1>7. CASE L > 1
  <2>0. L - 1 \in DOMAIN s
    BY <1>1, <1>7
  <2>1. /\ q \in Seq(Entries) /\ ScopeBinds(q, d, em)
        /\ \A m \in Names : d[m].kind # "function"
    BY <1>1, <1>7, <2>0 DEF BindingsAgree
  <2>2. \A m \in Names : e.declares[m].kind # "function"
    BY <1>3, <2>1
  <2>3. ScopeBinds(q, e.declares, em)
    <3>1. \A l \in DOMAIN q : q[l].name # n
      BY <1>4, <2>1 DEF ScopeBinds, NoDeclaration
    <3> HIDE DEF q
    <3> QED BY <1>3, <2>1, <3>1 DEF ScopeBinds
  <2>4. [s EXCEPT ![Len(s)] = q] = s
    BY <1>1
  <2>5. BindingsAgree([s EXCEPT ![Len(s)] = q], [c EXCEPT ![L] = e], em, k)
    <3> HIDE DEF q
    <3> QED BY <1>5, <1>7, <2>1, <2>2, <2>3, TopBinds
  <2> QED BY <1>3, <2>4, <2>5, Zenon
<1> QED BY <1>1, <1>6, <1>7

(* A global or a function is not bound, and emitted as it is written.       *)
LEMMA GlobalBinds ==
    ASSUME NEW s, NEW c, NEW em, NEW k, BindingsAgree(s, c, em, k), Len(c) = 1,
           NEW n \in Names, NEW entity \in EntitySet,
           entity.id \in 1..k, em[entity.id] = Emit!Emitted(n, Emit!Bare)
    PROVE  BindingsAgree(s, Declaring(c, n, entity), em, k)
<1> DEFINE L == Len(c)
           d == c[L].declares
<1>1. /\ c \in Seq(ScopeSet) /\ L \in DOMAIN c /\ k \in Nat /\ L >= 1
  BY DEF BindingsAgree
<1>2. NumberedUpTo(d, k) /\ FileScopeIsBare(d, em)
  BY <1>1 DEF BindingsAgree
<1>0. c \in Seq(ScopeSet) /\ Len(c) >= 1
  BY <1>1
<1>12. PICK e \in ScopeSet : Placed(c, n, entity, e)
  BY <1>0, DeclaringTop, Zenon
<1>3. /\ Declaring(c, n, entity) = [c EXCEPT ![L] = e]
      /\ e.declares[n] = entity
      /\ \A m \in Names : m # n => e.declares[m] = d[m]
  BY <1>12, Zenon DEF Placed
<1>4. NumberedUpTo(e.declares, k)
  <2> SUFFICES ASSUME NEW m \in Names
               PROVE  /\ e.declares[m].id \in 0..k
                      /\ e.declares[m].id = 0 => e.declares[m] = NoDeclaration
    BY DEF NumberedUpTo
  <2>1. CASE m = n
    BY <1>1, <1>3, <2>1
  <2>2. CASE m # n
    BY <1>2, <1>3, <2>2 DEF NumberedUpTo
  <2> QED BY <2>1, <2>2
<1>5. FileScopeIsBare(e.declares, em)
  BY <1>2, <1>3 DEF FileScopeIsBare
<1>6. BindingsAgree(s, [c EXCEPT ![L] = e], em, k)
  BY <1>4, <1>5, FileBinds
<1> QED BY <1>3, <1>6, Zenon

(* A use of a variable or function reaches the declaration C means.         *)
LEMMA UseIsBound ==
    ASSUME NEW b, NEW c, NEW em, NEW k, BindingsAgree(b.scopes, c, em, k),
           NEW n \in Names, Meaning(c, n).kind \in {"object", "function"}
    PROVE  (IF Emit!Binding(b, n) = {} THEN Emit!Emitted(n, Emit!Bare) ELSE Emit!LookupEmitted(b, n))
               = em[Meaning(c, n).id]
<1> DEFINE s == b.scopes
           holding == ScopesOf(c, n)
           binding == Emit!Binding(b, n)
<1>1. /\ s \in Seq(Seq(Entries)) /\ c \in Seq(ScopeSet) /\ Len(s) = Len(c) - 1 /\ Len(c) >= 1
      /\ DOMAIN c = 1..Len(c) /\ DOMAIN s = 1..(Len(c) - 1) /\ Len(c) \in Nat
  BY DEF BindingsAgree
<1>2. holding # {}
  BY DEF Meaning, NoDeclaration
<1>3. holding \in SUBSET (1..Len(c))
  BY <1>1 DEF ScopesOf
<1>4. PICK x \in holding : \A y \in holding : y <= x
  <2> HIDE DEF holding
  <2> QED BY <1>1, <1>2, <1>3, GreatestNumber
<1>5. (CHOOSE i \in holding : \A j \in holding : j <= i) = x
  <2> HIDE DEF holding
  <2> QED BY <1>1, <1>3, <1>4, InnermostIs
<1>6. Meaning(c, n) = c[x].declares[n] /\ x \in DOMAIN c
  BY <1>2, <1>5 DEF Meaning, ScopesOf
<1>0. binding = {i \in DOMAIN s : \E j \in DOMAIN s[i] : s[i][j].name = n}
  BY DEF Emit!Binding
<1>10. BindingsAgree(s, c, em, k)
  OBVIOUS
<1>11. ASSUME binding # {}
       PROVE  Emit!LookupEmitted(b, n)
                  = LET inner == s[CHOOSE i \in binding : \A l \in binding : l <= i]
                    IN  inner[CHOOSE j \in DOMAIN inner :
                                  /\ inner[j].name = n
                                  /\ \A l \in DOMAIN inner : inner[l].name = n => j <= l]
  BY DEF Emit!LookupEmitted
<1> HIDE DEF s, binding
<1>7. ASSUME NEW i \in binding
      PROVE  i \in DOMAIN s /\ i + 1 \in holding /\ c[i + 1].declares[n].kind = "object"
  <2>1. i \in DOMAIN s /\ \E j \in DOMAIN s[i] : s[i][j].name = n
    BY <1>0
  <2>2. i + 1 \in DOMAIN c /\ i + 1 > 1 /\ (i + 1) - 1 = i
    BY <1>1, <2>1
  <2>3. ScopeBinds(s[i], c[i + 1].declares, em)
    <3>1. ScopeBinds(s[(i + 1) - 1], c[i + 1].declares, em)
      BY <1>10, <2>2 DEF BindingsAgree
    <3> QED BY <2>2, <3>1
  <2>4. c[i + 1].declares[n].kind = "object"
    BY <2>1, <2>3 DEF ScopeBinds
  <2> QED BY <2>1, <2>2, <2>4 DEF ScopesOf, NoDeclaration
<1>8. CASE x = 1
  <2>1. binding = {}
    <3> SUFFICES ASSUME NEW i \in binding PROVE FALSE
      OBVIOUS
    <3>1. i \in 1..(Len(c) - 1) /\ i + 1 <= x
      BY <1>1, <1>4, <1>7
    <3> QED BY <1>1, <1>8, <3>1
  <2>2. em[c[1].declares[n].id] = Emit!Emitted(n, Emit!Bare)
    BY <1>6, <1>8, <1>10 DEF BindingsAgree, FileScopeIsBare
  <2> QED BY <1>6, <1>8, <2>1, <2>2 DEF binding
<1>9. CASE x > 1
  <2> DEFINE q == s[x - 1]
  <2>1. c[x].declares[n].kind = "object" /\ ScopeBinds(q, c[x].declares, em)
    BY <1>6, <1>9, <1>10 DEF BindingsAgree
  <2>2. PICK j \in DOMAIN q :
            /\ q[j].name = n
            /\ q[j] = em[c[x].declares[n].id]
            /\ \A l \in DOMAIN q : q[l].name = n => l = j
    BY <2>1 DEF ScopeBinds
  <2>3. x - 1 \in DOMAIN s /\ x - 1 \in Nat
    BY <1>1, <1>6, <1>9
  <2>4. x - 1 \in binding
    BY <1>0, <2>2, <2>3
  <2>5. \A y \in binding : y <= x - 1
    <3> SUFFICES ASSUME NEW y \in binding PROVE y <= x - 1
      OBVIOUS
    <3>1. y \in 1..(Len(c) - 1) /\ y + 1 <= x
      BY <1>1, <1>4, <1>7
    <3> QED BY <1>1, <1>6, <3>1
  <2>6. binding \in SUBSET (1..Len(s)) /\ Len(s) \in Nat
    BY <1>1, <1>7
  <2>7. (CHOOSE i \in binding : \A l \in binding : l <= i) = x - 1
    <3> HIDE DEF binding
    <3> QED BY <2>4, <2>5, <2>6, InnermostIs
  <2>8. q \in Seq(Entries)
    BY <1>1, <2>3
  <2>9. (CHOOSE l \in DOMAIN q : /\ q[l].name = n
                                /\ \A m \in DOMAIN q : q[m].name = n => l <= m) = j
    <3>1. \A m \in DOMAIN q : q[m].name = n => j <= m
      BY <2>2, <2>8
    <3> HIDE DEF q
    <3> QED BY <2>2, <3>1
  <2>10. Emit!LookupEmitted(b, n) = q[j]
    BY <1>11, <2>4, <2>7, <2>9
  <2> QED BY <1>6, <2>2, <2>4, <2>10 DEF binding
<1> QED BY <1>1, <1>6, <1>8, <1>9

-----------------------------------------------------------------------------
(* The three tables together, and the steps that open and close.            *)

FileNames(c, kind) == {n \in Names : c[1].declares[n].kind = kind}

CountsAgree(cnt, c) ==
    /\ cnt \in [function : Nat, global : Nat, typedef : Nat]
    /\ IsFiniteSet(FileNames(c, "function")) /\ cnt.function = Cardinality(FileNames(c, "function"))
    /\ IsFiniteSet(FileNames(c, "object")) /\ cnt.global = Cardinality(FileNames(c, "object"))

OnlyFileFirst(c) == \A i \in DOMAIN c : c[i].opener = "file" <=> i = 1

(* The three tables of the compiler against what C makes of the text.       *)
Agreement(ty, sy, c, bs, em, k, cnt) ==
    /\ TablesAgree(sy, c)
    /\ OnlyFileFirst(c)
    /\ \E g : TableKnows(ty, c, g)
    /\ BindingsAgree(bs, c, em, k)
    /\ CountsAgree(cnt, c)

-----------------------------------------------------------------------------
(* The counts depend on the file scope only.                                *)
LEMMA CountsKept ==
    ASSUME NEW cnt, NEW c, NEW d, CountsAgree(cnt, c), c[1].declares = d[1].declares
    PROVE  CountsAgree(cnt, d)
  BY DEF CountsAgree, FileNames

(* What Continued leaves as it was.                                         *)
LEMMA ContinuedIs ==
    ASSUME NEW c \in Seq(ScopeSet), Len(c) >= 1, NEW opener \in Openers
    PROVE  /\ Continued(c, opener) \in Seq(ScopeSet)
           /\ Len(Continued(c, opener)) = Len(c)
           /\ Continued(c, opener)[Len(c)].opener = opener
           /\ \A i \in DOMAIN c : /\ Continued(c, opener)[i].declares = c[i].declares
                                  /\ i # Len(c) => Continued(c, opener)[i].opener = c[i].opener
<1> DEFINE L == Len(c)
           e == [c[L] EXCEPT !.opener = opener]
           d == Continued(c, opener)
<1>1. c[L] \in ScopeSet /\ L \in DOMAIN c
  OBVIOUS
<1>2. e \in ScopeSet /\ e.declares = c[L].declares /\ e.opener = opener
  BY <1>1 DEF ScopeSet
<1>3. d = [c EXCEPT ![L] = e]
  BY DEF Continued
<1> HIDE DEF e, d
<1>4. /\ d \in Seq(ScopeSet) /\ Len(d) = L /\ d[L] = e
      /\ \A i \in DOMAIN c : i # L => d[i] = c[i]
  BY <1>1, <1>2, <1>3
<1>5. \A i \in DOMAIN c : /\ d[i].declares = c[i].declares
                          /\ i # L => d[i].opener = c[i].opener
  BY <1>2, <1>4
<1> QED BY <1>2, <1>4, <1>5 DEF d

(* What Opened leaves as it was.                                            *)
LEMMA OpenedIs ==
    ASSUME NEW c \in Seq(ScopeSet), Len(c) >= 1, NEW opener \in Openers
    PROVE  /\ Opened(c, opener) \in Seq(ScopeSet)
           /\ Len(Opened(c, opener)) = Len(c) + 1
           /\ Opened(c, opener)[Len(c) + 1].opener = opener
           /\ \A n \in Names : Opened(c, opener)[Len(c) + 1].declares[n] = NoDeclaration
           /\ \A i \in DOMAIN c : Opened(c, opener)[i] = c[i]
<1> DEFINE e == EmptyScope(opener)
<1>1. e \in ScopeSet /\ e.opener = opener /\ \A n \in Names : e.declares[n] = NoDeclaration
  BY EmptyAgrees
<1> HIDE DEF e
<1> DEFINE d == Append(c, e)
<1>2. /\ d \in Seq(ScopeSet) /\ Len(d) = Len(c) + 1 /\ d[Len(c) + 1] = e
      /\ \A i \in DOMAIN c : d[i] = c[i]
  BY <1>1
<1> HIDE DEF d
<1>3. Opened(c, opener) = d
  BY DEF Opened, d, e
<1> QED BY <1>1, <1>2, <1>3

(* What Declaring leaves as it was.                                         *)
LEMMA DeclaringIs ==
    ASSUME NEW c \in Seq(ScopeSet), Len(c) >= 1, NEW n \in Names, NEW entity \in EntitySet
    PROVE  LET d == Declaring(c, n, entity)
           IN  /\ d \in Seq(ScopeSet)
               /\ Len(d) = Len(c)
               /\ d[Len(c)].declares[n] = entity
               /\ \A i \in DOMAIN c : d[i].opener = c[i].opener
               /\ \A i \in DOMAIN c, m \in Names :
                      i # Len(c) \/ m # n => d[i].declares[m] = c[i].declares[m]
<1> DEFINE L == Len(c)
           d == Declaring(c, n, entity)
<1>1. PICK e \in ScopeSet : Placed(c, n, entity, e)
  BY DeclaringTop, Zenon
<1>2. /\ d = [c EXCEPT ![L] = e]
      /\ e.opener = c[L].opener
      /\ e.declares[n] = entity
      /\ \A m \in Names : m # n => e.declares[m] = c[L].declares[m]
  BY <1>1, Zenon DEF Placed
<1>3. L \in DOMAIN c
  OBVIOUS
<1> HIDE DEF d
<1>4. /\ d \in Seq(ScopeSet) /\ Len(d) = L /\ d[L] = e
      /\ \A i \in DOMAIN c : i # L => d[i] = c[i]
  BY <1>2, <1>3
<1>5. \A i \in DOMAIN c : d[i].opener = c[i].opener
  BY <1>2, <1>4
<1>6. ASSUME NEW i \in DOMAIN c, NEW m \in Names, i # L \/ m # n
      PROVE  d[i].declares[m] = c[i].declares[m]
  BY <1>2, <1>4, <1>6
<1> QED BY <1>2, <1>4, <1>5, <1>6 DEF d

(* The parts of an agreement that the steps below need.                     *)
LEMMA AgreementIs ==
    ASSUME NEW ty, NEW sy, NEW c, NEW bs, NEW em, NEW k, NEW cnt,
           Agreement(ty, sy, c, bs, em, k, cnt)
    PROVE  /\ TablesAgree(sy, c) /\ OnlyFileFirst(c) /\ BindingsAgree(bs, c, em, k)
           /\ CountsAgree(cnt, c)
           /\ c \in Seq(ScopeSet) /\ Len(c) >= 1 /\ Len(c) \in DOMAIN c /\ Len(c) \in Nat /\ 1 \in DOMAIN c
           /\ k \in Nat
<1>1. c \in Seq(ScopeSet) /\ Len(c) >= 1
  BY DEF Agreement, TablesAgree
<1>2. Len(c) \in DOMAIN c /\ Len(c) \in Nat /\ 1 \in DOMAIN c
  BY <1>1
<1>3. k \in Nat
  BY DEF Agreement, BindingsAgree
<1> QED BY <1>1, <1>2, <1>3 DEF Agreement

(* `for (...)` has come to its next clause.                                 *)
LEMMA ForGoesOn ==
    ASSUME NEW ty, NEW sy, NEW c, NEW bs, NEW em, NEW k, NEW cnt,
           Agreement(ty, sy, c, bs, em, k, cnt), c[Len(c)].opener = "for-init"
    PROVE  Agreement(ty, sy, Continued(c, "for"), bs, em, k, cnt)
<1> DEFINE d == Continued(c, "for")
<1>0. "for" \in Openers
  BY DEF Openers
<1>1. /\ TablesAgree(sy, c) /\ OnlyFileFirst(c) /\ BindingsAgree(bs, c, em, k) /\ CountsAgree(cnt, c)
      /\ c \in Seq(ScopeSet) /\ Len(c) >= 1 /\ Len(c) \in DOMAIN c /\ Len(c) \in Nat /\ 1 \in DOMAIN c
  BY AgreementIs
<1>2. /\ d \in Seq(ScopeSet) /\ Len(d) = Len(c) /\ d[Len(c)].opener = "for"
      /\ \A i \in DOMAIN c : /\ d[i].declares = c[i].declares
                             /\ i # Len(c) => d[i].opener = c[i].opener
  BY <1>0, <1>1, ContinuedIs
<1>3. TablesAgree(sy, d) /\ BindingsAgree(bs, d, em, k)
  BY <1>0, <1>1, ContinueAgrees, ContinueBinds, Zenon
<1> HIDE DEF d
<1>4. DOMAIN d = DOMAIN c
  BY <1>1, <1>2
<1>5. OnlyFileFirst(d)
  BY <1>1, <1>2, <1>4 DEF OnlyFileFirst
<1>6. CountsAgree(cnt, d)
  BY <1>1, <1>2, CountsKept
<1>7. PICK g : TableKnows(ty, c, g)
  BY DEF Agreement
<1>8. \A i \in DOMAIN c : /\ d[i].opener \in Braces <=> c[i].opener \in Braces
                          /\ \A n \in Names : IsTypedefIn(d, i, n) <=> IsTypedefIn(c, i, n)
  BY <1>2 DEF Braces, IsTypedefIn
<1>9. TableKnows(ty, d, g)
  BY <1>1, <1>2, <1>4, <1>7, <1>8, KnownWithout
<1> QED BY <1>3, <1>5, <1>6, <1>9 DEF Agreement, d

(* The brace of a function body.                                            *)
LEMMA BodyOpens ==
    ASSUME NEW ty, NEW sy, NEW c, NEW bs, NEW em, NEW k, NEW cnt,
           Agreement(ty, sy, c, bs, em, k, cnt), c[Len(c)].opener = "parameters"
    PROVE  Agreement(Parser!ScopePushed(ty), sy, Continued(c, "function"), bs, em, k, cnt)
<1> DEFINE d == Continued(c, "function")
<1>0. "function" \in Openers
  BY DEF Openers
<1>1. /\ TablesAgree(sy, c) /\ OnlyFileFirst(c) /\ BindingsAgree(bs, c, em, k) /\ CountsAgree(cnt, c)
      /\ c \in Seq(ScopeSet) /\ Len(c) >= 1 /\ Len(c) \in DOMAIN c /\ Len(c) \in Nat /\ 1 \in DOMAIN c
  BY AgreementIs
<1>2. /\ d \in Seq(ScopeSet) /\ Len(d) = Len(c) /\ d[Len(c)].opener = "function"
      /\ \A i \in DOMAIN c : /\ d[i].declares = c[i].declares
                             /\ i # Len(c) => d[i].opener = c[i].opener
  BY <1>0, <1>1, ContinuedIs
<1>3. TablesAgree(sy, d) /\ BindingsAgree(bs, d, em, k)
  BY <1>0, <1>1, ContinueAgrees, ContinueBinds, Zenon
<1> HIDE DEF d
<1>4. DOMAIN d = DOMAIN c
  BY <1>1, <1>2
<1>5. OnlyFileFirst(d)
  BY <1>1, <1>2, <1>4 DEF OnlyFileFirst
<1>6. CountsAgree(cnt, d)
  BY <1>1, <1>2, CountsKept
<1>7. PICK g : TableKnows(ty, c, g)
  BY DEF Agreement
<1>8. \A i \in DOMAIN c : i # Len(d) =>
          /\ d[i].opener \in Braces <=> c[i].opener \in Braces
          /\ \A n \in Names : IsTypedefIn(d, i, n) <=> IsTypedefIn(c, i, n)
  BY <1>2 DEF IsTypedefIn
<1>9. c[Len(c)].opener \notin Braces /\ d[Len(d)].opener \in Braces
  BY <1>2 DEF Braces
<1>10. \A n \in Names : ~IsTypedefIn(d, Len(d), n)
  <2>1. \A n \in Names : ~IsTypedefIn(c, Len(c), n)
    BY <1>1, <1>7, <1>9 DEF TableKnows
  <2> QED BY <1>1, <1>2, <2>1 DEF IsTypedefIn
<1>11. TableKnows(Parser!ScopePushed(ty), d, Append(g, Len(d)))
  BY <1>1, <1>2, <1>7, <1>8, <1>9, <1>10, KnownPush
<1> QED BY <1>3, <1>5, <1>6, <1>11 DEF Agreement, d

(* A scope opens, of the parser too when it has a brace.                    *)
LEMMA ScopeOpens ==
    ASSUME NEW ty, NEW sy, NEW c, NEW bs, NEW em, NEW k, NEW cnt,
           Agreement(ty, sy, c, bs, em, k, cnt), NEW opener \in Openers, opener # "file"
    PROVE  Agreement(IF opener \in Braces THEN Parser!ScopePushed(ty) ELSE ty,
                     Sema!ScopePushed(sy), Opened(c, opener), Append(bs, <<>>), em, k, cnt)
<1> DEFINE d == Opened(c, opener)
<1>1. /\ TablesAgree(sy, c) /\ OnlyFileFirst(c) /\ BindingsAgree(bs, c, em, k) /\ CountsAgree(cnt, c)
      /\ c \in Seq(ScopeSet) /\ Len(c) >= 1 /\ Len(c) \in DOMAIN c /\ Len(c) \in Nat /\ 1 \in DOMAIN c
  BY AgreementIs
<1>2. /\ d \in Seq(ScopeSet) /\ Len(d) = Len(c) + 1 /\ d[Len(c) + 1].opener = opener
      /\ \A n \in Names : d[Len(c) + 1].declares[n] = NoDeclaration
      /\ \A i \in DOMAIN c : d[i] = c[i]
  BY <1>1, OpenedIs
<1>3. TablesAgree(Sema!ScopePushed(sy), d) /\ BindingsAgree(Append(bs, <<>>), d, em, k)
  BY <1>1, PushAgrees, PushBinds
<1> HIDE DEF d
<1>4. \A i \in DOMAIN d : i \in DOMAIN c \/ (i = Len(c) + 1 /\ i # 1)
  BY <1>1, <1>2
<1>5. OnlyFileFirst(d)
  BY <1>1, <1>2, <1>4 DEF OnlyFileFirst
<1>6. CountsAgree(cnt, d)
  BY <1>1, <1>2, CountsKept
<1>7. PICK g : TableKnows(ty, c, g)
  BY DEF Agreement
<1>8. /\ \A i \in DOMAIN c : /\ d[i].opener \in Braces <=> c[i].opener \in Braces
                             /\ \A n \in Names : IsTypedefIn(d, i, n) <=> IsTypedefIn(c, i, n)
      /\ \A n \in Names : ~IsTypedefIn(d, Len(c) + 1, n)
  BY <1>2 DEF IsTypedefIn, NoDeclaration
<1>9. CASE opener \in Braces
  <2>1. TableKnows(Parser!ScopePushed(ty), d, Append(g, Len(d)))
    BY <1>1, <1>2, <1>7, <1>8, <1>9, KnownPush
  <2> QED BY <1>3, <1>5, <1>6, <1>9, <2>1 DEF Agreement, d
<1>10. CASE opener \notin Braces
  <2>1. \A i \in DOMAIN d : i > Len(c) =>
            d[i].opener \notin Braces /\ \A n \in Names : ~IsTypedefIn(d, i, n)
    BY <1>1, <1>2, <1>4, <1>8, <1>10
  <2>2. Len(d) >= Len(c)
    BY <1>1, <1>2
  <2>3. TableKnows(ty, d, g)
    BY <1>1, <1>2, <1>7, <1>8, <2>1, <2>2, KnownWithout
  <2> QED BY <1>3, <1>5, <1>6, <1>10, <2>3 DEF Agreement, d
<1> QED BY <1>9, <1>10

(* The innermost scope closes.                                              *)
LEMMA ScopeCloses ==
    ASSUME NEW ty, NEW sy, NEW c, NEW bs, NEW em, NEW k, NEW cnt,
           Agreement(ty, sy, c, bs, em, k, cnt), c[Len(c)].opener # "file"
    PROVE  /\ Agreement(IF c[Len(c)].opener \in Braces THEN Parser!ScopePopped(ty) ELSE ty,
                        Sema!ScopePopped(sy), Closed(c), SubSeq(bs, 1, Len(bs) - 1), em, k, cnt)
           /\ bs # <<>>
<1> DEFINE d == Closed(c)
<1>1. /\ TablesAgree(sy, c) /\ OnlyFileFirst(c) /\ BindingsAgree(bs, c, em, k) /\ CountsAgree(cnt, c)
      /\ c \in Seq(ScopeSet) /\ Len(c) >= 1 /\ Len(c) \in DOMAIN c /\ Len(c) \in Nat /\ 1 \in DOMAIN c
  BY AgreementIs
<1>2. Len(c) > 1
  BY <1>1 DEF OnlyFileFirst
<1>3. TablesAgree(Sema!ScopePopped(sy), d) /\ BindingsAgree(SubSeq(bs, 1, Len(bs) - 1), d, em, k)
  BY <1>1, <1>2, PopAgrees, PopBinds
<1>4. d[1] = c[1] /\ \A i \in DOMAIN d : i \in DOMAIN c /\ d[i] = c[i]
  BY <1>1, <1>2 DEF Closed
<1>5. bs # <<>>
  BY <1>1, <1>2 DEF BindingsAgree
<1> HIDE DEF d
<1>6. OnlyFileFirst(d) /\ CountsAgree(cnt, d)
  <2>1. OnlyFileFirst(d)
    BY <1>1, <1>4 DEF OnlyFileFirst
  <2> QED BY <1>1, <1>4, <2>1, CountsKept
<1>7. PICK g : TableKnows(ty, c, g)
  BY DEF Agreement
<1>8. CASE c[Len(c)].opener \in Braces
  <2>1. TableKnows(Parser!ScopePopped(ty), d, SubSeq(g, 1, Len(g) - 1))
    BY <1>1, <1>2, <1>7, <1>8, KnownPop DEF d
  <2> QED BY <1>3, <1>5, <1>6, <1>8, <2>1 DEF Agreement, d
<1>9. CASE c[Len(c)].opener \notin Braces
  <2>1. TableKnows(ty, d, g)
    BY <1>1, <1>2, <1>7, <1>9, KnownClosed DEF d
  <2> QED BY <1>3, <1>5, <1>6, <1>9, <2>1 DEF Agreement, d
<1> QED BY <1>8, <1>9

(* A declaration has been emitted, or left out.                             *)
LEMMA DeclarationEmits ==
    ASSUME NEW ty, NEW sy, NEW c, NEW bs, NEW em, NEW k, NEW cnt,
           Agreement(ty, sy, c, bs, em, k, cnt), NEW x \in EmittedSet
    PROVE  Agreement(ty, sy, c, bs, Append(em, x), k + 1, cnt) /\ Append(em, x)[k + 1] = x
<1>1. BindingsAgree(bs, c, Append(em, x), k + 1) /\ Append(em, x)[k + 1] = x
  <2>1. BindingsAgree(bs, c, em, k)
    BY DEF Agreement
  <2>2. BindingsAgree(bs, c, Append(em, x), k + 1)
    BY <2>1, EmitBinds, Zenon
  <2>3. Append(em, x)[k + 1] = x
    <3>1. em \in Seq(EmittedSet) /\ k = Len(em)
      BY <2>1 DEF BindingsAgree
    <3> QED BY <3>1
  <2> QED BY <2>2, <2>3
<1> QED BY <1>1 DEF Agreement

-----------------------------------------------------------------------------
(* The three tables together, and the steps that declare.                   *)

(* A nonempty sequence has one element or several.                          *)
LEMMA OneOrMore ==
    ASSUME NEW l \in Nat, l >= 1
    PROVE  l = 1 \/ l > 1
  OBVIOUS

(* An element of a sequence is of its set.                                  *)
LEMMA ElementOf ==
    ASSUME NEW T, NEW q \in Seq(T), NEW i \in DOMAIN q
    PROVE  q[i] \in T
  OBVIOUS

(* A declaration that leaves every name's being a type as it is.            *)
LEMMA KnownDeclaring ==
    ASSUME NEW ty, NEW c \in Seq(ScopeSet), Len(c) >= 1, NEW g, TableKnows(ty, c, g),
           NEW n \in Names, NEW entity \in EntitySet,
           entity.kind # "typedef", Here(c, n).kind # "typedef"
    PROVE  TableKnows(ty, Declaring(c, n, entity), g)
<1> DEFINE d == Declaring(c, n, entity)
<1>1. /\ d \in Seq(ScopeSet) /\ Len(d) = Len(c) /\ d[Len(c)].declares[n] = entity
      /\ \A i \in DOMAIN c : d[i].opener = c[i].opener
      /\ \A i \in DOMAIN c, m \in Names :
             i # Len(c) \/ m # n => d[i].declares[m] = c[i].declares[m]
  BY DeclaringIs
<1> HIDE DEF d
<1>2. c[Len(c)].declares[n].kind # "typedef"
  BY DEF Here, Top
<1>3. \A i \in DOMAIN c : /\ d[i].opener \in Braces <=> c[i].opener \in Braces
                          /\ \A m \in Names : IsTypedefIn(d, i, m) <=> IsTypedefIn(c, i, m)
  BY <1>1, <1>2 DEF IsTypedefIn
<1>4. Len(d) >= Len(c) /\ \A i \in DOMAIN d : ~(i > Len(c))
  BY <1>1
<1>5. TableKnows(ty, d, g)
  BY <1>1, <1>3, <1>4, KnownWithout
<1> QED BY <1>5 DEF d

(* A declaration changes no opener.                                         *)
LEMMA OpenersKept ==
    ASSUME NEW c \in Seq(ScopeSet), Len(c) >= 1, NEW n \in Names, NEW entity \in EntitySet,
           OnlyFileFirst(c)
    PROVE  OnlyFileFirst(Declaring(c, n, entity))
<1> DEFINE d == Declaring(c, n, entity)
<1>1. /\ d \in Seq(ScopeSet) /\ Len(d) = Len(c)
      /\ \A i \in DOMAIN c : d[i].opener = c[i].opener
  BY DeclaringIs
<1> HIDE DEF d
<1>2. DOMAIN d = DOMAIN c
  BY <1>1
<1>3. OnlyFileFirst(d)
  BY <1>1, <1>2 DEF OnlyFileFirst
<1> QED BY <1>3 DEF d

(* Declaring in an inner scope leaves the file scope alone.                 *)
LEMMA CountsInside ==
    ASSUME NEW cnt, NEW c \in Seq(ScopeSet), Len(c) > 1, NEW n \in Names, NEW entity \in EntitySet,
           CountsAgree(cnt, c)
    PROVE  CountsAgree(cnt, Declaring(c, n, entity))
<1> DEFINE d == Declaring(c, n, entity)
<1>1. \A m \in Names : d[1].declares[m] = c[1].declares[m]
  <2>0. Len(c) >= 1
    BY Len(c) > 1
  <2>1. \A i \in DOMAIN c, m \in Names :
             i # Len(c) \/ m # n => d[i].declares[m] = c[i].declares[m]
    BY <2>0, DeclaringIs
  <2>2. 1 \in DOMAIN c /\ 1 # Len(c)
    <3>1. Len(c) \in Nat /\ Len(c) > 1
      BY c \in Seq(ScopeSet), Len(c) > 1
    <3>2. DOMAIN c = 1..Len(c)
      BY c \in Seq(ScopeSet)
    <3> QED BY <3>1, <3>2
  <2> HIDE DEF d
  <2> QED BY <2>1, <2>2
<1> HIDE DEF d
<1>2. \A kind : FileNames(d, kind) = FileNames(c, kind)
  BY <1>1 DEF FileNames
<1>3. CountsAgree(cnt, d)
  BY <1>2 DEF CountsAgree
<1> QED BY <1>3 DEF d

(* A name that is new in the file scope is one more of its kind.            *)
LEMMA FileNamesGrow ==
    ASSUME NEW c \in Seq(ScopeSet), Len(c) = 1, NEW n \in Names, NEW entity \in EntitySet,
           Here(c, n) = NoDeclaration, NEW kind \in Kinds,
           IsFiniteSet(FileNames(c, kind))
    PROVE  LET after == FileNames(Declaring(c, n, entity), kind)
           IN  /\ IsFiniteSet(after)
               /\ Cardinality(FileNames(c, kind)) \in Nat
               /\ Cardinality(after) = Cardinality(FileNames(c, kind))
                                           + (IF kind = entity.kind THEN 1 ELSE 0)
<1> DEFINE d == Declaring(c, n, entity)
           before == FileNames(c, kind)
           after == FileNames(d, kind)
<1>1. d[1].declares[n] = entity /\ \A m \in Names : m # n => d[1].declares[m] = c[1].declares[m]
  <2>1. /\ d[Len(c)].declares[n] = entity
        /\ \A i \in DOMAIN c, m \in Names :
             i # Len(c) \/ m # n => d[i].declares[m] = c[i].declares[m]
    <3>1. Len(c) >= 1
      BY Len(c) = 1
    <3> QED BY <3>1, DeclaringIs
  <2>2. 1 \in DOMAIN c
    BY c \in Seq(ScopeSet), Len(c) = 1
  <2> HIDE DEF d
  <2> QED BY <2>1, <2>2
<1> HIDE DEF d
<1>2. n \notin before
  BY DEF Here, Top, FileNames, NoDeclaration, Kinds
<1>3. Cardinality(before) \in Nat
  BY FS_CardinalityType
<1>4. CASE kind = entity.kind
  <2>1. after = before \union {n}
    BY <1>1, <1>4 DEF FileNames
  <2> HIDE DEF before, after
  <2> QED BY <1>2, <1>3, <1>4, <2>1, FS_AddElement DEF before, after, d
<1>5. CASE kind # entity.kind
  <2>1. after = before
    BY <1>1, <1>2, <1>5 DEF FileNames
  <2> HIDE DEF before, after
  <2> QED BY <1>3, <1>5, <2>1 DEF before, after, d
<1> QED BY <1>4, <1>5

-----------------------------------------------------------------------------
(* A variable is declared, at file scope or in a block.                     *)
LEMMA ObjectDeclared ==
    ASSUME NEW ty, NEW sy, NEW c, NEW bs, NEW em, NEW k, NEW cnt,
           Agreement(ty, sy, c, bs, em, k, cnt), NEW new \in SymbolSet,
           new.kind = "object", new.id = k, k > 0, Here(c, new.name) = NoDeclaration,
           em[k] \in Entries, em[k].name = new.name,
           Len(c) = 1 => em[k] = Emit!Emitted(new.name, Emit!Bare)
    PROVE  Agreement(ty, Sema!Added(sy, new).scopes, Declaring(c, new.name, EntityOf(new)),
                     IF Len(c) = 1 THEN bs ELSE [bs EXCEPT ![Len(bs)] = Append(@, em[k])],
                     em, k,
                     IF Len(c) = 1 THEN [cnt EXCEPT !.global = @ + 1] ELSE cnt)
<1> DEFINE n == new.name
           entity == EntityOf(new)
           d == Declaring(c, n, entity)
           add == Sema!Added(sy, new)
<1>1. /\ TablesAgree(sy, c) /\ OnlyFileFirst(c) /\ BindingsAgree(bs, c, em, k) /\ CountsAgree(cnt, c)
      /\ c \in Seq(ScopeSet) /\ Len(c) >= 1 /\ Len(c) \in DOMAIN c /\ Len(c) \in Nat /\ 1 \in DOMAIN c
      /\ k \in Nat
  BY AgreementIs
<1>2. n \in Names /\ entity \in EntitySet /\ entity.kind = "object" /\ entity.id = k
  BY EntitiesTyped DEF SymbolSet, EntityOf
<1>3. TablesAgree(add.scopes, d)
  <2>1. MayFollow(Here(c, n), entity) /\ Redeclaring(Here(c, n), entity) = entity
    BY DEF MayFollow, Redeclaring
  <2>2. ~add.refused /\ TablesAgree(add.scopes, Declaring(c, n, Redeclaring(Here(c, n), entity)))
    <3> HIDE DEF add
    <3> QED BY <1>1, <2>1, AddAgrees DEF add
  <2> QED BY <2>1, <2>2
<1> HIDE DEF entity, n, add
<1>4. OnlyFileFirst(d)
  BY <1>1, <1>2, OpenersKept
<1>5. PICK g : TableKnows(ty, c, g)
  BY DEF Agreement
<1>6. TableKnows(ty, d, g)
  <2>1. entity.kind # "typedef" /\ Here(c, n).kind # "typedef"
    BY <1>2 DEF NoDeclaration, n
  <2> QED BY <1>1, <1>2, <1>5, <2>1, KnownDeclaring
<1>7. CASE Len(c) = 1
  <2>1. BindingsAgree(bs, d, em, k)
    <3>1. entity.id \in 1..k /\ em[entity.id] = Emit!Emitted(n, Emit!Bare)
      BY <1>1, <1>2, <1>7 DEF n
    <3> QED BY <1>1, <1>2, <1>7, <3>1, GlobalBinds
  <2> DEFINE after == [cnt EXCEPT !.global = @ + 1]
  <2>2. CountsAgree(after, d)
    <3>1. Here(c, n) = NoDeclaration
      BY DEF n
    <3>2. /\ cnt \in [function : Nat, global : Nat, typedef : Nat]
          /\ IsFiniteSet(FileNames(c, "function")) /\ cnt.function = Cardinality(FileNames(c, "function"))
          /\ IsFiniteSet(FileNames(c, "object")) /\ cnt.global = Cardinality(FileNames(c, "object"))
      BY <1>1 DEF CountsAgree
    <3>3. "function" \in Kinds /\ "object" \in Kinds
      BY DEF Kinds
    <3>4. IsFiniteSet(FileNames(d, "function")) /\ cnt.function = Cardinality(FileNames(d, "function"))
      BY <1>1, <1>2, <1>7, <3>1, <3>2, <3>3, FileNamesGrow
    <3>5. IsFiniteSet(FileNames(d, "object")) /\ cnt.global + 1 = Cardinality(FileNames(d, "object"))
      BY <1>1, <1>2, <1>7, <3>1, <3>2, <3>3, FileNamesGrow
    <3>6. /\ after \in [function : Nat, global : Nat, typedef : Nat]
          /\ after.function = cnt.function /\ after.global = cnt.global + 1
      BY <3>2
    <3> HIDE DEF after
    <3> QED BY <3>4, <3>5, <3>6 DEF CountsAgree
  <2> HIDE DEF after, d
  <2>3. Agreement(ty, add.scopes, d, bs, em, k, after)
    BY <1>3, <1>4, <1>6, <2>1, <2>2 DEF Agreement
  <2> QED BY <1>7, <2>3 DEF after, d, add, n, entity
<1>8. CASE Len(c) # 1
  <2>1. Len(c) > 1
    <3>1. Len(c) \in Nat /\ Len(c) >= 1
      BY <1>1
    <3> QED BY <3>1, <1>8, OneOrMore, Zenon
  <2> DEFINE after == [bs EXCEPT ![Len(bs)] = Append(@, em[k])]
  <2>2. BindingsAgree(after, d, em, k)
    <3>1. Here(c, n) = NoDeclaration /\ em[k] \in Entries /\ em[k].name = n
      BY DEF n
    <3> QED BY <1>1, <1>2, <2>1, <3>1, LocalBinds
  <2>3. CountsAgree(cnt, d)
    BY <1>1, <1>2, <2>1, CountsInside
  <2> HIDE DEF after, d
  <2>4. Agreement(ty, add.scopes, d, after, em, k, cnt)
    BY <1>3, <1>4, <1>6, <2>2, <2>3 DEF Agreement
  <2> QED BY <1>8, <2>4 DEF after, d, add, n, entity
<1> QED BY <1>7, <1>8

(* A type is declared, in a scope that has a brace.                         *)
LEMMA TypedefDeclared ==
    ASSUME NEW ty, NEW sy, NEW c, NEW bs, NEW em, NEW k, NEW cnt,
           Agreement(ty, sy, c, bs, em, k, cnt), NEW new \in SymbolSet,
           new.kind = "typedef", new.id = k, k > 0, Here(c, new.name) = NoDeclaration,
           c[Len(c)].opener \in Braces
    PROVE  Agreement(Parser!Recorded(ty, new.name), Sema!Added(sy, new).scopes,
                     Declaring(c, new.name, EntityOf(new)), bs, em, k,
                     [cnt EXCEPT !.typedef = @ + 1])
<1> DEFINE n == new.name
           entity == EntityOf(new)
           d == Declaring(c, n, entity)
           add == Sema!Added(sy, new)
<1>1. /\ TablesAgree(sy, c) /\ OnlyFileFirst(c) /\ BindingsAgree(bs, c, em, k) /\ CountsAgree(cnt, c)
      /\ c \in Seq(ScopeSet) /\ Len(c) >= 1 /\ Len(c) \in DOMAIN c /\ Len(c) \in Nat /\ 1 \in DOMAIN c
      /\ k \in Nat
  BY AgreementIs
<1>2. n \in Names /\ entity \in EntitySet /\ entity.kind = "typedef" /\ entity.id = k
  BY EntitiesTyped DEF SymbolSet, EntityOf
<1>3. TablesAgree(add.scopes, d)
  <2>1. MayFollow(Here(c, n), entity) /\ Redeclaring(Here(c, n), entity) = entity
    BY DEF MayFollow, Redeclaring
  <2>2. ~add.refused /\ TablesAgree(add.scopes, Declaring(c, n, Redeclaring(Here(c, n), entity)))
    <3> HIDE DEF add
    <3> QED BY <1>1, <2>1, AddAgrees DEF add
  <2> QED BY <2>1, <2>2
<1>4. Here(c, n) = NoDeclaration
  OBVIOUS
<1> HIDE DEF entity, n, add
<1>5. OnlyFileFirst(d)
  BY <1>1, <1>2, OpenersKept
<1>6. BindingsAgree(bs, d, em, k)
  BY <1>1, <1>2, <1>4, TypedefBinds
<1>7. /\ d \in Seq(ScopeSet) /\ Len(d) = Len(c) /\ d[Len(c)].declares[n] = entity
      /\ \A i \in DOMAIN c : d[i].opener = c[i].opener
      /\ \A i \in DOMAIN c, m \in Names :
             i # Len(c) \/ m # n => d[i].declares[m] = c[i].declares[m]
  BY <1>1, <1>2, DeclaringIs
<1>8. PICK g : TableKnows(ty, c, g)
  BY DEF Agreement
<1>9. \A i \in DOMAIN c :
          /\ d[i].opener = c[i].opener
          /\ \A m \in Names :
                 IsTypedefIn(d, i, m) <=> IsTypedefIn(c, i, m) \/ (i = Len(c) /\ m = n)
  <2> HIDE DEF d
  <2> QED BY <1>2, <1>7 DEF IsTypedefIn
<1>10. TableKnows(Parser!Recorded(ty, n), d, g)
  BY <1>1, <1>2, <1>7, <1>8, <1>9, KnownRecord
<1> DEFINE after == [cnt EXCEPT !.typedef = @ + 1]
<1>11. /\ after \in [function : Nat, global : Nat, typedef : Nat]
       /\ after.function = cnt.function /\ after.global = cnt.global
  BY <1>1 DEF CountsAgree
<1> HIDE DEF after
<1>12. CountsAgree(after, d)
  <2>1. CASE Len(c) = 1
    <3>2. /\ IsFiniteSet(FileNames(c, "function")) /\ cnt.function = Cardinality(FileNames(c, "function"))
          /\ IsFiniteSet(FileNames(c, "object")) /\ cnt.global = Cardinality(FileNames(c, "object"))
      BY <1>1 DEF CountsAgree
    <3>3. "function" \in Kinds /\ "object" \in Kinds
      BY DEF Kinds
    <3>4. IsFiniteSet(FileNames(d, "function")) /\ cnt.function = Cardinality(FileNames(d, "function"))
      BY <1>1, <1>2, <1>4, <2>1, <3>2, <3>3, FileNamesGrow
    <3>5. IsFiniteSet(FileNames(d, "object")) /\ cnt.global = Cardinality(FileNames(d, "object"))
      BY <1>1, <1>2, <1>4, <2>1, <3>2, <3>3, FileNamesGrow
    <3> QED BY <1>11, <3>4, <3>5 DEF CountsAgree
  <2>2. CASE Len(c) > 1
    <3>1. CountsAgree(cnt, d)
      BY <1>1, <1>2, <2>2, CountsInside
    <3> QED BY <1>11, <3>1 DEF CountsAgree
  <2>3. Len(c) = 1 \/ Len(c) > 1
    <3>1. Len(c) \in Nat /\ Len(c) >= 1
      BY <1>1
    <3> QED BY <3>1, OneOrMore, Zenon
  <2> QED BY <2>1, <2>2, <2>3
<1> HIDE DEF d
<1>13. Agreement(Parser!Recorded(ty, n), add.scopes, d, bs, em, k, after)
  BY <1>3, <1>5, <1>6, <1>10, <1>12 DEF Agreement
<1> QED BY <1>13 DEF after, d, add, n, entity

(* A function is declared, again or for the first time, or defined.         *)
LEMMA FunctionDeclared ==
    ASSUME NEW ty, NEW sy, NEW c, NEW bs, NEW em, NEW k, NEW cnt,
           Agreement(ty, sy, c, bs, em, k, cnt), NEW new \in SymbolSet,
           new.kind = "function", new.id = k, k > 0, Len(c) = 1,
           MayFollow(Here(c, new.name), EntityOf(new)),
           em[k] = Emit!Emitted(new.name, Emit!Bare)
    PROVE  Agreement(ty, Sema!Added(sy, new).scopes,
                     Declaring(c, new.name, Redeclaring(Here(c, new.name), EntityOf(new))),
                     bs, em, k,
                     IF Sema!Added(sy, new).added THEN [cnt EXCEPT !.function = @ + 1] ELSE cnt)
<1> DEFINE n == new.name
           here == Here(c, n)
           entity == EntityOf(new)
           redeclared == Redeclaring(here, entity)
           d == Declaring(c, n, redeclared)
           add == Sema!Added(sy, new)
<1>1. /\ TablesAgree(sy, c) /\ OnlyFileFirst(c) /\ BindingsAgree(bs, c, em, k) /\ CountsAgree(cnt, c)
      /\ c \in Seq(ScopeSet) /\ Len(c) >= 1 /\ Len(c) \in DOMAIN c /\ Len(c) \in Nat /\ 1 \in DOMAIN c
      /\ k \in Nat
  BY AgreementIs
<1>2. n \in Names /\ entity \in EntitySet /\ entity.kind = "function" /\ entity.id = k
  BY EntitiesTyped DEF SymbolSet, EntityOf
<1>3. here = c[1].declares[n] /\ (here # NoDeclaration => here \in EntitySet)
  <2>1. c[1] \in ScopeSet
    <3>1. c \in Seq(ScopeSet) /\ 1 \in DOMAIN c
      BY <1>1
    <3> QED BY <3>1, ElementOf, Zenon
  <2> QED BY <1>2, <2>1 DEF Here, Top, ScopeSet, DeclaresSet
<1>4. TablesAgree(add.scopes, d) /\ (add.added <=> here = NoDeclaration)
  <2>1. MayFollow(here, entity)
    OBVIOUS
  <2> HIDE DEF add
  <2> QED BY <1>1, <2>1, AddAgrees DEF add
<1>5. here # NoDeclaration => here.kind = "function"
  BY DEF MayFollow
<1>6. MayFollow(here, entity)
  OBVIOUS
<1>7. em[k] = Emit!Emitted(n, Emit!Bare)
  OBVIOUS
<1> HIDE DEF entity, n, add, here
<1>8. /\ redeclared \in EntitySet /\ redeclared.kind = "function"
      /\ redeclared.id = IF here = NoDeclaration THEN k ELSE here.id
  <2>1. CASE here = NoDeclaration
    BY <1>2, <2>1 DEF Redeclaring
  <2>2. CASE here # NoDeclaration
    <3> DEFINE either == entity.defined \/ here.defined
    <3>1. redeclared = [entity EXCEPT !.id = here.id, !.defined = either]
      BY <1>6, <2>2 DEF Redeclaring
    <3>2. either \in BOOLEAN
      OBVIOUS
    <3> HIDE DEF either
    <3>3. redeclared = [id |-> here.id, kind |-> entity.kind, type |-> entity.type, defined |-> either]
      BY <1>2, <3>1, EntityUpdated
    <3> HIDE DEF redeclared
    <3> QED BY <1>2, <1>3, <2>2, <3>2, <3>3 DEF EntitySet
  <2> QED BY <2>1, <2>2
<1> HIDE DEF redeclared
<1>9. OnlyFileFirst(d)
  BY <1>1, <1>8, <1>2, OpenersKept
<1>10. PICK g : TableKnows(ty, c, g)
  BY DEF Agreement
<1>11. TableKnows(ty, d, g)
  <2>1. redeclared.kind # "typedef" /\ Here(c, n).kind # "typedef"
    BY <1>5, <1>8 DEF NoDeclaration, here
  <2> QED BY <1>1, <1>2, <1>8, <1>10, <2>1, KnownDeclaring
<1>12. BindingsAgree(bs, d, em, k)
  <2>1. redeclared.id \in 1..k /\ em[redeclared.id] = Emit!Emitted(n, Emit!Bare)
    <3>1. CASE here = NoDeclaration
      BY <1>1, <1>7, <1>8, <3>1
    <3>2. CASE here # NoDeclaration
      <4>1. FileScopeIsBare(c[1].declares, em) /\ NumberedUpTo(c[1].declares, k)
        BY <1>1 DEF BindingsAgree
      <4>2. here.id \in 1..k
        BY <1>1, <1>2, <1>3, <3>2, <4>1 DEF NumberedUpTo
      <4>3. em[here.id] = Emit!Emitted(n, Emit!Bare)
        BY <1>2, <1>3, <1>5, <3>2, <4>1 DEF FileScopeIsBare
      <4> QED BY <1>8, <3>2, <4>2, <4>3
    <3> QED BY <3>1, <3>2
  <2> QED BY <1>1, <1>2, <1>8, <2>1, GlobalBinds
<1> DEFINE after == IF add.added THEN [cnt EXCEPT !.function = @ + 1] ELSE cnt
<1>13. CountsAgree(after, d)
  <2>1. /\ cnt \in [function : Nat, global : Nat, typedef : Nat]
        /\ IsFiniteSet(FileNames(c, "function")) /\ cnt.function = Cardinality(FileNames(c, "function"))
        /\ IsFiniteSet(FileNames(c, "object")) /\ cnt.global = Cardinality(FileNames(c, "object"))
    BY <1>1 DEF CountsAgree
  <2>2. "function" \in Kinds /\ "object" \in Kinds
    BY DEF Kinds
  <2>3. CASE here = NoDeclaration
    <3>1. Here(c, n) = NoDeclaration
      BY <2>3 DEF here
    <3>2. IsFiniteSet(FileNames(d, "function")) /\ cnt.function + 1 = Cardinality(FileNames(d, "function"))
      BY <1>1, <1>2, <1>8, <2>1, <2>2, <3>1, FileNamesGrow
    <3>3. IsFiniteSet(FileNames(d, "object")) /\ cnt.global = Cardinality(FileNames(d, "object"))
      BY <1>1, <1>2, <1>8, <2>1, <2>2, <3>1, FileNamesGrow
    <3>4. /\ after \in [function : Nat, global : Nat, typedef : Nat]
          /\ after.function = cnt.function + 1 /\ after.global = cnt.global
      BY <1>4, <2>1, <2>3
    <3> HIDE DEF after
    <3> QED BY <3>2, <3>3, <3>4 DEF CountsAgree
  <2>4. CASE here # NoDeclaration
    <3>1. /\ d[Len(c)].declares[n] = redeclared
          /\ \A i \in DOMAIN c, m \in Names :
                 i # Len(c) \/ m # n => d[i].declares[m] = c[i].declares[m]
      BY <1>1, <1>2, <1>8, DeclaringIs
    <3> HIDE DEF d
    <3>2. \A m \in Names : d[1].declares[m].kind = c[1].declares[m].kind
      BY <1>1, <1>3, <1>5, <1>8, <2>4, <3>1
    <3>3. \A kind : FileNames(d, kind) = FileNames(c, kind)
      BY <3>2 DEF FileNames
    <3>4. after = cnt
      BY <1>4, <2>4
    <3> HIDE DEF after
    <3> QED BY <1>1, <3>3, <3>4 DEF CountsAgree
  <2> QED BY <2>3, <2>4
<1>14. TablesAgree(add.scopes, d)
  BY <1>4
<1> HIDE DEF d, after
<1>15. Agreement(ty, add.scopes, d, bs, em, k, after)
  BY <1>9, <1>11, <1>12, <1>13, <1>14 DEF Agreement
<1> QED BY <1>15 DEF after, d, add, n, entity, here, redeclared

-----------------------------------------------------------------------------
(* The invariant, and what the guards of a step see of it.                  *)

(* The shape of the bindings.                                               *)
BindingsTyped == bindings \in [scopes : Seq(Seq(Entries)), counter : Nat]

Agreed == Agreement(typedefs, symbols, scoping, bindings.scopes, emittedAs, declared, counts)

(* While nothing is reported the program is well scoped and the tables      *)
(* agree with C; what is reported breaks C's rules or hides a type.         *)
NamesInv ==
    /\ verdict = "ok" => (wellScoped <=> TRUE) /\ Agreed
    /\ verdict # "ok" => ~wellScoped \/ hides

-----------------------------------------------------------------------------
(* What a name means is what some scope declares.                           *)
LEMMA MeantSomewhere ==
    ASSUME NEW c \in Seq(ScopeSet), NEW n \in Names, ScopesOf(c, n) # {}
    PROVE  \E i \in DOMAIN c : Meaning(c, n) = c[i].declares[n]
<1> DEFINE holding == ScopesOf(c, n)
<1>1. holding \in SUBSET (1..Len(c)) /\ Len(c) \in Nat /\ holding \subseteq DOMAIN c
  BY DEF ScopesOf
<1>2. holding # {}
  OBVIOUS
<1>3. Meaning(c, n) = c[CHOOSE i \in holding : \A j \in holding : j <= i].declares[n]
  BY DEF Meaning
<1> HIDE DEF holding
<1>4. PICK x \in holding : \A y \in holding : y <= x
  BY <1>1, <1>2, GreatestNumber
<1>5. (CHOOSE i \in holding : \A j \in holding : j <= i) = x
  BY <1>1, <1>4, InnermostIs
<1> QED BY <1>1, <1>3, <1>5

(* The two tables the names of types are looked up in.                      *)
LEMMA TypesJudged ==
    ASSUME Agreed, NEW spec \in TypeNames
    PROVE  /\ SemaTakesType(spec) <=> IsTypeInC(spec)
           /\ IsTypeInC(spec) => ParserTakesType(spec)
<1>1. CASE spec = "int"
  BY <1>1 DEF SemaTakesType, IsTypeInC, ParserTakesType
<1>2. CASE spec # "int"
  <2>1. spec \in Names
    BY <1>2 DEF TypeNames
  <2>2. Sema!Lookup(symbols, spec).kind = Meaning(scoping, spec).kind
    BY <2>1, LookupIsMeaning DEF Agreed, Agreement
  <2>3. ASSUME Meaning(scoping, spec).kind = "typedef"
        PROVE  Parser!NameExists(typedefs, spec)
    <3>1. scoping \in Seq(ScopeSet)
      BY DEF Agreed, Agreement, TablesAgree
    <3>2. ScopesOf(scoping, spec) # {}
      BY <2>3 DEF Meaning, NoDeclaration
    <3>3. \E i \in DOMAIN scoping : IsTypedefIn(scoping, i, spec)
      BY <2>1, <2>3, <3>1, <3>2, MeantSomewhere DEF IsTypedefIn
    <3>4. PICK g : TableKnows(typedefs, scoping, g)
      BY DEF Agreed, Agreement
    <3> QED BY <2>1, <3>3, <3>4, KnownNames
  <2> QED BY <1>2, <2>2, <2>3 DEF SemaTakesType, IsTypeInC, ParserTakesType
<1> QED BY <1>1, <1>2

(* A name that is used is an object or function by the table when it is by C, *)
(* and what the parser takes for a type is one, or hides one.               *)
LEMMA UsesJudged ==
    ASSUME Agreed, NEW n \in Names
    PROVE  /\ Sema!Lookup(symbols, n).kind = Meaning(scoping, n).kind
           /\ Parser!NameExists(typedefs, n) =>
                  \/ \E i \in DOMAIN Builtins : Builtins[i] = n
                  \/ \E i \in ScopesOf(scoping, n) : scoping[i].declares[n].kind = "typedef"
<1>1. Sema!Lookup(symbols, n).kind = Meaning(scoping, n).kind
  BY LookupIsMeaning DEF Agreed, Agreement
<1>2. PICK g : TableKnows(typedefs, scoping, g)
  BY DEF Agreed, Agreement
<1>3. \A i \in DOMAIN scoping : IsTypedefIn(scoping, i, n) => i \in ScopesOf(scoping, n)
  BY DEF IsTypedefIn, ScopesOf, NoDeclaration
<1>4. Parser!NameExists(typedefs, n) =>
          \/ \E i \in DOMAIN Builtins : Builtins[i] = n
          \/ \E i \in DOMAIN scoping : IsTypedefIn(scoping, i, n)
  BY <1>2, KnownNames
<1> QED BY <1>1, <1>3, <1>4 DEF IsTypedefIn

(* Going on after the first clause of a for statement.                      *)
LEMMA SettledAgrees ==
    ASSUME Agreed
    PROVE  /\ Agreement(typedefs, symbols, Settled, bindings.scopes, emittedAs, declared, counts)
           /\ Len(Settled) = Len(scoping)
           /\ \A n \in Names : Here(Settled, n) = Here(scoping, n)
<1>0. Agreement(typedefs, symbols, scoping, bindings.scopes, emittedAs, declared, counts)
  BY DEF Agreed
<1>1. CASE scoping[Len(scoping)].opener = "for-init"
  <2>1. Settled = Continued(scoping, "for")
    BY <1>1 DEF Settled, Top
  <2>2. Agreement(typedefs, symbols, Continued(scoping, "for"), bindings.scopes, emittedAs, declared,
                  counts)
    BY <1>0, <1>1, ForGoesOn, Zenon
  <2>3. scoping \in Seq(ScopeSet) /\ Len(scoping) >= 1 /\ Len(scoping) \in DOMAIN scoping
    BY <1>0, AgreementIs, Zenon
  <2>4. "for" \in Openers
    BY DEF Openers
  <2>5. /\ Len(Continued(scoping, "for")) = Len(scoping)
        /\ Continued(scoping, "for")[Len(scoping)].declares = scoping[Len(scoping)].declares
    BY <2>3, <2>4, ContinuedIs
  <2> QED BY <2>1, <2>2, <2>5 DEF Here, Top
<1>2. CASE scoping[Len(scoping)].opener # "for-init"
  BY <1>0, <1>2 DEF Settled, Top
<1> QED BY <1>1, <1>2

(* The symbol of a declaration and what C calls it.                         *)
LEMMA SymbolIs ==
    ASSUME NEW n \in Names, NEW kind \in Kinds, NEW type \in {"int"} \union FunctionTypes,
           NEW defined \in BOOLEAN, declared \in Nat
    PROVE  LET new == Symbol(n, kind, type, defined)
           IN  /\ new \in SymbolSet
               /\ new.name = n /\ new.kind = kind /\ new.id = declared + 1
               /\ EntityOf(new) = Entity(kind, type, defined)
               /\ EntityOf(new).kind = kind
  BY DEF Symbol, SymbolSet, EntityOf, Entity

(* A local is emitted under the name it is bound to.                        *)
LEMMA LocalEmitted ==
    ASSUME BindingsTyped, NEW n \in Names, EmitLocal(n)
    PROVE  \E x \in Entries :
               /\ x.name = n
               /\ emittedAs' = Append(emittedAs, x)
               /\ bindings'.scopes = [bindings.scopes EXCEPT ![Len(bindings.scopes)] = Append(@, x)]
<1> DEFINE x == Emit!Emitted(n, Emit!NumberFor(bindings, n))
<1>1. Emit!NumberFor(bindings, n) \in Int
  BY DEF BindingsTyped, Emit!NumberFor, Emit!Bare
<1>2. x \in Entries /\ x.name = n
  BY <1>1 DEF Entries, Emit!Emitted
<1>3. /\ emittedAs' = Append(emittedAs, x)
      /\ bindings'.scopes = [bindings.scopes EXCEPT ![Len(bindings.scopes)] = Append(@, x)]
  BY DEF EmitLocal, Emit!Bound
<1> QED BY <1>2, <1>3

(* A name as it is written is an emitted name.                              *)
LEMMA BareIs ==
    ASSUME NEW n \in Names
    PROVE  Emit!Emitted(n, Emit!Bare) \in Entries /\ Emit!Emitted(n, Emit!Bare).name = n
  BY DEF Entries, Emit!Emitted, Emit!Bare

(* What the step does to the verdict and to C's opinion decides which half  *)
(* of the invariant is to be shown.                                         *)
LEMMA ObjectKeeps ==
    ASSUME Agreed, wellScoped <=> TRUE, BindingsTyped,
           NEW spec \in TypeNames, NEW n \in Names, DeclareObject(spec, n)
    PROVE  NamesInv'
<1> DEFINE new == Symbol(n, "object", "int", FALSE)
           entity == Entity("object", "int", FALSE)
           add == Sema!Added(symbols, new)
           k == declared + 1
<1>1. /\ TablesAgree(symbols, scoping) /\ scoping \in Seq(ScopeSet)
      /\ Len(scoping) \in Nat /\ Len(scoping) >= 1 /\ declared \in Nat
  BY AgreementIs DEF Agreed
<1>2. /\ new \in SymbolSet /\ new.name = n /\ new.kind = "object" /\ new.id = k
      /\ EntityOf(new) = entity
  <2>1. "object" \in Kinds /\ "int" \in {"int"} \union FunctionTypes /\ FALSE \in BOOLEAN
    BY DEF Kinds
  <2> QED BY <1>1, <2>1, SymbolIs, Zenon
<1>3. /\ Agreement(typedefs, symbols, Settled, bindings.scopes, emittedAs, declared, counts)
      /\ Len(Settled) = Len(scoping) /\ Here(Settled, n) = Here(scoping, n)
  BY SettledAgrees
<1>4. /\ add.refused <=> Here(scoping, n) # NoDeclaration
      /\ add.added <=> Here(scoping, n) = NoDeclaration
  <2>1. /\ add.refused <=> ~MayFollow(Here(scoping, n), EntityOf(new))
        /\ add.added <=> Here(scoping, n) = NoDeclaration
    <3> HIDE DEF add, new
    <3> QED BY <1>1, <1>2, AddAgrees DEF add
  <2>2. entity.kind = "object"
    BY DEF Entity
  <2> QED BY <1>2, <2>1, <2>2 DEF MayFollow
<1>5. /\ verdict' = IF ~ParserTakesType(spec) THEN "parser"
                    ELSE IF ~(SemaTakesType(spec) /\ ~add.refused) THEN "sema" ELSE "ok"
      /\ symbols' = add.scopes
      /\ counts' = [counts EXCEPT !.global = IF add.added /\ AtFileScope THEN @ + 1 ELSE @]
      /\ scoping' = Declaring(Settled, n, entity)
      /\ declared' = k
      /\ wellScoped' <=> (wellScoped /\ IsTypeInC(spec) /\ Here(scoping, n) = NoDeclaration)
      /\ typedefs' = typedefs
      /\ IF AtFileScope THEN EmitGlobal(n) ELSE EmitLocal(n)
  BY DEF DeclareObject, Judged
<1>6. /\ SemaTakesType(spec) <=> IsTypeInC(spec)
      /\ IsTypeInC(spec) => ParserTakesType(spec)
  BY TypesJudged
<1> HIDE DEF add, new, entity
<1>7. CASE IsTypeInC(spec) /\ Here(scoping, n) = NoDeclaration
  <2>1. verdict' = "ok" /\ (wellScoped' <=> TRUE)
    BY <1>4, <1>5, <1>6, <1>7
  <2>2. PICK x \in Entries :
            /\ x.name = n
            /\ emittedAs' = Append(emittedAs, x)
            /\ Len(scoping) = 1 => x = Emit!Emitted(n, Emit!Bare)
            /\ bindings'.scopes = IF Len(scoping) = 1 THEN bindings.scopes
                                  ELSE [bindings.scopes EXCEPT ![Len(bindings.scopes)] = Append(@, x)]
    <3>1. CASE Len(scoping) = 1
      BY <1>5, <3>1, BareIs DEF AtFileScope, EmitGlobal
    <3>2. CASE Len(scoping) # 1
      BY <1>5, <3>2, LocalEmitted DEF AtFileScope
    <3> QED BY <3>1, <3>2
  <2> DEFINE em == Append(emittedAs, x)
  <2>3. Agreement(typedefs, symbols, Settled, bindings.scopes, em, k, counts) /\ em[k] = x
    <3>1. x \in EmittedSet
      BY DEF EmittedSet
    <3>2. Agreement(typedefs, symbols, Settled, bindings.scopes, emittedAs, declared, counts)
      BY <1>3
    <3>3. Agreement(typedefs, symbols, Settled, bindings.scopes, em, k, counts)
      BY <3>1, <3>2, DeclarationEmits
    <3>4. emittedAs \in Seq(EmittedSet) /\ declared = Len(emittedAs)
      BY DEF Agreed, Agreement, BindingsAgree
    <3>5. em[k] = x
      BY <3>1, <3>4
    <3> QED BY <3>3, <3>5
  <2> DEFINE b == IF Len(Settled) = 1 THEN bindings.scopes
                  ELSE [bindings.scopes EXCEPT ![Len(bindings.scopes)] = Append(@, em[k])]
             cnt == IF Len(Settled) = 1 THEN [counts EXCEPT !.global = @ + 1] ELSE counts
  <2>4. b = bindings'.scopes
    BY <1>3, <2>2, <2>3
  <2>5. cnt = counts'
    <3>1. counts \in [function : Nat, global : Nat, typedef : Nat]
      BY DEF Agreed, Agreement, CountsAgree
    <3>2. counts = [counts EXCEPT !.global = counts.global]
      BY <3>1
    <3>3. CASE Len(scoping) = 1
      BY <1>3, <1>4, <1>5, <1>7, <3>3 DEF AtFileScope
    <3>4. CASE Len(scoping) # 1
      BY <1>3, <1>4, <1>5, <1>7, <3>2, <3>4 DEF AtFileScope
    <3> QED BY <3>3, <3>4
  <2> HIDE DEF em, b, cnt
  <2>5a. em = emittedAs'
    BY <2>2 DEF em
  <2>6. Agreement(typedefs, add.scopes, Declaring(Settled, n, entity), b, em, k, cnt)
    <3>1. k > 0 /\ Here(Settled, n) = NoDeclaration
      BY <1>1, <1>3, <1>7
    <3>2. em[k] \in Entries /\ em[k].name = n
      BY <2>2, <2>3
    <3>3. Len(Settled) = 1 => em[k] = Emit!Emitted(n, Emit!Bare)
      BY <1>3, <2>2, <2>3
    <3> HIDE DEF k
    <3>4. Agreement(typedefs, Sema!Added(symbols, new).scopes, Declaring(Settled, new.name, EntityOf(new)),
                    IF Len(Settled) = 1 THEN bindings.scopes
                    ELSE [bindings.scopes EXCEPT ![Len(bindings.scopes)] = Append(@, em[k])], em, k,
                    IF Len(Settled) = 1 THEN [counts EXCEPT !.global = @ + 1] ELSE counts)
      BY <1>2, <2>3, <3>1, <3>2, <3>3, ObjectDeclared
    <3> QED BY <1>2, <3>4, Zenon DEF add, b, cnt
  <2>7. Agreed'
    BY <1>5, <2>4, <2>5, <2>5a, <2>6 DEF Agreed
  <2> QED BY <2>1, <2>7 DEF NamesInv
<1>8. CASE ~(IsTypeInC(spec) /\ Here(scoping, n) = NoDeclaration)
  <2>1. ~wellScoped'
    BY <1>5, <1>8
  <2>2. verdict' # "ok"
    BY <1>4, <1>5, <1>6, <1>8
  <2> QED BY <2>1, <2>2 DEF NamesInv
<1> QED BY <1>7, <1>8

(* A typedef.                                                               *)
LEMMA TypedefKeeps ==
    ASSUME Agreed, wellScoped <=> TRUE, BindingsTyped,
           NEW spec \in TypeNames, NEW n \in Names, DeclareTypedef(spec, n)
    PROVE  NamesInv'
<1> DEFINE new == Symbol(n, "typedef", "int", TRUE)
           entity == Entity("typedef", "int", TRUE)
           add == Sema!Added(symbols, new)
           k == declared + 1
           em == Append(emittedAs, NotEmitted)
           cnt == [counts EXCEPT !.typedef = @ + 1]
<1>1. /\ TablesAgree(symbols, scoping) /\ scoping \in Seq(ScopeSet)
      /\ Len(scoping) \in Nat /\ Len(scoping) >= 1 /\ declared \in Nat
  BY AgreementIs DEF Agreed
<1>2. /\ new \in SymbolSet /\ new.name = n /\ new.kind = "typedef" /\ new.id = k
      /\ EntityOf(new) = entity
  <2>1. "typedef" \in Kinds /\ "int" \in {"int"} \union FunctionTypes /\ TRUE \in BOOLEAN
    BY DEF Kinds
  <2> QED BY <1>1, <2>1, SymbolIs, Zenon
<1>3. scoping[Len(scoping)].opener \in Braces
  BY DEF DeclareTypedef, DeclarationPlace, Top, Braces
<1>4. /\ add.refused <=> Here(scoping, n) # NoDeclaration
      /\ add.added <=> Here(scoping, n) = NoDeclaration
  <2>1. /\ add.refused <=> ~MayFollow(Here(scoping, n), EntityOf(new))
        /\ add.added <=> Here(scoping, n) = NoDeclaration
    <3> HIDE DEF add, new
    <3> QED BY <1>1, <1>2, AddAgrees DEF add
  <2>2. entity.kind = "typedef"
    BY DEF Entity
  <2> QED BY <1>2, <2>1, <2>2 DEF MayFollow
<1>5. /\ verdict' = IF ~ParserTakesType(spec) THEN "parser"
                    ELSE IF ~(SemaTakesType(spec) /\ ~add.refused) THEN "sema" ELSE "ok"
      /\ symbols' = add.scopes
      /\ counts' = [counts EXCEPT !.typedef = IF add.added THEN @ + 1 ELSE @]
      /\ scoping' = Declaring(scoping, n, entity)
      /\ declared' = k
      /\ wellScoped' <=> (wellScoped /\ IsTypeInC(spec) /\ Here(scoping, n) = NoDeclaration)
      /\ typedefs' = Parser!Recorded(typedefs, n)
      /\ emittedAs' = em /\ bindings' = bindings
  BY DEF DeclareTypedef, Judged, EmitNothing
<1>6. /\ SemaTakesType(spec) <=> IsTypeInC(spec)
      /\ IsTypeInC(spec) => ParserTakesType(spec)
  BY TypesJudged
<1> HIDE DEF add, new, entity
<1>7. CASE IsTypeInC(spec) /\ Here(scoping, n) = NoDeclaration
  <2>1. verdict' = "ok" /\ (wellScoped' <=> TRUE)
    BY <1>4, <1>5, <1>6, <1>7
  <2>2. counts' = cnt
    BY <1>4, <1>5, <1>7
  <2>3. Agreement(typedefs, symbols, scoping, bindings.scopes, em, k, counts)
    BY DeclarationEmits DEF EmittedSet, Agreed
  <2>4. k > 0
    BY <1>1
  <2> HIDE DEF em, k, cnt
  <2>5. Agreement(Parser!Recorded(typedefs, n), add.scopes, Declaring(scoping, n, entity),
                  bindings.scopes, em, k, cnt)
    <3>1. Agreement(Parser!Recorded(typedefs, new.name), Sema!Added(symbols, new).scopes,
                    Declaring(scoping, new.name, EntityOf(new)), bindings.scopes, em, k,
                    [counts EXCEPT !.typedef = @ + 1])
      BY <1>2, <1>3, <1>7, <2>3, <2>4, TypedefDeclared
    <3> QED BY <1>2, <3>1, Zenon DEF add, cnt
  <2>6. Agreed'
    BY <1>5, <2>2, <2>5 DEF Agreed
  <2> QED BY <2>1, <2>6 DEF NamesInv
<1>8. CASE ~(IsTypeInC(spec) /\ Here(scoping, n) = NoDeclaration)
  <2>1. ~wellScoped'
    BY <1>5, <1>8
  <2>2. verdict' # "ok"
    BY <1>4, <1>5, <1>6, <1>8
  <2> QED BY <2>1, <2>2 DEF NamesInv
<1> QED BY <1>7, <1>8

(* A function declared or the head of its definition.                       *)
LEMMA FunctionKeeps ==
    ASSUME Agreed, wellScoped <=> TRUE, BindingsTyped,
           NEW n \in Names, NEW type \in FunctionTypes, NEW defined \in BOOLEAN,
           AddFunction(n, type, defined)
    PROVE  NamesInv'
<1> DEFINE new == Symbol(n, "function", type, defined)
           entity == Entity("function", type, defined)
           add == Sema!Added(symbols, new)
           k == declared + 1
           x == Emit!Emitted(n, Emit!Bare)
           em == Append(emittedAs, x)
           file == Declaring(scoping, n, Redeclared(n, entity))
           cnt == IF add.added THEN [counts EXCEPT !.function = @ + 1] ELSE counts
<1>1. /\ TablesAgree(symbols, scoping) /\ scoping \in Seq(ScopeSet)
      /\ Len(scoping) \in Nat /\ Len(scoping) >= 1 /\ declared \in Nat
  BY AgreementIs DEF Agreed
<1>2. /\ new \in SymbolSet /\ new.name = n /\ new.kind = "function" /\ new.id = k
      /\ EntityOf(new) = entity
  BY <1>1 DEF Symbol, SymbolSet, EntityOf, Entity, Kinds
<1>3. Len(scoping) = 1
  BY DEF AddFunction, AtFileScope
<1>4. add.refused <=> ~MayFollow(Here(scoping, n), entity)
  <2> HIDE DEF add, new, entity
  <2> QED BY <1>1, <1>2, AddAgrees DEF add
<1>5. /\ verdict' = IF add.refused THEN "sema" ELSE "ok"
      /\ symbols' = IF defined THEN Sema!ScopePushed(add.scopes) ELSE add.scopes
      /\ counts' = [counts EXCEPT !.function = IF add.added THEN @ + 1 ELSE @]
      /\ scoping' = IF defined THEN Opened(file, "parameters") ELSE file
      /\ declared' = k
      /\ wellScoped' <=> (wellScoped /\ MayFollow(Here(scoping, n), entity))
      /\ typedefs' = typedefs
      /\ emittedAs' = em
      /\ bindings' = IF defined THEN Emit!ScopePushed(bindings) ELSE bindings
  BY DEF AddFunction, Judged
<1>6. Redeclared(n, entity) = Redeclaring(Here(scoping, n), entity)
  BY DEF Redeclared, Redeclaring
<1> HIDE DEF new, entity
<1>7. CASE MayFollow(Here(scoping, n), entity)
  <2>1. verdict' = "ok" /\ (wellScoped' <=> TRUE)
    BY <1>4, <1>5, <1>7
  <2>2. counts' = cnt
    <3>1. counts \in [function : Nat, global : Nat, typedef : Nat]
      BY DEF Agreed, Agreement, CountsAgree
    <3>2. counts = [counts EXCEPT !.function = counts.function]
      BY <3>1
    <3>3. add.added \/ ~add.added
      OBVIOUS
    <3> HIDE DEF add
    <3>4. CASE add.added
      BY <1>5, <3>4
    <3>5. CASE ~add.added
      BY <1>5, <3>2, <3>5
    <3> QED BY <3>4, <3>5
  <2>3. Agreement(typedefs, symbols, scoping, bindings.scopes, em, k, counts) /\ em[k] = x
    <3>1. x \in EmittedSet
      BY BareIs DEF EmittedSet
    <3>2. Agreement(typedefs, symbols, scoping, bindings.scopes, emittedAs, declared, counts)
      BY DEF Agreed
    <3> HIDE DEF x
    <3>3. Agreement(typedefs, symbols, scoping, bindings.scopes, em, k, counts)
      BY <3>1, <3>2, DeclarationEmits
    <3>4. emittedAs \in Seq(EmittedSet) /\ declared = Len(emittedAs)
      BY DEF Agreed, Agreement, BindingsAgree
    <3>5. em[k] = x
      BY <3>1, <3>4
    <3> QED BY <3>3, <3>5
  <2>4. k > 0
    BY <1>1
  <2> HIDE DEF em, k, cnt, file, add
  <2>5. Agreement(typedefs, add.scopes, file, bindings.scopes, em, k, cnt)
    <3>1. Agreement(typedefs, Sema!Added(symbols, new).scopes,
                    Declaring(scoping, new.name, Redeclaring(Here(scoping, new.name), EntityOf(new))),
                    bindings.scopes, em, k,
                    IF Sema!Added(symbols, new).added THEN [counts EXCEPT !.function = @ + 1]
                    ELSE counts)
      BY <1>2, <1>3, <1>7, <2>3, <2>4, FunctionDeclared
    <3> QED BY <1>2, <1>6, <3>1, Zenon DEF add, cnt, file
  <2>6. CASE defined
    <3>1. "parameters" \in Openers /\ "parameters" \notin Braces
      BY DEF Openers, Braces
    <3>2. Agreement(IF "parameters" \in Braces THEN Parser!ScopePushed(typedefs) ELSE typedefs,
                    Sema!ScopePushed(add.scopes), Opened(file, "parameters"),
                    Append(bindings.scopes, <<>>), em, k, cnt)
      BY <2>5, <3>1, ScopeOpens
    <3>3. bindings'.scopes = Append(bindings.scopes, <<>>)
      BY <1>5, <2>6 DEF Emit!ScopePushed
    <3> QED BY <1>5, <2>1, <2>2, <2>6, <3>1, <3>2, <3>3 DEF Agreed, NamesInv
  <2>7. CASE ~defined
    BY <1>5, <2>1, <2>2, <2>5, <2>7 DEF Agreed, NamesInv
  <2> QED BY <2>6, <2>7
<1>8. CASE ~MayFollow(Here(scoping, n), entity)
  <2>1. ~wellScoped' /\ verdict' # "ok"
    BY <1>4, <1>5, <1>8
  <2> QED BY <2>1 DEF NamesInv
<1> QED BY <1>7, <1>8

(* A parameter of a definition.                                             *)
LEMMA ParameterKeeps ==
    ASSUME Agreed, wellScoped <=> TRUE, BindingsTyped,
           NEW n \in Names, DeclareParameter(n)
    PROVE  NamesInv'
<1> DEFINE new == Symbol(n, "object", "int", TRUE)
           entity == Entity("object", "int", TRUE)
           add == Sema!Added(symbols, new)
           k == declared + 1
<1>1. /\ TablesAgree(symbols, scoping) /\ scoping \in Seq(ScopeSet) /\ OnlyFileFirst(scoping)
      /\ Len(scoping) \in Nat /\ Len(scoping) >= 1 /\ 1 \in DOMAIN scoping /\ declared \in Nat
  BY AgreementIs DEF Agreed
<1>2. /\ new \in SymbolSet /\ new.name = n /\ new.kind = "object" /\ new.id = k
      /\ EntityOf(new) = entity
  <2>1. "object" \in Kinds /\ "int" \in {"int"} \union FunctionTypes /\ TRUE \in BOOLEAN
    BY DEF Kinds
  <2> QED BY <1>1, <2>1, SymbolIs, Zenon
<1>3. Len(scoping) # 1
  BY <1>1 DEF DeclareParameter, Top, OnlyFileFirst
<1>4. add.refused <=> Here(scoping, n) # NoDeclaration
  <2>1. add.refused <=> ~MayFollow(Here(scoping, n), EntityOf(new))
    <3> HIDE DEF add, new
    <3> QED BY <1>1, <1>2, AddAgrees DEF add
  <2>2. entity.kind = "object"
    BY DEF Entity
  <2> QED BY <1>2, <2>1, <2>2 DEF MayFollow
<1>5. /\ verdict' = IF add.refused THEN "sema" ELSE "ok"
      /\ symbols' = add.scopes
      /\ scoping' = Declaring(scoping, n, entity)
      /\ declared' = k
      /\ wellScoped' <=> (wellScoped /\ Here(scoping, n) = NoDeclaration)
      /\ typedefs' = typedefs /\ counts' = counts
      /\ EmitLocal(n)
  BY DEF DeclareParameter, Judged
<1> HIDE DEF add, new, entity
<1>7. CASE Here(scoping, n) = NoDeclaration
  <2>1. verdict' = "ok" /\ (wellScoped' <=> TRUE)
    BY <1>4, <1>5, <1>7
  <2>2. PICK x \in Entries :
            /\ x.name = n
            /\ emittedAs' = Append(emittedAs, x)
            /\ bindings'.scopes = [bindings.scopes EXCEPT ![Len(bindings.scopes)] = Append(@, x)]
    BY <1>5, LocalEmitted
  <2> DEFINE em == Append(emittedAs, x)
  <2>3. Agreement(typedefs, symbols, scoping, bindings.scopes, em, k, counts) /\ em[k] = x
    <3>1. x \in EmittedSet
      BY DEF EmittedSet
    <3>2. Agreement(typedefs, symbols, scoping, bindings.scopes, emittedAs, declared, counts)
      BY DEF Agreed
    <3>3. Agreement(typedefs, symbols, scoping, bindings.scopes, em, k, counts)
      BY <3>1, <3>2, DeclarationEmits
    <3>4. emittedAs \in Seq(EmittedSet) /\ declared = Len(emittedAs)
      BY DEF Agreed, Agreement, BindingsAgree
    <3>5. em[k] = x
      BY <3>1, <3>4
    <3> QED BY <3>3, <3>5
  <2> DEFINE b == IF Len(scoping) = 1 THEN bindings.scopes
                  ELSE [bindings.scopes EXCEPT ![Len(bindings.scopes)] = Append(@, em[k])]
             cnt == IF Len(scoping) = 1 THEN [counts EXCEPT !.global = @ + 1] ELSE counts
  <2>4. b = bindings'.scopes /\ cnt = counts'
    BY <1>3, <1>5, <2>2, <2>3
  <2> HIDE DEF em, b, cnt
  <2>5. em = emittedAs'
    BY <2>2 DEF em
  <2>6. Agreement(typedefs, add.scopes, Declaring(scoping, n, entity), b, em, k, cnt)
    <3>1. k > 0
      BY <1>1
    <3>2. em[k] \in Entries /\ em[k].name = n
      BY <2>2, <2>3
    <3> HIDE DEF k
    <3>4. Agreement(typedefs, Sema!Added(symbols, new).scopes, Declaring(scoping, new.name, EntityOf(new)),
                    IF Len(scoping) = 1 THEN bindings.scopes
                    ELSE [bindings.scopes EXCEPT ![Len(bindings.scopes)] = Append(@, em[k])], em, k,
                    IF Len(scoping) = 1 THEN [counts EXCEPT !.global = @ + 1] ELSE counts)
      BY <1>2, <1>3, <1>7, <2>3, <3>1, <3>2, ObjectDeclared
    <3> QED BY <1>2, <3>4, Zenon DEF add, b, cnt
  <2>7. Agreed'
    BY <1>5, <2>4, <2>5, <2>6 DEF Agreed
  <2> QED BY <2>1, <2>7 DEF NamesInv
<1>8. CASE Here(scoping, n) # NoDeclaration
  <2>1. ~wellScoped' /\ verdict' # "ok"
    BY <1>4, <1>5, <1>8
  <2> QED BY <2>1 DEF NamesInv
<1> QED BY <1>7, <1>8

(* The brace of a function body.                                            *)
LEMMA BodyKeeps ==
    ASSUME Agreed, wellScoped <=> TRUE, verdict = "ok", OpenBody
    PROVE  NamesInv'
<1>1. Agreement(typedefs, symbols, scoping, bindings.scopes, emittedAs, declared, counts)
  BY DEF Agreed
<1>2. scoping[Len(scoping)].opener = "parameters"
  BY DEF OpenBody, Top
<1>3. Agreement(Parser!ScopePushed(typedefs), symbols, Continued(scoping, "function"),
                bindings.scopes, emittedAs, declared, counts)
  BY <1>1, <1>2, BodyOpens
<1> QED BY <1>3 DEF OpenBody, Agreed, NamesInv

(* A block, or a for statement.                                             *)
LEMMA OpeningKeeps ==
    ASSUME Agreed, wellScoped <=> TRUE, verdict = "ok", OpenBlock \/ OpenFor
    PROVE  NamesInv'
<1>1. Agreement(typedefs, symbols, Settled, bindings.scopes, emittedAs, declared, counts)
  BY SettledAgrees
<1>2. CASE OpenBlock
  <2>1. "block" \in Openers /\ "block" # "file" /\ "block" \in Braces
    BY DEF Openers, Braces
  <2>2. Agreement(IF "block" \in Braces THEN Parser!ScopePushed(typedefs) ELSE typedefs,
                  Sema!ScopePushed(symbols), Opened(Settled, "block"),
                  Append(bindings.scopes, <<>>), emittedAs, declared, counts)
    BY <1>1, <2>1, ScopeOpens
  <2>3. bindings'.scopes = Append(bindings.scopes, <<>>)
    BY <1>2 DEF OpenBlock, Emit!ScopePushed
  <2> QED BY <1>2, <2>1, <2>2, <2>3 DEF OpenBlock, Agreed, NamesInv
<1>3. CASE OpenFor
  <2>1. "for-init" \in Openers /\ "for-init" # "file" /\ "for-init" \notin Braces
    BY DEF Openers, Braces
  <2>2. Agreement(IF "for-init" \in Braces THEN Parser!ScopePushed(typedefs) ELSE typedefs,
                  Sema!ScopePushed(symbols), Opened(Settled, "for-init"),
                  Append(bindings.scopes, <<>>), emittedAs, declared, counts)
    BY <1>1, <2>1, ScopeOpens
  <2>3. bindings'.scopes = Append(bindings.scopes, <<>>)
    BY <1>3 DEF OpenFor, Emit!ScopePushed
  <2> QED BY <1>3, <2>1, <2>2, <2>3 DEF OpenFor, Agreed, NamesInv
<1> QED BY <1>2, <1>3

(* The end of a scope.                                                      *)
LEMMA ClosingKeeps ==
    ASSUME Agreed, wellScoped <=> TRUE, verdict = "ok", BindingsTyped, Close
    PROVE  NamesInv'
<1> DEFINE opener == scoping[Len(scoping)].opener
<1>1. Agreement(typedefs, symbols, scoping, bindings.scopes, emittedAs, declared, counts)
  BY DEF Agreed
<1>2. /\ opener # "file"
      /\ opener \in Braces <=> opener \notin {"for", "for-init"}
  BY DEF Close, Top, Braces
<1>3. /\ Agreement(IF opener \in Braces THEN Parser!ScopePopped(typedefs) ELSE typedefs,
                   Sema!ScopePopped(symbols), Closed(scoping),
                   SubSeq(bindings.scopes, 1, Len(bindings.scopes) - 1),
                   emittedAs, declared, counts)
      /\ bindings.scopes # <<>>
  BY <1>1, <1>2, ScopeCloses
<1>4. bindings'.scopes = SubSeq(bindings.scopes, 1, Len(bindings.scopes) - 1)
  BY <1>3 DEF Close, Emit!ScopePopped, BindingsTyped
<1>5. typedefs' = IF opener \in Braces THEN Parser!ScopePopped(typedefs) ELSE typedefs
  BY <1>2 DEF Close, Top
<1> QED BY <1>3, <1>4, <1>5 DEF Close, Agreed, NamesInv

(* A name used for its value.                                               *)
LEMMA UseKeeps ==
    ASSUME Agreed, wellScoped <=> TRUE, NEW n \in Names, NEW place, Use(n, place)
    PROVE  NamesInv'
<1> DEFINE ordinary == Meaning(scoping, n).kind \in {"object", "function"}
           typeName == \/ \E i \in DOMAIN Builtins : Builtins[i] = n
                       \/ \E i \in ScopesOf(scoping, n) : scoping[i].declares[n].kind = "typedef"
           known == Parser!NameExists(typedefs, n)
<1>1. Sema!Lookup(symbols, n).kind = Meaning(scoping, n).kind
  BY UsesJudged
<1>2. known => typeName
  BY UsesJudged
<1>3. verdict' = IF ~(place = "operand" \/ ~known) THEN "parser"
                 ELSE IF ~ordinary THEN "sema" ELSE "ok"
  BY <1>1 DEF Use, Judged
<1>4. /\ wellScoped' <=> (wellScoped /\ ordinary)
      /\ hides' <=> (hides \/ (place # "operand" /\ ordinary /\ typeName))
      /\ scoping' = Settled
      /\ UNCHANGED <<typedefs, symbols, counts, bindings, declared, emittedAs>>
  BY DEF Use
<1>5. Agreed'
  BY <1>4, SettledAgrees DEF Agreed
<1> HIDE DEF ordinary, typeName, known
<1> QED BY <1>2, <1>3, <1>4, <1>5 DEF NamesInv

-----------------------------------------------------------------------------
(* The file scope of an empty unit.                                         *)
LEMMA InitAgrees ==
    ASSUME Init
    PROVE  NamesInv
<1> DEFINE e == EmptyScope("file")
           ty == Parser!Seeded(Builtins)
           g == <<1>>
<1>1. /\ e \in ScopeSet /\ ScopeAgrees(<<>>, e.declares) /\ e.opener = "file"
      /\ \A n \in Names : e.declares[n] = NoDeclaration
  <2>1. "file" \in Openers
    BY DEF Openers
  <2> QED BY <2>1, EmptyAgrees
<1>2. /\ symbols = <<<<>>>> /\ scoping = <<e>> /\ emittedAs = <<>> /\ declared = 0
      /\ bindings.scopes = <<>> /\ typedefs = ty
      /\ counts = [function |-> 0, global |-> 0, typedef |-> 0]
      /\ verdict = "ok" /\ (wellScoped <=> TRUE)
  BY DEF Init, FileScope, Sema!ScopePushed, Emit!NoBindings
<1> HIDE DEF e
<1>3. scoping \in Seq(ScopeSet) /\ Len(scoping) = 1 /\ DOMAIN scoping = {1} /\ scoping[1] = e
  BY <1>1, <1>2
<1>4. TablesAgree(symbols, scoping)
  <2>1. symbols \in Seq(Seq(SymbolSet)) /\ Len(symbols) = 1 /\ symbols[1] = <<>>
    BY <1>2
  <2> QED BY <1>1, <1>3, <2>1 DEF TablesAgree
<1>5. OnlyFileFirst(scoping)
  BY <1>1, <1>3 DEF OnlyFileFirst
<1>6. TableKnows(ty, scoping, g)
  <2>1. /\ ty.names = Builtins /\ ty.starts = <<0>>
        /\ ty \in [names : Seq(Names), starts : Seq(Nat)]
    BY BuiltinsAssumption DEF Parser!Seeded
  <2>2. g \in Seq(Nat) /\ Len(g) = Len(ty.starts) /\ DOMAIN g = {1} /\ g[1] = 1 /\ ty.starts[1] = 0
    BY <2>1
  <2>3. Len(ty.names) \in Nat
    BY <2>1
  <2>4. ~\E n \in Names : IsTypedefIn(scoping, 1, n)
    BY <1>1, <1>3 DEF IsTypedefIn, NoDeclaration
  <2>5. "file" \in Braces
    BY DEF Braces
  <2> HIDE DEF ty, g
  <2> QED BY <1>1, <1>3, <2>1, <2>2, <2>3, <2>4, <2>5 DEF TableKnows
<1>7. BindingsAgree(bindings.scopes, scoping, emittedAs, declared)
  <2>1. bindings.scopes \in Seq(Seq(Entries)) /\ Len(bindings.scopes) = 0
    BY <1>2
  <2>2. emittedAs \in Seq(EmittedSet) /\ declared = Len(emittedAs)
    BY <1>2
  <2>3. NumberedUpTo(e.declares, declared) /\ FileScopeIsBare(e.declares, emittedAs)
    BY <1>1, <1>2 DEF NumberedUpTo, FileScopeIsBare, NoDeclaration
  <2> QED BY <1>3, <2>1, <2>2, <2>3 DEF BindingsAgree
<1>8. CountsAgree(counts, scoping)
  <2>1. FileNames(scoping, "function") = {} /\ FileNames(scoping, "object") = {}
    BY <1>1, <1>3 DEF FileNames, NoDeclaration
  <2>2. /\ counts \in [function : Nat, global : Nat, typedef : Nat]
        /\ counts.function = 0 /\ counts.global = 0
    BY <1>2
  <2>3. IsFiniteSet({}) /\ Cardinality({}) = 0
    BY FS_EmptySet
  <2> QED BY <2>1, <2>2, <2>3 DEF CountsAgree
<1> HIDE DEF ty, g
<1> QED BY <1>2, <1>4, <1>5, <1>6, <1>7, <1>8 DEF NamesInv, Agreed, Agreement

(* A step that changes nothing.                                             *)
LEMMA StutterKeeps ==
    ASSUME NamesInv, UNCHANGED vars
    PROVE  NamesInv'
  BY DEF NamesInv, Agreed, vars, reference

(* Every step of the unit.                                                  *)
LEMMA StepKeeps ==
    ASSUME NamesInv, BindingsTyped, [Next]_vars
    PROVE  NamesInv'
<1>1. CASE UNCHANGED vars
  BY <1>1, StutterKeeps
<1>2. CASE Next
  <2>1. verdict = "ok" /\ Agreed /\ (wellScoped <=> TRUE)
    BY <1>2 DEF Next, NamesInv
  <2>2. ASSUME NEW spec \in TypeNames, NEW n \in Names,
               DeclareObject(spec, n) \/ DeclareTypedef(spec, n)
        PROVE  NamesInv'
    BY <2>1, <2>2, ObjectKeeps, TypedefKeeps
  <2>3. ASSUME NEW n \in Names, NEW type \in FunctionTypes,
               DeclareFunction(n, type) \/ OpenFunction(n, type)
        PROVE  NamesInv'
    <3>1. \E defined \in BOOLEAN : AddFunction(n, type, defined)
      BY <2>3, Zenon DEF DeclareFunction, OpenFunction
    <3> QED BY <2>1, <3>1, FunctionKeeps
  <2>4. ASSUME NEW n \in Names, DeclareParameter(n)
        PROVE  NamesInv'
    BY <2>1, <2>4, ParameterKeeps
  <2>5. ASSUME NEW n \in Names, NEW place, Use(n, place)
        PROVE  NamesInv'
    BY <2>1, <2>5, UseKeeps
  <2>6. OpenBody => NamesInv'
    BY <2>1, BodyKeeps
  <2>7. OpenBlock \/ OpenFor => NamesInv'
    BY <2>1, OpeningKeeps
  <2>8. Close => NamesInv'
    BY <2>1, ClosingKeeps
  <2> QED BY <1>2, <2>2, <2>3, <2>4, <2>5, <2>6, <2>7, <2>8, Zenon DEF Next, Declare
<1> QED BY <1>1, <1>2

(* What the agreement says of the two properties about uses.                *)
LEMMA AgreedMeans ==
    ASSUME NamesInv
    PROVE  LookupIsLexical /\ UsesReachTheirDeclaration
<1>1. ASSUME verdict = "ok", NEW n \in Names
      PROVE  /\ Sema!Lookup(symbols, n).kind = Meaning(scoping, n).kind
             /\ Sema!Lookup(symbols, n).id = Meaning(scoping, n).id
             /\ Sema!Lookup(symbols, n).defined = Meaning(scoping, n).defined
  BY <1>1, LookupIsMeaning DEF NamesInv, Agreed, Agreement
<1>2. ASSUME verdict = "ok"
      PROVE  /\ counts.function = Cardinality(OfTheFile("function"))
             /\ counts.global = Cardinality(OfTheFile("object"))
  BY <1>2 DEF NamesInv, Agreed, Agreement, CountsAgree, FileNames, OfTheFile
<1>3. ASSUME verdict = "ok", NEW n \in Names, Meaning(scoping, n).kind \in {"object", "function"}
      PROVE  EmittedUse(n) = emittedAs[Meaning(scoping, n).id]
  BY <1>3, UseIsBound DEF NamesInv, Agreed, Agreement, EmittedUse
<1> QED BY <1>1, <1>2, <1>3 DEF LookupIsLexical, UsesReachTheirDeclaration

-----------------------------------------------------------------------------
(* Two live locals never share an emitted name: cc_bind_local_name of       *)
(* codegen.c, over every program whose scopes and declarations it meets.    *)
THEOREM LocalsNeverShareAName == Spec => []LocalsApart
<1>1. Init => BindingsInv(bindings)
  BY NoBindingsHold DEF Init
<1>2. BindingsInv(bindings) /\ [Next]_vars => BindingsInv(bindings)'
  BY StepHolds DEF BindingsInv, NumbersBelow, Apart
<1>3. BindingsInv(bindings) => LocalsApart
  BY DEF BindingsInv, Apart, LocalsApart
<1> QED BY <1>1, <1>2, <1>3, PTL DEF Spec

(* The agreement holds of every program read so far.                        *)
THEOREM TablesFollowScopes == Spec => []NamesInv
<1>1. Init => NamesInv /\ BindingsInv(bindings)
  BY InitAgrees, NoBindingsHold DEF Init
<1>2. NamesInv /\ BindingsInv(bindings) /\ [Next]_vars => (NamesInv /\ BindingsInv(bindings))'
  <2> SUFFICES ASSUME NamesInv, BindingsInv(bindings), [Next]_vars
               PROVE  NamesInv' /\ BindingsInv(bindings)'
    OBVIOUS
  <2>1. BindingsTyped
    BY DEF BindingsInv, BindingsTyped
  <2>2. NamesInv'
    BY <2>1, StepKeeps
  <2>3. BindingsInv(bindings)'
    BY StepHolds DEF BindingsInv, NumbersBelow, Apart
  <2> QED BY <2>2, <2>3
<1> QED BY <1>1, <1>2, PTL DEF Spec

(* A program that breaks C's rules for names is reported, whichever table   *)
(* was wrong about the name: the checks of cc_add_symbol_to_current_scope,  *)
(* cc_lookup_symbol and the parser's test for a type name.                  *)
THEOREM IllScopedProgramsAreRefused == Spec => []IllScopedIsRefused
<1>1. NamesInv => IllScopedIsRefused
  BY DEF NamesInv, IllScopedIsRefused
<1> QED BY <1>1, TablesFollowScopes, PTL

(* A program is refused for its names only when it breaks those rules, or   *)
(* uses an identifier that hides a type where a type could stand, which is  *)
(* all that the one table of cc_add_typedef_name cannot tell apart.         *)
THEOREM WellScopedProgramsAreAccepted == Spec => []WellScopedIsAccepted
<1>1. NamesInv => WellScopedIsAccepted
  BY DEF NamesInv, WellScopedIsAccepted
<1> QED BY <1>1, TablesFollowScopes, PTL

(* cc_lookup_symbol finds the declaration that C means by the name, and the *)
(* counts of `lumi check` are those of the file scope.                      *)
THEOREM LookupsFollowScopes == Spec => []LookupIsLexical
<1>1. NamesInv => LookupIsLexical
  BY AgreedMeans
<1> QED BY <1>1, TablesFollowScopes, PTL

(* cc_lookup_emitted_name gives a use the name its declaration was emitted  *)
(* under.                                                                   *)
THEOREM UsesAreEmittedAsDeclared == Spec => []UsesReachTheirDeclaration
<1>1. NamesInv => UsesReachTheirDeclaration
  BY AgreedMeans
<1> QED BY <1>1, TablesFollowScopes, PTL
=============================================================================
