--------------------------- MODULE LexicalScoping ---------------------------
(***************************************************************************)
(* What a name means in C: the declaration in the innermost open scope     *)
(* that has one.  Nothing of the compiler is in here; Names.tla compares   *)
(* its three name tables with this.                                        *)
(***************************************************************************)
EXTENDS Integers, Sequences

CONSTANT Names

ASSUME NamesAssumption == Names # {}

NoDeclaration == [id |-> 0, kind |-> "none", type |-> "none", defined |-> FALSE]

(* A scope: the construct that opened it and what it declares.              *)
EmptyScope(opener) == [opener |-> opener, declares |-> [n \in Names |-> NoDeclaration]]

FileScope == <<EmptyScope("file")>>

Top(scoping) == scoping[Len(scoping)]

Opened(scoping, opener) == Append(scoping, EmptyScope(opener))

Closed(scoping) == SubSeq(scoping, 1, Len(scoping) - 1)

(* The construct that owns the innermost scope has come to its next part.   *)
Continued(scoping, opener) == [scoping EXCEPT ![Len(scoping)].opener = opener]

Declaring(scoping, n, declaration) ==
    [scoping EXCEPT ![Len(scoping)].declares[n] = declaration]

Here(scoping, n) == Top(scoping).declares[n]

ScopesOf(scoping, n) == {i \in DOMAIN scoping : scoping[i].declares[n] # NoDeclaration}

Meaning(scoping, n) ==
    IF ScopesOf(scoping, n) = {}
    THEN NoDeclaration
    ELSE scoping[CHOOSE i \in ScopesOf(scoping, n) :
                     \A j \in ScopesOf(scoping, n) : j <= i].declares[n]

(* Two declarations of one name in one scope: this compiler reads C the     *)
(* strict way, where only functions may be declared again, with one type    *)
(* and one definition.                                                      *)
MayFollow(earlier, later) ==
    \/ earlier = NoDeclaration
    \/ /\ earlier.kind = "function" /\ later.kind = "function"
       /\ earlier.type = later.type
       /\ ~(earlier.defined /\ later.defined)
=============================================================================
