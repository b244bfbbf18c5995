------------------------------- MODULE Records -------------------------------
(***************************************************************************)
(* The compiler's record types and C's, construct by construct, until the  *)
(* compiler refuses the text.  Where it is known to go its own way it goes *)
(* on alone.                                                               *)
(***************************************************************************)
EXTENDS RecordTypes, CRecords, TLC

CONSTANT MaxAlone    \* bound of the model: record types and fields of a text the compiler goes on with alone

VARIABLES
    c,         \* what C makes of the text, as far as the two go together
    nested     \* some record has been defined inside its own definition

varsInC == <<vars, c, nested>>

InC(said) == c' = said

Agreed == ~refused /\ c.valid /\ ~c.apart

StepInC ==
    \/ \E union \in BOOLEAN, tag \in Tags :
          \/ Forward(union, tag) /\ InC(SaidForward(c, union, tag))
          \/ OpenFunction(union, tag) /\ InC(SaidFunction(c, union, tag))
    \/ \E union \in BOOLEAN, tag \in Tags \union {NoTag} :
          OpenDefinition(union, tag) /\ InC(SaidOpen(c, union, tag, tag = NoTag))
    \/ CloseDefinition /\ InC(SaidClose(c))
    \/ \E name \in FieldNames, t \in Scalars \union {Function} :
          DeclareScalar(name, t) /\ InC(SaidScalar(c, name, t))
    \/ \E name \in FieldNames, pointer \in BOOLEAN :
          DeclareDefined(name, pointer) /\ InC(SaidDefined(c, name, pointer))
    \/ \E union \in BOOLEAN, tag \in Tags, name \in FieldNames, pointer \in BOOLEAN :
          DeclareRecord(union, tag, name, pointer) /\ InC(SaidRecord(c, union, tag, name, pointer))
    \/ OpenBlock /\ InC(SaidBlock(c))
    \/ CloseScope /\ InC(SaidEnd(c))

(* As in `struct S { struct S { int a; } b; int c; };`, which C forbids and *)
(* the compiler does not notice: S is not complete when either opens.       *)
TagOf(d) == types[d.record].tag

Nested == \E m, n \in DOMAIN open : m # n /\ TagOf(open[m]) = TagOf(open[n]) /\ TagOf(open[n]) # NoTag

(* What is remembered of C once the two have gone apart.                    *)
NoMore == [NothingSaid EXCEPT !.apart = TRUE]

InitInC == Init /\ c = NothingSaid /\ nested = FALSE

NextInC ==
    /\ ~refused
    /\ \/ ~c.apart /\ StepInC
       \/ c.apart /\ Parts < MaxAlone /\ Next /\ InC(NoMore)
    /\ nested' = (nested \/ Nested')

SpecInC == InitInC /\ [][NextInC]_varsInC

-----------------------------------------------------------------------------
(* A text is refused when, and only when, C forbids it: a tag of another    *)
(* kind, a second definition, a member or variable of a type that is not    *)
(* complete there, two members of one name, a definition without members.   *)
RefusedIfInvalid == ~c.apart => (refused <=> ~c.valid)

Placed(f) == [name |-> f.name, type |-> f.type, offset |-> f.offset]

AsEntity(t) ==
    [union |-> t.union, tag |-> t.tag, complete |-> t.complete, size |-> t.size, alignment |-> t.alignment,
     members |-> [i \in DOMAIN t.fields |-> Placed(t.fields[i])]]

(* Every specifier has been resolved to the type C means by it, hiding and  *)
(* hidden tags included, and every definition has C's layout.               *)
RecordsAreC ==
    Agreed => /\ [i \in DOMAIN types |-> AsEntity(types[i])] = c.entities
              /\ scopes = c.scopes

(* A completed type is changed only in a text that defines a record inside  *)
(* its own definition.  In any other text, whichever way C and the compiler *)
(* have gone, whatever was laid out with its size stays right.              *)
CompletedTypesStay ==
    [][~nested => \A i \in DOMAIN types : types[i].complete => types'[i] = types[i]]_varsInC

-----------------------------------------------------------------------------
(* For model checking: pointers are as large as doubles, and tags and names *)
(* are interchangeable.                                                     *)
SmallScalars == {Char, Int32}

Symmetry == Permutations(Tags) \union Permutations(FieldNames)
=============================================================================
