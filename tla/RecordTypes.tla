---------------------------- MODULE RecordTypes ----------------------------
(***************************************************************************)
(* Structures and unions in the semantic analysis: their tags, scope by    *)
(* scope, their types, each an object of its own that is completed by a    *)
(* definition, and the layout a definition gives its fields as they are    *)
(* declared.                                                               *)
(*                                                                         *)
(* A program is seen as the specifiers and declarators of records in it,   *)
(* one at a time.  A definition is several steps: it opens, declares       *)
(* fields, which may define further records, and closes.                   *)
(***************************************************************************)
EXTENDS Integers, Sequences, FiniteSets

CONSTANTS
    Tags,
    FieldNames,
    Scalars,       \* scalar types fields are declared of
    MaxTypes,      \* bounds of the model: record types of a program, ...
    MaxParts,      \* ... they and their fields together, ...
    MaxScopes,     \* ... open scopes, the file's among them, ...
    MaxOpen        \* ... and definitions inside each other

VARIABLES
    types,     \* CCSemaContext: owned_types, the records among them
    scopes,    \* CCScope, innermost last: tags
    open,      \* the calls of cc_resolve_record_specifier under way
    base,      \* the type a definition just closed, for the declarators behind it
    refused    \* something was reported

vars == <<types, scopes, open, base, refused>>

NoTag == "<anonymous>"
None == 0

Char == <<"char">>
Int32 == <<"int">>
Double == <<"double">>
Function == <<"function">>
Invalid == <<"invalid">>
PointerType(t) == <<"pointer", t>>
Record(i) == <<"record", i>>

(* No tag has the name that stands for none.                                *)
ASSUME TagsAssumption == NoTag \notin Tags

ASSUME ScalarsAssumption == Scalars \subseteq {Char, Int32, Double}

-----------------------------------------------------------------------------
(* Layout.                                                                  *)

AlignedUp(value, alignment) ==
    IF value % alignment = 0 THEN value ELSE value + (alignment - (value % alignment))

IsRecord(t) == t[1] = "record"

(* A record type made just now is not complete.                             *)
IsCompleteObject(t) ==
    /\ t[1] \notin {"invalid", "function"}
    /\ IsRecord(t) => t[2] \in DOMAIN types /\ types[t[2]].complete

SizeOf(t) ==
    CASE t[1] = "char" -> 1
      [] t[1] = "int" -> 4
      [] IsRecord(t) -> types[t[2]].size
      [] OTHER -> 8

AlignmentOf(t) == IF IsRecord(t) THEN types[t[2]].alignment ELSE SizeOf(t)

(* A field, with the size and alignment it was laid out with.               *)
Field(name, t, offset) ==
    [name |-> name, type |-> t, offset |-> offset, size |-> SizeOf(t), alignment |-> AlignmentOf(t)]

Larger(m, n) == IF m < n THEN n ELSE m

(* Faulty: a field begins where the one before it ends.                     *)
LaidOutPacked(d, name, t) ==
    LET offset == IF types[d.record].union THEN 0 ELSE d.size
    IN  [d EXCEPT !.fields = Append(@, Field(name, t, offset)),
                  !.size = IF types[d.record].union THEN Larger(@, SizeOf(t)) ELSE offset + SizeOf(t),
                  !.alignment = Larger(@, AlignmentOf(t))]

(* Faulty: a union is as large as its fields together.                      *)
LaidOutInOrder(d, name, t) ==
    LET offset == IF types[d.record].union THEN 0 ELSE AlignedUp(d.size, AlignmentOf(t))
    IN  [d EXCEPT !.fields = Append(@, Field(name, t, offset)),
                  !.size = AlignedUp(@, AlignmentOf(t)) + SizeOf(t),
                  !.alignment = Larger(@, AlignmentOf(t))]

(* The next field of a definition.                                          *)
LaidOut(d, name, t) ==
    LET offset == IF types[d.record].union THEN 0 ELSE AlignedUp(d.size, AlignmentOf(t))
    IN  [d EXCEPT !.fields = Append(@, Field(name, t, offset)),
                  !.size = IF types[d.record].union THEN Larger(@, SizeOf(t)) ELSE offset + SizeOf(t),
                  !.alignment = Larger(@, AlignmentOf(t))]

-----------------------------------------------------------------------------
(* Tags.                                                                    *)
Here == scopes[Len(scopes)]

ScopesOf(tag) == {n \in DOMAIN scopes : tag \in DOMAIN scopes[n]}
Nearest(tag) == {n \in ScopesOf(tag) : \A m \in ScopesOf(tag) : m <= n}

(* Faulty: a definition completes the tag's type of an outer scope.         *)
FoundAnywhere(tag, defines) ==
    IF Nearest(tag) = {} THEN None ELSE scopes[CHOOSE n \in Nearest(tag) : TRUE][tag]

(* The type of a tag: a definition only sees the scope it is in.            *)
Found(tag, defines) ==
    IF tag \in DOMAIN Here THEN Here[tag]
    ELSE IF defines \/ Nearest(tag) = {} THEN None
    ELSE scopes[CHOOSE n \in Nearest(tag) : TRUE][tag]

NewType(union, tag) ==
    [union |-> union, tag |-> tag, complete |-> FALSE, fields |-> <<>>, size |-> 0, alignment |-> 1]

Tagged(tag, i) ==
    LET extended == [t \in DOMAIN Here \union {tag} |-> IF t = tag THEN i ELSE Here[t]]
    IN  IF tag = NoTag THEN scopes ELSE [scopes EXCEPT ![Len(scopes)] = extended]

(* The record types so far, and their fields.                               *)
FieldsOf(rs) == {at \in (DOMAIN rs) \X (1..MaxParts) : at[2] \in DOMAIN rs[at[1]].fields}
Parts == Len(types) + Cardinality(FieldsOf(types)) + Cardinality(FieldsOf(open))

RoomForType == Len(types) < MaxTypes /\ Parts < MaxParts

(* cc_resolve_record_specifier up to the definition: the type specified,    *)
(* and what becomes of types and scopes.                                    *)
Mismatch(union, tag, defines) ==
    Found(tag, defines) # None /\ types[Found(tag, defines)].union # union

Specified(tag, defines) ==
    IF Found(tag, defines) = None THEN Len(types) + 1 ELSE Found(tag, defines)

TypesWith(union, tag, defines) ==
    IF Found(tag, defines) = None THEN Append(types, NewType(union, tag)) ELSE types

ScopesWith(tag, defines) ==
    IF Found(tag, defines) = None THEN Tagged(tag, Len(types) + 1) ELSE scopes

Specify(union, tag, defines) ==
    /\ RoomForType \/ Found(tag, defines) # None
    /\ types' = TypesWith(union, tag, defines)
    /\ scopes' = ScopesWith(tag, defines)

-----------------------------------------------------------------------------
Init ==
    /\ types = <<>>
    /\ scopes = << <<>> >>
    /\ open = <<>>
    /\ base = None
    /\ refused = FALSE

Reported(reported) == refused' = (refused \/ reported)

(* `struct S;`.  Neither is `struct S { };` a definition.                   *)
Forward(union, tag) ==
    /\ open = <<>>
    /\ Specify(union, tag, FALSE)
    /\ Reported(Mismatch(union, tag, FALSE))
    /\ base' = None
    /\ UNCHANGED open

(* Something is inside the innermost definition under way.                  *)
Begun == IF open = <<>> THEN open ELSE [open EXCEPT ![Len(open)].begun = TRUE]

Opening(i) == [record |-> i, fields |-> <<>>, size |-> 0, alignment |-> 1, begun |-> FALSE]

(* Faulty: a type is completed again.                                       *)
OpenDefinitionAgain(union, tag) ==
    /\ Len(open) < MaxOpen
    /\ Specify(union, tag, TRUE)
    /\ LET again == Mismatch(union, tag, TRUE)
       IN  /\ Reported(again)
           /\ open' = IF again THEN Begun ELSE Append(Begun, Opening(Specified(tag, TRUE)))
    /\ base' = None

(* `struct S {` and something more.  What it holds is not looked at if the  *)
(* type is complete already.                                                *)
OpenDefinition(union, tag) ==
    /\ Len(open) < MaxOpen
    /\ Specify(union, tag, TRUE)
    /\ LET again == Mismatch(union, tag, TRUE)
                    \/ (Found(tag, TRUE) # None /\ types[Found(tag, TRUE)].complete)
       IN  /\ Reported(again)
           /\ open' = IF again THEN Begun ELSE Append(Begun, Opening(Specified(tag, TRUE)))
    /\ base' = None

(* `}`: the type is completed, whatever has become of it in between.        *)
CloseDefinition ==
    /\ open # <<>>
    /\ open[Len(open)].begun
    /\ LET d == open[Len(open)]
           completed == [types[d.record] EXCEPT !.fields = d.fields, !.alignment = d.alignment,
                                                !.size = AlignedUp(d.size, d.alignment), !.complete = TRUE]
       IN  /\ types' = [types EXCEPT ![d.record] = completed]
           /\ Reported(d.fields = <<>>)
           /\ base' = d.record
    /\ open' = SubSeq(open, 1, Len(open) - 1)
    /\ UNCHANGED scopes

(* A declarator: of a field of the innermost definition or, outside of all, *)
(* of a variable or of a function.                                          *)
DeclareVariable(t, reported) ==
    /\ open = <<>>
    /\ Reported(reported \/ ~(IsCompleteObject(t) \/ (t = Function /\ Len(scopes) = 1)))
    /\ UNCHANGED open

DeclareField(name, t, reported) ==
    /\ open # <<>>
    /\ LET d == open[Len(open)]
           taken == \E i \in DOMAIN d.fields : d.fields[i].name = name
           kept == IsCompleteObject(t) /\ ~taken
       IN  /\ Reported(reported \/ ~kept)
           /\ kept => Parts < MaxParts
           /\ open' = IF kept THEN [Begun EXCEPT ![Len(open)] = LaidOut(Begun[Len(open)], name, t)] ELSE Begun

Declare(name, t, reported) == DeclareVariable(t, reported) \/ DeclareField(name, t, reported)

(* `int a`, `int a(void)`.                                                  *)
DeclareScalar(name, t) ==
    /\ Declare(name, t, FALSE)
    /\ base' = None
    /\ UNCHANGED <<types, scopes>>

AsDeclared(t, pointer) == IF pointer THEN PointerType(t) ELSE t

(* Of the type just defined: `} a` or `} *a`.                               *)
DeclareDefined(name, pointer) ==
    /\ base # None
    /\ Declare(name, AsDeclared(Record(base), pointer), FALSE)
    /\ UNCHANGED <<types, scopes, base>>

(* `struct S a` or `struct S *a`.                                           *)
DeclareRecord(union, tag, name, pointer) ==
    /\ Specify(union, tag, FALSE)
    /\ LET mismatch == Mismatch(union, tag, FALSE)
           t == IF mismatch THEN Invalid ELSE Record(Specified(tag, FALSE))
       IN  Declare(name, AsDeclared(t, pointer), mismatch)
    /\ base' = None

(* A block.                                                                 *)
OpenBlock ==
    /\ open = <<>>
    /\ 1 < Len(scopes) /\ Len(scopes) < MaxScopes
    /\ scopes' = Append(scopes, <<>>)
    /\ base' = None
    /\ UNCHANGED <<types, open, refused>>

(* A function with a parameter `struct S *a`, whose type is resolved in the *)
(* file's scope for the function's type and in the function's scope for the *)
(* parameter, where it then is found.                                       *)
OpenFunction(union, tag) ==
    /\ open = <<>>
    /\ Len(scopes) = 1
    /\ RoomForType \/ Found(tag, FALSE) # None
    /\ types' = TypesWith(union, tag, FALSE)
    /\ scopes' = Append(ScopesWith(tag, FALSE), <<>>)
    /\ Reported(Mismatch(union, tag, FALSE))
    /\ base' = None
    /\ UNCHANGED open

CloseScope ==
    /\ open = <<>>
    /\ Len(scopes) > 1
    /\ scopes' = SubSeq(scopes, 1, Len(scopes) - 1)
    /\ base' = None
    /\ UNCHANGED <<types, open, refused>>

Next ==
    \/ \E union \in BOOLEAN, tag \in Tags : Forward(union, tag) \/ OpenFunction(union, tag)
    \/ \E union \in BOOLEAN, tag \in Tags \union {NoTag} : OpenDefinition(union, tag)
    \/ CloseDefinition
    \/ \E name \in FieldNames, t \in Scalars \union {Function} : DeclareScalar(name, t)
    \/ \E name \in FieldNames, pointer \in BOOLEAN : DeclareDefined(name, pointer)
    \/ \E union \in BOOLEAN, tag \in Tags, name \in FieldNames, pointer \in BOOLEAN :
           DeclareRecord(union, tag, name, pointer)
    \/ OpenBlock
    \/ CloseScope

Spec == Init /\ [][Next]_vars

-----------------------------------------------------------------------------
(* Fields lie where their types can, within the record, and no two of a     *)
(* structure overlap.                                                       *)
WellPlaced(union, r) ==
    /\ \A i \in DOMAIN r.fields :
          /\ r.fields[i].offset % r.fields[i].alignment = 0
          /\ r.fields[i].offset + r.fields[i].size <= r.size
          /\ r.fields[i].alignment <= r.alignment
    /\ ~union => \A i, j \in DOMAIN r.fields :
          i < j => r.fields[i].offset + r.fields[i].size <= r.fields[j].offset

(* A definition under way or closed has placed its fields soundly, and an   *)
(* array of a complete record keeps every element aligned.                  *)
LayoutsAreSound ==
    /\ \A i \in DOMAIN types :
          types[i].complete => WellPlaced(types[i].union, types[i]) /\ types[i].size % types[i].alignment = 0
    /\ \A n \in DOMAIN open : WellPlaced(types[open[n].record].union, open[n])

=============================================================================
