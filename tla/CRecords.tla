------------------------------ MODULE CRecords ------------------------------
(***************************************************************************)
(* Structures and unions in C: which entity a tag names where (C11 6.2.1,  *)
(* 6.7.2.3), when a type is complete, what a declaration of it must keep   *)
(* to, and its layout under the usual ABI, in which each field is at the   *)
(* first place behind the last that its alignment allows.                  *)
(*                                                                         *)
(* The text so far is a record: the entities, the tags of each scope, the  *)
(* definitions under way, the one that just ended, whether C has had no    *)
(* objection, and whether the text has come to where the compiler is known *)
(* to go another way.                                                      *)
(***************************************************************************)
EXTENDS Integers, Sequences, FiniteSetsExt

NothingSaid ==
    [entities |-> <<>>, scopes |-> << <<>> >>, under |-> <<>>, ended |-> 0, owed |-> FALSE,
     valid |-> TRUE, apart |-> FALSE]

Entity(union, tag) ==
    [union |-> union, tag |-> tag, complete |-> FALSE, members |-> <<>>, size |-> 0, alignment |-> 1]

Objection(c, objected) == [c EXCEPT !.valid = @ /\ ~objected]
Apart(c, apart) == [c EXCEPT !.apart = @ \/ apart]

InBlock(c) == Len(c.scopes) > 1

(* The entity a tag names: in this scope, or in the nearest one out.        *)
Within(c, tag) == IF tag \in DOMAIN c.scopes[Len(c.scopes)] THEN {c.scopes[Len(c.scopes)][tag]} ELSE {}

Named(c, tag) ==
    LET ns == {n \in DOMAIN c.scopes : tag \in DOMAIN c.scopes[n]}
    IN  {c.scopes[n][tag] : n \in {n \in ns : \A m \in ns : m <= n}}

Introduced(c, union, tag, anonymous) ==
    LET e == Len(c.entities) + 1
        extended(names) == [t \in DOMAIN names \union {tag} |-> IF t = tag THEN e ELSE names[t]]
    IN  [c EXCEPT !.entities = Append(@, Entity(union, tag)),
                  !.scopes[Len(c.scopes)] = IF anonymous THEN @ ELSE extended(@)]

OfAnotherKind(c, es, union) == \E e \in es : c.entities[e].union # union

(* Behind a definition inside another one a declarator must follow; without *)
(* one C has an anonymous member or an error, the compiler nothing.         *)
Settled(c) == [Apart(c, c.owed) EXCEPT !.owed = FALSE, !.ended = 0]

(* `struct S;` declares S in this scope, whatever it is outside.            *)
SaidForward(c, union, tag) ==
    LET here == Within(c, tag)
    IN  IF here # {} THEN Objection(Settled(c), OfAnotherKind(c, here, union))
        ELSE Apart(Introduced(Settled(c), union, tag, FALSE), Named(c, tag) # {})

(* A type is defined once, and not inside its own definition.               *)
SaidOpen(c, union, tag, anonymous) ==
    LET here == IF anonymous THEN {} ELSE Within(c, tag)
        known == IF here = {} THEN Introduced(Settled(c), union, tag, anonymous) ELSE Settled(c)
        e == IF here = {} THEN Len(c.entities) + 1 ELSE CHOOSE e \in here : TRUE
        inside == \E n \in DOMAIN c.under : c.under[n].entity = e
    IN  Apart(Objection([known EXCEPT !.under = Append(@, [entity |-> e, members |-> <<>>])],
                        OfAnotherKind(c, here, union) \/ inside \/ \E x \in here : c.entities[x].complete),
              inside)

-----------------------------------------------------------------------------
(* Layout.                                                                  *)
Extent(c, t) ==
    CASE t[1] = "char" -> [size |-> 1, alignment |-> 1]
      [] t[1] = "int" -> [size |-> 4, alignment |-> 4]
      [] t[1] \in {"double", "pointer"} -> [size |-> 8, alignment |-> 8]
      [] t[1] = "record" -> [size |-> c.entities[t[2]].size, alignment |-> c.entities[t[2]].alignment]

FirstPlace(from, alignment) == Min({n \in from..(from + alignment - 1) : n % alignment = 0})

(* The offsets of members, each from those before it.                       *)
Offsets(c, union, members) ==
    LET at[i \in 0..Len(members)] ==
            IF i = 0 THEN <<>>
            ELSE LET end == IF i = 1 \/ union THEN 0 ELSE at[i - 1][i - 1] + Extent(c, members[i - 1].type).size
                 IN  Append(at[i - 1], FirstPlace(end, Extent(c, members[i].type).alignment))
    IN  at[Len(members)]

Completed(c, e, members) ==
    LET offsets == Offsets(c, c.entities[e].union, members)
        alignment == Max({1} \union {Extent(c, members[i].type).alignment : i \in DOMAIN members})
        end == Max({0} \union {offsets[i] + Extent(c, members[i].type).size : i \in DOMAIN members})
        placed == [i \in DOMAIN members |->
                      [name |-> members[i].name, type |-> members[i].type, offset |-> offsets[i]]]
    IN  [c.entities[e] EXCEPT !.complete = TRUE, !.members = placed,
                              !.size = FirstPlace(end, alignment), !.alignment = alignment]

SaidClose(c) ==
    LET d == c.under[Len(c.under)]
        rest == SubSeq(c.under, 1, Len(c.under) - 1)
    IN  Objection([Settled(c) EXCEPT !.entities[d.entity] = Completed(c, d.entity, d.members),
                                     !.under = rest, !.ended = d.entity, !.owed = rest # <<>>],
                  d.members = <<>>)

-----------------------------------------------------------------------------
(* A declarator of type t.  A function in a block, and a variable of the    *)
(* file whose type is completed later, C allows and the compiler does not.  *)
HasObjectType(c, t) == t[1] # "function" /\ (t[1] = "record" => c.entities[t[2]].complete)

SaidDeclarator(c, name, t) ==
    IF c.under = <<>>
    THEN Apart(Objection(c, InBlock(c) /\ t[1] # "function" /\ ~HasObjectType(c, t)),
               IF t[1] = "function" THEN InBlock(c) ELSE ~InBlock(c) /\ ~HasObjectType(c, t))
    ELSE LET members == c.under[Len(c.under)].members
         IN  Objection([c EXCEPT !.under[Len(c.under)].members = Append(@, [name |-> name, type |-> t])],
                       ~HasObjectType(c, t) \/ \E i \in DOMAIN members : members[i].name = name)

Of(e, pointer) == IF pointer THEN <<"pointer", <<"record", e>> >> ELSE <<"record", e>>

SaidScalar(c, name, t) == SaidDeclarator(Settled(c), name, t)

SaidDefined(c, name, pointer) == SaidDeclarator([c EXCEPT !.owed = FALSE], name, Of(c.ended, pointer))

SaidRecord(c, union, tag, name, pointer) ==
    LET found == Named(c, tag)
        known == IF found = {} THEN Introduced(Settled(c), union, tag, FALSE) ELSE Settled(c)
        e == IF found = {} THEN Len(c.entities) + 1 ELSE CHOOSE e \in found : TRUE
    IN  SaidDeclarator(Objection(known, OfAnotherKind(c, found, union)), name, Of(e, pointer))

SaidBlock(c) == [Settled(c) EXCEPT !.scopes = Append(@, <<>>)]

(* A tag first met in a parameter list is of the function, not of the file. *)
SaidFunction(c, union, tag) ==
    LET found == Named(c, tag)
    IN  Apart(Objection(SaidBlock(c), OfAnotherKind(c, found, union)), found = {})

SaidEnd(c) == [Settled(c) EXCEPT !.scopes = SubSeq(@, 1, Len(@) - 1)]

=============================================================================
