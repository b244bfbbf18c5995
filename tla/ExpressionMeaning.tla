------------------------- MODULE ExpressionMeaning -------------------------
(***************************************************************************)
(* What an expression means in C, its value and its effects on memory where *)
(* C defines them, and the code the generator emits against it.            *)
(*                                                                         *)
(* C leaves the order of most operands open.  An expression is defined     *)
(* only if no order can be told from another: neither of two unsequenced   *)
(* operands writes what the other reads or writes.  Then one order will    *)
(* do for all.  Calls note their arguments in one cell, so that two calls  *)
(* that C does not order conflict as well.                                 *)
(***************************************************************************)
EXTENDS ExpressionLowering, CExpressions

LOCAL INSTANCE SequencesExt

-----------------------------------------------------------------------------
(* An evaluation: what it yields, the memory behind it, the cells it reads  *)
(* and writes, and whether all of it is defined.                            *)
Start(cells) == [yields |-> <<>>, cells |-> cells, reads |-> {}, writes |-> {}, defined |-> TRUE]

Yield(ev, v) == [ev EXCEPT !.yields = v]
Undefined(ev) == [Yield(ev, <<>> :> Garbage) EXCEPT !.defined = FALSE]

(* One after the other, with a sequence point between them.                 *)
Then(first, second) ==
    [second EXCEPT !.reads = @ \union first.reads, !.writes = @ \union first.writes,
                   !.defined = @ /\ first.defined]

Conflict(one, other) == one.writes \intersect (other.reads \union other.writes) # {}

(* Two operands, the second evaluated in what the first leaves.             *)
Both(one, other) ==
    IF Conflict(one, other) \/ Conflict(other, one)
    THEN Undefined(Then(one, other)) ELSE Then(one, other)

CellsOf(cells, path) == {path \o rest : rest \in DOMAIN Stored(cells, path)}

Fetch(ev, path) ==
    LET here == CellsOf(ev.cells, path)
    IN  IF here = {} THEN Undefined(ev)
        ELSE [Yield(ev, Stored(ev.cells, path)) EXCEPT !.reads = @ \union here]

(* The effect of an assignment is not sequenced behind its operands'.       *)
Assign(ev, path, v) ==
    LET here == CellsOf(ev.cells, path)
    IN  IF here = {} \/ here \intersect ev.writes # {} THEN Undefined(ev)
        ELSE [Yield(ev, v) EXCEPT !.cells = Store(@, path, v), !.writes = @ \union here]

(* What an operator makes of two scalars: pointers move within their array. *)
Result(op, v) ==
    CASE op = "+" /\ v[1][1] = "pointer" -> Pointer(Moved(v[1][2], NumberOf(v[2])))
      [] op = "-" /\ v[1][1] = "pointer" -> Pointer(Moved(v[1][2], -NumberOf(v[2])))
      [] op = "==" -> Number(Truth(v[1] = v[2]))
      [] op = "+" /\ v[1][1] # "pointer" -> Number(NumberOf(v[1]) + NumberOf(v[2]))
      [] op = "-" /\ v[1][1] # "pointer" -> Number(NumberOf(v[1]) - NumberOf(v[2]))
      [] op = "*" -> Number(NumberOf(v[1]) * NumberOf(v[2]))

Operator == [o \in {"+=", "-=", "*=", "increment", "post++", "decrement", "post--"} |->
    CASE o \in {"+=", "increment", "post++"} -> "+" [] o \in {"-=", "decrement", "post--"} -> "-"
      [] o = "*=" -> "*"]

-----------------------------------------------------------------------------
(* Of lvalues the path, of the others the value.                            *)
IsLvalue(e) == e.kind \in {"identifier", "subscript", "member"} \/ (e.kind = "unary" /\ e.text = "star")

RECURSIVE Lvalue(_, _), Value(_, _)

Lvalue(cells, e) ==
    LET first == Value(cells, e.kids[1])
        second == Value(first.cells, e.kids[2])
    IN  CASE e.kind = "identifier" -> Yield(Start(cells), <<e.text>>)
          [] e.kind = "unary" -> Yield(first, TargetOf(Scalar(first.yields)))
          [] e.kind = "subscript" ->
                 Yield(Both(first, second),
                       Moved(TargetOf(Scalar(first.yields)), NumberOf(Scalar(second.yields))))
          [] e.kind = "member" /\ e.text = "->" ->
                 Yield(first, Append(TargetOf(Scalar(first.yields)), e.kids[2].text))
          [] e.kind = "member" /\ e.text = "." ->
                 LET record == Lvalue(cells, e.kids[1])
                 IN  Yield(record, Append(record.yields, e.kids[2].text))

(* Of every operator what it evaluates, in which order, and what it yields. *)
Step(cells, e) ==
    LET place == Lvalue(cells, e.kids[1])
        old == Fetch(place, place.yields)
        new == <<>> :> Result(Operator[e.text], <<Scalar(old.yields), Number(1)>>)
        stepped == Assign(old, place.yields, new)
    IN  IF old.defined /\ e.text \in {"post++", "post--"} THEN Yield(stepped, old.yields)
        ELSE IF old.defined THEN stepped
        ELSE old

Unary(cells, e) ==
    LET operand == Value(cells, e.kids[1])
        place == Lvalue(cells, e.kids[1])
        of(v) == <<>> :> v
    IN  CASE e.text = "ampersand" -> Yield(place, of(Pointer(place.yields)))
          [] e.text = "kw_sizeof" -> Yield(Start(cells), of(Number(4)))
          [] e.text = "bang" -> Yield(operand, of(Number(Truth(~IsTrue(Scalar(operand.yields))))))
          [] e.text = "minus" -> Yield(operand, of(Number(-NumberOf(Scalar(operand.yields)))))

Assignment(cells, e) ==
    LET place == Lvalue(cells, e.kids[1])
        operands == Both(place, Value(place.cells, e.kids[2]))
        old == Fetch(operands, place.yields)
    IN  IF e.text = "=" THEN Assign(operands, place.yields, operands.yields)
        ELSE IF ~old.defined THEN old
        ELSE Assign(old, place.yields,
                    <<>> :> Result(Operator[e.text], <<Scalar(old.yields), Scalar(operands.yields)>>))

(* && and || evaluate their right operand only if the left leaves it open.  *)
Logical(cells, e) ==
    LET left == Value(cells, e.kids[1])
        right == Value(left.cells, e.kids[2])
        truth(v) == Truth(IsTrue(Scalar(v)))
    IN  IF truth(left.yields) = (IF e.text = "&&" THEN 0 ELSE 1)
        THEN Yield(left, <<>> :> Number(truth(left.yields)))
        ELSE Yield(Then(left, right), <<>> :> Number(truth(right.yields)))

Binary(cells, e) ==
    LET left == Value(cells, e.kids[1])
        right == Value(left.cells, e.kids[2])
        both == Both(left, right)
    IN  IF e.text = "," THEN Then(left, right)
        ELSE IF ~both.defined THEN both
        ELSE Yield(both, <<>> :> Result(e.text, <<Scalar(left.yields), Scalar(right.yields)>>))

Conditional(cells, e) ==
    LET test == Value(cells, e.kids[1])
    IN  Then(test, Value(test.cells, e.kids[IF IsTrue(Scalar(test.yields)) THEN 2 ELSE 3]))

Call(cells, e) ==
    LET argument == Value(cells, e.kids[2])
        n == NumberOf(Scalar(argument.yields))
        log == {<<"log">>}
    IN  [Yield(argument, <<>> :> Answer(n)) EXCEPT
            !.cells = Noted(@, n), !.reads = @ \union log, !.writes = @ \union log]

Value(cells, e) ==
    CASE e.kind = "literal" -> Yield(Start(cells), <<>> :> Number(e.number))
      [] IsLvalue(e) -> LET place == Lvalue(cells, e)
                        IN  IF place.defined THEN Fetch(place, place.yields) ELSE Undefined(place)
      [] e.kind = "unary" /\ e.text \in {"increment", "decrement", "post++", "post--"} -> Step(cells, e)
      [] e.kind = "unary" /\ e.text \in {"ampersand", "kw_sizeof", "bang", "minus"} -> Unary(cells, e)
      [] e.kind = "binary" /\ e.text \in {"=", "+=", "-=", "*="} -> Assignment(cells, e)
      [] e.kind = "binary" /\ e.text \in {"&&", "||"} -> Logical(cells, e)
      [] e.kind = "binary" /\ e.text \in {"+", "-", "*", "==", ","} -> Binary(cells, e)
      [] e.kind = "conditional" -> Conditional(cells, e)
      [] e.kind = "call" -> Call(cells, e)
      [] e.kind = "cast" -> Value(cells, e.kids[2])    \* between pointers, and to int

-----------------------------------------------------------------------------
(* Where the generator departs from C.                                      *)
RECURSIVE Parts(_)
Parts(e) == {e} \union UNION {Parts(e.kids[i]) : i \in DOMAIN e.kids}

IsUnary(e, text) == e.kind = "unary" /\ e.text = text
IsBinary(e, ops) == e.kind = "binary" /\ e.text \in ops
IsAssignment(e) == IsBinary(e, Assignments)

IsStep(e) == e.kind = "unary" /\ e.text \in Steps

HasEffects(e) == \E part \in Parts(e) : part.kind = "call" \/ IsAssignment(part) \/ IsStep(part)

(* A member of a structure that is itself a member, an element or behind a  *)
(* pointer: the structure is loaded into a temporary first.                 *)
InCopy(e) == e.kind = "member" /\ e.text = "." /\ e.kids[1].kind # "identifier"

ChangesACopy(e) ==
    \E part \in Parts(e) :
        (IsAssignment(part) \/ IsStep(part) \/ IsUnary(part, "ampersand")) /\ InCopy(part.kids[1])

(* Where the generator keeps to C.  The others are && and || whose right    *)
(* operand has effects, & and sizeof whose operand has, and changing or     *)
(* pointing to a member of a copy.                                          *)
Plain(e) ==
    /\ ~ChangesACopy(e)
    /\ \A part \in Parts(e) :
        /\ IsBinary(part, {"&&", "||"}) => ~HasEffects(part.kids[2])
        /\ IsUnary(part, "ampersand") \/ IsUnary(part, "kw_sizeof") => ~HasEffects(part.kids[1])

-----------------------------------------------------------------------------
Finished == pc = Len(code) + 1

Meaning == Value(Memory, expression)

Changed(cells) == [path \in DOMAIN Memory |-> cells[path]]

(* The code of a plain expression that C defines leaves every variable as C *)
(* does, and its text stands for the value C gives it: each effect happens  *)
(* once, on the right object, and is seen by what C sequences behind it.    *)
MeaningIsC ==
    Finished /\ Plain(expression) /\ Meaning.defined
        => /\ Changed(memory) = Changed(Meaning.cells)
           /\ Scalar(Read(memory, value)) = Scalar(Meaning.yields)

(* The type of the object at a path.                                        *)
TypeAt(path) ==
    IF path[1] = "cells" THEN IntType
    ELSE FoldLeft(LAMBDA t, field : Fields[t.tag][field], Symbols[path[1]].type, Tail(path))

(* A value has a type: a pointer points to an object of its base, a         *)
(* structure has values of its fields' types.                               *)
RECURSIVE HasType(_, _)
HasType(v, t) ==
    CASE IsNumeric(t) -> Scalar(v)[1] = "int"
      [] IsPointer(t) ->
             /\ Scalar(v)[1] = "pointer"
             /\ TargetOf(Scalar(v)) = <<"nowhere">> \/ IsVoid(Base(t)) \/ TypeAt(TargetOf(Scalar(v))) = Base(t)
      [] t.kind = "record" -> \A field \in DOMAIN Fields[t.tag] : HasType(Stored(v, <<field>>), Fields[t.tag][field])
      [] OTHER -> IsVoid(t)

Used(e) == IF e.kind = "use" THEN e.kids[2] ELSE e

(* What is accepted goes through: the generator can lower it, whatever it   *)
(* is, and if C defines it, its value is in the end of the type the         *)
(* analysis gave it.  sizeof of a type name is accepted and cannot be       *)
(* lowered.                                                                 *)
AcceptedGoesThrough ==
    IsAccepted =>
        /\ pc = 0 /\ ~(\E part \in Parts(expression) : SizesAType(part))
               => ~Lower(Empty, Used(expression)).reported
        /\ Finished /\ Plain(expression) /\ Meaning.defined => HasType(Read(memory, value), analysis.type)

RECURSIVE TempsIn(_)
TempsIn(t) ==
    (IF t.form = "temp" THEN {t} ELSE {}) \union UNION {TempsIn(t.parts[i]) : i \in DOMAIN t.parts}

IsSet(t) == DOMAIN Stored(memory, Where(memory, t)) # {}

(* On every way through the code of any expression, a temporary is read     *)
(* only behind an instruction that sets it.                                 *)
TemporariesAreSet ==
    /\ pc \in DOMAIN code =>
           \A i \in DOMAIN code[pc].from : \A t \in TempsIn(code[pc].from[i]) :
               IsSet(t)
    /\ Finished => \A t \in TempsIn(value) : IsSet(t)

=============================================================================
