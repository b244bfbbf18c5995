---------------------------- MODULE CExpressions ----------------------------
(***************************************************************************)
(* The type an expression has in C, if it has one, against what the        *)
(* analysis makes of it.                                                   *)
(***************************************************************************)
EXTENDS ExpressionTypes

-----------------------------------------------------------------------------
(* The type of an expression, with whether it is an lvalue: one answer, or  *)
(* none if a constraint is violated.                                        *)
If(condition, t) == IF condition THEN {[type |-> t, lvalue |-> FALSE]} ELSE {}
Lval(t) == {[type |-> t, lvalue |-> t.kind \notin {"void", "function"}]}

(* Conversion ranks; what is below int is promoted to it.                   *)
Ranks == <<"int", "long", "float", "double">>
Rank(t) == IF \E i \in DOMAIN Ranks : Ranks[i] = t.kind THEN CHOOSE i \in DOMAIN Ranks : Ranks[i] = t.kind ELSE 1
Common(t, u) == Basic(Ranks[IF Rank(t) > Rank(u) THEN Rank(t) ELSE Rank(u)])
Promoted(t) == IF IsNumeric(t) THEN Common(t, t) ELSE t

Decayed(t) == IF t.kind = "function" THEN PointerTo(t) ELSE t

IsObjectPointer(t) == IsPointer(t) /\ Base(t).kind # "function"
ToComplete(t) == IsPointer(t) /\ IsComplete(Base(t))
OneToVoid(t, u) ==
    IsObjectPointer(t) /\ IsObjectPointer(u) /\ (IsVoid(Base(t)) \/ IsVoid(Base(u)))

CAssignable(target, value) ==
    /\ IsComplete(target)
    /\ \/ target = value
       \/ IsNumeric(target) /\ IsNumeric(value)
       \/ target.kind = "bool" /\ IsPointer(value)
       \/ OneToVoid(target, value)

Additive(op, t, u) ==
    If(IsNumeric(t) /\ IsNumeric(u), Common(t, u))
    \union If(ToComplete(t) /\ IsInteger(u), t)
    \union If(op = "+" /\ IsInteger(t) /\ ToComplete(u), u)
    \union If(op = "-" /\ ToComplete(t) /\ t = u, Basic("long"))

Comparable(op, t, u) ==
    \/ IsNumeric(t) /\ IsNumeric(u)
    \/ IsPointer(t) /\ t = u /\ (op \in {"==", "!="} \/ IsObjectPointer(t))
    \/ op \in {"==", "!="} /\ OneToVoid(t, u)

(* Operators but assignments, of operands of types t and u.                 *)
OfBinary(op, t, u) ==
    CASE op = "," -> If(TRUE, u)
      [] op \in {"&&", "||"} -> If(IsScalar(t) /\ IsScalar(u), Basic("int"))
      [] op \in Comparisons -> If(Comparable(op, t, u), Basic("int"))
      [] op \in {"+", "-"} -> Additive(op, t, u)
      [] op \in {"*", "/"} -> If(IsNumeric(t) /\ IsNumeric(u), Common(t, u))
      [] op \in {"%", "&", "|", "^"} -> If(IsInteger(t) /\ IsInteger(u), Common(t, u))
      [] op \in {"<<", ">>"} -> If(IsInteger(t) /\ IsInteger(u), Promoted(t))

Underlying == [op \in Assignments \ {"="} |->
    CASE op = "+=" -> "+" [] op = "-=" -> "-" [] op = "*=" -> "*" [] op = "/=" -> "/" [] op = "%=" -> "%"
      [] op = "<<=" -> "<<" [] op = ">>=" -> ">>" [] op = "&=" -> "&" [] op = "^=" -> "^" [] op = "|=" -> "|"]

OfAssignment(op, place, u) ==
    If(/\ place.lvalue /\ CAssignable(place.type, IF op = "=" THEN u ELSE place.type)
       /\ op # "=" => \E result \in OfBinary(Underlying[op], place.type, u) :
                          CAssignable(place.type, result.type),
       place.type)

OfUnary(e, operand) ==
    LET t == Decayed(operand.type)
        op == e.text
    IN  CASE op = "ampersand" ->
                 If(\/ operand.lvalue \/ operand.type.kind = "function"
                    \/ e.kids[1].kind = "unary" /\ e.kids[1].text = "star",
                    PointerTo(operand.type))
          [] op = "star" -> IF IsPointer(t) THEN Lval(Base(t)) ELSE {}
          [] op = "bang" -> If(IsScalar(t), Basic("int"))
          [] op = "tilde" -> If(IsInteger(t), Promoted(t))
          [] op \in {"plus", "minus"} -> If(IsNumeric(t), Promoted(t))
          [] op \in Steps ->
                 If(operand.lvalue /\ (IsNumeric(t) \/ ToComplete(t)), t)
          [] op \in Sizes -> If(IsComplete(operand.type), Basic("long"))

OfConditional(test, t, u) ==
    IF ~IsScalar(test) THEN {}
    ELSE If(IsNumeric(t) /\ IsNumeric(u), Common(t, u))
         \union If(~IsNumeric(t) /\ t = u, t)
         \union If(t # u /\ OneToVoid(t, u), PointerTo(Basic("void")))

OfCall(callee, arguments) ==
    IF ~IsPointer(callee) \/ Base(callee).kind # "function" THEN {}
    ELSE LET f == Base(callee)
             n == Len(f.parameters)
         IN  If(/\ Len(arguments) = n \/ (f.variadic /\ Len(arguments) > n)
                /\ \A i \in DOMAIN arguments :
                       IF i <= n THEN CAssignable(f.parameters[i], arguments[i])
                       ELSE IsComplete(arguments[i]),
                Base(f))

OfMember(how, base, name) ==
    LET t == IF how = "->" /\ IsPointer(base.type) THEN Base(base.type) ELSE base.type
        has == /\ (how = "->") = IsPointer(base.type)
               /\ t.kind = "record" /\ IsComplete(t) /\ name \in DOMAIN Fields[t.tag]
    IN  IF has THEN {[type |-> Fields[t.tag][name], lvalue |-> how = "->" \/ base.lvalue]} ELSE {}

OfSubscript(t, u) ==
    IF ToComplete(t) /\ IsInteger(u) THEN Lval(Base(t))
    ELSE IF IsInteger(t) /\ ToComplete(u) THEN Lval(Base(u))
    ELSE {}

OfCast(target, t) ==
    If(\/ IsVoid(target)
       \/ /\ IsScalar(target) /\ IsScalar(t)
          /\ ~(IsPointer(target) /\ IsFloating(t)) /\ ~(IsFloating(target) /\ IsPointer(t)),
       target)

(* Where a statement or declaration uses it.  A function that is void       *)
(* returns no value.                                                        *)
FitsUse(how, target, t) ==
    CASE how = "condition" -> IsScalar(t)
      [] how = "selector" -> IsInteger(t)
      [] how \in {"returned", "initializer"} -> CAssignable(target, t)

(* The answers for an expression over others of which `inner` has them.     *)
TypeInC(e, inner) ==
    LET kid(i) == inner[e.kids[i]]
        typeOf(answer) == Decayed(answer.type)
        named == TypeNames[e.kids[1].text]
    IN  CASE e.kind = "identifier" ->
                 IF e.text \in DOMAIN Symbols /\ Symbols[e.text].kind # "typedef"
                 THEN Lval(Symbols[e.text].type) ELSE {}
          [] e.kind = "literal" -> If(TRUE, Basic("int"))
          [] e.kind = "type" -> If(TRUE, TypeNames[e.text])
          [] e.kind = "unary" -> UNION {OfUnary(e, a) : a \in kid(1)}
          [] e.kind = "binary" /\ e.text \in Assignments ->
                 UNION {OfAssignment(e.text, a, typeOf(b)) : a \in kid(1), b \in kid(2)}
          [] e.kind = "binary" /\ e.text \notin Assignments ->
                 UNION {OfBinary(e.text, typeOf(a), typeOf(b)) : a \in kid(1), b \in kid(2)}
          [] e.kind = "conditional" ->
                 UNION {OfConditional(typeOf(a), typeOf(b), typeOf(c)) :
                            a \in kid(1), b \in kid(2), c \in kid(3)}
          [] e.kind = "call" ->
                 IF \E i \in DOMAIN e.kids : kid(i) = {} THEN {}
                 ELSE LET typed(i) == typeOf(CHOOSE a \in kid(i) : TRUE)
                      IN  OfCall(typed(1), [i \in 1 .. Len(e.kids) - 1 |-> typed(i + 1)])
          [] e.kind = "subscript" -> UNION {OfSubscript(typeOf(a), typeOf(b)) : a \in kid(1), b \in kid(2)}
          [] e.kind = "member" -> UNION {OfMember(e.text, a, e.kids[2].text) : a \in kid(1)}
          [] e.kind = "cast" -> UNION {OfCast(named, typeOf(a)) : a \in kid(2)}
          [] e.kind = "use" -> {a \in kid(2) : FitsUse(e.text, named, typeOf(a))}

TypesInC(trees, inner) == [e \in trees |-> TypeInC(e, inner)]

CTyping[n \in 0 .. Height] == TypesInC(Expression[n], CTyping[n - 1])

CTypes(e) == CTyping[Height][e]

-----------------------------------------------------------------------------
(* Where the analysis departs from C, by the types C gives the operands.    *)
(* Null pointer constants are another such case; there are none here.       *)
(* A compound assignment is checked as an assignment.                       *)
DepartsInAssignment(op, t, u) ==
    \/ op # "=" /\ ~(IsNumeric(t) /\ IsNumeric(u))
    \/ op \in {"%=", "<<=", ">>=", "&=", "^=", "|="} /\ (IsFloating(t) \/ IsFloating(u))
    \/ t.kind = "bool" /\ IsPointer(u)
    \/ ~IsComplete(t)

(* Pointers may be compared with everything, not subtracted, and moved even *)
(* if what they point to has no size; the right operand of a shift counts.  *)
DepartsInOperator(op, t, u) ==
    \/ op \in Comparisons /\ (IsPointer(t) \/ IsPointer(u)) /\ ~Comparable(op, t, u)
    \/ op \in {"+", "-"} /\ \E pointer \in {t, u} : IsPointer(pointer) /\ ~ToComplete(pointer)
    \/ op = "-" /\ IsPointer(t) /\ t = u
    \/ op \in {"<<", ">>"} /\ IsInteger(t) /\ IsInteger(u) /\ Rank(u) > Rank(t)

(* The type is that of one operand, and no common one.                      *)
DepartsInConditional(t, u) ==
    Promoted(t) # Promoted(u) /\ ((IsNumeric(t) /\ IsNumeric(u)) \/ OneToVoid(t, u))

DepartsInCast(target, t) ==
    \/ IsPointer(target) /\ IsFloating(t)
    \/ IsFloating(target) /\ IsPointer(t)
    \/ target.kind = "record"
    \/ /\ IsPointer(target) /\ IsPointer(t) /\ target # t
       /\ Base(target).kind = "record" /\ Base(t).kind = "record"

(* Parameters are not asked to be of complete types; arguments that match   *)
(* none may be anything.                                                    *)
DepartsInArgument(f, i, t) ==
    IF i <= Len(f.parameters)
    THEN ~IsComplete(f.parameters[i]) \/ (f.parameters[i].kind = "bool" /\ IsPointer(t))
    ELSE ~IsComplete(t)

DepartsInUse(how, target, t) ==
    \/ target.kind = "bool" /\ IsPointer(t)
    \/ how = "initializer" /\ ~IsComplete(target)
    \/ how = "returned" /\ ~IsVoid(target) /\ ~IsComplete(target)

IsStar(e) == e.kind = "unary" /\ e.text = "star"
SizesAType(e) == e.kind = "unary" /\ e.text \in Sizes /\ e.kids[1].kind = "type"

Departs(e, inner) ==
    LET types(i) == {answer.type : answer \in inner[e.kids[i]]}
        named == TypeNames[e.kids[1].text]
    IN  \/ /\ e.kind # "member"
           /\ \E i \in DOMAIN e.kids :    \* a function's name, other than to call it
                  /\ e.kind \in {"call", "cast", "use"} => i > 1
                  /\ \E t \in types(i) : t.kind = "function"
        \/ SizesAType(e)
        \/ /\ e.kind = "unary" /\ e.text = "ampersand" /\ ~IsStar(e.kids[1])
           /\ \E t \in types(1) : IsVoid(t)
        \/ /\ e.kind = "unary" /\ e.text \in Steps
           /\ \E t \in types(1) : IsPointer(t) /\ ~ToComplete(t)
        \/ /\ e.kind = "binary"
           /\ \E t \in types(1), u \in types(2) :
                 IF e.text \in Assignments THEN DepartsInAssignment(e.text, t, u)
                 ELSE DepartsInOperator(e.text, t, u)
        \/ e.kind = "conditional" /\ \E t \in types(2), u \in types(3) : DepartsInConditional(t, u)
        \/ /\ e.kind = "call"
           /\ \E t \in types(1), i \in 2 .. Len(e.kids) : \E u \in types(i) :
                 LET callee == Decayed(t)
                 IN  IsPointer(callee) /\ Base(callee).kind = "function"
                     /\ DepartsInArgument(Base(callee), i - 1, u)
        \/ e.kind = "subscript" /\ \E t \in types(1) : IsInteger(t) \/ (IsPointer(t) /\ ~ToComplete(t))
        \/ e.kind = "cast" /\ \E t \in types(2) : DepartsInCast(named, t)
        \/ e.kind = "use" /\ \E t \in types(2) : DepartsInUse(e.text, named, t)

DeparturesIn(trees, answers, inner) ==
    [e \in trees |-> Departs(e, answers) \/ \E i \in DOMAIN e.kids : inner[e.kids[i]]]

(* In the expression or in a part of it.                                    *)
Departing[n \in 0 .. Height] == DeparturesIn(Expression[n], CTyping[n - 1], Departing[n - 1])

(* Semantic analysis refuses exactly what violates C's constraints, and     *)
(* what it accepts has C's type, up to promotion where there is no object,  *)
(* and is an lvalue where C says so.                                        *)
TypesAreC ==
    checked /\ ~Departing[Height][expression] =>
        LET answers == CTypes(expression)
        IN  /\ IsAccepted <=> answers # {}
            /\ \A answer \in answers :
                   /\ Promoted(analysis.type) = Promoted(answer.type)
                   /\ IsComplete(answer.type) => analysis.lvalue = answer.lvalue
                   /\ analysis.lvalue /\ answer.lvalue => analysis.type = answer.type

=============================================================================
