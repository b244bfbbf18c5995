-------------------------- MODULE ExpressionTypes ---------------------------
(***************************************************************************)
(* What semantic analysis makes of an expression (sema.c,                  *)
(* cc_analyze_expression): its type, whether it is an lvalue, and how many *)
(* errors it reports.  An expression that is given up has no type and is   *)
(* not ok; operators do not complain about an operand that is not, but     *)
(* some look only at its type.                                             *)
(***************************************************************************)
EXTENDS ExpressionTrees, FiniteSets

CONSTANTS
    Expressions,   \* trees
    Analysed       \* more trees, for the command that goes no further than the analysis

ASSUME ExpressionsAssumption ==
    /\ \A e \in Expressions : e \in Expression[Height] /\ e.kind # "type"
    /\ \A e \in Analysed : e \in Expression[Height] /\ e.kind # "type"

VARIABLES
    expression,
    checked,
    analysis   \* what is made of the expression: CCSemaExpr

typesVars == <<expression, checked, analysis>>

InvalidType == Basic("invalid")
VoidType == Basic("void")
BoolType == Basic("bool")
IntType == Basic("int")
LongType == Basic("long")

ArithmeticType(l, r) ==
    LET either(kind) == kind \in {l.kind, r.kind}
    IN  CASE either("double") -> Basic("double")
          [] either("float") /\ ~either("double") -> Basic("float")
          [] either("long") /\ ~either("float") /\ ~either("double") -> LongType
          [] OTHER -> IntType

(* Faulty: any pointer may be assigned to any other.                        *)
AssignableAnyPointer(target, value) ==
    \/ InvalidType \in {target, value}
    \/ target = value
    \/ IsNumeric(target) /\ IsNumeric(value)
    \/ IsPointer(target) /\ IsPointer(value)

(* cc_types_assignable.  Records are equal only to themselves.              *)
Assignable(target, value) ==
    \/ InvalidType \in {target, value}
    \/ target = value
    \/ IsNumeric(target) /\ IsNumeric(value)
    \/ /\ IsPointer(target) /\ IsPointer(value)
       /\ \A t \in {target, value} : Base(t).kind # "function"
       /\ \E t \in {target, value} : IsVoid(Base(t))

(* cc_types_castable.                                                       *)
Castable(target, value) ==
    LET pointers == IsPointer(target) /\ IsPointer(value)
        records == pointers /\ Base(target).kind = "record" /\ Base(value).kind = "record"
    IN  \/ InvalidType \in {target, value}
        \/ target = value
        \/ IsVoid(target)
        \/ IsScalar(target) /\ IsScalar(value) /\ ~records

-----------------------------------------------------------------------------
(* CCSemaExpr, with the errors reported so far in the expression.           *)
GivenUp(said) == [type |-> InvalidType, lvalue |-> FALSE, ok |-> FALSE, said |-> said]
Typed(type, said) == [type |-> type, lvalue |-> FALSE, ok |-> TRUE, said |-> said]
Designating(type, said) == [Typed(type, said) EXCEPT !.lvalue = TRUE]

(* Typed, or given up with an error.                                        *)
TypedIf(condition, type, said) == IF condition THEN Typed(type, said) ELSE GivenUp(said + 1)

(* An error, but no more than that.                                         *)
Unless(condition) == IF condition THEN 0 ELSE 1

AnalyzeIdentifier(name) ==
    IF name \notin DOMAIN Symbols \/ Symbols[name].kind = "typedef" THEN GivenUp(1)
    ELSE IF Symbols[name].kind = "object" THEN Designating(Symbols[name].type, 0)
    ELSE Typed(Symbols[name].type, 0)

(* Faulty: & takes any operand.                                             *)
AnalyzeAddressOfAnything(operand) == Typed(PointerTo(operand.type), operand.said)

AnalyzeAddress(operand) == TypedIf(operand.lvalue, PointerTo(operand.type), operand.said)

(* An operand of sizeof is analysed a second time, for its size.            *)
AnalyzeUnary(op, operand) ==
    LET t == operand.type
        said == operand.said
    IN  CASE ~operand.ok -> operand
          [] operand.ok /\ op = "ampersand" -> AnalyzeAddress(operand)
          [] operand.ok /\ op = "star" ->
                 IF IsPointer(t) THEN Designating(Base(t), said) ELSE GivenUp(said + 1)
          [] operand.ok /\ op = "bang" -> Typed(BoolType, said + Unless(IsScalar(t)))
          [] operand.ok /\ op = "tilde" -> TypedIf(IsInteger(t), t, said)
          [] operand.ok /\ op \in {"plus", "minus"} -> TypedIf(IsNumeric(t), t, said)
          [] operand.ok /\ op \in Steps ->
                 TypedIf(operand.lvalue /\ IsScalar(t), t, said)
          [] operand.ok /\ op \in Sizes -> TypedIf(IsComplete(t), LongType, 2 * said)

(* What + and - make of pointers: one type or none.                         *)
PointerSum(op, l, r) ==
    IF IsPointer(l) /\ IsInteger(r) THEN {l}
    ELSE IF IsInteger(l) /\ IsPointer(r) /\ op = "+" THEN {r}
    ELSE {}

AnalyzeBinary(op, left, right) ==
    LET l == left.type
        r == right.type
        said == left.said + right.said
        scalars == IsScalar(l) /\ IsScalar(r)
        numbers == IsNumeric(l) /\ IsNumeric(r)
    IN  CASE ~left.ok \/ ~right.ok -> GivenUp(said)
          [] left.ok /\ right.ok /\ op \in Assignments ->
                 TypedIf(left.lvalue /\ Assignable(l, r), l, said)
          [] left.ok /\ right.ok /\ op \in {"&&", "||"} \union Comparisons ->
                 Typed(BoolType, said + Unless(scalars))
          [] left.ok /\ right.ok /\ op = "," -> Typed(r, said)
          [] left.ok /\ right.ok /\ op \in {"+", "-"} ->
                 IF PointerSum(op, l, r) # {} THEN Typed(CHOOSE t \in PointerSum(op, l, r) : TRUE, said)
                 ELSE TypedIf(numbers, ArithmeticType(l, r), said)
          [] left.ok /\ right.ok /\ op \in {"*", "/"} -> TypedIf(numbers, ArithmeticType(l, r), said)
          [] left.ok /\ right.ok /\ op \in BitOperators ->
                 TypedIf(IsInteger(l) /\ IsInteger(r), ArithmeticType(l, r), said)

(* Only the types of the three operands are looked at.                      *)
AnalyzeConditional(condition, then, else) ==
    LET said == condition.said + then.said + else.said + Unless(IsScalar(condition.type))
    IN  IF Assignable(then.type, else.type) THEN Typed(then.type, said)
        ELSE TypedIf(Assignable(else.type, then.type), else.type, said)

(* The errors reported in the arguments.                                    *)
SaidIn(arguments) ==
    LET upTo[i \in 0 .. Len(arguments)] == IF i = 0 THEN 0 ELSE upTo[i - 1] + arguments[i].said
    IN  upTo[Len(arguments)]

(* A function or a pointer to one; its arguments are analysed only then.    *)
AnalyzeCall(callee, arguments) ==
    LET t == IF IsPointer(callee.type) /\ Base(callee.type).kind = "function"
             THEN Base(callee.type) ELSE callee.type
        expected == Len(t.parameters)
        mismatched ==
            {i \in DOMAIN arguments :
                i <= expected /\ arguments[i].ok /\ ~Assignable(t.parameters[i], arguments[i].type)}
        counted == IF t.variadic THEN Len(arguments) >= expected ELSE Len(arguments) = expected
        said == callee.said + SaidIn(arguments)
    IN  IF ~callee.ok THEN callee
        ELSE IF t.kind # "function" THEN GivenUp(callee.said + 1)
        ELSE Typed(Base(t), said + Cardinality(mismatched) + Unless(counted))

AnalyzeSubscript(base, index) ==
    LET said == base.said + index.said
    IN  IF IsPointer(base.type) /\ IsInteger(index.type)
        THEN Designating(Base(base.type), said) ELSE GivenUp(said + 1)

(* A member is an lvalue behind a pointer, or if what it is in is one.      *)
AnalyzeMember(how, base, name) ==
    LET record == IF how = "->" /\ IsPointer(base.type) THEN Base(base.type) ELSE base.type
        fitting == /\ how = "->" => IsPointer(base.type)
                   /\ record.kind = "record" /\ IsComplete(record) /\ name \in DOMAIN Fields[record.tag]
    IN  IF ~base.ok THEN GivenUp(base.said)
        ELSE IF ~fitting THEN GivenUp(base.said + 1)
        ELSE [Typed(Fields[record.tag][name], base.said) EXCEPT !.lvalue = how = "->" \/ base.lvalue]

AnalyzeCast(target, value) ==
    IF ~value.ok THEN GivenUp(value.said) ELSE TypedIf(Castable(target, value.type), target, value.said)

(* Where statements and declarations use an expression: as a condition of   *)
(* if, while and do, as what a switch selects by, and converted to the type *)
(* of a function or of what it initializes.  The function may be void.      *)
AnalyzeUse(how, target, value) ==
    LET fits == CASE how = "condition" -> IsScalar(value.type)
                  [] how = "selector" -> IsInteger(value.type)
                  [] how = "returned" -> ~IsVoid(target) /\ Assignable(target, value.type)
                  [] how = "initializer" -> Assignable(target, value.type)
    IN  [type |-> value.type, lvalue |-> value.lvalue, ok |-> value.ok, said |-> value.said + Unless(fits)]

(* cc_analyze_expression, of an expression over others of which `inner` has *)
(* the analyses.  A type name stands as an operand of sizeof and in front   *)
(* of casts and uses; as an expression it is given up without a word.       *)
AnalyzeNode(e, inner) ==
    LET kid(i) == inner[e.kids[i]]
    IN  CASE e.kind = "identifier" -> AnalyzeIdentifier(e.text)
          [] e.kind = "literal" -> Typed(IntType, 0)
          [] e.kind = "unary" -> AnalyzeUnary(e.text, kid(1))
          [] e.kind = "binary" -> AnalyzeBinary(e.text, kid(1), kid(2))
          [] e.kind = "conditional" -> AnalyzeConditional(kid(1), kid(2), kid(3))
          [] e.kind = "call" -> AnalyzeCall(kid(1), [i \in 1 .. Len(e.kids) - 1 |-> kid(i + 1)])
          [] e.kind = "subscript" -> AnalyzeSubscript(kid(1), kid(2))
          [] e.kind = "member" -> AnalyzeMember(e.text, kid(1), e.kids[2].text)
          [] e.kind = "cast" -> AnalyzeCast(TypeNames[e.kids[1].text], kid(2))
          [] e.kind = "use" -> AnalyzeUse(e.text, TypeNames[e.kids[1].text], kid(2))
          [] e.kind = "type" -> GivenUp(0)

AnalysesOver(trees, inner) == [e \in trees |-> AnalyzeNode(e, inner)]

Analyzing[n \in 0 .. Height] == AnalysesOver(Expression[n], Analyzing[n - 1])

Analyze(e) == Analyzing[Height][e]

-----------------------------------------------------------------------------
Unchecked == checked = FALSE /\ analysis = GivenUp(0)

TypesInit == expression \in Expressions \union Analysed /\ Unchecked

CheckTypes ==
    /\ ~checked
    /\ analysis' = Analyze(expression)
    /\ checked' = TRUE
    /\ UNCHANGED expression

TypesSpec == TypesInit /\ [][CheckTypes]_typesVars

IsAccepted == checked /\ analysis.said = 0

=============================================================================
