--------------------------- MODULE StatementRules ---------------------------
(***************************************************************************)
(* The rules semantic analysis checks about statements (sema.c,            *)
(* cc_visit_statement and cc_visit_function_definition): what may stand    *)
(* inside what, which labels and case values there are, and whether a      *)
(* function may reach its end without returning.  The visitor's context    *)
(* is the record `ctx`.                                                    *)
(***************************************************************************)
EXTENDS Statements

CONSTANT Mistyped   \* the constants of cases that have no integer type: (double)1

(* CCSwitchRecord.                                                          *)
NoRecord == [values |-> {}, hasDefault |-> FALSE]

EmptyContext ==
    [breakDepth |-> 0, loopDepth |-> 0, switches |-> <<>>,
     labels |-> {}, gotos |-> {}, reported |-> {}, returns |-> FALSE]

Problems ==
    {"case outside a switch", "case of no integer type", "case not constant", "duplicate case",
     "default outside a switch", "duplicate default",
     "redefinition of label", "undefined label", "break outside", "continue outside"}

Contexts ==
    [breakDepth : Nat, loopDepth : Nat,
     switches : Seq([values : SUBSET Args, hasDefault : BOOLEAN]),
     labels : SUBSET Args, gotos : SUBSET Args, reported : SUBSET Problems, returns : BOOLEAN]

Reported(ctx, problem) == [ctx EXCEPT !.reported = @ \union {problem}]

ReportedIf(ctx, condition, problem) ==
    IF condition THEN Reported(ctx, problem) ELSE ctx

(* cc_record_switch_case and cc_record_switch_default work on the innermost *)
(* switch, and on nothing outside one.                                      *)
RecordCase(ctx, value) ==
    IF ctx.switches = <<>>
    THEN ctx
    ELSE LET top == Len(ctx.switches)
         IN  [ReportedIf(ctx, value \in ctx.switches[top].values, "duplicate case")
                EXCEPT !.switches[top].values = @ \union {value}]

(* The label of a case.  One that is not a constant is not recorded.        *)
VisitCase(ctx, value) ==
    LET outside == ReportedIf(ctx, ctx.switches = <<>>, "case outside a switch")
        typed   == ReportedIf(outside, value \in Mistyped, "case of no integer type")
    IN  IF value = "" THEN Reported(typed, "case not constant") ELSE RecordCase(typed, value)

RecordDefault(ctx) ==
    IF ctx.switches = <<>>
    THEN Reported(ctx, "default outside a switch")
    ELSE LET top == Len(ctx.switches)
         IN  [ReportedIf(ctx, ctx.switches[top].hasDefault, "duplicate default")
                EXCEPT !.switches[top].hasDefault = TRUE]

RecordLabel(ctx, name) ==
    [ReportedIf(ctx, name \in ctx.labels, "redefinition of label")
       EXCEPT !.labels = @ \union {name}]

(* What a loop or a switch adds to the context around its body.             *)
Entered(ctx, kind) ==
    CASE kind = "switch" -> [ctx EXCEPT !.breakDepth = @ + 1,
                                        !.switches = Append(@, NoRecord)]
      [] OTHER           -> [ctx EXCEPT !.breakDepth = @ + 1, !.loopDepth = @ + 1]

Left(ctx, kind) ==
    CASE kind = "switch" -> [ctx EXCEPT !.breakDepth = @ - 1, !.switches = SubSeq(@, 1, Len(@) - 1)]
      [] OTHER           -> [ctx EXCEPT !.breakDepth = @ - 1, !.loopDepth = @ - 1]

Returning(ctx, returns) == [ctx EXCEPT !.returns = returns]

(* Faulty: one branch that returns is enough.                               *)
EitherReturns(hasElse, then, else) == then \/ else

(* An if statement returns when it has both branches and both return.       *)
BothReturn(hasElse, then, else) == hasElse /\ then /\ else

(* A call of cc_visit_statement for a child: `inner` has the walk of every   *)
(* statement that is less high.                                             *)
VisitChild(ctx, s, i, inner) == inner[s.kids[i]][ctx]

VisitIf(ctx, s, inner) ==
    LET hasElse == Len(s.kids) > 2
        then == VisitChild(ctx, s, 2, inner)
        else == IF hasElse THEN VisitChild(then, s, 3, inner) ELSE then
    IN  Returning(else, BothReturn(hasElse, then.returns, else.returns))

(* Around the body of a loop or a switch, the i-th child.                   *)
VisitBody(ctx, s, i, inner) ==
    Returning(Left(VisitChild(Entered(ctx, s.kind), s, i, inner), s.kind), FALSE)

(* cc_visit_statement.  The last statement of a compound statement decides  *)
(* whether it returns.                                                      *)
VisitStatement(ctx, s, inner) ==
    CASE s.kind = "compound" ->
            Through([i \in DOMAIN s.kids |-> inner[s.kids[i]]], Returning(ctx, FALSE))
      [] s.kind = "if"      -> VisitIf(ctx, s, inner)
      [] s.kind \in {"while", "for", "switch"} -> VisitBody(ctx, s, Len(s.kids), inner)
      [] s.kind = "do"      -> VisitBody(ctx, s, 1, inner)
      [] s.kind = "case"    -> VisitChild(VisitCase(ctx, s.arg), s, 1, inner)
      [] s.kind = "default" -> VisitChild(RecordDefault(ctx), s, 1, inner)
      [] s.kind = "label"   -> VisitChild(RecordLabel(ctx, s.arg), s, 1, inner)
      [] s.kind = "goto"    ->
            Returning([ctx EXCEPT !.gotos = @ \union {s.arg}], FALSE)
      [] s.kind = "return"  -> Returning(ctx, TRUE)
      [] s.kind = "break"   ->
            Returning(ReportedIf(ctx, ctx.breakDepth = 0, "break outside"), FALSE)
      [] s.kind = "continue" ->
            Returning(ReportedIf(ctx, ctx.loopDepth = 0, "continue outside"), FALSE)
      [] s.kind \in {"expression", "empty"} -> Returning(ctx, FALSE)

VisitsOver(statements, inner) ==
    [s \in statements |-> [ctx \in Contexts |-> VisitStatement(ctx, s, inner)]]

Visiting[n \in 0 .. Height] == VisitsOver(Statement[n], Visiting[n - 1])

Visit(ctx, s) == Visiting[Height][s][ctx]

(* cc_visit_function_definition: gotos are matched with labels at the end.  *)
FunctionContext(body) ==
    LET ctx == Visit(EmptyContext, body)
    IN  ReportedIf(ctx, ~ ctx.gotos \subseteq ctx.labels, "undefined label")

(* No diagnostic about the statements of this body, and none about its end  *)
(* when the function returns a value.                                       *)
Accepted(body) == FunctionContext(body).reported = {}

ReturnsAlways(body) == FunctionContext(body).returns
=============================================================================
