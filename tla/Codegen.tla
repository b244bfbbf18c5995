------------------------------- MODULE Codegen -------------------------------
(***************************************************************************)
(* The code generator's lowering of statements (codegen.c and              *)
(* codegen_switch.inc) and the execution of the code it emits.             *)
(*                                                                         *)
(* The generator walks the tree with a context: the code emitted so far,   *)
(* the label counter, the stack of break and continue labels and whether   *)
(* it reported anything.  Each operator below is one function of           *)
(* codegen.c.  What an expression is lowered to is one instruction here,   *)
(* "eval", that names the expression's place in the tree.                  *)
(*                                                                         *)
(* The state machine runs the emitted code: one step is one evaluation     *)
(* and the jumps up to the next one.                                       *)
(***************************************************************************)
EXTENDS StatementRules

CONSTANTS
    Programs,   \* function bodies, as statement trees
    Values      \* of expressions: strings, "0" is false

ASSUME ProgramsAssumption == Programs \subseteq Statement[Height]

VARIABLES
    program,    \* the function body
    generator,  \* CCCodegenContext, when the function is generated
    pc,         \* the instruction to be executed, past the last when it diverges
    operand     \* the temporary holding the last value: the place and the value

vars == <<program, generator, pc, operand>>
-----------------------------------------------------------------------------
(* Labels and instructions                                                  *)

Fresh(prefix, n)    == [prefix |-> prefix, number |-> n, name |-> "", place |-> <<>>]
UserLabel(name)     == [prefix |-> "label", number |-> 0, name |-> name, place |-> <<>>]
CaseLabel(place)    == [prefix |-> "switch.case", number |-> 0, name |-> "", place |-> place]
DefaultLabel(place) == [prefix |-> "switch.default", number |-> 0, name |-> "", place |-> place]
NoLabel             == [prefix |-> "", number |-> 0, name |-> "", place |-> <<>>]

Prefixes ==
    {"", "label", "switch.case", "switch.default", "if.then", "if.else", "if.end",
     "while.cond", "while.body", "while.end", "do.body", "do.cond", "do.end",
     "for.cond", "for.body", "for.iter", "for.end",
     "switch.dispatch", "switch.check", "switch.end"}

Labels == [prefix : Prefixes, number : Nat, name : Args, place : Places]

Instructions ==
    [op : {"label", "jump", "eval", "cjump", "cmp", "ret", "endfunc"}, place : Places,
     value : Args, to : Labels, else : Labels]

Instruction(op, place, value, to, else) ==
    [op |-> op, place |-> place, value |-> value, to |-> to, else |-> else]

Mark(label)              == Instruction("label", <<>>, "", label, NoLabel)
Jump(label)              == Instruction("jump", <<>>, "", label, NoLabel)
Eval(place)              == Instruction("eval", place, "", NoLabel, NoLabel)
CJump(place, to, else)   == Instruction("cjump", place, "", to, else)
JumpIfEqual(place, value, to, else) == Instruction("cmp", place, value, to, else)
Ret                      == Instruction("ret", <<>>, "", NoLabel, NoLabel)
EndFunc                  == Instruction("endfunc", <<>>, "", NoLabel, NoLabel)
-----------------------------------------------------------------------------
(* The generator's context                                                  *)

Generators ==
    [code : Seq(Instructions), labelCounter : Nat,
     control : Seq([break : Labels, continue : Labels]), reported : BOOLEAN]

EmptyCodegen == [code |-> <<>>, labelCounter |-> 0, control |-> <<>>, reported |-> FALSE]

Emit(ctx, instructions) == [ctx EXCEPT !.code = @ \o instructions]

(* cc_new_label, n times.                                                   *)
NewLabels(ctx, n) == [ctx EXCEPT !.labelCounter = @ + n]

(* Faulty: a switch catches continue as well as break.                      *)
PushControlBoth(ctx, breakLabel, continueLabel) ==
    [ctx EXCEPT !.control = Append(@, [break |-> breakLabel,
        continue |-> IF continueLabel = NoLabel THEN breakLabel ELSE continueLabel])]

PushControl(ctx, breakLabel, continueLabel) ==
    [ctx EXCEPT !.control = Append(@, [break |-> breakLabel, continue |-> continueLabel])]

(* Faulty: the entry is left behind.                                        *)
PopControlForgotten(ctx) == ctx

PopControl(ctx) == [ctx EXCEPT !.control = IF @ = <<>> THEN @ ELSE SubSeq(@, 1, Len(@) - 1)]

(* The innermost entry that has a label of the kind.                        *)
CurrentLabel(ctx, kind) ==
    LET with == {i \in DOMAIN ctx.control : ctx.control[i][kind] # NoLabel}
        innermost == CHOOSE i \in with : \A j \in with : j <= i
    IN  IF with = {} THEN NoLabel ELSE ctx.control[innermost][kind]

JumpOut(ctx, kind) ==
    IF CurrentLabel(ctx, kind) = NoLabel
    THEN [ctx EXCEPT !.reported = TRUE]
    ELSE Emit(ctx, <<Jump(CurrentLabel(ctx, kind))>>)

(* CCSwitchLayout: the cases in source order; of the defaults the first     *)
(* counts.  unfolded: a case was met whose label is not a constant.         *)
Layouts ==
    [cases : Seq([place : Places, value : Args]), defaults : Seq(Places), unfolded : BOOLEAN]

EmptyLayout == [cases |-> <<>>, defaults |-> <<>>, unfolded |-> FALSE]

Noted(layout, s, place) ==
    CASE s.kind = "case" /\ s.arg = "" -> [layout EXCEPT !.unfolded = TRUE]
      [] s.kind = "case" /\ s.arg # "" ->
            [layout EXCEPT !.cases = Append(@, [place |-> place, value |-> s.arg])]
      [] s.kind = "default" ->
            [layout EXCEPT !.defaults = IF @ = <<>> THEN <<place>> ELSE @]
      [] OTHER -> layout

(* cc_collect_switch_layout goes everywhere but into inner switches.        *)
CollectFrom(layout, s, place, inner) ==
    LET collects(i) == IF IsExpression(s.kids[i]) THEN [l \in Layouts |-> l]
                       ELSE inner[s.kids[i]][Child(place, i)]
    IN  IF s.kind = "switch" THEN layout
        ELSE Through([i \in DOMAIN s.kids |-> collects(i)], Noted(layout, s, place))

CollectsOver(statements, inner) ==
    [s \in statements |-> [place \in Places |->
        [layout \in Layouts |-> CollectFrom(layout, s, place, inner)]]]

Collecting[n \in 0 .. Height] == CollectsOver(Statement[n], Collecting[n - 1])

Collected(body, place) == Collecting[Height][body][place][EmptyLayout]
-----------------------------------------------------------------------------
(* Lowering                                                                 *)

(* cc_codegen_statement for the i-th child: `inner` lowers every statement  *)
(* that is less high, at any place.                                         *)
LowerChild(ctx, node, place, i, inner) == inner[node.kids[i]][Child(place, i)][ctx]

(* cc_codegen_compound_statement.                                           *)
LowerCompound(ctx, node, place, inner) ==
    Through([i \in DOMAIN node.kids |-> inner[node.kids[i]][Child(place, i)]], ctx)

LowerIf(ctx, node, place, inner) ==
    LET n       == ctx.labelCounter
        hasElse == Len(node.kids) > 2
        then    == Fresh("if.then", n)
        merge   == Fresh("if.end", n + 1)
        else    == IF hasElse THEN Fresh("if.else", n + 2) ELSE merge
        test    == Emit(NewLabels(ctx, IF hasElse THEN 3 ELSE 2),
                        <<Eval(Child(place, 1)), CJump(Child(place, 1), then, else), Mark(then)>>)
        yes     == Emit(LowerChild(test, node, place, 2, inner), <<Jump(merge)>>)
        no      == Emit(LowerChild(Emit(yes, <<Mark(else)>>), node, place, 3, inner),
                        <<Jump(merge)>>)
    IN  Emit(IF hasElse THEN no ELSE yes, <<Mark(merge)>>)

LowerWhile(ctx, node, place, inner) ==
    LET n    == ctx.labelCounter
        cond == Fresh("while.cond", n)
        body == Fresh("while.body", n + 1)
        end  == Fresh("while.end", n + 2)
        head == Emit(PushControl(NewLabels(ctx, 3), end, cond),
                     <<Jump(cond), Mark(cond), Eval(Child(place, 1)),
                       CJump(Child(place, 1), body, end), Mark(body)>>)
    IN  PopControl(Emit(LowerChild(head, node, place, 2, inner),
                        <<Jump(cond), Mark(end)>>))

LowerDoWhile(ctx, node, place, inner) ==
    LET n    == ctx.labelCounter
        body == Fresh("do.body", n)
        cond == Fresh("do.cond", n + 1)
        end  == Fresh("do.end", n + 2)
        head == Emit(PushControl(NewLabels(ctx, 3), end, cond), <<Mark(body)>>)
    IN  PopControl(Emit(LowerChild(head, node, place, 1, inner),
                        <<Mark(cond), Eval(Child(place, 2)),
                          CJump(Child(place, 2), body, end), Mark(end)>>))

(* The children of a for statement before its body.                         *)
MiddleCount(node) == Len(node.kids) - 1

(* The second child is taken for the condition, the third for the           *)
(* iteration; the last child is the body.  The initial statement is lowered *)
(* before the labels are numbered.                                          *)
LowerFor(ctx, node, place, inner) ==
    LET init   == LowerChild(ctx, node, place, 1, inner)
        n      == init.labelCounter
        middle == MiddleCount(node)
        cond   == Fresh("for.cond", n)
        body   == Fresh("for.body", n + 1)
        iter   == Fresh("for.iter", n + 2)
        end    == Fresh("for.end", n + 3)
        head   == Emit(PushControl(NewLabels(init, 4), end, iter),
                       <<Jump(cond), Mark(cond)>> \o
                       (IF middle > 1
                        THEN <<Eval(Child(place, 2)), CJump(Child(place, 2), body, end)>>
                        ELSE <<Jump(body)>>) \o <<Mark(body)>>)
    IN  PopControl(Emit(LowerChild(head, node, place, Len(node.kids), inner),
                        <<Jump(iter), Mark(iter)>> \o
                        (IF middle > 2 THEN <<Eval(Child(place, 3))>> ELSE <<>>) \o
                        <<Jump(cond), Mark(end)>>))

(* The chain of comparisons that follows the body of a switch.  The check   *)
(* behind the i-th case is labelled n + i - 1.                              *)
Dispatch(cases, otherwise, value, n) ==
    LET check(i) == Fresh("switch.check", n + i - 1)
        compare(i) == JumpIfEqual(value, cases[i].value, CaseLabel(cases[i].place),
                                  IF i < Len(cases) THEN check(i) ELSE otherwise)
    IN  IF cases = <<>> THEN <<Jump(otherwise)>>
        ELSE [k \in 1 .. 2 * Len(cases) - 1 |->
                 IF k % 2 = 1 THEN compare((k + 1) \div 2) ELSE Mark(check(k \div 2))]

LowerSwitch(ctx, node, place, inner) ==
    LET n         == ctx.labelCounter
        value     == Child(place, 1)
        dispatch  == Fresh("switch.dispatch", n)
        end       == Fresh("switch.end", n + 1)
        layout    == Collected(node.kids[2], Child(place, 2))
        otherwise == IF layout.defaults = <<>> THEN end ELSE DefaultLabel(layout.defaults[1])
        head      == Emit(PushControl(NewLabels(ctx, 2), end, NoLabel),
                          <<Eval(value), Jump(dispatch)>>)
        body      == Emit(LowerChild(head, node, place, 2, inner),
                          <<Jump(end), Mark(dispatch)>>)
        checks    == IF layout.cases = <<>> THEN 0 ELSE Len(layout.cases) - 1
        whole     == PopControl(Emit(NewLabels(body, checks),
                         Dispatch(layout.cases, otherwise, value, body.labelCounter)
                         \o <<Mark(end)>>))
    IN  IF layout.unfolded THEN [whole EXCEPT !.reported = TRUE] ELSE whole

(* cc_codegen_statement.                                                    *)
LowerStatement(ctx, node, place, inner) ==
    CASE node.kind = "compound"   -> LowerCompound(ctx, node, place, inner)
      [] node.kind = "if"         -> LowerIf(ctx, node, place, inner)
      [] node.kind = "while"      -> LowerWhile(ctx, node, place, inner)
      [] node.kind = "do"         -> LowerDoWhile(ctx, node, place, inner)
      [] node.kind = "for"        -> LowerFor(ctx, node, place, inner)
      [] node.kind = "switch"     -> LowerSwitch(ctx, node, place, inner)
      [] node.kind = "case"       ->
            LowerChild(Emit(ctx, <<Mark(CaseLabel(place))>>), node, place, 1, inner)
      [] node.kind = "default"    ->
            LowerChild(Emit(ctx, <<Mark(DefaultLabel(place))>>), node, place, 1, inner)
      [] node.kind = "label"      ->
            LowerChild(Emit(ctx, <<Mark(UserLabel(node.arg))>>), node, place, 1, inner)
      [] node.kind = "goto"       -> Emit(ctx, <<Jump(UserLabel(node.arg))>>)
      [] node.kind = "break"      -> JumpOut(ctx, "break")
      [] node.kind = "continue"   -> JumpOut(ctx, "continue")
      [] node.kind = "return"     ->
            Emit(ctx, [i \in DOMAIN node.kids |-> Eval(Child(place, i))] \o <<Ret>>)
      [] node.kind = "expression" -> Emit(ctx, <<Eval(Child(place, 1))>>)
      [] node.kind = "empty"      -> ctx

LowersOver(statements, inner) ==
    [s \in statements |-> [place \in Places |->
        [ctx \in Generators |-> LowerStatement(ctx, s, place, inner)]]]

Lowering[n \in 0 .. Height] == LowersOver(Statement[n], Lowering[n - 1])

(* cc_codegen_function.                                                     *)
Lowered(body) == Emit(Lowering[Height][body][<<>>][EmptyCodegen], <<EndFunc>>)
-----------------------------------------------------------------------------
(* Execution                                                                *)

code == generator.code

(* Where execution goes on that goes nowhere.                               *)
Nowhere == Len(code) + 1

Targets(label) == {i \in DOMAIN code : code[i].op = "label" /\ code[i].to = label}

Target(label) == IF Targets(label) = {} THEN Nowhere ELSE CHOOSE i \in Targets(label) : TRUE

(* One instruction that evaluates nothing.  A jump on a value that is not   *)
(* the last one computed goes nowhere.                                      *)
NextPc(i, last) ==
    LET instruction == code[i]
        taken == IF instruction.op = "cjump" THEN last.value # "0"
                 ELSE last.value = instruction.value
    IN  CASE instruction.op = "label" -> i + 1
          [] instruction.op = "jump"  -> Target(instruction.to)
          [] instruction.op \in {"cjump", "cmp"} ->
                 IF last.place # instruction.place THEN Nowhere
                 ELSE IF taken THEN Target(instruction.to)
                 ELSE Target(instruction.else)

Stops(i) == i \notin DOMAIN code \/ code[i].op \in {"eval", "ret", "endfunc"}

Onward(i, last) == IF Stops(i) THEN i ELSE NextPc(i, last)

(* Up to the next evaluation, or the end.  Who has taken as many jumps as   *)
(* there are instructions jumps for ever.                                   *)
Run(i, last) ==
    LET after[k \in 0 .. Len(code)] == IF k = 0 THEN i ELSE Onward(after[k - 1], last)
        stop == after[Len(code)]
    IN  IF Stops(stop) THEN stop ELSE Nowhere

NoOperand == [place |-> <<>>, value |-> ""]

Init ==
    /\ program \in {p \in Programs : Accepted(p)}
    /\ generator = Lowered(program)
    /\ operand = NoOperand
    /\ pc = Run(1, NoOperand)

Evaluate(v) ==
    /\ pc \in DOMAIN code /\ code[pc].op = "eval"
    /\ operand' = [place |-> code[pc].place, value |-> v]
    /\ pc' = Run(pc + 1, operand')
    /\ UNCHANGED <<program, generator>>

Next == \E v \in Values : Evaluate(v)

Spec == Init /\ [][Next]_vars
-----------------------------------------------------------------------------
(* Properties                                                               *)

(* What is evaluated is an expression of the source.                        *)
TypeOK ==
    /\ generator \in Generators
    /\ pc \in 1 .. Nowhere
    /\ operand # NoOperand =>
          At(program, operand.place).kind = "expr" /\ operand.value \in Values

(* Whatever semantic analysis accepts, the code generator lowers: it meets  *)
(* no break or continue without a target, and its stack of targets is empty *)
(* again when the function is done.                                         *)
AcceptedIsLowered == ~ generator.reported /\ generator.control = <<>>

(* Semantic analysis lets a function that returns a value pass only if it   *)
(* cannot reach its end: a body it says always returns never executes the   *)
(* end of the function.                                                     *)
ReturningBodiesNeverEnd ==
    pc \in DOMAIN code /\ code[pc].op = "endfunc" => ~ ReturnsAlways(program)
=============================================================================
