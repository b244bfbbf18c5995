------------------------- MODULE ExpressionLowering -------------------------
(***************************************************************************)
(* The code generator's lowering of expressions, once semantic analysis    *)
(* has accepted them, and the execution of the code it emits.              *)
(*                                                                         *)
(* An expression is a tree; what it is lowered to is code and the text     *)
(* that stands for its value in the code behind it: a constant, a name, a  *)
(* temporary or, after an assignment, the place that was assigned.  That   *)
(* a text is read only where it is used, not where it was made, is what    *)
(* makes the order of the code matter.                                     *)
(***************************************************************************)
EXTENDS ExpressionTypes, TLC

LOCAL INSTANCE SequencesExt

CONSTANT
    Memory         \* what the variables hold before: scalars by their paths

VARIABLES
    command,   \* "check" or "codegen"
    code,      \* CCCodegenContext: output
    value,     \* the text of the expression's value
    pc,
    memory     \* scalars by path, temporaries among them

vars == <<command, expression, checked, analysis, code, value, pc, memory>>

-----------------------------------------------------------------------------
(* Memory: scalars by their paths, such as <<"x">>, <<"s", "n">> or, of     *)
(* elements of an array, <<"cells", 1>>.                                    *)
Number(n) == <<"int", n>>
Pointer(path) == <<"pointer", path>>
Garbage == <<"garbage">>

Truth(b) == IF b THEN 1 ELSE 0

NumberOf(v) == IF v[1] = "int" THEN v[2] ELSE 0
TargetOf(v) == IF v[1] = "pointer" THEN v[2] ELSE <<"nowhere">>

(* The element n further on.                                                *)
Moved(path, n) ==
    IF path[1] = "cells" THEN [path EXCEPT ![2] = @ + n] ELSE IF n = 0 THEN path ELSE <<"nowhere">>

(* A value is a scalar, at <<>>, or a structure's scalars by their paths.   *)
Scalar(v) == IF <<>> \in DOMAIN v THEN v[<<>>] ELSE Garbage

Stored(cells, path) ==
    LET inside == {c \in DOMAIN cells : IsPrefix(path, c)}
    IN  [rest \in {SubSeq(c, Len(path) + 1, Len(c)) : c \in inside} |-> cells[path \o rest]]

(* What is read there, were there nothing.                                  *)
Found(cells, path) == IF Stored(cells, path) = << >> THEN <<>> :> Garbage ELSE Stored(cells, path)

Store(cells, path, v) == [c \in {path \o rest : rest \in DOMAIN v} |-> v[SubSeq(c, Len(path) + 1, Len(c))]] @@ cells

IsTrue(v) == v \notin {Number(0), Garbage}

(* The one function there is notes its argument and returns another.        *)
Noted(cells, n) == Store(cells, <<"log">>, <<>> :> Number(3 * NumberOf(cells[<<"log">>]) + n))
Answer(n) == Number(n + 1)

-----------------------------------------------------------------------------
(* Texts and instructions.                                                  *)
Constant(n) == [form |-> "constant", name |-> "", number |-> n, parts |-> <<>>]
Name(name) == [form |-> "name", name |-> name, number |-> 0, parts |-> <<>>]
Temp(n) == [form |-> "temp", name |-> "", number |-> n, parts |-> <<>>]
Place(form, name, parts) == [form |-> form, name |-> name, number |-> 0, parts |-> parts]

Instruction(op, opcode, to, from, labels) ==
    [op |-> op, opcode |-> opcode, to |-> to, from |-> from, labels |-> labels]

Copy(to, from) == Instruction("copy", "", to, <<from>>, <<>>)
Compute(to, opcode, from) == Instruction("compute", opcode, to, from, <<>>)
Load(to, from) == Instruction("load", "", to, <<from>>, <<>>)
Address(to, place) == Instruction("addr", "", to, <<place>>, <<>>)
CallTo(to, callee, from) == Instruction("call", callee, to, from, <<>>)
Branch(on, labels) == Instruction("cjump", "", Constant(0), <<on>>, labels)
Jump(label) == Instruction("jump", "", Constant(0), <<>>, <<label>>)
Label(label) == Instruction("label", "", Constant(0), <<>>, <<label>>)

-----------------------------------------------------------------------------
(* The operators' names in the code, and what those come to that the       *)
(* expressions here use.                                                    *)
BinaryOpcode ==
    "+" :> "add" @@ "-" :> "sub" @@ "*" :> "mul" @@ "/" :> "div" @@ "%" :> "mod"
    @@ "<<" :> "shl" @@ ">>" :> "shr" @@ "&" :> "bitand" @@ "|" :> "bitor" @@ "^" :> "bitxor"
    @@ "&&" :> "and" @@ "||" :> "or" @@ "==" :> "eq" @@ "!=" :> "ne"
    @@ "<" :> "lt" @@ "<=" :> "le" @@ ">" :> "gt" @@ ">=" :> "ge"

CompoundOpcode ==
    "+=" :> "add" @@ "-=" :> "sub" @@ "*=" :> "mul" @@ "/=" :> "div" @@ "%=" :> "mod"
    @@ "<<=" :> "shl" @@ ">>=" :> "shr" @@ "&=" :> "bitand" @@ "|=" :> "bitor" @@ "^=" :> "bitxor"

UnaryOpcode ==
    "bang" :> "not" @@ "minus" :> "neg" @@ "tilde" :> "bitnot" @@ "plus" :> "identity"
    @@ "kw_sizeof" :> "kw_sizeof" @@ "kw__Alignof" :> "kw__Alignof"

Apply(opcode, v) ==
    CASE opcode = "add" -> v[1] + v[2]
      [] opcode = "sub" -> v[1] - v[2]
      [] opcode = "mul" -> v[1] * v[2]
      [] opcode = "eq" -> Truth(v[1] = v[2])
      [] opcode = "lt" -> Truth(v[1] < v[2])
      [] opcode = "and" -> Truth(v[1] # 0 /\ v[2] # 0)
      [] opcode = "or" -> Truth(v[1] # 0 \/ v[2] # 0)
      [] opcode = "not" -> Truth(v[1] = 0)
      [] opcode = "neg" -> -v[1]
      [] opcode = "bitnot" -> -v[1] - 1
      [] opcode = "identity" -> v[1]
      [] opcode \in {"kw_sizeof", "kw__Alignof"} -> 4

(* The values it has as a constant: one or none.                            *)
RECURSIVE Folded(_)
Folded(e) ==
    LET kid(i) == Folded(e.kids[i])
    IN  CASE e.kind = "literal" -> {e.number}
          [] e.kind = "unary" /\ e.text \in {"bang", "minus", "tilde", "plus"} ->
                 {Apply(UnaryOpcode[e.text], <<v>>) : v \in kid(1)}
          [] e.kind = "binary" /\ e.text \in DOMAIN BinaryOpcode ->
                 {Apply(BinaryOpcode[e.text], <<v, w>>) : v \in kid(1), w \in kid(2)}
          [] e.kind = "binary" /\ e.text = "," -> IF kid(1) = {} THEN {} ELSE kid(2)
          [] e.kind = "conditional" -> UNION {kid(IF v # 0 THEN 2 ELSE 3) : v \in kid(1)}
          [] e.kind = "cast" -> kid(2)
          [] OTHER -> {}

-----------------------------------------------------------------------------
(* The generator's context: the code, the counters of temporaries and of    *)
(* labels, whether something could not be lowered, and the text of the      *)
(* expression lowered last.                                                 *)
Empty == [code |-> <<>>, temps |-> 0, labels |-> 0, reported |-> FALSE, value |-> Constant(0)]

Emit(ctx, instructions, text) == [ctx EXCEPT !.code = @ \o instructions, !.value = text]

NewTemp(ctx) == Temp(ctx.temps)
Counted(ctx) == [ctx EXCEPT !.temps = @ + 1]

(* An instruction that sets a new temporary.                                *)
EmitTo(ctx, Setting(_)) == Emit(Counted(ctx), <<Setting(NewTemp(ctx))>>, NewTemp(ctx))

RECURSIVE Lower(_, _), LowerPlace(_, _), LowerAll(_, _, _, _)

(* cc_codegen_place_expression.                                             *)
LowerPlace(ctx, e) ==
    CASE e.kind = "identifier" -> [ctx EXCEPT !.value = Name(e.text)]
      [] e.kind = "subscript" ->
             LET base == Lower(ctx, e.kids[1])
                 index == Lower(base, e.kids[2])
             IN  [index EXCEPT !.value = Place("index", "", <<base.value, @>>)]
      [] e.kind = "member" ->
             LET base == Lower(ctx, e.kids[1])
             IN  [base EXCEPT !.value = Place(e.text, e.kids[2].text, <<@>>)]
      [] e.kind = "unary" /\ e.text = "star" ->
             LET pointer == Lower(ctx, e.kids[1])
             IN  [pointer EXCEPT !.value = Place("deref", "", <<@>>)]
      [] OTHER -> [ctx EXCEPT !.reported = TRUE]

(* ++, --: the place's text is the value, or a copy taken before.           *)
LowerStep(ctx, e) ==
    LET place == LowerPlace(ctx, e.kids[1])
        opcode == IF e.text \in {"decrement", "post--"} THEN "sub" ELSE "add"
        step == Compute(place.value, opcode, <<place.value, Constant(1)>>)
        temp == NewTemp(place)
    IN  IF e.text \in {"post++", "post--"}
        THEN Emit(Counted(place), <<Copy(temp, place.value), step>>, temp)
        ELSE Emit(place, <<step>>, place.value)

(* The operand of & is lowered for its value as well as for its place.      *)
LowerAddress(ctx, e) ==
    LET operand == Lower(ctx, e.kids[1])
        place == LowerPlace(Counted(operand), e.kids[1])
    IN  Emit(place, <<Address(NewTemp(operand), place.value)>>, NewTemp(operand))

LowerUnary(ctx, e) ==
    LET operand == Lower(ctx, e.kids[1])
        setting(t) == IF e.text = "star" THEN Load(t, operand.value)
                      ELSE Compute(t, UnaryOpcode[e.text], <<operand.value>>)
    IN  EmitTo(operand, setting)

(* Faulty: x += y is lowered as x = x + y, the place twice.                 *)
LowerAssignmentTwice(ctx, e) ==
    LET old == LowerPlace(ctx, e.kids[1])
        right == Lower(old, e.kids[2])
        place == LowerPlace(Counted(right), e.kids[1])
        temp == NewTemp(right)
    IN  IF e.text = "=" THEN Emit(right, <<Copy(old.value, right.value)>>, old.value)
        ELSE Emit(place,
                  <<Compute(temp, CompoundOpcode[e.text], <<old.value, right.value>>), Copy(place.value, temp)>>,
                  temp)

LowerAssignment(ctx, e) ==
    LET place == LowerPlace(ctx, e.kids[1])
        right == Lower(place, e.kids[2])
        temp == NewTemp(right)
    IN  IF e.text = "=" THEN Emit(right, <<Copy(place.value, right.value)>>, place.value)
        ELSE Emit(Counted(right),
                  <<Compute(temp, CompoundOpcode[e.text], <<place.value, right.value>>), Copy(place.value, temp)>>,
                  temp)

(* && and || are operators like the others.                                 *)
LowerBinary(ctx, e) ==
    LET left == Lower(ctx, e.kids[1])
        right == Lower(left, e.kids[2])
        setting(t) == Compute(t, BinaryOpcode[e.text], <<left.value, right.value>>)
    IN  IF e.text = "," THEN right ELSE EmitTo(right, setting)

(* Faulty: the value of the third operand is not copied.                    *)
LowerConditionalHalf(ctx, e) ==
    LET condition == Lower(ctx, e.kids[1])
        n == condition.labels
        result == NewTemp(condition)
        test == Emit([Counted(condition) EXCEPT !.labels = n + 3],
                     <<Branch(condition.value, <<n, n + 1>>), Label(n)>>, result)
        then == Lower(test, e.kids[2])
        first == Emit(then, <<Copy(result, then.value), Jump(n + 2), Label(n + 1)>>, result)
        else == Lower(first, e.kids[3])
    IN  Emit(else, <<Jump(n + 2), Label(n + 2)>>, result)

LowerConditional(ctx, e) ==
    LET condition == Lower(ctx, e.kids[1])
        n == condition.labels
        result == NewTemp(condition)
        test == Emit([Counted(condition) EXCEPT !.labels = n + 3],
                     <<Branch(condition.value, <<n, n + 1>>), Label(n)>>, result)
        then == Lower(test, e.kids[2])
        first == Emit(then, <<Copy(result, then.value), Jump(n + 2), Label(n + 1)>>, result)
        else == Lower(first, e.kids[3])
    IN  Emit(else, <<Copy(result, else.value), Jump(n + 2), Label(n + 2)>>, result)

(* The texts of the arguments from the i-th on, in value.                   *)
LowerAll(ctx, kids, i, texts) ==
    IF i > Len(kids) THEN [ctx EXCEPT !.value = texts]
    ELSE LET argument == Lower(ctx, kids[i])
         IN  LowerAll(argument, kids, i + 1, Append(texts, argument.value))

LowerCall(ctx, e) ==
    LET callee == Lower(ctx, e.kids[1])
        arguments == LowerAll(callee, Tail(e.kids), 1, <<>>)
        setting(t) == CallTo(t, callee.value.name, arguments.value)
    IN  EmitTo(arguments, setting)

LowerCast(ctx, e) ==
    LET operand == Lower(ctx, e.kids[2])
        setting(t) == Compute(t, "cast", <<operand.value>>)
    IN  EmitTo(operand, setting)

LowerLoad(ctx, e) ==
    LET place == LowerPlace(ctx, e)
        setting(t) == Load(t, place.value)
    IN  EmitTo(place, setting)

(* cc_codegen_expression.  A type name, as the operand of sizeof, is none.   *)
Lower(ctx, e) ==
    IF Folded(e) # {} THEN [ctx EXCEPT !.value = Constant(CHOOSE v \in Folded(e) : TRUE)]
    ELSE CASE e.kind = "identifier" -> LowerPlace(ctx, e)
           [] e.kind = "unary" /\ e.text \in Steps -> LowerStep(ctx, e)
           [] e.kind = "unary" /\ e.text = "ampersand" -> LowerAddress(ctx, e)
           [] e.kind = "unary" /\ e.text \in {"star"} \union DOMAIN UnaryOpcode -> LowerUnary(ctx, e)
           [] e.kind = "binary" /\ e.text \in {"="} \union DOMAIN CompoundOpcode -> LowerAssignment(ctx, e)
           [] e.kind = "binary" /\ e.text \in {","} \union DOMAIN BinaryOpcode -> LowerBinary(ctx, e)
           [] e.kind = "conditional" -> LowerConditional(ctx, e)
           [] e.kind = "call" -> LowerCall(ctx, e)
           [] e.kind \in {"subscript", "member"} -> LowerLoad(ctx, e)
           [] e.kind = "cast" -> LowerCast(ctx, e)
           [] e.kind = "type" -> [ctx EXCEPT !.reported = TRUE]

-----------------------------------------------------------------------------
(* Execution: where a text is in memory, and what it stands for.           *)
RECURSIVE Where(_, _), Read(_, _)
Where(cells, t) ==
    CASE t.form = "name" -> <<t.name>>
      [] t.form = "temp" -> <<"temp", t.number>>
      [] t.form = "index" ->
             LET base == Scalar(Read(cells, t.parts[1]))
             IN  Moved(TargetOf(base), NumberOf(Scalar(Read(cells, t.parts[2]))))
      [] t.form = "." -> Append(Where(cells, t.parts[1]), t.name)
      [] t.form = "->" -> Append(TargetOf(Scalar(Read(cells, t.parts[1]))), t.name)
      [] t.form = "deref" -> TargetOf(Scalar(Read(cells, t.parts[1])))

Read(cells, t) ==
    IF t.form = "constant" THEN <<>> :> Number(t.number) ELSE Found(cells, Where(cells, t))

(* Pointers move by +, - and ++; all else is of numbers.                    *)
Computed(opcode, v) ==
    CASE opcode \in {"add", "sub"} /\ v[1][1] = "pointer" ->
             Pointer(Moved(v[1][2], Apply(opcode, <<0, NumberOf(v[2])>>)))
      [] opcode = "cast" -> v[1]
      [] opcode = "eq" /\ v[1][1] = "pointer" -> Number(Truth(v[1] = v[2]))
      [] OTHER -> Number(Apply(opcode, [i \in DOMAIN v |-> NumberOf(v[i])]))

Effect(cells, i) ==
    LET read(k) == Scalar(Read(cells, i.from[k]))
        set(v) == Store(cells, Where(cells, i.to), v)
    IN  CASE i.op = "copy" -> set(Read(cells, i.from[1]))
          [] i.op = "compute" -> set(<<>> :> Computed(i.opcode, [k \in DOMAIN i.from |-> read(k)]))
          [] i.op = "addr" -> set(<<>> :> Pointer(Where(cells, i.from[1])))
          [] i.op = "load" /\ i.from[1].form \in {"index", ".", "->"} -> set(Read(cells, i.from[1]))
          [] i.op = "load" /\ i.from[1].form \notin {"index", ".", "->"} ->
                 set(Found(cells, TargetOf(read(1))))
          [] i.op = "call" ->
                 Store(Noted(cells, NumberOf(read(1))), Where(cells, i.to), <<>> :> Answer(NumberOf(read(1))))
          [] OTHER -> cells

LabelAt(label) == CHOOSE n \in DOMAIN code : code[n] = Label(label)

Target(i, cells) ==
    CASE i.op = "jump" -> LabelAt(i.labels[1])
      [] i.op = "cjump" -> LabelAt(i.labels[IF IsTrue(Scalar(Read(cells, i.from[1]))) THEN 1 ELSE 2])
      [] OTHER -> pc + 1

-----------------------------------------------------------------------------
Init ==
    /\ \/ command = "codegen" /\ expression \in Expressions
       \/ command = "check" /\ expression \in Analysed
    /\ Unchecked
    /\ code = <<>>
    /\ value = Constant(0)
    /\ pc = 0
    /\ memory = Memory

Check ==
    /\ CheckTypes
    /\ UNCHANGED <<command, code, value, pc, memory>>

(* Code is generated if no error was reported, unless something in it       *)
(* cannot be lowered.                                                       *)
Generate ==
    /\ pc = 0
    /\ IsAccepted
    /\ command = "codegen"
    /\ LET ctx == Lower(Empty, expression)
       IN  ~ctx.reported /\ code' = ctx.code /\ value' = ctx.value
    /\ pc' = 1
    /\ UNCHANGED <<command, expression, checked, analysis, memory>>

Execute ==
    /\ pc \in DOMAIN code
    /\ memory' = Effect(memory, code[pc])
    /\ pc' = Target(code[pc], memory)
    /\ UNCHANGED <<command, expression, checked, analysis, code, value>>

Next == Check \/ Generate \/ Execute

Spec == Init /\ [][Next]_vars

=============================================================================
