------------------------------ MODULE MCCodegen ------------------------------
(***************************************************************************)
(* Function bodies for the code generator: every construct around every    *)
(* construct, with jumps, case labels and a goto target in every place     *)
(* they can stand in.  Bodies the statement rules reject are filtered by   *)
(* Init.  The code implements the source, whose semantics is another       *)
(* module's.                                                               *)
(***************************************************************************)
EXTENDS Codegen

MCHeight == 9

MCWords == {"L", "1", "2", "1.0"}

MCMistyped == {"1.0"}

MCValues == {"0", "1", "2"}

Leaves ==
    {ExpressionStatement, Break, Continue, ReturnValue, Goto("L"),
     Case("1", ExpressionStatement), Case("1.0", Break), Case("", ExpressionStatement),
     Default(Break)}

ForParts == {{}, {"condition"}, {"condition", "iteration"}}

Braced(s, t) == Compound(<<s, t>>)

(* Statements made of one or of two others.                                 *)
Around1(S, parts) ==
    UNION {{If(s), While(s), DoWhile(s), Switch(s), Label("L", s), Case("2", s)} \union
           {For(init, p, s) : init \in {Empty, ExpressionStatement}, p \in parts}
           : s \in S}

Around2(S, T) ==
    UNION {{IfElse(s, t), Braced(s, t), Switch(Braced(Case("1", s), Default(t))),
            Switch(Braced(Default(s), Case("2", t)))} : s \in S, t \in T}

Simple == Around1(Leaves, ForParts) \union Around2(Leaves, Leaves)

Nested ==
    Leaves \union Simple \union Around1(Simple, {{"condition", "iteration"}})
           \union Around2(Simple, {ExpressionStatement})
           \union Around2({ExpressionStatement}, Simple)
           \union {While(Braced(s, ExpressionStatement)) : s \in Simple}

Tails == {Label("L", ReturnValue), ReturnValue, ExpressionStatement}

Bodies(S) == {Braced(s, t) : s \in S, t \in Tails} \union {Compound(<<s>>) : s \in S}

NestedBodies == Bodies(Nested)
-----------------------------------------------------------------------------
(* The code does what the source says: it evaluates the expressions of the  *)
(* function in the order C gives them, for all values they may have, and    *)
(* returns, ends or diverges when the source does.                          *)
PositionOf(i) ==
    IF i \notin DOMAIN code
    THEN [where |-> "diverged", path |-> <<>>]
    ELSE CASE code[i].op = "eval"    -> [where |-> "evaluating", path |-> code[i].place]
           [] code[i].op = "ret"     -> [where |-> "returned", path |-> <<>>]
           [] code[i].op = "endfunc" -> [where |-> "ended", path |-> <<>>]

Source == INSTANCE SourceSemantics WITH position <- PositionOf(pc)

ImplementsSource == Source!Spec
=============================================================================
