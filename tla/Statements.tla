----------------------------- MODULE Statements -----------------------------
(***************************************************************************)
(* Statement trees, as parser.c builds them: what the statement rules of   *)
(* sema.c and the code generator walk.                                     *)
(*                                                                         *)
(* Expressions are leaves of kind "expr"; their arg is the part they play  *)
(* in a for statement, whose missing condition and iteration the parser    *)
(* simply leaves out of the children.  A case keeps in arg what its label  *)
(* folds to, "" when it is not a constant.                                 *)
(***************************************************************************)
EXTENDS Integers, Sequences, FiniteSets

CONSTANTS
    Height,     \* of the highest statement tree
    Words       \* names of labels, and constants of cases

ASSUME HeightAssumption == Height \in Nat

Node(kind, arg, kids) == [kind |-> kind, arg |-> arg, kids |-> kids]

Expr(part) == Node("expr", part, <<>>)

Compound(statements)     == Node("compound", "", statements)
ExpressionStatement      == Node("expression", "", <<Expr("")>>)
Empty                    == Node("empty", "", <<>>)
If(then)                 == Node("if", "", <<Expr(""), then>>)
IfElse(then, else)       == Node("if", "", <<Expr(""), then, else>>)
While(body)              == Node("while", "", <<Expr(""), body>>)
DoWhile(body)            == Node("do", "", <<body, Expr("")>>)
Switch(body)             == Node("switch", "", <<Expr(""), body>>)
Case(value, statement)   == Node("case", value, <<statement>>)
Default(statement)       == Node("default", "", <<statement>>)
Label(name, statement)   == Node("label", name, <<statement>>)
Goto(name)               == Node("goto", name, <<>>)
Break                    == Node("break", "", <<>>)
Continue                 == Node("continue", "", <<>>)
Return                   == Node("return", "", <<>>)
ReturnValue              == Node("return", "", <<Expr("")>>)

(* cc_parse_statement on `for`: an initial statement is always there (an    *)
(* empty one stands for a missing one), the parts that are given follow.    *)
For(init, parts, body) ==
    LET given == SelectSeq(<<"condition", "iteration">>, LAMBDA p : p \in parts)
    IN  Node("for", "", <<init>> \o [i \in DOMAIN given |-> Expr(given[i])] \o <<body>>)

-----------------------------------------------------------------------------
Kinds ==
    {"compound", "expression", "empty", "if", "while", "do", "for", "switch", "case",
     "default", "label", "goto", "break", "continue", "return"}

Args == Words \union {""}

IsExpression(node) == node.kind = "expr"

Expressions == [kind : {"expr"}, arg : {"", "condition", "iteration"}, kids : {<<>>}]

(* How many children a statement has, and which of them are expressions.    *)
Shaped(s) ==
    LET n == Len(s.kids)
        expressions == {i \in DOMAIN s.kids : IsExpression(s.kids[i])}
    IN  CASE s.kind = "compound" -> expressions = {}
          [] s.kind = "if" -> n \in {2, 3} /\ expressions = {1}
          [] s.kind \in {"while", "switch"} -> n = 2 /\ expressions = {1}
          [] s.kind = "do" -> n = 2 /\ expressions = {2}
          [] s.kind = "for" -> /\ n \in 2 .. 4 /\ expressions = 2 .. n - 1
                               /\ s.kids[1].kind \in {"expression", "empty"}
          [] s.kind \in {"case", "default", "label"} -> n = 1 /\ expressions = {}
          [] s.kind = "expression" -> n = 1 /\ expressions = {1}
          [] s.kind = "return" -> n \in {0, 1} /\ expressions = 1 .. n
          [] s.kind \in {"empty", "goto", "break", "continue"} -> n = 0

StatementsOver(statements) ==
    {s \in [kind : Kinds, arg : Args, kids : Seq(statements \union Expressions)] : Shaped(s)}

(* The statements that parse_statement can build, by their height.          *)
Statement[n \in 0 .. Height] == IF n = 0 THEN {} ELSE StatementsOver(Statement[n - 1])

-----------------------------------------------------------------------------
(* A place in a tree is the sequence of child numbers that leads to it.     *)
Places == Seq(Nat)

At(tree, path) ==
    LET down[i \in 0 .. Len(path)] == IF i = 0 THEN tree ELSE down[i - 1].kids[path[i]]
    IN  down[Len(path)]

Child(path, i) == Append(path, i)

-----------------------------------------------------------------------------
(* A walk over a statement takes a context to another.  This one walks the  *)
(* children one after the other, each with a walk of its own.               *)
Through(walks, ctx) ==
    LET after[i \in 0 .. Len(walks)] == IF i = 0 THEN ctx ELSE walks[i][after[i - 1]]
    IN  after[Len(walks)]
=============================================================================
