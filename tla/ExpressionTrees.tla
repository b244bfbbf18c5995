-------------------------- MODULE ExpressionTrees --------------------------
(***************************************************************************)
(* Expressions as trees, and their types.                                  *)
(***************************************************************************)
EXTENDS Integers, Sequences

(* The declarations around an expression.                                   *)
CONSTANTS
    Symbols,     \* by name: a kind, "object", "function" or "typedef", and a type
    Fields,      \* by the tag of a complete structure: its fields' types by name
    TypeNames,   \* by the text of a type name: the type
    Declared,    \* the types the declarations speak of
    Height       \* of the highest expression

ASSUME HeightAssumption == Height \in Nat

Node(kind, text, kids) == [kind |-> kind, text |-> text, number |-> 0, kids |-> kids]
Literal(n) == [kind |-> "literal", text |-> "", number |-> n, kids |-> <<>>]

-----------------------------------------------------------------------------
(* Types.  A pointer's base is one type, a function's base its result.      *)
Type(kind, base) == [kind |-> kind, base |-> base, parameters |-> <<>>, variadic |-> FALSE, tag |-> ""]

Basic(kind) == Type(kind, <<>>)
PointerTo(t) == Type("pointer", <<t>>)
FunctionOf(result, parameters, variadic) ==
    [Type("function", <<result>>) EXCEPT !.parameters = parameters, !.variadic = variadic]
RecordOf(tag) == [Type("record", <<>>) EXCEPT !.tag = tag]

Base(t) == t.base[1]

IsInteger(t) == t.kind \in {"bool", "char", "int", "long"}
IsFloating(t) == t.kind \in {"float", "double"}
IsNumeric(t) == IsInteger(t) \/ IsFloating(t)
IsPointer(t) == t.kind = "pointer"
IsVoid(t) == t.kind = "void"
IsScalar(t) == IsNumeric(t) \/ IsPointer(t)

(* cc_type_is_complete_object.                                              *)
IsComplete(t) ==
    /\ t.kind \notin {"invalid", "void", "function"}
    /\ t.kind = "record" => t.tag \in DOMAIN Fields

(* Declarations in which nothing was wrong: no type is invalid, and with a  *)
(* type the types are declared that it is made of.                          *)
ASSUME DeclaredAssumption ==
    /\ \A t \in Declared :
           /\ t.kind \in {"void", "bool", "char", "int", "long", "float", "double",
                         "pointer", "function", "record"}
           /\ t.kind \in {"pointer", "function"} => Base(t) \in Declared
           /\ t.kind = "function" =>
                  Len(t.parameters) \in Nat
                  /\ \A i \in 1 .. Len(t.parameters) : t.parameters[i] \in Declared
    /\ \A name \in DOMAIN Symbols :
           /\ Symbols[name].kind \in {"object", "function", "typedef"}
           /\ Symbols[name].type \in Declared
           /\ Symbols[name].kind = "function" => Symbols[name].type.kind = "function"
    /\ \A tag \in DOMAIN Fields : \A name \in DOMAIN Fields[tag] : Fields[tag][name] \in Declared
    /\ \A text \in DOMAIN TypeNames : TypeNames[text] \in Declared

-----------------------------------------------------------------------------
(* The trees the parser builds.                                             *)
Assignments == {"=", "+=", "-=", "*=", "/=", "%=", "<<=", ">>=", "&=", "^=", "|="}
Comparisons == {"<", "<=", ">", ">=", "==", "!="}
BitOperators == {"&", "|", "^", "<<", ">>", "%"}
BinaryOperators ==
    Assignments \union Comparisons \union BitOperators \union {"&&", "||", ",", "+", "-", "*", "/"}

Steps == {"increment", "decrement", "post++", "post--"}
Sizes == {"kw_sizeof", "kw__Alignof"}
UnaryOperators ==
    Steps \union Sizes \union {"ampersand", "star", "bang", "tilde", "plus", "minus"}

UsedAs == {"condition", "selector", "returned", "initializer"}

NodeKinds ==
    {"identifier", "literal", "type", "unary", "binary", "conditional", "call", "subscript",
     "member", "cast", "use"}

(* How many children a node has, and which of them are type names.  A use,  *)
(* what a statement makes of an expression, is no part of one.              *)
Shaped(e) ==
    LET n == Len(e.kids)
        types == {i \in 1 .. n : e.kids[i].kind = "type"}
    IN  /\ \A i \in 1 .. n : e.kids[i].kind # "use"
        /\ CASE e.kind \in {"identifier", "literal"} -> n = 0
             [] e.kind = "type" -> n = 0 /\ e.text \in DOMAIN TypeNames
             [] e.kind = "unary" -> n = 1 /\ e.text \in UnaryOperators
                                    /\ (e.text \in Sizes \/ types = {})
             [] e.kind = "binary" -> n = 2 /\ e.text \in BinaryOperators /\ types = {}
             [] e.kind = "conditional" -> n = 3 /\ types = {}
             [] e.kind = "call" -> n >= 1 /\ types = {}
             [] e.kind = "subscript" -> n = 2 /\ types = {}
             [] e.kind = "member" -> n = 2 /\ e.text \in {".", "->"} /\ types = {}
             [] e.kind = "cast" -> n = 2 /\ types = {1}
             [] e.kind = "use" -> n = 2 /\ types = {1} /\ e.text \in UsedAs

ExpressionsOver(trees) ==
    {e \in [kind : NodeKinds, text : STRING, number : Int, kids : Seq(trees)] : Shaped(e)}

(* The trees by their height.                                               *)
Expression[n \in 0 .. Height] == IF n = 0 THEN {} ELSE ExpressionsOver(Expression[n - 1])

=============================================================================
