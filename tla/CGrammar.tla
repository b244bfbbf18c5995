------------------------------ MODULE CGrammar ------------------------------
(***************************************************************************)
(* The language the parser is for, as productions: C's grammar of          *)
(* expressions, statements and declarations, with what this parser adds    *)
(* and leaves out (marked below).                                          *)
(*                                                                         *)
(* A phrase is a text with the nodes of its tree, a node after its         *)
(* children, and how deeply it nests: the number of brackets, unary        *)
(* operators, casts, right sides and else operands around one another.     *)
(*                                                                         *)
(* The productions share nothing with the parser; at the end of the module *)
(* stand the properties that compare the two.                              *)
(***************************************************************************)
EXTENDS Parser

CONSTANTS Names, TypeNames, Numbers

ASSUME GrammarOfTheseTokens ==
    Names \union TypeNames = Identifiers /\ Numbers = Literals

Production(of, body, nodes) == [of |-> of, body |-> body, nodes |-> nodes, inner |-> 0, opens |-> <<>>]

(* The part at the position inner is nested one level deeper.               *)
Nesting(of, body, nodes, inner) == [Production(of, body, nodes) EXCEPT !.inner = inner]

(* A node of any number of children has a node in front of them too.        *)
Opening(of, body, opens, nodes) == [Production(of, body, nodes) EXCEPT !.opens = opens]

Leaves(of, tokens) == {Production(of, <<t>>, <<<<"leaf", t>>>>) : t \in tokens}

Binary(of, operators, below) ==
    {Production(of, <<below>>, <<>>)}
    \union {Production(of, <<of, o, below>>, <<<<"binary", o>>>>) : o \in operators}

(* In C a cast may follow any of these operators but ++ and --, and in      *)
(* `sizeof (x)[0]` the subscript belongs to the operand.                    *)
Unary ==
    {Production("Unary", <<"Postfix">>, <<>>)}
    \union {Nesting("Unary", <<o, "Unary">>, <<<<"unary", o>>>>, 2)
               : o \in {"++", "--", "&", "*", "+", "-", "!", "~"}}
    \union {
        Nesting("Unary", <<"sizeof", "(", "Inner", ")">>, <<<<"unary", "sizeof">>>>, 3),
        Nesting("Unary", <<"sizeof", "BareUnary">>, <<<<"unary", "sizeof">>>>, 2),
        Production("Unary", <<"sizeof", "(", "TypeName", ")">>, <<<<"unary", "sizeof">>>>)}

(* A typedef name is taken for an operand, as a variable of that name could *)
(* hide it, but a parenthesis with one begins a cast where one can stand.   *)
Expressions ==
    Leaves("Name", Names \union TypeNames)
    \union Leaves("Primary", Numbers)
    \union {
        Production("Primary", <<"Name">>, <<>>),
        Nesting("Primary", <<"(", "Expression", ")">>, <<>>, 2),
        Production("Postfix", <<"Primary">>, <<>>),
        Nesting("Postfix", <<"Postfix", "[", "Expression", "]">>, <<<<"subscript", "[]">>>>, 3),
        Production("Postfix", <<"Postfix", "CallOpens", ")">>, <<<<"call", ")">>>>),
        Nesting("Postfix", <<"Postfix", "CallOpens", "Arguments", ")">>, <<<<"call", ")">>>>, 3),
        Production("Arguments", <<"Assignment">>, <<>>),
        Production("Arguments", <<"Arguments", ",", "Assignment">>, <<>>)}
    \union {Production("Postfix", <<"Postfix", o, "Name">>, <<<<"member", o>>>>) : o \in {".", "->"}}
    \union {Production("Postfix", <<"Postfix", o>>, <<<<"post", o>>>>) : o \in {"++", "--"}}
    \union Unary
    \union {
        Production("Cast", <<"Unary">>, <<>>),
        Nesting("Cast", <<"(", "TypeName", ")", "Cast">>, <<<<"cast", "()">>>>, 4)}
    \union Binary("Multiplicative", {"*", "/", "%"}, "Cast")
    \union Binary("Additive", {"+", "-"}, "Multiplicative")
    \union Binary("Shift", {"<<", ">>"}, "Additive")
    \union Binary("Relational", {"<", "<=", ">", ">="}, "Shift")
    \union Binary("Equality", {"==", "!="}, "Relational")
    \union Binary("And", {"&"}, "Equality")
    \union Binary("ExclusiveOr", {"^"}, "And")
    \union Binary("InclusiveOr", {"|"}, "ExclusiveOr")
    \union Binary("LogicalAnd", {"&&"}, "InclusiveOr")
    \union Binary("LogicalOr", {"||"}, "LogicalAnd")
    \union {
        Production("Conditional", <<"LogicalOr">>, <<>>),
        Nesting("Conditional", <<"LogicalOr", "?", "Expression", ":", "Conditional">>,
                <<<<"conditional", "?">>>>, 5),
        Production("Assignment", <<"Conditional">>, <<>>)}
    \* The parser takes any conditional expression as the left side.
    \union {Nesting("Assignment", <<"Conditional", o, "Assignment">>, <<<<"binary", o>>>>, 3)
               : o \in {"=", "+=", "-="}}
    \union Binary("Expression", {","}, "Assignment")

(* A group in a parameter's abstract declarator is never a parameter list;  *)
(* a type name may declare a name; a size may have commas; members may be   *)
(* initialized, or none; `...` may be the only parameter.                   *)
Declarations ==
    {Production("Specifiers", <<t>>, <<>>) : t \in TypeNames \union {"TypeSpecifier"}}
    \union {Production("Identifier", <<t>>, <<>>) : t \in Names \union TypeNames}
    \union {
        Production("Specifiers", <<"Specifiers", "TypeSpecifier">>, <<>>),
        Production("TypeSpecifier", <<"int">>, <<>>),
        Production("TypeSpecifier", <<"struct", "Record">>, <<>>),
        Production("Record", <<"Identifier">>, <<>>),
        Production("Record", <<"Members">>, <<>>),
        Production("Record", <<"Identifier", "Members">>, <<>>),
        Production("Members", <<"{", "}">>, <<>>),
        Production("Members", <<"{", "Fields", "}">>, <<>>),
        Production("Fields", <<"Declaration">>, <<>>),
        Production("Fields", <<"Fields", "Declaration">>, <<>>),
        Production("TypeName", <<"Specifiers">>, <<>>),
        Production("TypeName", <<"Specifiers", "Abstract">>, <<>>),
        Production("TypeName", <<"Specifiers", "Declarator">>, <<>>),
        Production("Direct", <<"Identifier">>, <<>>),
        Production("Direct", <<"(", "Declarator", ")">>, <<>>),
        Production("Direct", <<"Direct", "Suffix">>, <<>>),
        Production("Declarator", <<"Direct">>, <<>>),
        Production("Declarator", <<"*", "Declarator">>, <<>>),
        Production("Function", <<"Direct", "(", ")">>, <<>>),
        Production("Function", <<"Direct", "(", "Parameters", ")">>, <<>>),
        Production("Function", <<"(", "Returning", ")">>, <<>>),
        Production("Function", <<"Function", "Suffix">>, <<>>),
        Production("Returning", <<"Function">>, <<>>),
        Production("Returning", <<"*", "Returning">>, <<>>),
        Production("Suffix", <<"[", "]">>, <<>>),
        Production("Suffix", <<"[", "Expression", "]">>, <<>>),
        Production("Suffix", <<"(", ")">>, <<>>),
        Production("Suffix", <<"(", "Parameters", ")">>, <<>>),
        Production("DirectAbstract", <<"[", "]">>, <<>>),
        Production("DirectAbstract", <<"[", "Expression", "]">>, <<>>),
        Production("DirectAbstract", <<"(", ")">>, <<>>),
        Production("DirectAbstract", <<"(", "Abstract", ")">>, <<>>),
        Production("DirectAbstract", <<"DirectAbstract", "Suffix">>, <<>>),
        Production("Abstract", <<"*">>, <<>>),
        Production("Abstract", <<"DirectAbstract">>, <<>>),
        Production("Abstract", <<"*", "Abstract">>, <<>>),
        Production("Parameter", <<"TypeName">>, <<>>),
        Production("ParameterList", <<"Parameter">>, <<>>),
        Production("ParameterList", <<"ParameterList", ",", "Parameter">>, <<>>),
        Production("Parameters", <<"ParameterList">>, <<>>),
        Production("Parameters", <<"...">>, <<>>),
        Production("Parameters", <<"ParameterList", ",", "...">>, <<>>),
        \* What follows `int f (`.
        Production("AfterOpening", <<")">>, <<>>),
        Production("AfterOpening", <<"Parameters", ")">>, <<>>),
        Production("AfterOpening", <<"AfterOpening", "Suffix">>, <<>>),
        Production("AfterOpening", <<"AfterOpening", ",", "InitList">>, <<>>),
        \* What follows `struct`, up to a last semicolon.
        Production("AfterStruct", <<"RecordSpecifiers">>, <<>>),
        Production("AfterStruct", <<"RecordSpecifiers", "InitList">>, <<>>),
        Production("AfterStruct", <<"AfterStruct", ";", "Unfinished">>, <<>>),
        Production("RecordSpecifiers", <<"Record">>, <<>>),
        Production("RecordSpecifiers", <<"RecordSpecifiers", "TypeSpecifier">>, <<>>),
        Production("Unfinished", <<"Specifiers">>, <<>>),
        Production("Unfinished", <<"Specifiers", "InitList">>, <<>>),
        Production("Initialized", <<"Declarator">>, <<>>),
        Production("Initialized", <<"Declarator", "=", "Assignment">>, <<>>),
        Production("InitList", <<"Initialized">>, <<>>),
        Production("InitList", <<"InitList", ",", "Initialized">>, <<>>),
        Production("Declaration", <<"Specifiers", ";">>, <<>>),
        Production("Declaration", <<"Specifiers", "InitList", ";">>, <<>>),
        Production("External", <<"Declaration">>, <<>>),
        Production("External", <<"Specifiers", "Returning", "Compound">>, <<<<"function", "">>>>),
        Production("Unit", <<"External">>, <<>>),
        Production("Unit", <<"Unit", "External">>, <<>>)}

(* Statements that end in a statement of the kind last.                     *)
Ending(last) ==
    {Production(last, <<k, "(", "Expression", ")", last>>, <<<<k, "">>>>) : k \in {"while", "switch"}}
    \union {
        Production(last, <<"if", "(", "Expression", ")", "Closed", "else", last>>, <<<<"if", "else">>>>),
        Production(last, <<"case", "Expression", ":", last>>, <<<<"case", "">>>>),
        Production(last, <<"default", ":", last>>, <<<<"default", "">>>>)}
    \union {Production(last, <<"for", "(", "Clauses", ")", last>>, <<<<"for", "">>>>)}
    \union {Production(last, <<t, ":", last>>, <<<<"label", t>>>>) : t \in Names}

(* An else belongs to the nearest if: before it stand closed statements.    *)
Statements ==
    Ending("Statement") \union Ending("Closed")
    \union {
        Production("Statement", <<"Closed">>, <<>>),
        Production("Statement", <<"if", "(", "Expression", ")", "Statement">>, <<<<"if", "">>>>),
        Production("Closed", <<";">>, <<<<"empty", "">>>>),
        Production("Closed", <<"Expression", ";">>, <<<<"expression", "">>>>),
        Production("Closed", <<"Compound">>, <<>>),
        Production("Closed", <<"do", "Statement", "while", "(", "Expression", ")", ";">>, <<<<"do", "">>>>),
        Production("Closed", <<"return", ";">>, <<<<"return", "">>>>),
        Production("Closed", <<"return", "Expression", ";">>, <<<<"return", "">>>>),
        Production("Clauses", <<"ForStart", ";">>, <<>>),
        Production("Clauses", <<"ForStart", "Expression", ";">>, <<>>),
        Production("Clauses", <<"ForStart", ";", "Expression">>, <<>>),
        Production("Clauses", <<"ForStart", "Expression", ";", "Expression">>, <<>>),
        Production("ForStart", <<";">>, <<<<"empty", "">>>>),
        Production("ForStart", <<"Declaration">>, <<>>),
        Production("ForStart", <<"Expression", ";">>, <<<<"expression", "">>>>),
        Production("AfterDo", <<"Statement", "while", "(", "Expression", ")", ";">>, <<<<"do", "">>>>),
        Production("AfterDo", <<"AfterDo", "Items">>, <<>>),
        \* What can follow `if (a) if (a` in a block.
        Production("AfterTwoIfs", <<"Ifs">>, <<>>),
        Production("AfterTwoIfs", <<"Ifs", "Items">>, <<>>),
        Production("Ifs", <<")", "Statement">>, <<<<"if", "">>, <<"if", "">>>>),
        Production("Ifs", <<")", "Closed", "else", "Statement">>, <<<<"if", "else">>, <<"if", "">>>>),
        Production("Ifs", <<"InnerIf", "else", "Statement">>, <<<<"if", "else">>>>),
        Production("InnerIf", <<")", "Closed", "else", "Closed">>, <<<<"if", "else">>>>),
        Opening("Compound", <<"{", "}">>, <<<<"compound", "{">>>>, <<<<"compound", "}">>>>),
        Opening("Compound", <<"{", "Items", "}">>, <<<<"compound", "{">>>>, <<<<"compound", "}">>>>),
        Production("Item", <<"Declaration">>, <<>>),
        Production("Item", <<"Statement">>, <<>>),
        Production("Items", <<"Item">>, <<>>),
        Production("Items", <<"Items", "Item">>, <<>>),
        \* What can stand between a function's braces: its body, or the end of
        \* it and the begin of another function's.
        Production("Body", <<"Items">>, <<>>),
        Opening("Body", <<"}", "Specifiers", "Returning", "{">>,
                <<<<"compound", "}">>, <<"function", "">>>>, <<<<"compound", "{">>>>)}
    \union {Production("Closed", <<k, ";">>, <<<<k, "">>>>) : k \in {"break", "continue"}}
    \union {Production("Closed", <<"goto", t, ";">>, <<<<"goto", "">>>>) : t \in Names}

-----------------------------------------------------------------------------
(* The phrases of every nonterminal, length by length.                      *)
Productions == Expressions \union Declarations \union Statements

Nonterminals == {p.of : p \in Productions}

(* A body that is one nonterminal adds nothing to its phrases.              *)
IsUnit(p) == Len(p.body) = 1 /\ p.body[1] \in Nonterminals

ProductionsOf == [s \in Nonterminals |-> {p \in Productions : p.of = s /\ ~IsUnit(p)}]

RECURSIVE Below(_)
Below(s) == {s} \union UNION {Below(p.body[1]) : p \in {p \in Productions : p.of = s /\ IsUnit(p)}}

Including == [s \in Nonterminals |-> Below(s)]

EmptyPhrase == [text |-> <<>>, nodes |-> <<>>, nesting |-> 0]

Joined(a, b) ==
    [text |-> a.text \o b.text, nodes |-> a.nodes \o b.nodes,
     nesting |-> IF a.nesting < b.nesting THEN b.nesting ELSE a.nesting]

(* The phrases of length n of a token or a nonterminal.                     *)
PartOf(symbol, n, alphabet, known) ==
    CASE symbol = "Inner" -> {p \in known[n]["Expression"] : p.text[1] \notin TypeNames}
      [] symbol = "BareUnary" -> {p \in known[n]["Unary"] : p.text[1] # "("}
      [] symbol = "CallOpens" ->
            IF n = 1 THEN {[EmptyPhrase EXCEPT !.text = <<"(">>, !.nodes = <<<<"call", "(">>>>]} ELSE {}
      [] symbol \in Nonterminals -> known[n][symbol]
      [] OTHER -> IF n = 1 /\ symbol \in alphabet THEN {[EmptyPhrase EXCEPT !.text = <<symbol>>]} ELSE {}

RECURSIVE BodyFrom(_, _, _, _, _)
BodyFrom(p, i, n, alphabet, known) ==
    IF i > Len(p.body) THEN IF n = 0 THEN {EmptyPhrase} ELSE {}
    ELSE UNION {
        LET firsts == PartOf(p.body[i], m, alphabet, known)
            others == IF firsts = {} THEN {} ELSE BodyFrom(p, i + 1, n - m, alphabet, known)
        IN  {Joined(IF i = p.inner THEN [a EXCEPT !.nesting = @ + 1] ELSE a, b) :
                a \in firsts, b \in others}
        : m \in 1 .. (n - (Len(p.body) - i))}

Derived(p, n, alphabet, known) ==
    {[b EXCEPT !.nodes = p.opens \o b.nodes \o p.nodes] : b \in BodyFrom(p, 1, n, alphabet, known)}

BeginsCast(p) == Len(p.text) > 1 /\ p.text[1] = "(" /\ p.text[2] \in TypeNames

(* The phrases of all lengths up to n, a function of the nonterminal each.  *)
RECURSIVE UpToLength(_, _)
UpToLength(n, alphabet) ==
    IF n = 0 THEN <<>>
    ELSE LET known == UpToLength(n - 1, alphabet)
             longer == [s \in Nonterminals |->
                           UNION {Derived(p, n, alphabet, known) : p \in ProductionsOf[s]}]
             \* What is no cast by its productions must not begin like one.
             below(s, r) == IF r \in Including["Unary"] /\ s \notin Including["Unary"]
                            THEN {p \in longer[r] : ~BeginsCast(p)} ELSE longer[r]
         IN  Append(known, [s \in Nonterminals |-> UNION {below(s, r) : r \in Including[s]}])

Phrases(symbol, alphabet, most) ==
    LET known == UpToLength(most, alphabet)
    IN  UNION {known[n][symbol] : n \in 1 .. most}

-----------------------------------------------------------------------------
(* The parser against the grammar: which texts it takes, with which tree.  *)

(* The scenarios whose free part is a phrase of the grammar, or nothing.    *)
(* What comes first and last completes it to a text and its tree.           *)
Judged == {s \in DOMAIN Scenarios : Scenarios[s].phrase # "any"}

PhrasesOf(s) ==
    (IF s.phrase \in {"AfterDo", "AfterTwoIfs", "Clauses", "AfterOpening", "AfterStruct"} THEN {} ELSE {EmptyPhrase})
    \union {p \in Phrases(s.phrase, s.alphabet, s.most) : p.nesting <= MaxNesting}

Whole(s, p) ==
    [text |-> s.first \o p.text \o s.last, tree |-> s.before \o p.nodes \o s.after]

Sentences ==
    [s \in Judged |-> {Whole(Scenarios[s], p) : p \in PhrasesOf(Scenarios[s])}]

(* The texts that a sentence begins with.                                   *)
Viable ==
    [s \in Judged |-> UNION {{SubSeq(w.text, 1, n) : n \in 1 .. Len(w.text)} : w \in Sentences[s]}]

-----------------------------------------------------------------------------
Finished == stack = <<>>

(* What is parsed without a diagnostic is a sentence of the grammar that    *)
(* does not nest too deeply, and the tree is the one the grammar gives it.  *)
SilentIsGrammatical ==
    Finished /\ silent /\ scenario \in Judged => [text |-> text, tree |-> tree] \in Sentences[scenario]

(* The first diagnostic comes at a token with which no sentence goes on.    *)
(* So no sentence is refused, and no bad text is read further than it could *)
(* have been good.                                                          *)
ComplainsInTime ==
    [][silent /\ ~silent' /\ scenario \in Judged
         => Append(text, Head(ahead)) \notin Viable[scenario]]_vars

(* Whatever the text, its end is reached: no loop goes round without        *)
(* consuming something, nor does recovery stop short of where its caller    *)
(* can go on.                                                               *)
Terminates == <>Finished

=============================================================================
