------------------------------ MODULE MCParser ------------------------------
(***************************************************************************)
(* Texts to parse: an expression, the items of a block, a translation unit *)
(* and the constructs only recovery and scopes are checked for.            *)
(***************************************************************************)
EXTENDS CGrammar, SequencesExt

Node(kind) == <<kind, "">>
Body == <<"int", "f", "(", ")", "{">>
AfterBody == <<<<"compound", "}">>, Node("function")>>
AType == <<"typedef", "int", "T", ";">>

Text(first, alphabet, most, last, phrase, before, after) ==
    [first |-> first, alphabet |-> alphabet, most |-> most, last |-> last,
     phrase |-> phrase, before |-> before, after |-> after]

OfExpression(alphabet, most) ==
    Text(AType \o Body \o <<"return">>, alphabet, most, <<";", "}">>,
         "Expression", <<<<"compound", "{">>>>, <<Node("return")>> \o AfterBody)

(* The begin of a statement in a block comes first.                         *)
OfStatement(first, alphabet, most, phrase, before) ==
    Text(Body \o first, alphabet, most, <<"}">>, phrase, <<<<"compound", "{">>>> \o before, AfterBody)

OfItems(alphabet, most) == OfStatement(<<>>, alphabet, most, "Body", <<>>)

OfDeclarations(first, alphabet, most, last, phrase) ==
    Text(first, alphabet, most, last, phrase, <<>>, <<>>)

Unjudged(first, alphabet, most) == OfDeclarations(first, alphabet, most, <<>>, "any")

MCScenarios ==
    [operators  |-> OfExpression({"a", "*", "+", "<<", "<", "==", "&", "^", "|", "&&", "||"}, 5),
     casts      |-> OfExpression({"a", "T", "int", "(", ")", "*", "-", "sizeof"}, 5),
     sides      |-> OfExpression({"a", "T", "?", ":", "=", ",", "(", ")"}, 6),
     postfix    |-> OfExpression({"a", "1", "(", ")", "[", "]", ".", "++", ","}, 5),
     items      |-> OfItems({"while", "return", "a", "int", "(", ")", ";", "{", "}"}, 5),
     jumps      |-> OfItems({"switch", "case", "default", "break", "goto", "a", ":", ";", "(", ")"}, 5),
     ifs        |-> OfStatement(<<"if", "(", "a", ")", "if", "(", "a">>, {")", "if", "else", "a", ";", "{", "}"}, 6,
                                "AfterTwoIfs", <<<<"leaf", "a">>, <<"leaf", "a">>>>),
     loops      |-> OfStatement(<<"do">>, {"while", "a", "(", ")", ";"}, 7, "AfterDo", <<>>),
     clauses    |-> Text(Body \o <<"for", "(">>, {"int", "a", "=", ";", ",", ")"}, 6, <<")", ";", "}">>,
                         "Clauses", <<<<"compound", "{">>>>,
                         <<Node("empty"), Node("for")>> \o AfterBody),
     unit       |-> OfDeclarations(AType, {"int", "T", "a", "*", "(", ")", "[", "]", ",", ";", "=", "{", "}"}, 6,
                         <<>>, "Unit"),
     parameters |-> OfDeclarations(AType \o <<"int", "f", "(">>, {"T", "a", "*", "(", ")", "[", "]", ",", "..."}, 6,
                         <<";">>, "AfterOpening"),
     records    |-> OfDeclarations(<<"struct">>, {"struct", "a", "{", "}", "int", ";", "*"}, 6, <<";">>, "AfterStruct"),
     enums      |-> Unjudged(<<"typedef", "enum">>, {"a", "{", "}", ";", "const", "*"}, 5),
     lines      |-> Unjudged(<<>>, {"#", "int", "a", ";", "}"}, 4)]

(* Conditionals within conditionals.                                         *)
Conditionals == [conditionals |-> OfExpression({"a", "?", ":"}, 5)]

MCBuiltins == <<>>

MCTokens ==
    LET inText(s) == ToSet(s.first) \union s.alphabet \union ToSet(s.last)
    IN  UNION {inText(MCScenarios[n]) : n \in DOMAIN MCScenarios}
=============================================================================
