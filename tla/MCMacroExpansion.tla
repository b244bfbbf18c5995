-------------------------- MODULE MCMacroExpansion --------------------------
EXTENDS CMacros

CONSTANT LineLength

Object(replacement) ==
    [functionLike |-> FALSE, parameters |-> <<>>, replacement |-> replacement]

Function(replacement) ==
    [functionLike |-> TRUE, parameters |-> <<"x">>, replacement |-> replacement]

(* Macros that name themselves and each other, alone, in a call and in an   *)
(* argument.                                                                *)
Objects ==
    {Object(text) : text \in
        {<<>>, <<"1">>, <<"A">>, <<"F">>, <<"F", "(", "1", ")">>, <<"F", "(", "A", ")">>,
         <<"1", "//">>, <<"1", "/*", "A", "*/">>}}

Functions1 ==
    {Function(text) : text \in
        {<<"x">>, <<"A", "x">>, <<"A", "(", "x", ")">>, <<"F", "(", "x", ")">>,
         <<"x", "F", "1">>}}

(* An object and a function, two functions, and a chain of three, longer    *)
(* than the depth.                                                          *)
MCTables ==
    {[A |-> a, F |-> f] : a \in Objects, f \in Functions1}
        \union {[A |-> g, F |-> f] : g, f \in Functions1}
        \union {[A |-> Object(<<"B">>), F |-> f, B |-> b] :
                    f \in Functions1, b \in {Object(<<"F", "(", "A", ")">>), Object(<<"1">>)}}

Tokens == {"A", "F", "1", "(", ")", ",", "//", "/*", "*/"}

Nested ==
    {<<"F", "(">> \o a \o <<")">> \o b :
        a \in {<<"F", "(", "1", ")">>, <<"A", "1">>, <<"A", "(", "A", ")">>,
               <<"(", "A", ",", "1", ")">>, <<"1", ",", "A">>},
        b \in {<<>>, <<"A">>, <<"/*", "A", "*/", "A">>, <<"//", "A">>}}

MCLines == SeqOf(Tokens, LineLength) \union Nested
=============================================================================
