------------------------------- MODULE CMacros ------------------------------
(***************************************************************************)
(* Macro replacement as C defines it (5.1.1.2, 6.10.3).  Comments are gone *)
(* before directives and calls are looked at; the arguments of a call are  *)
(* expanded before they are substituted; what replaces a call is scanned   *)
(* again together with the text behind it; and each token remembers the    *)
(* macros it may no longer name.                                           *)
(***************************************************************************)
EXTENDS MacroExpansion

(* The delimiter of the comment that is open after each token of a text     *)
(* that begins in a comment or does not.                                    *)
CommentAfter(begins, text) ==
    LET after[i \in 0..Len(text)] ==
            IF i = 0 THEN IF begins THEN "/*" ELSE ""
            ELSE IF after[i - 1] = "//" THEN "//"
            ELSE IF after[i - 1] = "/*" THEN (IF text[i] = "*/" THEN "" ELSE "/*")
            ELSE IF text[i] \in {"//", "/*"} THEN text[i] ELSE ""
    IN  after

WithoutComments(begins, text) ==
    LET after == CommentAfter(begins, text)
    IN  FlattenSeq([i \in DOMAIN text |->
            IF after[i - 1] = "" /\ after[i] = "" THEN <<text[i]>> ELSE <<>>])

(* What a definition says once its comments are gone.                       *)
CReplacement(name) == WithoutComments(FALSE, lineMacros[name].replacement)

-----------------------------------------------------------------------------

Fresh(text) == [i \in DOMAIN text |-> [text |-> text[i], hidden |-> {}]]

Texts(tokens) == [i \in DOMAIN tokens |-> tokens[i].text]

Hiding(tokens, names) ==
    [i \in DOMAIN tokens |-> [tokens[i] EXCEPT !.hidden = @ \union names]]

(* One empty argument is an argument to a macro with one parameter.         *)
Matches(name, text, open) ==
    LET count == Len(Arguments(text, open))
        parameters == Len(lineMacros[name].parameters)
    IN  count = parameters \/ (count = 0 /\ parameters = 1)

BeginsCall(tokens) ==
    LET name == tokens[1].text
    IN  /\ name \in DOMAIN lineMacros /\ name \notin tokens[1].hidden
        /\ lineMacros[name].functionLike =>
               /\ Len(tokens) > 1 /\ tokens[2].text = "("
               /\ Closings(Texts(tokens), 2) # {}
               /\ Matches(name, Texts(tokens), 2)

ArgumentTokens(tokens, i) ==
    LET close  == Closing(Texts(tokens), 2)
        commas == {k \in 2..close : /\ tokens[k].text = ","
                                    /\ Nesting(Texts(tokens), 2, k) = 1}
        cuts   == SetToSortSeq({2, close} \union commas, <)
    IN  SubSeq(tokens, cuts[i] + 1, cuts[i + 1] - 1)

RECURSIVE CExpansion(_)

(* The replacement of the macro call the tokens begin with.                 *)
Replacement(tokens) ==
    LET name == tokens[1].text
        parameter(token) == {p \in DOMAIN lineMacros[name].parameters :
                                 lineMacros[name].parameters[p] = token}
    IN  FlattenSeq([i \in DOMAIN CReplacement(name) |->
            LET token == CReplacement(name)[i]
            IN  IF parameter(token) = {}
                THEN <<[text |-> token, hidden |-> {}]>>
                ELSE CExpansion(ArgumentTokens(tokens, CHOOSE p \in parameter(token) : TRUE))])

CExpansion(tokens) ==
    IF tokens = <<>> THEN <<>>
    ELSE IF ~BeginsCall(tokens)
    THEN <<Head(tokens)>> \o CExpansion(Tail(tokens))
    ELSE LET name == tokens[1].text
             last == IF lineMacros[name].functionLike THEN Closing(Texts(tokens), 2) ELSE 1
             hidden == tokens[1].hidden \intersect tokens[last].hidden
         IN  CExpansion(Hiding(Replacement(tokens), hidden \union {name})
                          \o SubSeq(tokens, last + 1, Len(tokens)))

(* The line as C expands it.                                                *)
CLine == Texts(CExpansion(Fresh(WithoutComments(givenLine.inComment, givenLine.text))))

-----------------------------------------------------------------------------
(* The lines this compiler expands as C does.                               *)

Expands == WithoutComments(givenLine.inComment, Innermost.built) = CLine

Delimited(text) == Range(text) \intersect Delimiters # {}

ReplacementTexts == {lineMacros[name].replacement : name \in DOMAIN lineMacros}

FunctionNames == {name \in DOMAIN lineMacros : lineMacros[name].functionLike}

(* The calls written in a text, at the position of the name.                *)
CallsIn(text) ==
    {i \in 1..(Len(text) - 1) : text[i] \in FunctionNames /\ text[i + 1] = "("}

(* Every call is written out in the text its name is in, and no expansion   *)
(* of an earlier name can make a call with the parenthesis behind it.       *)
CallsAreComplete ==
    /\ \A text \in ReplacementTexts \union {givenLine.text} : \A i \in CallsIn(text) :
           /\ Closings(text, i + 1) # {}
           /\ Len(Arguments(text, i + 1)) = Len(lineMacros[text[i]].parameters)
           /\ ~Delimited(SubSeq(text, i, Closing(text, i + 1)))
    /\ \A text \in ReplacementTexts : text # <<>> => Last(text) \notin FunctionNames

(* Names written as arguments stand for themselves, or for a text without   *)
(* names, parentheses and commas.                                           *)
ArgumentsAreSimple ==
    \A text \in ReplacementTexts \union {givenLine.text} : \A i \in CallsIn(text) :
        \A k \in (i + 2)..Closing(text, i + 1) : text[k] \in DOMAIN lineMacros =>
            /\ text[k] \notin FunctionNames
            /\ Range(lineMacros[text[k]].replacement)
                   \intersect ({"(", ")", ","} \union DOMAIN lineMacros) = {}

DefinitionsHaveNoComments == \A text \in ReplacementTexts : ~Delimited(text)

NamesMeetNoComment ==
    \A i \in 1..(Len(givenLine.text) - 1) :
        givenLine.text[i] \in FunctionNames => givenLine.text[i + 1] \notin Delimiters

(* There are not enough macros to reach the depth.                          *)
NotDeep == Cardinality(DOMAIN lineMacros) <= MaxExpansionDepth

(* A line whose calls are complete, with nothing in their arguments that    *)
(* calls a macro, and definitions without comments, expands to what C says: *)
(* neither the order in which arguments are substituted and expanded, nor   *)
(* the flags in place of a token's own hidden names, show.                  *)
SimpleLinesExpandLikeC ==
    Done /\ NotDeep /\ CallsAreComplete /\ ArgumentsAreSimple
         /\ DefinitionsHaveNoComments /\ NamesMeetNoComment => Expands
=============================================================================
