--------------------------- MODULE MacroExpansion ---------------------------
(***************************************************************************)
(* Macro expansion of one line of text (cc_expand_text and                 *)
(* cc_expand_function_macro of preprocessor.c).                            *)
(*                                                                         *)
(* The text of a macro call is expanded by a call of cc_expand_text of its *)
(* own; `calls` is the C call stack of these, the line's own call first.   *)
(* Each has its text, how far it has read, and what it has built.  A       *)
(* macro's flag `expanding` lives in the macro table and is all that keeps *)
(* it from expanding inside itself.                                        *)
(*                                                                         *)
(* Text is a sequence of tokens: names, parentheses, commas, the three     *)
(* comment delimiters, and anything else, for which spaces and literals    *)
(* are left out.  Token pasting joins the text of two tokens in the        *)
(* substituted replacement; no replacement here asks for it.               *)
(***************************************************************************)
EXTENDS Integers, Sequences, FiniteSets, SequencesExt

CONSTANTS
    LineMacros,          \* the names a macro can have
    NoMacro,             \* the line itself
    MaxExpansionDepth,   \* CC_MAX_MACRO_EXPANSION_DEPTH
    Tables,              \* the macro tables considered
    Lines                \* and the lines

ASSUME NoMacroAssumption == NoMacro \notin LineMacros
ASSUME TablesAssumption == \A table \in Tables : DOMAIN table \subseteq LineMacros
ASSUME MaxExpansionDepthAssumption == MaxExpansionDepth \in Nat

VARIABLES
    lineMacros,    \* the macro table: a definition for each defined name
    expanding,     \* the macros whose flag is set
    calls,         \* the calls of cc_expand_text in progress
    lineComment,   \* preprocessor->in_block_comment
    givenLine      \* the line given, and whether a comment was open before it

expansionVars == <<lineMacros, expanding, calls, lineComment, givenLine>>

Delimiters == {"/*", "*/", "//"}

ExpansionCall(macro, text) == [macro |-> macro, text |-> text, index |-> 1, built |-> <<>>]

ExpansionInit ==
    /\ lineMacros \in Tables
    /\ expanding = {}
    /\ givenLine \in [text : Lines, inComment : BOOLEAN]
    /\ calls = <<ExpansionCall(NoMacro, givenLine.text)>>
    /\ lineComment = givenLine.inComment

-----------------------------------------------------------------------------
(* The arguments of a call whose parenthesis is at position `open`.         *)

Nesting(text, open, i) ==
    Cardinality({k \in open..i : text[k] = "("}) -
    Cardinality({k \in open..i : text[k] = ")"})

Closings(text, open) ==
    {i \in open..Len(text) : text[i] = ")" /\ Nesting(text, open, i) = 0}

Closing(text, open) == CHOOSE i \in Closings(text, open) :
                           \A j \in Closings(text, open) : i <= j

(* cc_parse_macro_arguments: between the parentheses, at the commas outside *)
(* inner parentheses.  One empty argument is no argument.                   *)
Arguments(text, open) ==
    LET close  == Closing(text, open)
        commas == {i \in open..close : text[i] = "," /\ Nesting(text, open, i) = 1}
        cuts   == SetToSortSeq({open, close} \union commas, <)
        parts  == [i \in 1..(Len(cuts) - 1) |-> SubSeq(text, cuts[i] + 1, cuts[i + 1] - 1)]
    IN  IF parts = << <<>> >> THEN <<>> ELSE parts

(* cc_substitute_macro_arguments: the arguments as they are written.        *)
Substituted(definition, arguments) ==
    FlattenSeq([i \in DOMAIN definition.replacement |->
        LET token == definition.replacement[i]
            named == {p \in DOMAIN definition.parameters : definition.parameters[p] = token}
        IN  IF named = {} THEN <<token>> ELSE arguments[CHOOSE p \in named : TRUE]])

-----------------------------------------------------------------------------
(* The innermost call                                                       *)

Innermost == calls[Len(calls)]

ReadingText == calls # <<>> /\ Innermost.index <= Len(Innermost.text)

Token == Innermost.text[Innermost.index]

(* A call with `tokens` built and the text before `next` read.              *)
ReadTo(call, tokens, next) ==
    [macro |-> call.macro, text |-> call.text, index |-> next, built |-> call.built \o tokens]

Built(tokens, next) == [calls EXCEPT ![Len(calls)] = ReadTo(Innermost, tokens, next)]

Append1 == calls' = Built(<<Token>>, Innermost.index + 1)

CommentText ==
    /\ ReadingText /\ lineComment
    /\ Append1
    /\ lineComment' = (Token # "*/")
    /\ UNCHANGED <<lineMacros, expanding, givenLine>>

OpenComment ==
    /\ ReadingText /\ ~lineComment /\ Token = "/*"
    /\ Append1
    /\ lineComment' = TRUE
    /\ UNCHANGED <<lineMacros, expanding, givenLine>>

LineComment ==
    /\ ReadingText /\ ~lineComment /\ Token = "//"
    /\ LET text == Innermost.text
       IN  calls' = Built(SubSeq(text, Innermost.index, Len(text)), Len(text) + 1)
    /\ UNCHANGED <<lineMacros, expanding, lineComment, givenLine>>

(* Faulty: the flag is not looked at.                                       *)
IsMacroUnflagged == Token \in DOMAIN lineMacros

(* A name that is expanded: a defined macro that is not being expanded, and *)
(* for a function-like one a parenthesis next.                              *)
IsMacro == Token \in DOMAIN lineMacros /\ Token \notin expanding

FunctionLike == lineMacros[Token].functionLike

Parenthesised ==
    Innermost.index < Len(Innermost.text) /\ Innermost.text[Innermost.index + 1] = "("

Expandable == IsMacro /\ (FunctionLike => Parenthesised)

PlainToken ==
    /\ ReadingText /\ ~lineComment
    /\ Token \notin {"/*", "//"}
    /\ ~Expandable
    /\ Append1
    /\ UNCHANGED <<lineMacros, expanding, lineComment, givenLine>>

(* cc_expand_text called on the text of a macro call.  Past the depth it    *)
(* returns the text at once.                                                *)
Expand(text, next) ==
    IF Len(calls) > MaxExpansionDepth
    THEN /\ calls' = Built(text, next)
         /\ UNCHANGED expanding
    ELSE /\ calls' = Append(Built(<<>>, next), ExpansionCall(Token, text))
         /\ expanding' = expanding \union {Token}

ObjectMacro ==
    /\ ReadingText /\ ~lineComment
    /\ Expandable /\ ~FunctionLike
    /\ Expand(lineMacros[Token].replacement, Innermost.index + 1)
    /\ UNCHANGED <<lineMacros, lineComment, givenLine>>

(* Without its closing parenthesis the call takes the rest of the text,     *)
(* with the wrong number of arguments its arguments; the name is all that   *)
(* is left of it.                                                           *)
FunctionMacro ==
    /\ ReadingText /\ ~lineComment
    /\ Expandable /\ FunctionLike
    /\ LET open == Innermost.index + 1
       IN  IF Closings(Innermost.text, open) = {}
           THEN /\ calls' = Built(<<Token>>, Len(Innermost.text) + 1)
                /\ UNCHANGED expanding
           ELSE LET arguments == Arguments(Innermost.text, open)
                    next == Closing(Innermost.text, open) + 1
                IN  IF Len(arguments) # Len(lineMacros[Token].parameters)
                    THEN /\ calls' = Built(<<Token>>, next)
                         /\ UNCHANGED expanding
                    ELSE Expand(Substituted(lineMacros[Token], arguments), next)
    /\ UNCHANGED <<lineMacros, lineComment, givenLine>>

(* The calls once the innermost has returned what it built to its caller.   *)
Returned ==
    LET caller == calls[Len(calls) - 1]
    IN  Append(SubSeq(calls, 1, Len(calls) - 2), ReadTo(caller, Innermost.built, caller.index))

(* Faulty: the macro's flag stays set.                                      *)
ReturnFlagged ==
    /\ Len(calls) > 1 /\ Innermost.index > Len(Innermost.text)
    /\ calls' = Returned
    /\ UNCHANGED <<lineMacros, expanding, lineComment, givenLine>>

(* Faulty: what a call returns is scanned again with the text behind it.    *)
ReturnRescanned ==
    /\ Len(calls) > 1 /\ Innermost.index > Len(Innermost.text)
    /\ LET caller == calls[Len(calls) - 1]
           rest   == SubSeq(caller.text, caller.index, Len(caller.text))
       IN  calls' = Append(SubSeq(calls, 1, Len(calls) - 2),
                           [caller EXCEPT !.text = Innermost.built \o rest, !.index = 1])
    /\ expanding' = expanding \ {Innermost.macro}
    /\ UNCHANGED <<lineMacros, lineComment, givenLine>>

EndCall ==
    /\ Len(calls) > 1 /\ Innermost.index > Len(Innermost.text)
    /\ calls' = Returned
    /\ expanding' = expanding \ {Innermost.macro}
    /\ UNCHANGED <<lineMacros, lineComment, givenLine>>

(* The line's own call is at its end.                                       *)
Done == Len(calls) = 1 /\ Innermost.index > Len(Innermost.text)

FinishLine ==
    /\ Done
    /\ calls' = <<>>
    /\ UNCHANGED <<lineMacros, expanding, lineComment, givenLine>>

ExpansionNext ==
    \/ CommentText \/ OpenComment \/ LineComment
    \/ PlainToken \/ ObjectMacro \/ FunctionMacro
    \/ EndCall \/ FinishLine

ExpansionSpec == ExpansionInit /\ [][ExpansionNext]_expansionVars

(* The compiler has one thread, which goes on until it is done.             *)
FairExpansion == ExpansionSpec /\ WF_expansionVars(ExpansionNext)

-----------------------------------------------------------------------------
(* The shape of the state.  The calls in progress never nest deeper than    *)
(* the cap allows.                                                          *)
ExpansionTypeOK ==
    /\ expanding \subseteq LineMacros
    /\ \A i \in DOMAIN calls :
           /\ calls[i].macro \in {NoMacro} \union LineMacros
           /\ calls[i].index \in 1..(Len(calls[i].text) + 1)
    /\ Len(calls) <= MaxExpansionDepth + 1
    /\ lineComment \in BOOLEAN

(* The flags in the macro table are exactly the macros of the calls in      *)
(* progress, none of them twice: no macro expands inside itself, however    *)
(* it comes back, and once the line is done every macro can expand again.   *)
FlagsAreTheCalls ==
    /\ expanding = {calls[i].macro : i \in DOMAIN calls} \ {NoMacro}
    /\ \A i, j \in DOMAIN calls : calls[i].macro = calls[j].macro => i = j

(* Every line is expanded in the end, whatever its macros say.              *)
ExpansionEnds == <>(calls = <<>>)
=============================================================================
