------------------------------- MODULE Parser -------------------------------
(***************************************************************************)
(* The parser: recursive descent over the tokens of a translation unit.    *)
(*                                                                         *)
(* The C call stack is the variable stack, its top first.  A frame stands  *)
(* for a function at one of the places it goes on from; a step replaces    *)
(* the top frame by the frames of the calls still to be made there.  What  *)
(* a function returns is in ok (the node is not NULL) and found (what      *)
(* CCParsedSpecifiers and CCParsedDeclarator carry besides the node).      *)
(*                                                                         *)
(* Tokens are read one at a time and only when they are looked at, so that *)
(* every sequence of tokens a scenario allows is parsed.                   *)
(***************************************************************************)
EXTENDS Integers, Sequences, FiniteSets

CONSTANTS
    Scenarios,     \* the texts that are parsed, by name
    Tokens,
    Identifiers,   \* the tokens that are identifiers
    Literals,
    Builtins,      \* the names the typedef table is seeded with
    MaxNesting     \* CC_MAX_EXPRESSION_NESTING

(* A scenario: tokens that come first, up to most tokens of an alphabet,   *)
(* tokens that come last.                                                  *)
ASSUME ScenariosAssumption ==
    \A s \in DOMAIN Scenarios :
        /\ Scenarios[s].first \in Seq(Tokens) /\ Scenarios[s].last \in Seq(Tokens)
        /\ Scenarios[s].alphabet \subseteq Tokens
        /\ Scenarios[s].most \in Nat

(* The names of cc_seed_typedef_table: a fixed list without repetition.     *)
ASSUME BuiltinsAssumption ==
    /\ Builtins \in Seq(Identifiers)
    /\ \A i, j \in DOMAIN Builtins : Builtins[i] = Builtins[j] => i = j

ASSUME MaxNestingAssumption == MaxNesting \in Nat \ {0}

Table == INSTANCE TypedefTable

VARIABLES
    scenario,   \* what is parsed
    input,      \* the tokens that are still to come
    ahead,      \* tokens that were read and not consumed
    stack,      \* the calls in progress
    ok,         \* the last function to return gave a node
    found,      \* specifiers: typedef; declarator: name, function
    depth,      \* CCParser: expression_depth
    typedefs,   \* CCParser: typedef_names, typedef_scope_starts
    silent,     \* CCParser: diagnostics is empty
    tree,       \* the nodes built, a node after its children, while silent
    text        \* history: what was consumed, while silent

parser == <<stack, ok, found, depth, typedefs, silent, tree, text>>
vars == <<scenario, input, ahead, parser>>

NoName == ""
NothingFound == [name |-> NoName, function |-> FALSE, typedef |-> FALSE]

-----------------------------------------------------------------------------
(* Frames.  A frame that needs no more is its name.                        *)
F(name) == [f |-> name]
Expect(token) == [f |-> "expect", token |-> token]
Build(node) == [f |-> "build", node |-> node]       \* a node in any case
BuildIf(node) == [f |-> "build if", node |-> node]  \* a node if its operand is
Rest(from, to) == [f |-> "rest", from |-> from, to |-> to]
Join(token, level, to) ==
    [f |-> "join", token |-> token, level |-> level, to |-> to, left |-> ok]
Declarator(abstract) == [f |-> "declarator", abstract |-> abstract]
Leave == F("leave")
Specifiers == [f |-> "specifiers", any |-> FALSE, type |-> FALSE, typedef |-> FALSE]
Optional(stop) == [f |-> "optional", stop |-> stop]   \* an expression, unless at stop

(* The levels of the expression grammar, inner to outer, and the operators *)
(* that go on at each.                                                     *)
Levels == <<
    {"*", "/", "%"}, {"+", "-"}, {"<<", ">>"}, {"<", "<=", ">", ">="},
    {"==", "!="}, {"&"}, {"^"}, {"|"}, {"&&"}, {"||"},
    {"?"},
    {"=", "+=", "-=", "*=", "/=", "%=", "<<=", ">>=", "&=", "^=", "|="},
    {","} >>

ConditionalLevel == 11
AssignmentLevel == 12
CommaLevel == 13

UpTo(level) == <<F("cast"), Rest(1, level)>>
Expression == UpTo(CommaLevel)
(* Faulty: an argument or a right side takes the commas after it.          *)
AssignmentWithCommas == UpTo(CommaLevel)

Assignment == UpTo(AssignmentLevel)
Conditional == UpTo(ConditionalLevel)

UnaryOperators == {"++", "--", "&", "*", "+", "-", "!", "~"}
SizeOperators == {"sizeof", "_Alignof"}

Qualifiers == {"const", "restrict", "volatile", "_Atomic"}
Storage == {"typedef", "extern", "static", "auto", "register"}
FunctionSpecifiers == {"inline", "_Noreturn"}
TypeKeywords == {"void", "char", "short", "int", "long", "float", "double", "signed",
                 "unsigned", "_Bool", "_Complex", "struct", "union", "enum"}

-----------------------------------------------------------------------------
(* Looking at tokens.                                                      *)
At(token) == Head(ahead) = token
AtIdentifier == Head(ahead) \in Identifiers
Peek == IF Len(ahead) > 1 THEN ahead[2] ELSE "eof"

(* Faulty: any name may be a type.                                         *)
IsAnyName(t) == t \in Identifiers

IsTypedefName(t) == t \in Identifiers /\ Table!NameExists(typedefs, t)
BeginsTypeName(t) == t \in Qualifiers \union TypeKeywords \/ IsTypedefName(t)
BeginsDeclaration(t) == t \in Storage \union FunctionSpecifiers \/ BeginsTypeName(t)

Top == Head(stack).f

(* Two tokens are looked at where a cast, sizeof or a label may begin.     *)
Wanted ==
    IF ahead # <<>> /\ (\/ Top \in {"cast", "sizeof"} /\ At("(")
                        \/ Top = "statement" /\ AtIdentifier)
    THEN 2 ELSE 1

(* The next token of the text: what comes first, then any tokens of the    *)
(* alphabet, then what comes last, and the end for ever.                   *)
Lex ==
    /\ stack # <<>> /\ Len(ahead) < Wanted
    /\ \E t \in {"eof"} \union Tokens :
          /\ ahead' = Append(ahead, t)
          /\ \/ /\ input.first # <<>> /\ t = Head(input.first)
                /\ input' = [input EXCEPT !.first = Tail(@)]
             \/ /\ input.first = <<>> /\ input.most > 0 /\ t \in Scenarios[scenario].alphabet
                /\ input' = [input EXCEPT !.most = @ - 1]
             \/ /\ input.first = <<>> /\ input.last # <<>> /\ t = Head(input.last)
                /\ input' = [input EXCEPT !.most = 0, !.last = Tail(@)]
             \/ /\ input.first = <<>> /\ input.last = <<>> /\ t = "eof"
                /\ input' = [input EXCEPT !.most = 0]
    /\ UNCHANGED <<scenario, parser>>

-----------------------------------------------------------------------------
(* Steps.                                                                  *)
Ready(frame) == stack # <<>> /\ Top = frame /\ Len(ahead) >= Wanted

(* cc_advance stays at the end of the text.                                *)
Consume(n) ==
    /\ ahead' = IF At("eof") THEN ahead ELSE SubSeq(ahead, n + 1, Len(ahead))
    /\ UNCHANGED <<scenario, input>>

(* The top frame gives way to calls, n tokens are consumed, nodes built.   *)
Go(n, calls, nodes) ==
    /\ Consume(n)
    /\ stack' = calls \o Tail(stack)
    /\ tree' = IF silent THEN tree \o nodes ELSE tree
    /\ text' = IF silent /\ ~At("eof") THEN text \o SubSeq(ahead, 1, n) ELSE text
    /\ UNCHANGED silent

(* The same with a diagnostic.                                             *)
Complain(n, calls) ==
    /\ Consume(n)
    /\ stack' = calls \o Tail(stack)
    /\ silent' = FALSE
    /\ tree' = <<>> /\ text' = <<>>

(* cc_enter_expression_nesting around calls; where it refuses, the caller  *)
(* goes on with other calls and result.                                    *)
Nest(n, calls, after, refused, result) ==
    IF depth < MaxNesting
    THEN /\ depth' = depth + 1
         /\ Go(n, calls \o <<Leave>> \o after, <<>>)
         /\ UNCHANGED ok
    ELSE /\ UNCHANGED depth
         /\ Complain(n, refused)
         /\ ok' = result

NotNested == UNCHANGED <<depth, found, typedefs>>
Nested == UNCHANGED <<found, typedefs>>

-----------------------------------------------------------------------------
(* What several functions do.                                              *)
(* Faulty: without an expression the count is not taken back.              *)
LeaveNestingIfParsed ==
    /\ Ready("leave")
    /\ depth' = IF ok THEN depth - 1 ELSE depth
    /\ Go(0, <<>>, <<>>)
    /\ UNCHANGED <<ok, found, typedefs>>

LeaveNesting ==
    /\ Ready("leave")
    /\ depth' = depth - 1
    /\ Go(0, <<>>, <<>>)
    /\ UNCHANGED <<ok, found, typedefs>>

ExpectToken ==
    /\ Ready("expect")
    /\ IF At(Head(stack).token) THEN Go(1, <<>>, <<>>) ELSE Complain(0, <<>>)
    /\ UNCHANGED ok /\ NotNested

BuildNode ==
    /\ Ready("build")
    /\ Go(0, <<>>, <<Head(stack).node>>)
    /\ ok' = TRUE /\ NotNested

BuildOverOperand ==
    /\ Ready("build if")
    /\ Go(0, <<>>, IF ok THEN <<Head(stack).node>> ELSE <<>>)
    /\ UNCHANGED ok /\ NotNested

(* An expression unless the token that ends it is there.                   *)
OptionalExpression ==
    /\ Ready("optional")
    /\ Go(0, IF At(Head(stack).stop) THEN <<>> ELSE Expression, <<>>)
    /\ UNCHANGED ok /\ NotNested

-----------------------------------------------------------------------------
(* Expressions: casts, unary operators, sizeof.                            *)
TypeName == <<Specifiers, Declarator(TRUE)>>

AtCast == At("(") /\ BeginsTypeName(Peek)

BeginCast ==
    /\ Ready("cast") /\ AtCast
    /\ Go(1, TypeName \o <<Expect(")"), F("cast operand")>>, <<>>)
    /\ UNCHANGED ok /\ NotNested

CastOperand ==
    /\ Ready("cast operand")
    /\ Nest(0, <<F("cast")>>, <<BuildIf(<<"cast", "()">>)>>, <<>>, FALSE)
    /\ Nested

AtUnary == Ready("unary") \/ (Ready("cast") /\ ~AtCast)

UnaryOperator ==
    /\ AtUnary /\ Head(ahead) \in UnaryOperators
    /\ Nest(1, <<F("unary")>>, <<BuildIf(<<"unary", Head(ahead)>>)>>, <<>>, FALSE)
    /\ Nested

BeginSizeof ==
    /\ AtUnary /\ Head(ahead) \in SizeOperators
    /\ Go(1, <<F("sizeof")>>, <<>>)
    /\ UNCHANGED ok /\ NotNested

SizeofNode == <<"unary", "sizeof">>

SizeofType ==
    /\ Ready("sizeof") /\ AtCast
    /\ Go(1, TypeName \o <<Expect(")"), Build(SizeofNode)>>, <<>>)
    /\ UNCHANGED ok /\ NotNested

SizeofExpression ==
    /\ Ready("sizeof") /\ ~AtCast
    /\ IF At("(")
       THEN Nest(1, Expression, <<Expect(")"), BuildIf(SizeofNode)>>, <<>>, FALSE)
       ELSE Nest(0, <<F("unary")>>, <<BuildIf(SizeofNode)>>, <<>>, FALSE)
    /\ Nested

(* Primary and postfix expressions.                                        *)
Operand ==
    /\ AtUnary /\ Head(ahead) \in Identifiers \union Literals
    /\ Go(1, <<F("postfix")>>, <<<<"leaf", Head(ahead)>>>>)
    /\ ok' = TRUE /\ NotNested

Parenthesized ==
    /\ AtUnary /\ At("(")
    /\ Nest(1, Expression, <<Expect(")"), F("postfix")>>, <<>>, FALSE)
    /\ Nested

NoExpression ==
    /\ AtUnary
    /\ Head(ahead) \notin UnaryOperators \union SizeOperators \union Identifiers \union Literals \union {"("}
    /\ Complain(0, <<>>)
    /\ ok' = FALSE /\ NotNested

AtPostfix == Ready("postfix") /\ ok

Subscript ==
    /\ AtPostfix /\ At("[")
    /\ Nest(1, Expression, <<Expect("]"), Build(<<"subscript", "[]">>), F("postfix")>>, <<>>, TRUE)
    /\ Nested

BeginCall ==
    /\ AtPostfix /\ At("(")
    /\ Go(1, <<F("arguments")>>, <<<<"call", "(">>>>)
    /\ UNCHANGED ok /\ NotNested

EndCall == <<Expect(")"), Build(<<"call", ")">>), F("postfix")>>

Argument == Nest(0, Assignment, <<F("more arguments")>>, EndCall, ok)

Arguments ==
    /\ Ready("arguments")
    /\ IF At(")") THEN Go(0, EndCall, <<>>) /\ UNCHANGED <<ok, depth>> ELSE Argument
    /\ Nested

MoreArguments ==
    /\ Ready("more arguments")
    /\ IF At(",") THEN Go(1, <<F("argument")>>, <<>>) ELSE Go(0, EndCall, <<>>)
    /\ UNCHANGED ok /\ NotNested

NextArgument == Ready("argument") /\ Argument /\ Nested

Member ==
    /\ AtPostfix /\ Head(ahead) \in {".", "->"}
    /\ Go(1, <<[f |-> "member", node |-> <<"member", Head(ahead)>>]>>, <<>>)
    /\ UNCHANGED ok /\ NotNested

MemberName ==
    /\ Ready("member")
    /\ IF AtIdentifier
       THEN Go(1, <<F("postfix")>>, <<<<"leaf", Head(ahead)>>, Head(stack).node>>)
       ELSE Complain(0, <<>>)
    /\ UNCHANGED ok /\ NotNested

PostIncrement ==
    /\ AtPostfix /\ Head(ahead) \in {"++", "--"}
    /\ Go(1, <<F("postfix")>>, <<<<"post", Head(ahead)>>>>)
    /\ UNCHANGED ok /\ NotNested

EndPostfix ==
    /\ Ready("postfix")
    /\ ~ok \/ Head(ahead) \notin {"[", "(", ".", "->", "++", "--"}
    /\ Go(0, <<>>, <<>>)
    /\ UNCHANGED ok /\ NotNested

-----------------------------------------------------------------------------
(* Binary, conditional and assignment operators.  rest(from, to) stands for*)
(* the functions of these levels, each of which looks for its operators    *)
(* when the one before has returned.                                       *)
OperatorHere(level) ==
    /\ Ready("rest")
    /\ level \in Head(stack).from .. Head(stack).to
    /\ Head(ahead) \in Levels[level]

NoOperator ==
    /\ Ready("rest")
    /\ \A level \in DOMAIN Levels :
           OperatorHere(level) => level = AssignmentLevel /\ ~ok
    /\ Go(0, <<>>, <<>>)
    /\ UNCHANGED ok /\ NotNested

(* The right operand belongs to the level below.                           *)
BinaryOperator ==
    /\ \E level \in DOMAIN Levels \ {ConditionalLevel, AssignmentLevel} :
           /\ OperatorHere(level)
           /\ Go(1, UpTo(level - 1) \o <<Join(Head(ahead), level, Head(stack).to)>>, <<>>)
    /\ UNCHANGED ok /\ NotNested

(* An operand is missing: what there is of the left one is returned.       *)
JoinOperands ==
    /\ Ready("join")
    /\ LET j == Head(stack)
       IN  IF j.left /\ ok
           THEN Go(0, <<Rest(j.level, j.to)>>, <<<<"binary", j.token>>>>) /\ UNCHANGED ok
           ELSE Go(0, <<Rest(j.level + 1, j.to)>>, <<>>) /\ ok' = j.left
    /\ NotNested

(* The operand in the middle is parsed outside of the nesting count.       *)
Question ==
    /\ OperatorHere(ConditionalLevel)
    /\ Go(1, IF ok THEN Expression \o <<Expect(":"), [f |-> "else operand", to |-> Head(stack).to]>>
             ELSE <<Rest(AssignmentLevel, Head(stack).to)>>, <<>>)
    /\ UNCHANGED ok /\ NotNested

ElseOperand ==
    /\ Ready("else operand")
    /\ LET above == Rest(AssignmentLevel, Head(stack).to)
       IN  Nest(0, Conditional, <<Build(<<"conditional", "?">>), above>>, <<above>>, FALSE)
    /\ Nested

Assign ==
    /\ OperatorHere(AssignmentLevel) /\ ok
    /\ LET above == Rest(CommaLevel, Head(stack).to)
           node == <<"binary", Head(ahead)>>
       IN  Nest(1, Assignment, <<[f |-> "assigned", node |-> node], above>>, <<above>>, TRUE)
    /\ Nested

(* Without a right operand the left one is returned.                       *)
Assigned ==
    /\ Ready("assigned")
    /\ Go(0, <<>>, IF ok THEN <<Head(stack).node>> ELSE <<>>)
    /\ ok' = TRUE /\ NotNested

-----------------------------------------------------------------------------
(* Declaration specifiers, one a step.                                     *)
AtSpecifier ==
    /\ Ready("specifiers") /\ BeginsDeclaration(Head(ahead))
    /\ ~(IsTypedefName(Head(ahead)) /\ Head(stack).type)

SpecifierSeen ==
    [Head(stack) EXCEPT !.any = TRUE,
                        !.type = @ \/ Head(ahead) \in TypeKeywords \/ IsTypedefName(Head(ahead)),
                        !.typedef = @ \/ At("typedef")]

Specifier ==
    /\ AtSpecifier
    /\ Go(1, (IF Head(ahead) \in {"struct", "union"} THEN <<F("tag")>>
              ELSE IF At("enum") THEN <<F("enum tag")>> ELSE <<>>) \o <<SpecifierSeen>>, <<>>)
    /\ UNCHANGED ok /\ NotNested

EndSpecifiers ==
    /\ Ready("specifiers") /\ ~AtSpecifier
    /\ IF Head(stack).any THEN Go(0, <<>>, <<>>) ELSE Complain(0, <<>>)
    /\ ok' = Head(stack).any
    /\ found' = [NothingFound EXCEPT !.typedef = Head(stack).typedef]
    /\ UNCHANGED <<depth, typedefs>>

(* struct and union: a tag, members in a scope of their own, or both.      *)
Tag ==
    /\ Ready("tag")
    /\ IF AtIdentifier THEN Go(1, <<[f |-> "record", tagged |-> TRUE]>>, <<>>)
       ELSE Go(0, <<[f |-> "record", tagged |-> FALSE]>>, <<>>)
    /\ UNCHANGED ok /\ NotNested

Record ==
    /\ Ready("record")
    /\ IF At("{")
       THEN /\ typedefs' = Table!ScopePushed(typedefs)
            /\ Go(1, <<F("fields")>>, <<>>)
       ELSE /\ IF Head(stack).tagged THEN Go(0, <<>>, <<>>) ELSE Complain(0, <<>>)
            /\ UNCHANGED typedefs
    /\ UNCHANGED <<ok, depth, found>>

AtEndOfBlock == Head(ahead) \in {"}", "eof"}

Declaration(place) == <<Specifiers, [f |-> "declaration", place |-> place]>>

Field ==
    /\ Ready("fields") /\ ~AtEndOfBlock
    /\ Go(0, Declaration("inner") \o <<F("recover"), F("fields")>>, <<>>)
    /\ UNCHANGED ok /\ NotNested

EndFields ==
    /\ Ready("fields") /\ AtEndOfBlock
    /\ typedefs' = Table!ScopePopped(typedefs)
    /\ Go(0, <<Expect("}")>>, <<>>)
    /\ UNCHANGED <<ok, depth, found>>

(* The enumerators are skipped, brace by brace.                            *)
EnumTag ==
    /\ Ready("enum tag")
    /\ Go(IF AtIdentifier THEN 1 ELSE 0, <<F("enum")>>, <<>>)
    /\ UNCHANGED ok /\ NotNested

Enumerators(open) == [f |-> "enumerators", open |-> open]

Enum ==
    /\ Ready("enum")
    /\ IF At("{") THEN Go(1, <<Enumerators(1)>>, <<>>) ELSE Go(0, <<>>, <<>>)
    /\ UNCHANGED ok /\ NotNested

SkipEnumerator ==
    /\ Ready("enumerators")
    /\ LET open == Head(stack).open
       IN  IF open = 0 THEN Go(0, <<>>, <<>>)
           ELSE IF At("eof") THEN Complain(0, <<>>)
           ELSE Go(1, <<Enumerators(open + (IF At("{") THEN 1 ELSE IF At("}") THEN -1 ELSE 0))>>, <<>>)
    /\ UNCHANGED ok /\ NotNested

-----------------------------------------------------------------------------
(* Declarators.                                                            *)
DirectPart(name, function) == [f |-> "direct part", name |-> name, function |-> function]

Pointer ==
    /\ Ready("declarator") /\ At("*")
    /\ Go(1, <<F("pointer"), Head(stack)>>, <<>>)
    /\ UNCHANGED ok /\ NotNested

PointerQualifier ==
    /\ Ready("pointer")
    /\ IF Head(ahead) \in Qualifiers THEN Go(1, <<F("pointer")>>, <<>>) ELSE Go(0, <<>>, <<>>)
    /\ UNCHANGED ok /\ NotNested

DirectDeclarator ==
    /\ Ready("declarator") /\ ~At("*")
    /\ IF AtIdentifier
       THEN Go(1, <<DirectPart(Head(ahead), FALSE)>>, <<>>) /\ UNCHANGED <<ok, found>>
       ELSE IF At("(")
       THEN /\ Go(1, <<Head(stack), F("group")>>, <<>>)
            /\ UNCHANGED <<ok, found>>
       ELSE IF Head(stack).abstract
       THEN Go(0, <<DirectPart(NoName, FALSE)>>, <<>>) /\ UNCHANGED <<ok, found>>
       ELSE Complain(0, <<>>) /\ ok' = FALSE /\ found' = NothingFound
    /\ UNCHANGED <<depth, typedefs>>

(* The declarator in the parentheses has returned, perhaps without a node. *)
Group ==
    /\ Ready("group")
    /\ Go(0, <<Expect(")"), DirectPart(found.name, found.function)>>, <<>>)
    /\ UNCHANGED ok /\ NotNested

Suffix ==
    /\ Ready("direct part")
    /\ IF At("(")
       THEN /\ Go(1, <<F("parameters"), [Head(stack) EXCEPT !.function = TRUE]>>, <<>>)
            /\ UNCHANGED <<ok, found>>
       ELSE IF At("[")
       THEN /\ Go(1, <<Optional("]"), Expect("]"), Head(stack)>>, <<>>)
            /\ UNCHANGED <<ok, found>>
       ELSE /\ Go(0, <<>>, <<>>)
            /\ ok' = TRUE
            /\ found' = [NothingFound EXCEPT !.name = Head(stack).name,
                                             !.function = Head(stack).function]
    /\ UNCHANGED <<depth, typedefs>>

ParameterList ==
    /\ Ready("parameters")
    /\ Go(0, IF At(")") THEN <<Expect(")")>> ELSE <<F("parameter")>>, <<>>)
    /\ UNCHANGED ok /\ NotNested

Parameter ==
    /\ Ready("parameter")
    /\ IF At("...") THEN Go(1, <<Expect(")")>>, <<>>)
       ELSE Go(0, <<Specifiers, F("parameter declarator")>>, <<>>)
    /\ UNCHANGED ok /\ NotNested

ParameterDeclarator ==
    /\ Ready("parameter declarator")
    /\ Go(0, IF ok THEN <<Declarator(TRUE), F("more parameters")>>
             ELSE <<F("synchronize"), Expect(")")>>, <<>>)
    /\ UNCHANGED ok /\ NotNested

MoreParameters ==
    /\ Ready("more parameters")
    /\ IF At(",") THEN Go(1, <<F("parameter")>>, <<>>) ELSE Go(0, <<Expect(")")>>, <<>>)
    /\ UNCHANGED ok /\ NotNested

-----------------------------------------------------------------------------
(* Declarations.  names collects what the declaration declares; place says *)
(* whose declarator is parsed: the first of a declaration at file scope or *)
(* in a block or record, or a later one.                                   *)
Declared(place, typedef, names) ==
    [f |-> "declared", place |-> place, typedef |-> typedef, names |-> names]

MoreDeclarators(typedef, names) ==
    [f |-> "more declarators", typedef |-> typedef, names |-> names]

EndDeclaration(typedef, names) ==
    <<Expect(";"), [f |-> "record names", typedef |-> typedef, names |-> names]>>

BeginDeclaration ==
    /\ Ready("declaration")
    /\ IF ok /\ At(";") THEN Go(1, <<>>, <<>>)
       ELSE Go(0, IF ok THEN <<Declarator(FALSE), Declared(Head(stack).place, found.typedef, <<>>)>>
                  ELSE <<>>, <<>>)
    /\ UNCHANGED ok /\ NotNested

(* A declarator has returned.  Without a first one there is no declaration,*)
(* without a later one the declaration ends.                               *)
AfterDeclarator ==
    /\ Ready("declared")
    /\ LET d == Head(stack)
           names == IF found.name = NoName THEN d.names ELSE Append(d.names, found.name)
       IN  IF ~ok
           THEN Go(0, IF d.place = "later" THEN EndDeclaration(d.typedef, d.names) ELSE <<>>, <<>>)
           ELSE IF d.place = "file" /\ found.function /\ At("{")
           THEN Go(0, <<F("compound"), Build(<<"function", "">>)>>, <<>>)
           ELSE IF At("=")
           THEN Go(1, Assignment \o <<F("initializer"), MoreDeclarators(d.typedef, names)>>, <<>>)
           ELSE Go(0, <<MoreDeclarators(d.typedef, names)>>, <<>>)
    /\ UNCHANGED ok /\ NotNested

Initializer ==
    /\ Ready("initializer")
    /\ IF ok THEN Go(0, <<>>, <<>>) ELSE Complain(0, <<>>)
    /\ UNCHANGED ok /\ NotNested

NextDeclarator ==
    /\ Ready("more declarators")
    /\ LET d == Head(stack)
       IN  IF At(",")
           THEN Go(1, <<Declarator(FALSE), Declared("later", d.typedef, d.names)>>, <<>>)
           ELSE Go(0, EndDeclaration(d.typedef, d.names), <<>>)
    /\ UNCHANGED ok /\ NotNested

RecordNames ==
    /\ Ready("record names")
    /\ typedefs' = IF Head(stack).typedef
                   THEN Table!AllRecorded(typedefs, Head(stack).names)
                   ELSE typedefs
    /\ Go(0, <<>>, <<>>)
    /\ ok' = TRUE
    /\ UNCHANGED <<depth, found>>

-----------------------------------------------------------------------------
(* Recovery.  The loops over fields, statements and external declarations  *)
(* skip to a place to go on from when what they called gave no node.       *)
Recover ==
    /\ Ready("recover")
    /\ Go(0, IF ok THEN <<>> ELSE <<F("synchronize")>>, <<>>)
    /\ UNCHANGED ok /\ NotNested

Synchronize ==
    /\ Ready("synchronize")
    /\ IF AtEndOfBlock THEN Go(0, <<>>, <<>>)
       ELSE Go(1, IF At(";") THEN <<>> ELSE <<F("synchronize")>>, <<>>)
    /\ UNCHANGED ok /\ NotNested

-----------------------------------------------------------------------------
(* Statements.                                                             *)
(* The callers have seen the brace.                                        *)
Compound ==
    /\ Ready("compound")
    /\ typedefs' = Table!ScopePushed(typedefs)
    /\ Go(1, <<F("block")>>, <<<<"compound", "{">>>>)
    /\ UNCHANGED <<ok, depth, found>>

BlockItem ==
    /\ Ready("block") /\ ~AtEndOfBlock
    /\ Go(0, (IF BeginsDeclaration(Head(ahead)) THEN Declaration("inner") ELSE <<F("statement")>>)
             \o <<F("recover"), F("block")>>, <<>>)
    /\ UNCHANGED ok /\ NotNested

EndCompound ==
    /\ Ready("block") /\ AtEndOfBlock
    /\ typedefs' = Table!ScopePopped(typedefs)
    /\ Go(0, <<Expect("}"), Build(<<"compound", "}">>)>>, <<>>)
    /\ UNCHANGED <<ok, depth, found>>

Statement == <<F("statement")>>
Condition == <<Expect("(")>> \o Expression \o <<Expect(")")>>

Keywords == {"if", "while", "do", "switch", "case", "default", "goto",
             "for", "return", "break", "continue"}

(* What is parsed after the keyword of a statement.                        *)
Parts(keyword) ==
    CASE keyword = "if" -> Condition \o Statement \o <<F("else")>>
      [] keyword \in {"while", "switch"} -> Condition \o Statement \o <<Build(<<keyword, "">>)>>
      [] keyword = "do" ->
            Statement \o <<Expect("while")>> \o Condition \o <<Expect(";"), Build(<<"do", "">>)>>
      [] keyword = "case" ->
            Expression \o <<Expect(":")>> \o Statement \o <<Build(<<"case", "">>)>>
      [] keyword = "default" -> <<Expect(":")>> \o Statement \o <<Build(<<"default", "">>)>>
      [] keyword = "goto" -> <<F("goto")>>
      [] keyword = "for" -> <<Expect("("), F("for")>>
      [] keyword = "return" -> <<Optional(";"), Expect(";"), Build(<<"return", "">>)>>
      [] keyword \in {"break", "continue"} -> <<Expect(";"), Build(<<keyword, "">>)>>

AtLabel == AtIdentifier /\ Peek = ":"

KeywordStatement ==
    /\ Ready("statement") /\ Head(ahead) \in Keywords
    /\ Go(1, Parts(Head(ahead)), <<>>)
    /\ UNCHANGED ok /\ NotNested

LabeledStatement ==
    /\ Ready("statement") /\ AtLabel
    /\ Go(1, <<Expect(":")>> \o Statement \o <<Build(<<"label", Head(ahead)>>)>>, <<>>)
    /\ UNCHANGED ok /\ NotNested

BlockStatement ==
    /\ Ready("statement") /\ At("{")
    /\ Go(0, <<F("compound")>>, <<>>)
    /\ UNCHANGED ok /\ NotNested

EmptyStatement ==
    /\ Ready("statement") /\ At(";")
    /\ Go(1, <<>>, <<<<"empty", "">>>>)
    /\ ok' = TRUE /\ NotNested

ExpressionStatement ==
    /\ Ready("statement")
    /\ Head(ahead) \notin Keywords \union {"{", ";"} /\ ~AtLabel
    /\ Go(0, Expression \o <<F("expression statement")>>, <<>>)
    /\ UNCHANGED ok /\ NotNested

(* Faulty: there is a node in any case.                                    *)
EndExpressionStatementAnyway ==
    /\ Ready("expression statement")
    /\ Go(0, <<Expect(";"), Build(<<"expression", "">>)>>, <<>>)
    /\ UNCHANGED ok /\ NotNested

(* Without an expression there is no node, so that the block recovers.     *)
EndExpressionStatement ==
    /\ Ready("expression statement")
    /\ Go(0, IF ok THEN <<Expect(";"), Build(<<"expression", "">>)>> ELSE <<>>, <<>>)
    /\ UNCHANGED ok /\ NotNested

Else ==
    /\ Ready("else")
    /\ IF At("else") THEN Go(1, Statement \o <<Build(<<"if", "else">>)>>, <<>>)
       ELSE Go(0, <<Build(<<"if", "">>)>>, <<>>)
    /\ UNCHANGED ok /\ NotNested

Goto ==
    /\ Ready("goto")
    /\ LET rest == <<Expect(";"), Build(<<"goto", "">>)>>
       IN  IF AtIdentifier THEN Go(1, rest, <<>>) ELSE Complain(0, rest)
    /\ UNCHANGED ok /\ NotNested

(* The first clause of a for statement and what follows it.                *)
ForClauses ==
    <<Optional(";"), Expect(";"), Optional(")"), Expect(")")>> \o Statement
    \o <<Build(<<"for", "">>)>>

For ==
    /\ Ready("for")
    /\ IF BeginsDeclaration(Head(ahead)) THEN Go(0, Declaration("inner") \o ForClauses, <<>>)
       ELSE IF At(";") THEN Go(1, ForClauses, <<<<"empty", "">>>>)
       ELSE Go(0, Expression \o <<Expect(";"), Build(<<"expression", "">>)>> \o ForClauses, <<>>)
    /\ UNCHANGED ok /\ NotNested

-----------------------------------------------------------------------------
(* The translation unit.                                                   *)
ExternalDeclaration ==
    /\ Ready("unit") /\ ~At("eof")
    /\ Go(0, Declaration("file") \o <<F("recover unit"), F("unit")>>, <<>>)
    /\ UNCHANGED ok /\ NotNested

(* A # in the first column.  Where its line ends is not in the token, so it*)
(* may end anywhere.                                                       *)
PreprocessorLine ==
    \/ /\ Ready("unit") /\ At("#")
       /\ Go(1, <<F("line"), F("unit")>>, <<>>)
       /\ UNCHANGED ok /\ NotNested
    \/ /\ Ready("line")
       /\ Go(0, <<>>, <<<<"line", "">>>>)
       /\ UNCHANGED ok /\ NotNested
    \/ /\ Ready("line") /\ ~At("eof")
       /\ Go(1, <<F("line")>>, <<>>)
       /\ UNCHANGED ok /\ NotNested

(* Outside of everything a closing brace is skipped as well.               *)
RecoverUnit ==
    /\ Ready("recover unit")
    /\ Go(0, IF ok THEN <<>> ELSE <<F("synchronize"), F("brace")>>, <<>>)
    /\ UNCHANGED ok /\ NotNested

SkipBrace ==
    /\ Ready("brace")
    /\ Go(IF At("}") THEN 1 ELSE 0, <<>>, <<>>)
    /\ UNCHANGED ok /\ NotNested

EndOfUnit ==
    /\ Ready("unit") /\ At("eof")
    /\ Go(0, <<>>, <<>>)
    /\ UNCHANGED ok /\ NotNested

-----------------------------------------------------------------------------
Init ==
    /\ scenario \in DOMAIN Scenarios
    /\ input = [first |-> Scenarios[scenario].first, most |-> Scenarios[scenario].most,
                last |-> Scenarios[scenario].last]
    /\ ahead = <<>>
    /\ stack = <<F("unit")>>
    /\ ok = TRUE
    /\ found = NothingFound
    /\ depth = 0
    /\ typedefs = Table!Seeded(Builtins)
    /\ silent = TRUE
    /\ tree = <<>>
    /\ text = <<>>

ParseExpression ==
    \/ BeginCast \/ CastOperand \/ UnaryOperator
    \/ BeginSizeof \/ SizeofType \/ SizeofExpression
    \/ Operand \/ Parenthesized \/ NoExpression
    \/ Subscript \/ BeginCall \/ Arguments \/ MoreArguments \/ NextArgument
    \/ Member \/ MemberName \/ PostIncrement \/ EndPostfix
    \/ NoOperator \/ BinaryOperator \/ JoinOperands
    \/ Question \/ ElseOperand \/ Assign \/ Assigned
    \/ OptionalExpression

ParseDeclaration ==
    \/ Specifier \/ EndSpecifiers \/ Tag \/ Record \/ Field \/ EndFields
    \/ EnumTag \/ Enum \/ SkipEnumerator
    \/ Pointer \/ PointerQualifier \/ DirectDeclarator \/ Group \/ Suffix
    \/ ParameterList \/ Parameter \/ ParameterDeclarator \/ MoreParameters
    \/ BeginDeclaration \/ AfterDeclarator \/ Initializer \/ NextDeclarator \/ RecordNames

ParseStatement ==
    \/ Compound \/ BlockItem \/ EndCompound
    \/ KeywordStatement \/ LabeledStatement \/ BlockStatement \/ EmptyStatement
    \/ ExpressionStatement \/ EndExpressionStatement \/ Else \/ Goto \/ For

ParseUnit ==
    \/ ExternalDeclaration \/ PreprocessorLine \/ RecoverUnit \/ SkipBrace \/ EndOfUnit
    \/ Recover \/ Synchronize

Next ==
    \/ Lex
    \/ LeaveNesting \/ ExpectToken \/ BuildNode \/ BuildOverOperand
    \/ ParseExpression \/ ParseDeclaration \/ ParseStatement \/ ParseUnit

Spec == Init /\ [][Next]_vars

(* The parser is one loop of calls that nothing else can stop.             *)
FairSpec == Spec /\ WF_vars(Next)

-----------------------------------------------------------------------------
Frames(names) == {i \in DOMAIN stack : stack[i].f \in names}

(* Every way out of a nested expression, the ones after errors included,   *)
(* takes back its count, and every way out of a block or record its typedef*)
(* scope.                                                                  *)
CountsFollowCalls ==
    /\ depth = Cardinality(Frames({"leave"}))
    /\ Len(typedefs.starts) = 1 + Cardinality(Frames({"block", "fields"}))

(* The expressions within one another are as many as may nest, and the      *)
(* outermost.                                                               *)
RecursionIsCapped ==
    Cardinality({i \in DOMAIN stack : stack[i].f \in {"rest", "join", "else operand"}
                                      /\ stack[i].to = CommaLevel})
    <= MaxNesting + 1
=============================================================================
