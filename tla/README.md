# Lumi-Compiler in TLA+

This directory holds a formal model of Lumi-Compiler: TLA+ modules that follow
the C sources function by function, configurations with which TLC checks them on
small instances, and proofs that TLAPS checks for every value of the constants.
The models are written from the code; where the code and a document of the
repository, a comment or a test say different things, the model does what the
code does, and section 6 lists the differences.

Paths below are those of the repository; `src/ccompiler/` holds the sources,
`include/ccompiler/` the headers.

## 1. Inventory

Lumi-Compiler is one sequential program. `lumi <command> <file>` reads a file,
runs the stages the command needs one after the other, and prints a product or
diagnostics. There are no threads, no signals, nothing is persisted and nothing
is retried, so the hard behaviours are those of long sequences of legal inputs:
state shared by files that include each other, stacks that every return path
must unwind, tables that several passes keep of the same names, limits, and
arithmetic at its boundaries.

| Component | Source | State it keeps | Operations | What makes it correct |
|---|---|---|---|---|
| driver | `main.c` | options, command, per stage a result and a buffer | parse options, run `lex`, `preprocess`, `parse`, `check`, `codegen`, exit | an error of any stage reaches the exit code; no product of a failed run; no stage runs on a failed stage's result |
| diagnostic buffers | `util.c`, `util.h`, `cc_add_diagnostic` of each stage | a growing array, at most 200 entries and one notice | add, overflow notice, count errors | no write outside the array; an error is not lost because the buffer is full |
| preprocessor: directives | `preprocessor.c` | include depth (the C stack), conditional frames, macro table, `#pragma once` set, block-comment flag, output | a handler per directive, file entry and exit | a line is included exactly when all groups around it are in their chosen branch, whatever files they are in; recursion ends; protected files give their text once |
| preprocessor: macros | `preprocessor.c` | a flag per macro, the depth, the block-comment flag | expand text, collect and substitute arguments | no macro expands in itself; the result is C's |
| lexer | `lexer.c`, `token.c` | offset, line, column; tokens | skip trivia, lex a word, number, literal, punctuator | the longest token, no character lost, positions agree at every kind of line end |
| parser | `parser.c`, `parser_ast.c` | position, depth (and the C stack), typedef names with scope marks | recursive descent, error recovery | what is accepted silently is a sentence with its tree, what is a sentence is accepted; typedef names are the ones in scope; recovery makes progress; the depth count is right on every path |
| semantic analysis: statements, names | `sema.c` | scope stack of symbols, statement context, counts | declare, look up, check statements | accepts well-formed programs, refuses others; what it accepts can be lowered |
| semantic analysis: records | `sema.c` | tags by scope, record types, the definitions under way | resolve a specifier, place a field, complete a type | a tag names the type C says; a type is completed once, unless it is defined inside itself; layouts are sound |
| semantic analysis: expressions | `sema.c` | none | type an expression, check its use | accepts what C does, with C's types; what it accepts can be lowered |
| constant folding | `sema_const.c` | none | evaluate an expression | an answer is the value; no undefined arithmetic |
| code generation: statements, names | `codegen.c`, `codegen_switch.inc` | code text, counters, control stack, name scopes | lower functions and statements | the code does what the source does; distinct variables have distinct names |
| code generation: expressions | `codegen.c` | code text, counters | lower an expression or a place to a text that stands for its value | effects and value are C's; a temporary is set before it is read |
| diagnostic rendering | `diagnostic.c` | none | print a span | pure output |
| tests, fuzzing, build | `tests/`, `fuzz/`, `Makefile` | - | - | read as documentation of what is expected |

How they interact. `main.c` calls a stage with the previous one's result; each
stage owns its diagnostic buffer. The preprocessor's handlers share one
`CCPreprocessor` among all files they recurse into. Parser, semantic analysis
and code generator each keep a table of names of their own and never exchange
them: they agree only because they walk the same text. Semantic analysis and
code generation both call the constant folder, one to check case labels and the
other to emit them; the code generator relies on the statement rules of the
semantic analysis for its control stack to be non-empty.

`PROJECT.json` lists the hazards of this code one by one, each at its line with
the properties that would catch it.

## 2. Modules

Every module names the functions it follows in its comments; `PROJECT.json` maps
each definition to its lines. Definitions introduced as "Faulty" are the wrong
variants used to confirm that a property notices a plausible mistake.

### Driver and buffers

* `Diagnostics`: `cc_diagnostic_buffer_can_add` and `cc_add_diagnostic`. A
  buffer is its number of entries of each severity, whether the overflow notice
  is in it and with which severity, and the allocated size. The order of the
  entries is left out: the driver only counts.
* `Driver`: one action per option case (`Dump`, `Help`, `Unrecognized`,
  `Positional`, `Usage`), `Run(loaded)` for the dispatch and the loading of the
  file, then `Report(severity)`, and `Advance`, `Stop` or `Succeed` where
  `cc_run_*` tests a stage's buffer. A stage is the sequence of diagnostics it reports,
  any sequence, because what it computes is the other modules' subject.

### Preprocessor

* `Preprocessor`: the interpreter of directives over lines
  `[op, name, arg]`: `op` is what the handler's chain of comparisons selects,
  `arg` the case inside the handler. The include stack is the C call stack of
  `cc_preprocess_path`; everything else is a field of `CCPreprocessor`. One
  action per directive handler, `Include`, return at the end of a file, and the
  check for open groups at the end.
* `ConditionalInclusion`: the abstract specification. It has no stack and no
  files: a line that has been read is included when each open group around it,
  found by counting openings and closings, is in the first branch whose
  condition holds.
* `PreprocessorTrace`: adds the history of handled lines and states what is
  said of it: that of any group lines of one branch only were included
  (`BranchOnce`), and the refinement,
  `ImplementsConditionalInclusion == Reference!Spec`.
* `MacroExpansion`: `cc_expand_text` and `cc_expand_function_macro` on tokens,
  the recursion as an explicit stack `calls`; the flag `macro->expanding` is the
  set `expanding`. One action per case of the scanning loop, and `EndCall`.
* `CMacros`: the reference, C's rescanning algorithm in which each token carries
  the names it may no longer expand, arguments are expanded before they are
  substituted and comments are gone before anything else. Recursive operators,
  so only TLC evaluates it.

### Constants

* `ConstFold`: the overflow tests of `sema_const.c`, on a `long long` of any
  width, with the intermediate terms they compute, and on them
  `cc_eval_const_integer_expr`. Actions build every expression bottom up on a
  stack; each entry carries the evaluator's answer and the meaning in unbounded
  integers. `&`, `|` and `^` give the number whose bits are the combined bits of
  the operands, bit i being the parity of the quotient by 2^i. A literal is what
  it stands for in C and the form it is written in, which decides what the
  evaluator makes of it (`FoldLiteral`): a letter behind a backslash, an octal
  escape, a binary number, a string with an apostrophe in it. `Ordinary` are
  those it gives C's value.

### Statements

* `Statements`: the trees the parser builds, with the order of children that
  `parser.c` gives them. `Statement[n]` is the set of statements up to height n.
* `StatementRules`: the statement visitor of `sema.c` with its context (break
  and loop depth, switch records, labels, gotos), and the analysis that a
  function returns. The label of a case is a constant, an expression that does
  not fold (the empty word) or a constant of no integer type (`Mistyped`).
  `VisitStatement` is the visitor at one statement, given what it
  does to those that are less high; `Visiting` is that, height by height.
* `Codegen`: the lowering, an operator per `cc_codegen_*` function with its
  context (code, label counter, control stack), `Lowering` from `LowerStatement`
  height by height, and a machine that runs the emitted code one evaluation at a
  time for every value.
* `SourceSemantics`: the abstract specification: which expression of the source
  is evaluated next, as C defines statements. It knows nothing of labels.
  `Codegen` implements it (`ImplementsSource`, in `MCCodegen`: the reference is
  recursive, and stays out of the modules that theorems are about).

### Names

* `TypedefTable` (parser), `SymbolTable` (semantic analysis), `NameBinding`
  (code generator): the three tables with their push, pop, insert and lookup.
* `LexicalScoping`: the reference, what a name means in C.
* `Names` composes the four: it reads a translation unit construct by construct
  (declarations, function heads and bodies, parameters, blocks, `for`, uses) and
  advances every table as its pass would. The passes run one after the other in
  the program; since each table depends only on the text before it and a pass
  runs only when the one before accepted, advancing them together up to the
  first refusal loses nothing.

### Lexer

* `Lexer`: every scan of `lexer.c` as a function from position to position,
  built on `Advance` (`cc_advance`), the one place where offset, line and column
  move. An action is one turn of the loop in `cc_lex_source`: a piece of trivia,
  a literal, a word, a number, a punctuator, a character that begins nothing,
  the end. The table of punctuators is in the order of the code, because its
  order is what makes the first match the longest.
* `CTokens`: the reference, C's lexical grammar as predicates on words, without
  any scan: a text falls into pieces, the next one always being the longest word
  that is a token. It marks where this lexer takes more than C.

### Parser

* `Parser`: the recursive descent. The C call stack is the variable `stack`; a
  frame is a function at a place it goes on from. Tokens are chosen when they are
  first looked at (`ahead`), so that a run parses every text of a scenario
  without enumerating texts first. A step is one decision of a parse function:
  `Consume`, `ExpectToken`, `Nest`, `BuildNode` and the like are helpers that
  stand for `cc_advance`, `cc_expect`, `cc_enter_expression_nesting` and
  `cc_new_ast_node`. Recovery (`Synchronize`, `Recover`, `RecoverUnit`,
  `SkipBrace`) and the typedef table with its scopes are part of it.
* `CGrammar`: the reference: productions with the nodes of their trees and a
  count of how deeply a phrase nests. No recursive descent, no lookahead; phrases
  are generated by length. It marks what this parser adds to C and leaves out. The
  properties that compare the two are at its end.

### Expressions

* `ExpressionTrees`: trees, by their height, and types; which kinds of children a
  node has. `DeclaredAssumption` says what the declarations around an expression
  are: names, fields and type names have types, none of them invalid, and a
  pointer or function type is made of such types.
* `ExpressionTypes`: `cc_analyze_expression` and what it calls, an operator per
  handler: the type, whether it is an lvalue, whether it was given up, and how
  many errors have been reported; and what statements and declarations ask of an
  expression. `AnalyzeNode` is the switch over the kinds of nodes, given what the
  children were found to be; `Analyzing` applies it height by height. `CheckTypes`
  is the one action, of `TypesSpec`.
* `CExpressions`: the reference: C's static types, with decay, promotion and
  common types, a set with one answer or, where a constraint is violated, none;
  `Departs`, where the analysis goes another way than C, said in terms of C's types
  of the operands (section 6 lists it); and `TypesAreC`. No expression with a
  departing part is compared with C's types, and each case of `Departs` is needed:
  without it there is an expression on which the two differ.
* `ExpressionLowering`: the two passes over an expression, and memory: scalars
  by path, such as an element of an array or a member of a member. `Check` analyses
  it: it is `CheckTypes`, with the rest unchanged, so a behaviour of `Spec` is one
  of `TypesSpec`. Unless errors were reported `Generate` lowers it, when the command
  is `codegen`. `Lower` is `cc_codegen_expression`, with
  `cc_codegen_place_expression` and `cc_codegen_conditional_expression`: what an
  expression is lowered to is code and a text for its value, which is read only
  where it is used. The actions execute the code, an instruction at a time. The
  repository prints the intermediate code but has no interpreter for it: `Where`,
  `Read`, `Effect` and `Execute` are the plain reading of its text.
* `ExpressionMeaning`: the reference for the code: value and effects in C, with
  sequence points. An expression whose unsequenced operands touch each other's
  cells is undefined and nothing is asked of its code. `Plain` says where the
  generator keeps to C (section 6). The properties of the code are at the end.

### Records

* `RecordTypes`: tags scope by scope, record types as objects, and the
  definitions under way (`open`), which are the recursive calls of
  `cc_resolve_record_specifier`. A definition opens, declares fields, which may
  define further records, and closes.
* `CRecords`: the reference, what the same text says in C: entities, scopes of
  tags, completeness, layout, and objections. Where the compiler is known to go
  another way the text is `apart`, and the comparison ends there.
* `Records`: the two, construct by construct; behind a departure the compiler
  goes on alone. `nested` remembers whether a record has been defined inside its
  own definition.

`MC*` modules give the constants values. `*Proofs` modules hold the proofs.

## 3. Runs

| Run | Module, configuration | What it shows |
|---|---|---|
| `includes` | `MCPreprocessor`, `Preprocessor_includes.cfg` | files that guard, mark and include themselves and each other: protected text appears once, preprocessing ends |
| `crossing` | `MCPreprocessorTrace`, `Preprocessor_crossing.cfg` | groups that open in one file and close in another, complete or broken: an active frame means all are, of a group one branch only is included, refinement of `ConditionalInclusion`, excluded lines do nothing but continue their groups, a clean run was balanced |
| `driver` | `MCDriver`, `Driver_pipeline.cfg` | every command line of up to three words and every sequence of diagnostics: no write outside a buffer, no lost error, no product of a failed run, no stage on a failed stage's result |
| `folding` | `ConstFold`, `ConstFold_answers.cfg` | a folded value is the value of the expression, unless it has a literal that the conversion gets wrong or a cast that changes its operand (section 6), and only products and unneeded operands are refused without cause |
| `lowering` | `MCCodegen`, `Codegen_statements.cfg` | accepted bodies are lowered, the labels of their cases among them, the emitted code evaluates what the source evaluates, bodies said to return never reach their end |
| `names` | `MCNames`, `Names_scopes.cfg` | ill-scoped programs are refused, well-scoped ones accepted, lookup is lexical, uses reach their declaration, live locals differ in name, the printed counts are right |
| `macros` | `MCMacroExpansion`, `MacroExpansion_lines.cfg` | flags follow the calls, expansion ends, lines without calls in arguments expand as C says |
| `texts` | `MCParser`, `Parser_texts.cfg` | a text parsed silently is a sentence with the grammar's tree (`SilentIsGrammatical`); the first diagnostic comes where no sentence goes on, so no sentence is refused (`ComplainsInTime`); the depth count and the typedef scopes are those of the calls under way (`CountsFollowCalls`); every text ends (`Terminates`) |
| `nesting` | `MCParser`, `Parser_nesting.cfg` | a violation, section 6 |
| `lexing` | `MCLexer`, `Lexer_texts.cfg` | a text without a complaint falls into C's tokens, the longest each time; no character of any text is lost; every token is at the line and column it says |
| `meaning` | `MCExpressions`, `Expressions_meaning.cfg` | an expression is refused exactly if it violates C's constraints, and otherwise has C's type (`TypesAreC`); what is accepted can be lowered, and its value is of the type the analysis gave it (`AcceptedGoesThrough`); the code has C's effects and yields C's value where C defines them (`MeaningIsC`); in any code, temporaries are set before they are read (`TemporariesAreSet`) |
| `records` | `Records`, `Records_layouts.cfg` | the compiler refuses exactly what C forbids, resolves tags to the types C means and lays records out as C; a completed type is changed only where a record is defined inside its own definition, which the compiler does not notice (section 6) |

The type invariants (`TypeOK`) of the modules hold but are no part of the runs:
the other properties would fail first. Those of `Preprocessor`, `ConstFold` and
`RecordTypes` (there `TypeInv`) are proved.

### Bounds, and why they are enough

* `driver`: the real cap of 200 and the real sizes 8, 16, ..., 256 of the
  doubling, so the boundary is the program's own. Command lines have up to
  `MaxArguments` = 3 words: three positional words are already too many for
  every command.
* `includes`: a translation unit of up to two lines and a header of up to four
  (an include guard with a line in it needs four), or one that begins with a null or unknown directive,
  `MaxIncludeDepth` 3 in place of 200 and `MaxDiagnostics` 2 in place
  of 200. Depth 3 has a first, a middle and a refused level.
* `crossing`: four lines, the second of which includes a header of up to two
  lines that has every line the code can report. A group can open in either
  file, be continued in the other and be closed in the first again; depth 2
  still refuses a third level. `MaxDiagnostics` 2 reaches the notice.
* `folding`: `Width` 4, `LLongMax` 7: every pair of operands of every operator,
  with `MaxOperands` 3 operands waiting, so that the conditional operator and
  any nesting of unary, binary and cast operators occur. Literals of every form, with `CharMax` 3
  as the greatest code of a character: codes below and above it, numbers up to
  2^`Width`, so beyond `LLongMax` and beyond all bits. The boundaries of the
  tests (least value, -1, 0, the width) are all there; the tests are also proved
  for every width.
* `lowering`: every statement construct around every other, `if`-`else` and
  `switch` with two different bodies, with a tail behind them, values `"0"`,
  `"1"`, `"2"`: false, and two case constants, and labels that do not fold or are
  of no integer type (`Mistyped`). Loops are executed without bound.
  The trees are up to nine high (`Height`), over one label and these constants
  (`Words`).
* `names`: two names, five declarations (`MaxDeclarations`), four open scopes
  (`MaxDepth`: file, parameters or body, and two inside), two function types.
  Hiding a declaration that itself hides one, and leaving it again, fits in.
* `macros`: macros A, F and B that name themselves and each other,
  `MaxExpansionDepth` 2 in place of 32 and a table with three macros that exceeds
  it, every line of up to three tokens (`LineLength`) and a family of nested
  calls behind which comments and names follow.
* `texts`: fourteen scenarios, each an alphabet and a context: all texts of up to
  five, six or seven tokens of an alphabet, behind a beginning that leads to the
  construct (a second `if`, the inside of `for (`, a parameter list, `do`), with
  an end that completes it. Five tokens of one alphabet take every binary
  operator on each side of every other, a cast in a cast, a conditional in each
  place of a conditional. `MaxNesting` 2 in place of 200: counted, counted twice,
  refused. Recovery reads what comes after the first error, so all wrong texts of
  these lengths end too.
* `nesting`: conditionals of up to five tokens, `MaxNesting` 1.
* `lexing`: per construct, every text over the characters it turns on, up to two
  to five of them, some behind a beginning such as `0x`, `"\u` or `/*` that
  makes the case reachable; CR, LF and both, and the end of the text, can come
  after any of them.
* `meaning`: three levels of assignment, step, comma and call over two variables;
  two levels of logic and conditionals; uses of places through pointers and
  subscripts whose parts have effects; members of members; casts of pointers back
  and forth. The memory has two numbers, an array of three, pointers and a
  structure in a structure. For the analysis alone: every operator on names of
  every kind of type (integers of three ranks, both floating types, pointers to
  objects, `void`, functions, pointers and incomplete structures, two structures,
  functions, a typedef, an undeclared name), and on one expression of every kind
  of result those give, given up ones among them; two levels are what it takes for
  one wrong answer to reach another operator. `Height` is 7, which the highest of these
  trees reaches; the declared types are those of the names and what they are made of.
* `records`: two tags, two member names, `char` and `int` and pointers, so all
  three alignments; three record types (`MaxTypes`), five of types and members
  together (`MaxParts`), three scopes (`MaxScopes`), definitions two deep
  (`MaxOpen`). A text with which the compiler goes on alone ends at four parts
  (`MaxAlone`), enough to complete a record twice, with a field in between that
  holds it. Three types are what a definition inside a definition, with one
  hidden outside, needs. The tags and the names are symmetric.

### Fairness and stopping

`FairSpec` of `Preprocessor` and `Parser`, and `FairExpansion` of
`MacroExpansion`, add `WF` of the next step to the specification: one thread executes the loop and nothing can disable it, so it goes on as long
as there is something to do. No stronger assumption is made. `Terminates` is a
claim about the code's depth caps, flags and loops: without them the models have
infinite or cyclic behaviours. In the parser it says that no loop goes round
without a token, in particular that recovery leaves its caller at a token it can
go on from.

`CHECK_DEADLOCK FALSE` stands where the program comes to an end: the file is
read, the line is expanded, the text is parsed or lexed, the code has run, the
function has returned, the unit was refused.
`driver` and `folding` check for deadlock: the driver has an explicit step in
which the process has exited, an expression can always grow.

### What the models abstract

* Lines, tokens and names are members of small sets; characters, wording and
  layout are left out. `#if` conditions are the three forms the code accepts: a
  number, `defined`, a name.
* Paths are file names; a missing file, a name the syntax check rejects and a
  file that exists but cannot be loaded are distinct cases.
* Allocation failure ends the program (`util.c`) and is left out.
* Macros: token pasting, string and character literals and spaces are left out.
  A call with the wrong number of arguments leaves its name, one without a
  closing parenthesis drops the rest of the line, as in the code; both are
  errors in C, so no property speaks of them.
* Folding: one signed type; suffixes change nothing, as in the code. Literals are
  converted and casts looked through as the code does, but `AnswersAreMeanings`
  does not speak of expressions whose literals are not `Ordinary` or whose casts
  change the operand (`plain`). Of text, only what decides the value is kept:
  a code, and the letter behind the backslash or apostrophe. A literal of several characters is not generated
  (section 6). Once an undefined operation was performed (`trips`)
  nothing further is asked of the expression.
* Lowering of statements: an expression is one instruction, evaluated to any
  value. A `for` with an iteration has a condition; the code lowers the other
  case differently (section 6).
* Names: objects are `int` or of a named type. The reference counts tentative
  definitions and repeated typedefs as second declarations, as the compiler
  deliberately does. Function declarations inside functions are not generated, nor a typedef as
  the first clause of a `for`.
* Lexer: a character is a member of a small alphabet, a line end or NUL. The cap
  on diagnostics is left to `Diagnostics`.
* Parser: a token is its kind, names apart; a tree is the sequence of its nodes,
  each after its children. Spans and messages are left out: a text is parsed
  silently or not.
* Expressions: numbers are small integers without overflow (that is `ConstFold`),
  pointers are paths, a call notes its argument in one cell, so that calls can be
  told apart and ordered. Literals are of type `int`; none is a null pointer
  constant, which the analysis does not know. An array is the pointer it is for the
  analysis. Names are declared with complete types, or as pointers.
* Records: scalar members have the sizes of `char`, `int` and pointers; a member
  is a plain declarator or a pointer. Arrays, bit-fields and parameters of record
  types are left out. A text ends where the compiler refuses it.

## 4. Proofs

| Module | Theorems | Argument |
|---|---|---|
| `PreprocessorProofs` | `FrameChainHolds`, `ActiveIsConjunction`, `OneBranchOfAGroup`, `TypeCorrect`, `MarkedFilesGiveTextOnce`, `GuardedFilesGiveTextOnce` | frames and tables of the interpreter |
| | `IncludesWhatCDoes`, `ExcludedLinesDoNothing`, `CleanRunsAreBalanced` | the history of handled lines; the refinement of `ConditionalInclusion` |
| | `NoMacroInItself`, `NestingIsCapped` | macro expansion: flags and calls |
| `DriverProofs` | `BufferNeverOverrun`, `NoErrorIsLost`, `ProductsOnlyFromCleanRuns`, `NoStageAfterAFailure` | buffers against the cap |
| `SemanticProofs` | `LayoutsSound`, `RefusedWhenInvalid`, `RecordsFollowC`, `CompletedTypesNeverChange`, and `Inductive`, `AgreementInductive`, `SoundInC` | records: the types of the compiler are the entities of C |
| | `AcceptedTypesAreC` | expressions: analysis and C's rules agree at each node, by height |
| `NamesProofs` | `LocalsNeverShareAName`, `TablesFollowScopes`, `IllScopedProgramsAreRefused`, `WellScopedProgramsAreAccepted`, `LookupsFollowScopes`, `UsesAreEmittedAsDeclared` | three tables against the scopes of C |
| `ConstFoldProofs` | `AddTestExact`, `SubTestExact`, `MulTestSound`, `NegativeRightOperandRefused`, `FoldTypes`, `FoldInvariant`, `AnswersAreRight`, `RefusalsHaveAReason` | arithmetic, from facts about truncating division and powers of two |
| `ParserProofs` | `CallsAreCounted`, `CountsFollow`, `NestingIsBounded` | counts against the call stack |
| `CodegenProofs` | `AcceptedBodiesAreLowered`, `ReturningBodiesReturn` | the visitor's walk over a body against the generator's, by height |
| `LexerProofs` | `PositionsAlwaysAgree`, `EveryTurnGoesForward`, `NothingIsEverLost` | loops made of one function |
| | `TokensAreAlwaysLongest` | every turn takes off the first of C's pieces, or complains of an ill-formed one |

All theorems are about every value of the constants that the named assumptions
allow: no bound of section 3 is used, except that a bound that is the program's
own (`MaxNesting`, `MaxIncludeDepth`, `MaxExpansionDepth`, `Cap`) is any number.

**Preprocessor.** Assumptions: the files, the macro names and the limits are
what their `ASSUME`s say (non-empty sets of names, limits in `Nat`). The
handlers change the frames in four ways (`FramesStep`): push, take an `#elif`,
take an `#else`, pop. `FramesInv` adds to `FrameChain` that activity is
downward closed: if a frame is active all below it are. That cannot be had from
the chain alone without an induction over the stack, so it is carried along;
`ActiveIsConjunction` is then its instance at the top. `TypeCorrect` uses
`IInv == ProgramOK /\ StackOK /\ DiagnosticsOK /\ TablesOK`; of these `StackOK`
matters: positions stay inside the files and the depth under the cap.

That protected files give their text once is one argument for both protections.
`Once` says of a file: it is on the stack at most once, it carries its mark if it
is on the stack or has given text, and what it gave is from lines before the one
it is at. The mark is membership in `pragmaOnce`, or, for a guard, that its name
is defined. `Once` holds except at the top of a file, so the invariants add what
a file that protects itself can be doing there: `Entering`, it has just been
entered for the first time and its mark is the next thing read; for a guard
`InGuard`, it has been entered on top of a stack for which `Once` holds and is at
its `#ifndef` or its `#define`, or the name was defined already and everything up
to its `#endif` is passed over, so that no file is entered meanwhile. Only in that
last state can it be on the stack twice. Files may include each other in any
order, from anywhere, by themselves too; nothing is assumed of them but that no
file undefines the guard.

That the preprocessor includes what C says is proved of its history:
`TraceSpec => ImplementsConditionalInclusion`. The specification it implements
has no frames: for a line it finds, among the lines read before, the opening
directives that are not closed again, by counting. `HistoryInv` ties the two:
`Follows` says that there are as many frames as directives that are open by that
count, and that the frame at each depth has the state that its group has by the
reference, its branch taken or not and the conditions of its earlier branches;
`MacrosFollow`, that the macro table holds what the included `#define` and
`#undef` lines give. The step that needs an argument is the closing of a group:
what was open below is the same as before it was opened, since the count between
the two never falls below where it started. `ExcludedLinesDoNothing` follows
step by step from the same invariant: an excluded line is read with an inactive
frame on top, and the handlers look at that, those of the conditional groups
excepted. `OneBranchOfAGroup` says of any two included lines of a group, read
whenever and from whichever files, that no `#elif` or `#else` of it stands
between them. `WellChosen` is what makes it inductive: each line that was
included stood, when it was read, in the branches the reference chooses
(`HistoryInv` gives that of the next one), and of the branches of a group it
chooses one. `CleanInv` says the reverse of an error: as
long as nothing was reported the surplus of openings is the number of frames, it
was never negative, and no `#elif` or `#else` stood outside a group.

**Driver.** The theorems are of the form `CapMissed => (Spec => []...)`, where
`CapMissed` says that no capacity a buffer grows through equals the cap. That
condition is the point: the notice is written at `items[count]` without growth,
so it needs a spare slot when the cap is hit. With 200 and doubling from 8 or
16 it holds; a cap of 128 would write one slot past the end. `BufferInv` ties
count, notice and capacity together; `FailureShows` says that a stage that
failed has an error counted in the current buffer. For it the buffer may not
be full of warnings, which is `NoWarnings`: the driver never turns warnings on.
`ProductsInv` adds that nothing is printed before the end and that a clean product
goes with no failed stage; the other theorem is about steps and follows from
`IInv` alone.

**Names.** `BindingsInv` is `NumbersBelow` (the rename counter is above every
number in use) and `Apart` (no two entries are equal). `Apart` alone is not
inductive: a new number could be in use. Nothing is assumed of the number of
names, declarations or scopes.

The other theorems rest on `NamesInv`: as long as nothing is reported the
program is well scoped so far and the tables are in `Agreed`; once something is,
the program broke a rule of C or hides a type (`hides`, section 6). `Agreed` has
a part per table, and one for the counts. A scope of the symbol table lists exactly what the scope of C
declares, each name once. The typedef table is one list with marks: a mark
belongs to an open brace, the type names of that scope are below the next mark,
and every name of the list is a builtin or a type of an open scope whose mark is
below it. A scope of the code generator binds the objects declared in the scope of C
to the names they were emitted under. What opened each scope is part of C's scopes, and tells apart the
places where the passes push (`for`, parameters and bodies do not push in each of
them). The meaning of a name in C is that of the innermost scope that declares it; each
lookup runs over its table from the top, and the lemmas show that what it finds
first is that. `BuiltinsAssumption`: the builtin names are a list without repetition.

**Macros.** `FlagsInv` says that the line's own call is at the bottom, every
other call is of a macro, no two of the same macro, and the flags are these
macros, with the length of the stack under the cap. Distinctness is what makes
clearing a flag at a return right: no call below still needs it.

**Records.** From `ScalarsAssumption`: the scalar types are `char`, `int`,
`double`, the ones whose sizes the code knows. `IInv == TypeInv /\ Refer /\
LayoutsAreSound`. `Refer` says that what a tag, a definition under way or the
definition just closed refers to is a type there is; without it a size could be
read of nothing. `LayoutsAreSound` speaks of definitions under way too, which is
what makes it inductive: a field is placed behind a record that is already
sound, and closing the definition only rounds its size up (`AlignedUpLemma`).
Nothing is assumed of the number of types, fields or scopes.

That records are C's is `RecordsInv == IInv /\ Verdict /\ Agreement`. `Verdict`:
the compiler has refused exactly if C objects. `Agreement`, until one of them
does: the entities of the text are the record types without their layout, its
scopes of tags, definitions under way and last type are the compiler's (`Seen`);
and (`SoundlyOpen`) no type that is being defined is complete, no two definitions
under way are of one type, and each has been laid out by C's rules so far. The
second part is what makes it inductive, and is also why a completed type does not
change: closing a definition completes the type it is of, and no other
definition holds that type. A record defined again inside its own definition
breaks it: the compiler accepts that (`sema.c:1225` tests for completeness where a definition opens,
`sema.c:1349` completes without a test where it closes), and C does not. The text is then `apart`, and
`nested`. `CompletedTypesNeverChange` therefore speaks of texts that are not
`nested`, whether C and the compiler are together or `apart` for another reason. The compiler places a field behind the
last; C computes offsets by a recursion over the fields. That the two agree for
any number of fields is an argument about the first field for which they would
not. Besides `ScalarsAssumption` only `TagsAssumption` is used: having no tag is not a
tag.

**Expressions.** `AcceptedTypesAreC` says `TypesAreC` of expressions of every height
over any declarations: names, structures, type names and types. The analysis and the
reference are functions of the height, each of which puts one level of nodes on
top of what it has for their children, so one argument about a node is enough.
`Agree` relates the two answers for an expression: either C has none and the
analysis has reported an error, or C has one, nothing was reported, and they are
alike (`Fits`): the same type up to promotion, the same one where the analysis
has an lvalue, lvalues in the same places except where the object has no complete
type. Given this of the children, and that the node is no case of `Departs`, there is
a lemma for each handler that it holds of the node (`StarAgrees`,
`AssignmentAgrees`, `CallAgrees` and so on). The cases where a child was refused
are separate (`UnaryRefuses` and so on), because the handlers treat them
differently: some return at once, some look only at types, and an invalid type is
assignable to anything; what matters is that a reported error is never taken back.
`TreesMatch` goes through the heights. Where a first attempt at a case failed there
was a departure that the declarations of the runs do not reach: `&` of a `void`
object, and incomplete types of parameters, of further arguments and of what is
initialized or returned. Assumed are `DeclaredAssumption`, `HeightAssumption` and
`ExpressionsAssumption` (the expressions are trees up to `Height`, and none is a
bare type name).

The theorem is about `TypesSpec`. `ExpressionLowering`, which executes the code as
well, has recursive operators, so that each of its behaviours is one of `TypesSpec` is
by its definition, and `meaning` checks `TypesAreC` of it.

**Constants.** For every `LLongMax`, the tests for addition and subtraction
overflow nowhere themselves and are exact; the test for multiplication lets no
overflow through. It is not exact: `NegativeRightOperandRefused` proves that
products with a right operand below -1 are refused although many of them fit
(operands 0 and -1 have tests of their own). That a folded constant has the value
C gives it, for every width, is `FoldInv`: every expression that waits on the
stack means one thing at most, an answer reached without an undefined operation,
from ordinary literals (`LiteralFolded`: of these the conversion makes what they
are in C) and casts that keep their operands, is that meaning, and one that is refused nowhere for a product or an unneeded operand has
an answer if it has a meaning (`Good`). `OperatorsDecided` says the same of one
operator on any two values of `long long`; with it each way of building an
expression keeps `Good`. From `WidthAssumption`, `LLongMax` is 2^(Width-1) - 1, and from
`CharMaxAssumption` the codes of characters are well below it.
Powers of two are counted as sets of bits: the provers know nothing of
exponentiation, and the library's `FS_SUBSET` gives 2^n as the number of subsets
of n things. In the library's own development `FS_SUBSET` rests on 2^(n+1) = 2^n + 2^n,
which is left unproved there; it is true, and the only such fact these proofs use.

**Parser.** `CallsInv` says that `expression_depth` is the number of calls under
way that have entered a nested expression (`leave` frames) and not over the cap,
and that the typedef table has a mark for the file and one for every block and
record body under way. A step replaces the top frame by a list of calls, so each
count changes by what is counted in the list less what was on top. Most lists have
no counted frame (`Plain`); the others put one there in the step that counts, and
it is gone in the step that counts back. It holds of texts with errors too: every
return path of the parse functions gives back what it took, and recovery does not
give back what an unwound call still will. Nothing is assumed of the texts.

**Statements.** A walk over a statement is a function of its height, from what the
walk does to the children, so what is true of every statement is shown by height:
from the children of each kind of statement to the statement. That the recursive
definitions define at all is a lemma for each (`VisitingIs`, `LoweringIs`), because
there is no induction to have it from. `ProgramsAssumption`: the bodies are
statements up to `Height`, which is any number.

`Grown` says what a lowering may do: append code whose merge labels, those behind
an `if`, are numbered between the two counters (`Own`), and leave the stack of
targets as it found it. `Joint` puts the two walks side by side. The visitor counts
how many loops and switches it is in; the generator has a stack. As long as the
counts and the stack are `Matching` (in a loop there is a target for `continue`,
in either one for `break`), a statement about which the visitor reports nothing is
lowered without a report; entering a body keeps them matching, and neither count
nor stack is different behind it. A case whose label does not fold is reported by
both passes, but by the generator in a walk of its own, ahead of the body and not
into inner switches: `VisitedFolds` says that a statement visited without a
report has, in that walk, no such label (`Folded`), wherever the walk starts.
The body of a function begins with no loop and
no target.

`ReturningBodiesReturn` needs to know where execution cannot come. A set of
instructions is `Sealed` when no instruction of it follows one that goes on to the
next, unless that one is in the set, and no jump from outside names a label in
it. `SealedByHeight`: behind the code of a statement that is said to return there
is such a set, and the end of the code is in it or does not go on. A `return` has
the empty set; behind the branches of an `if` it is the two jumps to the merge
label, and the label, which nothing else mentions since it is numbered apart; a
compound statement, a label or a case takes the set of its last part. What comes
later mentions none of these labels, so the set stays sealed (`SealedFurther`).
With `endfunc` the set contains the only end of the function, and `OutOfReach`,
which is inductive, says that execution is outside it, whatever values the
conditions have. A `goto` into a branch does no harm: its label is no merge label,
so it is not in the set.

**Lexer.** `Positions` are the places of the text with the line and the column
that the line ends before them make. `AdvanceIs` says that `Advance` takes one to
the next; a carriage return and a line feed behind it are one step over two
characters, and that is the only such step. Every loop of the lexer is
`PastAtMost`: at most so many turns, each of them `Advance`, if the position is at one of
the given places. The lemmas about it say that it stays in `Positions`
(`LoopStays`), that it goes forward if it begins at one of its places
(`LoopGoesOn`), that with as many turns as the text has characters it comes to
its end (`LoopEnds`), and that it passes its own places only, if with a carriage return
it is for the line feed behind it (`LoopPasses`). Escapes and literals are loops
of the same kind (`QuotedIs`). So every turn of the main loop skips something or
adds a token, and is behind where it was; `PlacesInv` and `EveryTurnGoesForward`
follow, the second being why the main loop cannot stop short of the end or go on
at it. No run of its own checks the second, `EveryTurnConsumes`. For
`NothingIsEverLost` it is not enough to know where the scans of trivia end: by the lemmas `SkippedBlank`, `SkippedLineComment` and
`SkippedBlockComment` what they pass is white space or a comment by the
definitions of `CTokens`, in which there is no scan; a block comment ends at the
first star and slash behind its opening, or is open to the end of the text.
`NothingLostInv` adds to the property what is under way: between the last token
and the lexer there is only trivia.

`TokensAreAlwaysLongest` says that the lexer takes exactly the texts that fall
into C's tokens, the next one always the longest there is, and takes them as
these; what this lexer takes beyond C is in `CTokens`, marked there and named in
section 6. `Pieces` defines that by maximal munch over words of any length, with no
scan in it, so the argument has three parts. First `PiecesFromIs`: the
definition has a solution, and what is from a place on, `Rest`, is unfolded by
`RestBehindTrivia`, `RestOpen`, `RestIsNone`, `RestIsCut` and `RestIsToken`.
Then each kind of word of `CTokens` is said by the places where it begins and
ends (`IntegerTo`, `FloatTo`, `EscapeTo`, `LiteralTo`, `PrefixTo`, ...), and
each scan of the lexer is shown to end where such words do, at the last of
them, and to complain exactly if there is none: for one escape
(`EscapeIsRight`), for literals by the turns of their loop (`QuotedIsLiteral`),
and for numbers from their shape, digits, dot, digits, power, suffix, as far as
each goes on (`DecimalNumbers`, `BasedNumbers`, `HexFloats`: no number reaches
further, or the one that is longest is cut and so ill-formed).
`OneKindHere` excludes the other kinds of token by their first characters. Last,
each turn is a `RightSkip` or a `RightAdd` (`SkipsRight`, `LiteralRight`,
`IdentifierRight`, `DecimalRight`, `HexRight`, `BinaryRight`, `PunctuatorRight`,
`InvalidRight`): what is left is the token and what is left behind it, or there
is a complaint and what is left is not well-formed. `TokensInv` adds the tokens up:
as long as nothing is complained of the pieces of the whole text are the
tokens so far and the pieces from here on. The order of the handlers matters in
the proof where it matters in the code: a literal with a prefix before an
identifier, `0x` and `0b` before decimal digits, `.5` before the dot, and longer
punctuators before shorter ones.

Assumed is that texts are sequences of characters (`TextsAssumption`), that no
punctuator of the table is empty (`SpellingsAssumption`), and what both tables
say, character by character (`WordsAssumption`: the lexer's punctuators are C's,
longer ones first, with no letter, digit, quote or blank in them, and keywords are
spelled like identifiers). TLC evaluates all three from the tables; the provers
do not know the length of a string.

Several facts about data that grow (offsets of fields, powers of two, the
innermost scope that declares a name, the turns of a loop) would be proved by induction, which is not
to be had with the installed provers in the form the library offers it, an
operator as a parameter. They are proved from the least number
for which they would fail, which exists by `NatLessThanWellFounded`.

Only model-checked:

* liveness (`Terminates` and `ExpansionEnds`), which is out of the prover's
  reach;
* everything that rests on recursive operators, in whose modules the provers have
  no arithmetic: `CMacros` (`SimpleLinesExpandLikeC`), `SourceSemantics` (the
  refinement `ImplementsSource`), `CGrammar`
  (`SilentIsGrammatical`, `ComplainsInTime`), and `ExpressionLowering` with
  `ExpressionMeaning` (`AcceptedGoesThrough`, `MeaningIsC`,
  `TemporariesAreSet`). Most of these relate two recursions over trees, so they
  would have to be defined by height first, as statements and the types of
  expressions are.

## 5. What is not modelled

* What literals and declarators give for types: names come with theirs. Types of
  literals (`cc_literal_type`) are found by looking for letters in their text, and
  so hold no surprise but those section 6 names. Warnings about conversions:
  they are never on.
* Printed types and initializers in the generated code: text, apart from the order
  in which expressions are evaluated, which is `Codegen`'s.
* Arrays, parameters of record types, enumerations and qualifiers in the type
  tables.
* Token pasting and literals in macro expansion, which are scans over characters.
* Rendering of diagnostics, dumps and summaries, whose content no property is
  about; reading of files; allocation.
* Tests, fuzz targets and build files, which are not part of the compiler.

## 6. Where the code and its documents, or C, differ

One difference has a run of its own, which ends with a counterexample. `nesting`
checks `RecursionIsCapped`: no more of the parser's expression functions are under
way than the cap allows. The comment at `parser.c:255` counts conditionals among
what the cap protects, but the operand between `?` and `:` is parsed before the
count is entered (`parser.c:1536`), so `a?a?a?...` recurses without bound. (The
size of an array type, `sizeof(int[sizeof(int[...`, does so too; the run has no
array types.)

The others were met while modelling. The models do what the code does; the
properties leave these cases out by name (`Plain`, `plain`, `apart`, what a
reference marks) or the generated inputs do not contain them.

Driver and preprocessor:

* The usage text (`main.c:38`) names `-Wall`, which the option parser
  (`main.c:78`) rejects; warnings are therefore never on.
* `util.h:14` asks the cap to stay below 256. That is not the condition: 8, 16,
  32, 64 and 128 are below it and are reached by doubling. `CapMissed` is.
* A comment behind a `#define` becomes part of the replacement.
* A directive inside a block comment is acted upon: `preprocessor.c:1093`
  decides what a directive is without looking at `in_block_comment`.
* Headers that include themselves twice take exponential time to reach the
  depth of 200.
* A macro is flagged before its arguments are expanded (`preprocessor.c:799`),
  so `MAX(1, MAX(2, 3))` keeps the inner call.

Lexer:

* `1.5.3` and `0x1e+3` are several tokens where C has one preprocessing number;
  `1uu` and `''` are accepted; `0b1` is a number.
* A backslash at the end of a line continues it only in literals.
* An escape at the end of the file is reported twice.

Parser:

* A local with a typedef's name is accepted as a declaration and as an operand
  but not at the start of a statement or after a parenthesis, because the parser
  does not record what hides a typedef (`parser.c:442`).
* `for (;; i++)`: a missing condition leaves no child, so `codegen.c:1192` lowers
  the iteration as the condition.
* A cast may not follow a unary operator: `-(int)x` and `*(int *)p` are rejected;
  `sizeof (x)[0]` too. `sizeof(int x)` is accepted, and so are a conditional as
  the left side of an assignment and initialised members.
* The body of an enumeration is skipped, whatever is in it.

Types and records:

* `struct S;` in a block does not hide an outer `S`. `struct S s; struct S {...};`
  at file scope is rejected, and so is a prototype of a record type in a block.
* A record may be defined inside its own definition. In
  `struct S { struct S { int a; } b; int c; };` neither definition finds `S`
  complete when it opens (`sema.c:1225`); the inner one completes it with size 4,
  `b` is placed with that size, and the outer one completes it again, with its
  own members (`sema.c:1349`). The checks on records show this: without `~nested` TLC finds
  `CompletedTypesStay` violated.
* An anonymous member is dropped; `struct S { struct T { int a; }; int c; };` is
  accepted; `struct S { };` is taken for a mere reference.
* Tags of a parameter list stay in the scope around it, and the types of
  parameters are resolved once for the function type and once for its body
  (`sema.c:1571`), so a record defined there is two types.
* A `short` has size 4; a member of array type has the size of a pointer;
  `sizeof(struct T {...})` defines nothing; `unsigned x;` is rejected.
* A literal with an `e`, `x & 0xFE` for one, has type double, and `'"'` that of a
  string (`sema.c:1820`).
* `int f(void *p)` declares no parameter: `void` alone is looked for among the
  specifiers, behind which a pointer may stand (`sema.c:1506`).
* The condition of a `for` may be of any type; that of `if`, `while` and `do` not.
* The message about an initializer, and that about a returned value, names the
  expected and the found type in each other's place (`sema.c:2657-2660`).

Types of expressions (`Departs`, with what it leaves out):

* A compound assignment is checked as an assignment: `p += 1` is rejected, and
  `s += s` on structures, `p += q` and `x %= d` are accepted. So is `*v = *v`
  through a pointer to `void`, and a pointer cannot be assigned to a `bool`, nor
  returned, passed or given as an initial value to one.
* Anything scalar is compared with a pointer, a floating number too. `p - q` is
  rejected; pointers to `void`, functions and incomplete structures are moved,
  stepped and subscripted; `1[p]` is rejected.
* `c ? 1 : 2.0` has type `int`: a conditional has the type of one of its
  operands, and with a pointer to `void` not the one C gives it. A shift has the
  common type of its operands, not that of the left one.
* `&` of an object declared `void` is accepted. So are parameters, variables and
  returned values of incomplete types if the value is of the same type, and
  arguments of incomplete types where `...` takes them.
* Pointers are cast to floating types and back; a pointer to one structure is not
  cast to a pointer to another; a structure is cast to itself.
* The name of a function is no pointer: `g = f` is rejected, and `int *p = 0`,
  because there are no null pointer constants.
* `sizeof` of a type is given up without a word and refused by the code generator;
  with an incomplete type nothing is reported either. The operand of other
  `sizeof`s is analysed twice: its errors are reported twice, and nested ones take
  exponential time: 26 take six seconds.

Constant folding:

* `sema_const.c:319` folds `-operand.value` without a test, so negating the least
  `long long` is undefined in the compiler itself, while the comment at
  `sema_const.c:196` says that undefined arithmetic is not folded.
* A cast folds to its operand unconverted, and arithmetic is that of `long long`
  whatever the types of the operands and the suffixes of the literals.
* A decimal, octal or hexadecimal literal beyond `long long` folds to the
  greatest one (`sema_const.c:51`); a binary one of more bits keeps the lowest
  (`sema_const.c:35`).
* `'\a'`, `'\b'`, `'\f'` and `'\v'` fold to the codes of the letters
  (`sema_const.c:124`), `'\012'` to 0 (`sema_const.c:77`), and a character
  literal of several characters to the first, one with a `\u` to the letter u.
  What `'\xff'` is depends, here as in C, on the sign of `char`.
* A string is looked at like a character: the conversion takes what follows the
  first apostrophe (`sema_const.c:69`), so `"it's"` folds to the code of `s` and
  is emitted as that number (`codegen.c:736`).

Code generation:

* `&&` and `||` evaluate both operands (`codegen.c:854`).
* The operand of `&` is lowered twice (`codegen.c:792`), and that of `sizeof` is
  evaluated.
* Changing `s.t.n` changes a copy of `s.t`: a member that is not a variable's is
  loaded first.
* A type as the operand of `sizeof` passes the semantic analysis and is then an
  unsupported expression.
* A local that hides a local is renamed, one that hides a global is not
  (`codegen.c:322`): `var g` inside a function and a later `ret g` are two
  variables of one name.

## 7. Plan

Done, in this order: `Preprocessor` with its reference and proofs; `Driver` and
`Diagnostics` with proofs; constants; statements from rules to executed code;
names from parser to emitted code; macro expansion; the parser with its grammar;
the lexer with C's tokens; expressions, lowered and executed, then their types;
records with their layout and its proof; the proofs that protected files give
their text once; the proofs that the preprocessor implements conditional
inclusion, that folded constants, names and records are C's, that the
parser's counts are those of its calls, that the lexer loses no character and
no count of lines and that its tokens are the longest, that accepted bodies are lowered and returning ones never
reach their end, and that accepted expressions have C's types.

What could follow:

1. Token pasting and literals in `MacroExpansion`; macro text in `Preprocessor`
   with comments that span lines.
2. Arrays and parameters in `RecordTypes`, and the types it resolves as the names
   of `ExpressionTypes`; null pointer constants once the compiler has them.
3. The lowering of expressions by height, as their types are, for `TemporariesAreSet` and
   `AcceptedGoesThrough` as theorems.

## 8. Running

```
tlc -workers 2 -config Preprocessor_crossing.cfg MCPreprocessorTrace
tlapm PreprocessorProofs.tla
```

Each row of section 3 names its module and configuration. `texts`, `records`,
`crossing`, `names`, `meaning` and `folding` take two minutes or a little more, the
others less. The proofs of `SemanticProofs` and `LexerProofs` take about ten
minutes each, those of `NamesProofs`, `PreprocessorProofs`, `ParserProofs` and
`CodegenProofs` two to four minutes each, the others less.
