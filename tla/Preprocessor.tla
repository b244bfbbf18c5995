---------------------------- MODULE Preprocessor ----------------------------
(***************************************************************************)
(* The directive interpreter of src/src/ccompiler/preprocessor.c: the      *)
(* include stack (the C call stack of cc_preprocess_path), the conditional *)
(* frames, the macro table, the pragma-once set and the block-comment      *)
(* flag.  All of them but the include stack live in one CCPreprocessor     *)
(* shared by every file, which is what the properties below are about.     *)
(*                                                                         *)
(* A source line is abstracted to what its handler distinguishes:          *)
(*   [op, name, arg]                                                       *)
(* where name is the macro a directive names (NoName: the line has none)   *)
(* and arg says which case of the handler it is.  A text line carries one  *)
(* identifier and possibly a comment delimiter; what the identifier        *)
(* expands to is the subject of module MacroExpansion, not of this one.    *)
(***************************************************************************)
EXTENDS Integers, Sequences

CONSTANTS
  Files,            \* the files that can be opened and read, by canonical path
  Main,             \* the translation unit given on the command line
  Missing,          \* an include name that access() cannot find
  Unloadable,       \* a path access() accepts and cc_load_file rejects
  Malformed,        \* an include line without a delimited name
  MacroNames,       \* the identifiers #define can name
  NoName,           \* "no identifier here"
  MaxIncludeDepth,  \* CC_MAX_INCLUDE_DEPTH (200)
  MaxDiagnostics,   \* CC_MAX_DIAGNOSTICS (200)
  Programs          \* the contents of all files, one function per program

\* The operations a line can ask for: "text" is any line without #, "null"
\* is a # with no directive name, "unknown" any directive not listed.
Ops == {"text", "null", "define", "undef", "ifdef", "ifndef", "if", "elif",
        "else", "endif", "pragma", "include", "unknown"}

\* text: where its comment delimiter is.  define: the replacement text.
\* if/elif: the form of the condition.  pragma: its name.
Args == {"none", "plain", "opens", "closes", "zero", "other", "one",
         "defined", "value", "once"}

Includable == Files \cup {Missing, Unloadable, Malformed}

Line == [op : Ops, name : MacroNames \cup {NoName}, arg : Args \cup Includable]

ASSUME ProgramAssumption ==
  /\ Main \in Files
  /\ NoName \notin MacroNames
  /\ Files \cap {Missing, Unloadable, Malformed} = {}
  /\ Missing # Unloadable /\ Missing # Malformed /\ Unloadable # Malformed
  /\ Programs \subseteq [Files -> Seq(Line)]
  /\ \A p \in Programs, f \in Files : \A i \in 1 .. Len(p[f]) :
       /\ p[f][i].op = "include" => p[f][i].arg \in Includable
       /\ p[f][i].op = "define" => p[f][i].arg \in {"zero", "other"}
       /\ p[f][i].op \in {"if", "elif"} /\ p[f][i].arg \in {"defined", "value"}
            => p[f][i].name \in MacroNames

ASSUME DepthAssumption == MaxIncludeDepth \in Nat /\ MaxIncludeDepth >= 1

ASSUME CapAssumption == MaxDiagnostics \in Nat

VARIABLES
  program,       \* the file contents (never changes)
  stack,         \* files being read, innermost last: [file, line]
  macros,        \* the replacement kind of every macro name
  conditionals,  \* preprocessor->conditionals, innermost last
  pragmaOnce,    \* preprocessor->pragma_once_files
  inComment,     \* preprocessor->in_block_comment
  diagnostics,   \* the messages recorded, in order
  output,        \* the text lines emitted, in order
  phase          \* "start", "reading", "finished"

vars == <<program, stack, macros, conditionals, pragmaOnce, inComment,
          diagnostics, output, phase>>

\* What a cc_preprocess_path call can leave alone when it is not entered.
tables == <<macros, conditionals, pragmaOnce, inComment, output>>

-----------------------------------------------------------------------------
(* Diagnostics: cc_add_diagnostic behind cc_diagnostic_buffer_can_add.     *)

\* The messages, by what they report.
Overflow == "too many errors"

Messages == {Overflow, "expected macro name", "expected include path",
             "unable to open include", "unable to open source file",
             "include nesting too deep", "unmatched branch", "unmatched endif",
             "unsupported directive", "unterminated conditional"}

\* A full buffer records one notice, and then nothing.
AddDiagnostic(buffer, message) ==
  IF Len(buffer) < MaxDiagnostics THEN Append(buffer, message)
  ELSE IF Len(buffer) = MaxDiagnostics THEN Append(buffer, Overflow)
  ELSE buffer

Report(message) == diagnostics' = AddDiagnostic(diagnostics, message)

ReportIf(condition, message) ==
  IF condition THEN Report(message) ELSE UNCHANGED diagnostics

-----------------------------------------------------------------------------
(* The file being read.                                                    *)

Top == stack[Len(stack)]

Reading == phase = "reading" /\ stack # <<>>

AtEnd == Top.line > Len(program[Top.file])

Current == program[Top.file][Top.line]

\* The stack once the current line has been handled.
AdvancedOver(s) == [s EXCEPT ![Len(s)].line = @ + 1]

Advanced == AdvancedOver(stack)

\* The line under the cursor is one of these operations.
AtLine(ops) == Reading /\ ~AtEnd /\ Current.op \in ops

\* The next line is handled, and its handler does not include a file.
Take(ops) ==
  /\ AtLine(ops)
  /\ stack' = Advanced
  /\ UNCHANGED <<program, phase>>

-----------------------------------------------------------------------------
(* Conditional frames.                                                     *)

\* cc_current_block_active: only the innermost frame is consulted.
Active ==
  IF conditionals = <<>> THEN TRUE ELSE conditionals[Len(conditionals)].current

Frame == [parent : BOOLEAN, current : BOOLEAN, taken : BOOLEAN]

\* Faulty: a branch is active whether its condition holds or not.
NewFrameUnconditional(condition) ==
  [parent |-> Active, current |-> Active, taken |-> condition]

\* The frame pushed for #if, #ifdef and #ifndef.
NewFrame(condition) ==
  [parent |-> Active, current |-> Active /\ condition, taken |-> condition]

\* Faulty: the group's earlier branches are forgotten.
ElifFrameForgetful(frame, condition) ==
  [frame EXCEPT !.current = frame.parent /\ condition,
                !.taken   = frame.taken \/ condition]

\* What #elif makes of the innermost frame.
ElifFrame(frame, condition) ==
  [frame EXCEPT !.current = frame.parent /\ ~frame.taken /\ condition,
                !.taken   = frame.taken \/ condition]

\* Faulty: the enclosing group is not consulted.
ElseFrameUnguarded(frame) ==
  [frame EXCEPT !.current = ~frame.taken, !.taken = TRUE]

\* What #else makes of it (also a second #else, or an #elif's successor).
ElseFrame(frame) ==
  [frame EXCEPT !.current = frame.parent /\ ~frame.taken, !.taken = TRUE]

IsDefined(name) == name \in MacroNames /\ macros[name] # "undefined"

\* cc_simple_if_condition: 0 and every unrecognised expression are false.
SimpleIfCondition(line) ==
  \/ line.arg = "one"
  \/ line.arg = "defined" /\ IsDefined(line.name)
  \/ line.arg = "value" /\ macros[line.name] = "other"

\* The condition of an opening directive; a missing name makes it false.
OpeningCondition(line) ==
  \/ line.op = "ifdef" /\ line.name # NoName /\ IsDefined(line.name)
  \/ line.op = "ifndef" /\ line.name # NoName /\ ~IsDefined(line.name)
  \/ line.op = "if" /\ SimpleIfCondition(line)

-----------------------------------------------------------------------------
(* Entering a file: cc_preprocess_path called from caller.                 *)

\* include_depth is Len(caller): it is incremented when a file is entered
\* and decremented when its last line has been handled.
Call(file, caller) ==
  \/ /\ Len(caller) >= MaxIncludeDepth
     /\ stack' = caller
     /\ Report("include nesting too deep")
  \/ /\ Len(caller) < MaxIncludeDepth
     /\ file \in pragmaOnce
     /\ stack' = caller
     /\ UNCHANGED diagnostics
  \/ /\ Len(caller) < MaxIncludeDepth
     /\ file = Unloadable
     /\ stack' = caller
     /\ Report("unable to open source file")
  \/ /\ Len(caller) < MaxIncludeDepth
     /\ file \in Files \ pragmaOnce
     /\ stack' = Append(caller, [file |-> file, line |-> 1])
     /\ UNCHANGED diagnostics

-----------------------------------------------------------------------------
(* The handlers of cc_process_directive, one per kind of line.             *)

\* Where the identifier of a text line is read as code: in_block_comment is
\* FALSE, or the line closes the comment before the identifier.
Expanded == ~inComment \/ Current.arg = "closes"

\* in_block_comment behind the line.
CommentAfter == Current.arg = "opens" \/ (inComment /\ Current.arg # "closes")

\* A text line is expanded and emitted only when its block is active; only
\* then does its comment delimiter count.
TextLine ==
  /\ Take({"text"})
  /\ IF Active
     THEN /\ output' = Append(output,
                 [file |-> Top.file, line |-> Top.line, expanded |-> Expanded])
          /\ inComment' = CommentAfter
     ELSE UNCHANGED <<output, inComment>>
  /\ UNCHANGED <<macros, conditionals, pragmaOnce, diagnostics>>

\* A lone # leaves everything alone.
NullDirective ==
  /\ Take({"null"})
  /\ UNCHANGED <<tables, diagnostics>>

\* #define and #undef: both need an active block and a name.
Define ==
  /\ Take({"define", "undef"})
  /\ ReportIf(Active /\ Current.name = NoName, "expected macro name")
  /\ macros' = IF Active /\ Current.name # NoName
               THEN [macros EXCEPT ![Current.name] =
                       IF Current.op = "define" THEN Current.arg ELSE "undefined"]
               ELSE macros
  /\ UNCHANGED <<conditionals, pragmaOnce, inComment, output>>

\* Faulty: a missing name pushes no frame.
OpenConditionalIfNamed ==
  /\ Take({"ifdef", "ifndef", "if"})
  /\ ReportIf(Current.op # "if" /\ Current.name = NoName, "expected macro name")
  /\ conditionals' = IF Current.op # "if" /\ Current.name = NoName
                     THEN conditionals
                     ELSE Append(conditionals, NewFrame(OpeningCondition(Current)))
  /\ UNCHANGED <<macros, pragmaOnce, inComment, output>>

\* #if, #ifdef, #ifndef: evaluated, and their syntax checked, even in an
\* inactive block.
OpenConditional ==
  /\ Take({"ifdef", "ifndef", "if"})
  /\ ReportIf(Current.op # "if" /\ Current.name = NoName, "expected macro name")
  /\ conditionals' = Append(conditionals, NewFrame(OpeningCondition(Current)))
  /\ UNCHANGED <<macros, pragmaOnce, inComment, output>>

\* #elif, #else: rewrite the innermost frame, whichever file opened it.
NextBranch ==
  /\ Take({"elif", "else"})
  /\ ReportIf(conditionals = <<>>, "unmatched branch")
  /\ conditionals' =
       IF conditionals = <<>> THEN conditionals
       ELSE [conditionals EXCEPT ![Len(conditionals)] =
               IF Current.op = "else" THEN ElseFrame(@)
               ELSE ElifFrame(@, SimpleIfCondition(Current))]
  /\ UNCHANGED <<macros, pragmaOnce, inComment, output>>

\* #endif: pops the innermost frame, whichever file opened it.
CloseConditional ==
  /\ Take({"endif"})
  /\ ReportIf(conditionals = <<>>, "unmatched endif")
  /\ conditionals' = IF conditionals = <<>> THEN conditionals
                     ELSE SubSeq(conditionals, 1, Len(conditionals) - 1)
  /\ UNCHANGED <<macros, pragmaOnce, inComment, output>>

\* Faulty: the file that started the translation is marked instead.
PragmaMarksMain ==
  /\ Take({"pragma"})
  /\ pragmaOnce' = IF Active /\ Current.arg = "once"
                   THEN pragmaOnce \cup {Main} ELSE pragmaOnce
  /\ UNCHANGED <<macros, conditionals, inComment, diagnostics, output>>

\* #pragma once marks the file it stands in; other pragmas are dropped.
Pragma ==
  /\ Take({"pragma"})
  /\ pragmaOnce' = IF Active /\ Current.arg = "once"
                   THEN pragmaOnce \cup {Top.file} ELSE pragmaOnce
  /\ UNCHANGED <<macros, conditionals, inComment, diagnostics, output>>

\* Faulty: the line that includes a file is not left behind.
IncludeAgain ==
  /\ AtLine({"include"})
  /\ Active /\ Current.arg \in Files /\ Call(Current.arg, stack)
  /\ UNCHANGED <<program, phase, tables>>

\* #include: the included file is read, whole, before the next line is.
Include ==
  /\ AtLine({"include"})
  /\ \/ /\ ~Active
        /\ stack' = Advanced
        /\ UNCHANGED diagnostics
     \/ /\ Active /\ Current.arg = Malformed
        /\ stack' = Advanced
        /\ Report("expected include path")
     \/ /\ Active /\ Current.arg = Missing
        /\ stack' = Advanced
        /\ Report("unable to open include")
     \/ /\ Active /\ Current.arg \in Files \cup {Unloadable}
        /\ Call(Current.arg, Advanced)
  /\ UNCHANGED <<program, phase, tables>>

UnknownDirective ==
  /\ Take({"unknown"})
  /\ ReportIf(Active, "unsupported directive")
  /\ UNCHANGED tables

\* The last line of a file has been handled: cc_preprocess_path returns.
Return ==
  /\ Reading /\ AtEnd
  /\ stack' = SubSeq(stack, 1, Len(stack) - 1)
  /\ UNCHANGED <<program, phase, tables, diagnostics>>

\* cc_preprocess_file calls cc_preprocess_path on the translation unit,
\* which the driver could open or not.
Start ==
  /\ phase = "start"
  /\ phase' = "reading"
  /\ \E file \in {Main, Unloadable} : Call(file, stack)
  /\ UNCHANGED <<program, tables>>

\* Faulty: open groups at the end of the input are not reported.
FinishQuietly ==
  /\ phase = "reading" /\ stack = <<>>
  /\ phase' = "finished"
  /\ UNCHANGED <<program, stack, tables, diagnostics>>

\* The outermost call has returned: open groups are reported, once.
Finish ==
  /\ phase = "reading" /\ stack = <<>>
  /\ phase' = "finished"
  /\ ReportIf(conditionals # <<>>, "unterminated conditional")
  /\ UNCHANGED <<program, stack, tables>>

Init ==
  /\ program \in Programs
  /\ stack = <<>>
  /\ macros = [name \in MacroNames |-> "undefined"]
  /\ conditionals = <<>>
  /\ pragmaOnce = {}
  /\ inComment = FALSE
  /\ diagnostics = <<>>
  /\ output = <<>>
  /\ phase = "start"

HandleLine ==
  \/ TextLine \/ NullDirective \/ Define \/ OpenConditional \/ NextBranch
  \/ CloseConditional \/ Pragma \/ Include \/ UnknownDirective

Next == Start \/ HandleLine \/ Return \/ Finish

Spec == Init /\ [][Next]_vars

\* One thread runs the preprocessor until it returns.
FairSpec == Spec /\ WF_vars(Next)

-----------------------------------------------------------------------------
(* Properties.                                                             *)

\* Types, and the two limits: nesting never exceeds CC_MAX_INCLUDE_DEPTH and
\* the diagnostics never exceed the cap by more than the overflow notice.
TypeOK ==
  /\ program \in [Files -> Seq(Line)]
  /\ stack \in Seq([file : Files, line : Nat \ {0}])
  /\ Len(stack) <= MaxIncludeDepth
  /\ macros \in [MacroNames -> {"undefined", "zero", "other"}]
  /\ conditionals \in Seq(Frame)
  /\ pragmaOnce \subseteq Files
  /\ inComment \in BOOLEAN
  /\ diagnostics \in Seq(Messages)
  /\ Len(diagnostics) <= MaxDiagnostics + 1
  /\ output \in Seq([file : Files, line : Nat \ {0}, expanded : BOOLEAN])
  /\ phase \in {"start", "reading", "finished"}

\* The frames form a chain: each frame remembers whether the block around it
\* was active, and a frame is active only in a branch it has marked taken.
FrameChain ==
  /\ \A i \in 1 .. Len(conditionals) :
       conditionals[i].current => conditionals[i].parent /\ conditionals[i].taken
  /\ \A i \in 2 .. Len(conditionals) :
       conditionals[i].parent = conditionals[i - 1].current
  /\ conditionals # <<>> => conditionals[1].parent

\* Consulting the innermost frame is enough: when cc_current_block_active
\* says yes, every enclosing group, of every including file, is in an active
\* branch.
ActiveMeansAllActive ==
  Active => \A i \in 1 .. Len(conditionals) : conditionals[i].current

\* A file whose first line is #pragma once gives its text at most once, even
\* when it is included from several places or includes itself.
PragmaOnceGivesTextOnce ==
  \A f \in Files :
    /\ program[f] # <<>> /\ program[f][1].op = "pragma" /\ program[f][1].arg = "once"
    => \A i, j \in 1 .. Len(output) :
         output[i].file = f /\ output[j].file = f /\ output[i].line = output[j].line
         => i = j

\* The classical include guard works: a file that is #ifndef G, #define G,
\* lines that open or close no group, and #endif, gives its text at most
\* once as long as no file undefines G.
GuardedBy(f, guard) ==
  /\ Len(program[f]) >= 3
  /\ program[f][1].op = "ifndef" /\ program[f][1].name = guard
  /\ program[f][2].op = "define" /\ program[f][2].name = guard
  /\ \A i \in 3 .. Len(program[f]) - 1 :
       program[f][i].op \in {"text", "define", "pragma", "null", "include"}
  /\ program[f][Len(program[f])].op = "endif"
  /\ \A g \in Files : \A i \in 1 .. Len(program[g]) :
       program[g][i].op = "undef" => program[g][i].name # guard

\* Text behind an include guard appears once, however often it is included.
IncludeGuardGivesTextOnce ==
  \A f \in Files, guard \in MacroNames :
    GuardedBy(f, guard) =>
      \A i, j \in 1 .. Len(output) :
        output[i].file = f /\ output[j].file = f /\ output[i].line = output[j].line
        => i = j

\* Whatever the files include, the preprocessor comes to an end: recursion
\* through #include is cut off by the depth cap.
Terminates == <>(phase = "finished")

=============================================================================
