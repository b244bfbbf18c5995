------------------------------- MODULE Driver -------------------------------
(***************************************************************************)
(* The driver of main.c: it reads the command line, runs the stages a      *)
(* command needs one after the other, looks at each stage's diagnostic     *)
(* buffer, prints the product and chooses the exit code.                   *)
(*                                                                         *)
(* A stage is what it reports: any number of diagnostics, in any order of  *)
(* severities, then its end.  What the stages compute is modelled by the   *)
(* modules of the stages.                                                  *)
(***************************************************************************)
EXTENDS Diagnostics, Sequences

CONSTANTS
    CommandLines,   \* the argument sequences considered
    InitialSlots    \* InitialSlots[s]: the first allocation of stage s's buffer

Stages == {"preprocess", "lex", "parse", "sema", "codegen"}

ASSUME SlotsAssumption == InitialSlots \in [Stages -> Capacities]

Commands == {"lex", "preprocess", "parse", "check", "codegen"}

(* The options cc_print_usage documents; cc_parse_options knows no -Wall.   *)
DocumentedOptions == {"--dump-tokens", "--dump-ast-json", "-Wall", "-h", "--help"}

UnknownOptions == {"-x"}

Options == DocumentedOptions \union UnknownOptions

Arguments == Options \union Commands \union {"file.c"}

ASSUME CommandLineAssumption == CommandLines \subseteq Seq(Arguments)

Products == {"none", "usage", "tokens", "text", "ast", "json", "summary", "code"}

(* The stages of a command, in order.  lex and parse read the file itself;  *)
(* check and codegen start from the preprocessed text.                      *)
Pipeline ==
    [lex        |-> <<"lex">>,
     preprocess |-> <<"preprocess">>,
     parse      |-> <<"lex", "parse">>,
     check      |-> <<"preprocess", "lex", "parse", "sema">>,
     codegen    |-> <<"preprocess", "lex", "parse", "sema", "codegen">>]

VARIABLES
    args,         \* the arguments cc_parse_options has still to read
    dumps,        \* the dump options seen
    warnings,     \* options->warnings_enabled
    positional,   \* the arguments that are not options
    command,      \* the command being run
    pending,      \* the stages still to run, the current one first
    buffer,       \* the current stage's diagnostics
    status,       \* "options", "running" or "exited"
    exitCode,
    product,      \* what reached stdout
    failed        \* history: the stages that reported an error

vars == <<args, dumps, warnings, positional, command, pending, buffer, status,
          exitCode, product, failed>>

commandLine == <<args, dumps, warnings, positional>>

-----------------------------------------------------------------------------
(* Reading the command line                                                 *)

Exit(code, printed) ==
    /\ status' = "exited"
    /\ exitCode' = code
    /\ product' = printed

Dump ==
    /\ status = "options" /\ args # <<>>
    /\ Head(args) \in {"--dump-tokens", "--dump-ast-json"}
    /\ dumps' = dumps \union {Head(args)}
    /\ args' = Tail(args)
    /\ UNCHANGED <<warnings, positional, command, pending, buffer, status,
                   exitCode, product, failed>>

Help ==
    /\ status = "options" /\ args # <<>>
    /\ Head(args) \in {"-h", "--help"}
    /\ Exit(0, "usage")
    /\ UNCHANGED <<commandLine, command, pending, buffer, failed>>

(* The options the chain of comparisons in cc_parse_options knows.          *)
Recognized(argument) ==
    argument \in {"--dump-tokens", "--dump-ast-json", "-h", "--help"}

Unrecognized ==
    /\ status = "options" /\ args # <<>>
    /\ Head(args) \in Options /\ ~ Recognized(Head(args))
    /\ Exit(1, "none")
    /\ UNCHANGED <<args, dumps, warnings, positional, command, pending, buffer,
                   failed>>

Positional ==
    /\ status = "options" /\ args # <<>>
    /\ Head(args) \notin Options
    /\ positional' = Append(positional, Head(args))
    /\ args' = Tail(args)
    /\ UNCHANGED <<dumps, warnings, command, pending, buffer, status, exitCode, product,
                   failed>>

(* No path, too many of them, or a word that is no command.                 *)
Misused ==
    \/ Len(positional) \notin {1, 2}
    \/ Len(positional) = 2 /\ positional[1] \notin Commands

Usage ==
    /\ status = "options" /\ args = <<>>
    /\ Misused
    /\ Exit(1, "none")
    /\ UNCHANGED <<commandLine, command, pending, buffer, failed>>

(* A lone path is lexed.                                                    *)
RequestedCommand ==
    IF Len(positional) = 1 THEN "lex" ELSE positional[1]

(* cc_load_file may fail: lex and parse then stop at once.  The             *)
(* preprocessor loads its own file and reports a failure as a diagnostic.   *)
Run(loaded) ==
    /\ status = "options" /\ args = <<>>
    /\ ~ Misused
    /\ command' = RequestedCommand
    /\ IF loaded \/ RequestedCommand \notin {"lex", "parse"}
       THEN /\ status' = "running"
            /\ pending' = Pipeline[RequestedCommand]
            /\ UNCHANGED <<exitCode, product>>
       ELSE /\ Exit(1, "none")
            /\ UNCHANGED pending
    /\ UNCHANGED <<commandLine, buffer, failed>>
-----------------------------------------------------------------------------
(* Running the stages                                                       *)

Stage == Head(pending)

(* Only semantic analysis warns, and cc_add_warning returns at once while   *)
(* warnings are off.                                                        *)
Report(severity) ==
    /\ status = "running"
    /\ severity = "warning" => Stage = "sema" /\ warnings
    /\ buffer' = Added(buffer, severity, InitialSlots[Stage])
    /\ failed' = IF severity = "error" THEN failed \union {Stage} ELSE failed
    /\ UNCHANGED <<commandLine, command, pending, status, exitCode, product>>

(* Faulty: a semantic analysis that overflowed its buffer does not stop.    *)
StopsOnRecorded(stage, b) ==
    IF stage = "sema" THEN b.error > 0 /\ b.notice = "none" ELSE Count(b) > 0

(* Faulty: the parser's diagnostics are printed and the command goes on.    *)
StopsUnlessParse(stage, b) ==
    CASE stage = "sema"  -> ErrorCount(b) > 0
      [] stage = "parse" -> FALSE
      [] OTHER           -> Count(b) > 0

(* Every stage but semantic analysis stops the command at any diagnostic;   *)
(* semantic analysis stops it at an error.                                  *)
Stops(stage, b) ==
    IF stage = "sema" THEN ErrorCount(b) > 0 ELSE Count(b) > 0

(* The product of a command whose last stage found nothing to stop it.      *)
ProductOf(cmd) ==
    CASE cmd = "lex"        -> IF "--dump-tokens" \in dumps THEN "tokens" ELSE "none"
      [] cmd = "preprocess" -> "text"
      [] cmd = "parse"      -> IF "--dump-ast-json" \in dumps THEN "json" ELSE "ast"
      [] cmd = "check"      -> "summary"
      [] cmd = "codegen"    -> "code"

(* cc_run_lex prints the tokens it has even when it reports errors.         *)
Stop ==
    /\ status = "running"
    /\ Stops(Stage, buffer)
    /\ Exit(1, IF command = "lex" THEN ProductOf("lex") ELSE "none")
    /\ UNCHANGED <<commandLine, command, pending, buffer, failed>>

Advance ==
    /\ status = "running"
    /\ ~ Stops(Stage, buffer)
    /\ Len(pending) > 1
    /\ pending' = Tail(pending)
    /\ buffer' = EmptyBuffer
    /\ UNCHANGED <<commandLine, command, status, exitCode, product, failed>>

Succeed ==
    /\ status = "running"
    /\ ~ Stops(Stage, buffer)
    /\ Len(pending) = 1
    /\ Exit(0, ProductOf(command))
    /\ UNCHANGED <<commandLine, command, pending, buffer, failed>>
-----------------------------------------------------------------------------
(* Faulty: the memset is missing, and warnings start with any value.        *)
OptionsUncleared ==
    /\ dumps = {}
    /\ warnings \in BOOLEAN

(* The memset that opens cc_parse_options; no option turns warnings on.     *)
OptionsCleared ==
    /\ dumps = {}
    /\ warnings = FALSE

Init ==
    /\ args \in CommandLines
    /\ OptionsCleared
    /\ positional = <<>>
    /\ command = "lex"
    /\ pending = <<>>
    /\ buffer = EmptyBuffer
    /\ status = "options"
    /\ exitCode = 0
    /\ product = "none"
    /\ failed = {}

(* The process is over: the only step left is to stay over.                 *)
Exited == status = "exited" /\ UNCHANGED vars

Next ==
    \/ Dump \/ Help \/ Unrecognized \/ Positional \/ Usage
    \/ \E loaded \in BOOLEAN : Run(loaded)
    \/ \E severity \in Severities : Report(severity)
    \/ Stop \/ Advance \/ Succeed
    \/ Exited

Spec == Init /\ [][Next]_vars
-----------------------------------------------------------------------------
(* Properties                                                               *)

(* Every variable keeps the type its C object has; a running command has a  *)
(* stage, and what is left of its pipeline is a suffix of the whole.        *)
TypeOK ==
    /\ args \in Seq(Arguments)
    /\ dumps \subseteq {"--dump-tokens", "--dump-ast-json"}
    /\ warnings \in BOOLEAN
    /\ positional \in Seq(Arguments \ Options)
    /\ command \in Commands
    /\ pending \in Seq(Stages)
    /\ buffer \in Buffers
    /\ status \in {"options", "running", "exited"}
    /\ exitCode \in {0, 1}
    /\ product \in Products
    /\ failed \subseteq Stages
    /\ status = "running" =>
          pending # <<>> /\ \E n \in 0 .. 4 :
              pending = SubSeq(Pipeline[command], n + 1, Len(Pipeline[command]))

(* util.h: the capacity always exceeds the cap when it is hit.  No          *)
(* diagnostic, and in particular not the overflow notice that               *)
(* cc_diagnostic_buffer_can_add writes without growing the buffer, is       *)
(* stored outside the slots allocated.                                      *)
WritesInBounds == Count(buffer) <= buffer.capacity

(* cc_run_check and cc_run_codegen decide by counting the errors that are   *)
(* in the buffer, and the buffer drops what comes after the cap.  However   *)
(* many diagnostics a stage reports and in whatever order, a command that   *)
(* exits with 0 had no error reported by any of its stages.                 *)
ErrorsReachExitCode ==
    status = "exited" /\ exitCode = 0 => failed = {}

(* Only the token dump of lex is printed beside errors: text, tree, summary *)
(* and code appear on stdout only when nothing was reported as an error and *)
(* the exit code says so too.                                               *)
ProductsAreClean ==
    product \in {"text", "ast", "json", "summary", "code"} =>
        failed = {} /\ exitCode = 0

(* No stage works on the result of a stage that reported an error: when the *)
(* pipeline moves on, nothing has failed.                                   *)
StagesGetCleanInput == [][pending' # pending => failed = {}]_vars
=============================================================================
