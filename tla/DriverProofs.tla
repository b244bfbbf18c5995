---------------------------- MODULE DriverProofs ----------------------------
(***************************************************************************)
(* For every cap that doubling does not reach, every command line and      *)
(* every sequence of reports: the diagnostic buffer is never written       *)
(* outside its slots, and a command that exits with 0 had no error         *)
(* reported.                                                               *)
(***************************************************************************)
EXTENDS Driver, SequenceTheorems, TLAPS

(* What a stage's buffer satisfies between two reports: the notice is the   *)
(* last entry there can be, and it is there exactly when the cap was hit.   *)
BufferInv(b) ==
    /\ b \in Buffers
    /\ Count(b) <= b.capacity
    /\ b.notice = "none" => Count(b) <= Cap
    /\ b.notice # "none" => Count(b) = Cap + 1

LEMMA EmptyBufferOK == BufferInv(EmptyBuffer)
  BY CapAssumption DEF BufferInv, EmptyBuffer, Buffers, Count

(* The fields of a buffer.                                                  *)
LEMMA BufferFields ==
    ASSUME NEW b \in Buffers
    PROVE  /\ b.error \in Nat /\ b.warning \in Nat
           /\ b.notice \in {"none", "error", "warning"}
           /\ b.capacity \in {0} \union Capacities /\ b.capacity \in Nat
           /\ Count(b) \in Nat
<1>1. /\ b.error \in Nat /\ b.warning \in Nat
      /\ b.notice \in {"none", "error", "warning"}
      /\ b.capacity \in {0} \union Capacities
  BY DEF Buffers, Severities
<1>2. b.capacity \in Nat
  <2>1. Capacities \subseteq Nat
    BY CapacitiesAssumption
  <2>2. 0 \in Nat
    OBVIOUS
  <2> QED
    BY <1>1, <2>1, <2>2, Zenon
<1>3. Count(b) \in Nat
  BY <1>1 DEF Count
<1> QED
  BY <1>1, <1>2, <1>3

(* Growing changes nothing but the capacity, and makes room for an entry.   *)
LEMMA GrownOK ==
    ASSUME NEW b, BufferInv(b), Count(b) < Cap, NEW initial \in Capacities
    PROVE  /\ Grown(b, initial) \in Buffers
           /\ Grown(b, initial).error = b.error
           /\ Grown(b, initial).warning = b.warning
           /\ Grown(b, initial).notice = b.notice
           /\ Count(b) + 1 <= Grown(b, initial).capacity
<1> DEFINE size == IF b.capacity = 0 THEN initial ELSE 2 * b.capacity
<1>1. b \in Buffers /\ Count(b) <= b.capacity
  BY DEF BufferInv
<1>2. CASE Count(b) # b.capacity
  BY <1>1, <1>2, BufferFields DEF Grown
<1>3. CASE Count(b) = b.capacity
  <2>1. size \in Capacities /\ size \in Nat /\ size >= Count(b) + 1
    BY <1>1, <1>3, BufferFields, CapacitiesAssumption, CapAssumption
  <2>2. Grown(b, initial) = [b EXCEPT !.capacity = size]
    BY <1>3 DEF Grown
  <2> HIDE DEF size
  <2> QED
    BY <1>1, <2>1, <2>2 DEF Buffers
<1> QED
  BY <1>2, <1>3

(* A report keeps the buffer within its slots; an error that is reported    *)
(* before any warning is counted, then and from then on.                    *)
LEMMA AddedOK ==
    ASSUME CapMissed, NEW b, BufferInv(b), NEW severity \in Severities,
           NEW initial \in Capacities
    PROVE  /\ BufferInv(Added(b, severity, initial))
           /\ ErrorCount(b) > 0 => ErrorCount(Added(b, severity, initial)) > 0
           /\ severity = "error" /\ b.warning = 0 /\ b.notice # "warning"
                => ErrorCount(Added(b, severity, initial)) > 0
           /\ severity = "error" /\ b.warning = 0 /\ b.notice # "warning"
                => /\ Added(b, severity, initial).warning = 0
                   /\ Added(b, severity, initial).notice # "warning"
<1> DEFINE a == Added(b, severity, initial)
<1>1. b \in Buffers
  BY DEF BufferInv
<1>2. CASE Count(b) < Cap
  <2> DEFINE g == Grown(b, initial)
  <2>1. /\ g \in Buffers /\ g.error = b.error /\ g.warning = b.warning
        /\ g.notice = b.notice /\ Count(b) + 1 <= g.capacity
    BY <1>2, GrownOK
  <2>2. a = Recorded(g, severity)
    BY <1>1, <1>2, BufferFields, CapAssumption DEF Added
  <2>3. b.notice = "none"
    BY <1>1, <1>2, BufferFields, CapAssumption DEF BufferInv
  <2>4. CASE severity = "error"
    <3>1. a = [g EXCEPT !.error = g.error + 1]
      BY <2>2, <2>4 DEF Recorded
    <3>2. /\ a \in Buffers /\ a.error = b.error + 1 /\ a.warning = b.warning
          /\ a.notice = "none" /\ a.capacity = g.capacity
      BY <2>1, <2>3, <3>1 DEF Buffers
    <3>3. Count(a) = Count(b) + 1
      BY <1>1, <2>3, <3>2, BufferFields DEF Count
    <3> QED
      BY <1>1, <1>2, <2>1, <2>3, <3>2, <3>3, BufferFields, CapAssumption
         DEF BufferInv, ErrorCount
  <2>5. CASE severity = "warning"
    <3>1. a = [g EXCEPT !.warning = g.warning + 1]
      BY <2>2, <2>5 DEF Recorded
    <3>2. /\ a \in Buffers /\ a.error = b.error /\ a.warning = b.warning + 1
          /\ a.notice = "none" /\ a.capacity = g.capacity
      BY <2>1, <2>3, <3>1 DEF Buffers
    <3>3. Count(a) = Count(b) + 1
      BY <1>1, <2>3, <3>2, BufferFields DEF Count
    <3> QED
      BY <1>1, <1>2, <2>1, <2>3, <2>5, <3>2, <3>3, BufferFields, CapAssumption
         DEF BufferInv, ErrorCount
  <2> QED
    BY <2>4, <2>5 DEF Severities
<1>3. CASE Count(b) = Cap
  <2>1. b.notice = "none" /\ b.capacity >= Cap + 1
    BY <1>1, <1>3, BufferFields, CapAssumption DEF BufferInv, CapMissed
  <2>2. a = [b EXCEPT !.notice = severity]
    BY <1>3, CapAssumption DEF Added, Suppressed
  <2>3. /\ a \in Buffers /\ a.error = b.error /\ a.warning = b.warning
        /\ a.notice = severity /\ a.capacity = b.capacity
    BY <1>1, <2>2 DEF Buffers
  <2>4. Count(a) = Cap + 1
    BY <1>1, <1>3, <2>1, <2>3, BufferFields, CapAssumption DEF Count, Severities
  <2> QED
    BY <1>1, <2>1, <2>3, <2>4, BufferFields, CapAssumption
       DEF BufferInv, ErrorCount, Severities
<1>4. CASE Count(b) > Cap
  <2>1. a = b
    BY <1>1, <1>4, BufferFields, CapAssumption DEF Added, Suppressed
  <2>2. b.notice # "none"
    BY <1>1, <1>4, BufferFields, CapAssumption DEF BufferInv
  <2> QED
    BY <1>1, <2>1, <2>2, BufferFields DEF ErrorCount
<1> QED
  BY <1>1, <1>2, <1>3, <1>4, BufferFields, CapAssumption
-----------------------------------------------------------------------------
(* Every command has stages to run.                                         *)
LEMMA PipelineOK ==
    \A c \in Commands : Pipeline[c] \in Seq(Stages) /\ Pipeline[c] # <<>>
<1>1. Pipeline["lex"] = <<"lex">> /\ Pipeline["preprocess"] = <<"preprocess">>
      /\ Pipeline["parse"] = <<"lex", "parse">>
      /\ Pipeline["check"] = <<"preprocess", "lex", "parse", "sema">>
      /\ Pipeline["codegen"] = <<"preprocess", "lex", "parse", "sema", "codegen">>
  BY DEF Pipeline
<1>2. <<"lex">> \in Seq(Stages) /\ <<"preprocess">> \in Seq(Stages)
      /\ <<"lex", "parse">> \in Seq(Stages)
      /\ <<"preprocess", "lex", "parse", "sema">> \in Seq(Stages)
      /\ <<"preprocess", "lex", "parse", "sema", "codegen">> \in Seq(Stages)
  BY DEF Stages
<1>3. <<"lex">> # <<>> /\ <<"preprocess">> # <<>> /\ <<"lex", "parse">> # <<>>
      /\ <<"preprocess", "lex", "parse", "sema">> # <<>>
      /\ <<"preprocess", "lex", "parse", "sema", "codegen">> # <<>>
  OBVIOUS
<1> QED
  BY <1>1, <1>2, <1>3 DEF Commands

LEMMA RequestedCommandOK == ~ Misused => RequestedCommand \in Commands
  BY DEF Misused, RequestedCommand, Commands

(* The inductive invariant.  Errors are lost only behind warnings that fill *)
(* the buffer, and there are no warnings; so as soon as a stage has failed  *)
(* the buffer the driver looks at shows an error.                           *)
NoWarnings == ~ warnings /\ buffer.warning = 0 /\ buffer.notice # "warning"

RunningInv ==
    /\ status \in {"options", "running", "exited"}
    /\ pending \in Seq(Stages)
    /\ status = "running" => pending # <<>>

FailureShows ==
    /\ failed # {} => ErrorCount(buffer) > 0
    /\ status = "options" => failed = {}
    /\ status = "exited" /\ exitCode = 0 => failed = {}

IInv == BufferInv(buffer) /\ NoWarnings /\ RunningInv /\ FailureShows

LEMMA InitIInv == Init => IInv
<1> SUFFICES ASSUME Init PROVE IInv
  OBVIOUS
<1>1. BufferInv(buffer)
  BY EmptyBufferOK DEF Init
<1>2. NoWarnings
  BY DEF Init, OptionsCleared, NoWarnings, EmptyBuffer
<1>3. RunningInv
  BY EmptySeq DEF Init, RunningInv
<1>4. FailureShows
  BY DEF Init, FailureShows
<1> QED
  BY <1>1, <1>2, <1>3, <1>4 DEF IInv

(* A stage that stops nothing recorded no error.                            *)
LEMMA NothingFailed ==
    ASSUME IInv, NEW stage, ~ Stops(stage, buffer)
    PROVE  failed = {}
<1>1. buffer \in Buffers
  BY DEF IInv, BufferInv
<1>2. /\ buffer.error \in Nat /\ buffer.warning \in Nat
      /\ buffer.notice \in {"none", "error", "warning"}
  BY <1>1, BufferFields
<1>3. ErrorCount(buffer) > 0 => Count(buffer) > 0
  BY <1>2 DEF ErrorCount, Count
<1>4. ~ (ErrorCount(buffer) > 0)
  BY <1>3 DEF Stops
<1> QED
  BY <1>4 DEF IInv, FailureShows

(* A report disturbs the buffer and the failures.                           *)
LEMMA ReportStep ==
    ASSUME CapMissed, IInv, NEW severity \in Severities, Report(severity)
    PROVE  IInv'
<1>1. severity = "error"
  BY DEF Report, Severities, IInv, NoWarnings
<1>2. Stage \in Stages
  BY HeadTailProperties DEF Report, Stage, IInv, RunningInv
<1>3. InitialSlots[Stage] \in Capacities
  BY <1>2, SlotsAssumption
<1>4. buffer' = Added(buffer, severity, InitialSlots[Stage])
  BY DEF Report
<1>5. /\ BufferInv(buffer') /\ ErrorCount(buffer') > 0
      /\ buffer'.warning = 0 /\ buffer'.notice # "warning"
  BY <1>1, <1>3, <1>4, AddedOK DEF IInv, NoWarnings
<1>6. NoWarnings'
  BY <1>5 DEF NoWarnings, IInv, Report, commandLine
<1>7. RunningInv'
  BY DEF RunningInv, IInv, Report
<1>8. FailureShows'
  BY <1>5 DEF FailureShows, Report
<1> QED
  BY <1>5, <1>6, <1>7, <1>8 DEF IInv

(* A run starts with the stages of a command, or exits with 1.              *)
LEMMA RunStep ==
    ASSUME IInv, NEW loaded \in BOOLEAN, Run(loaded)
    PROVE  IInv'
<1>1. Pipeline[RequestedCommand] \in Seq(Stages) /\ Pipeline[RequestedCommand] # <<>>
  BY RequestedCommandOK, PipelineOK DEF Run
<1>2. UNCHANGED <<buffer, failed, warnings>> /\ failed = {}
  BY DEF Run, commandLine, IInv, FailureShows
<1>3. RunningInv'
  BY <1>1 DEF Run, Exit, RunningInv, IInv
<1> QED
  BY <1>2, <1>3 DEF IInv, NoWarnings, FailureShows

LEMMA NextIInv == CapMissed /\ IInv /\ [Next]_vars => IInv'
<1> SUFFICES ASSUME CapMissed, IInv, [Next]_vars PROVE IInv'
  OBVIOUS
<1> USE DEF IInv, NoWarnings, RunningInv, FailureShows, commandLine, Exit
<1>1. CASE Dump \/ Help \/ Unrecognized \/ Positional \/ Usage
  BY <1>1 DEF Dump, Help, Unrecognized, Positional, Usage
<1>2. ASSUME NEW loaded \in BOOLEAN, Run(loaded)
      PROVE  IInv'
  BY <1>2, RunStep
<1>3. ASSUME NEW severity \in Severities, Report(severity)
      PROVE  IInv'
  BY <1>3, ReportStep
<1>4. CASE Stop
  BY <1>4 DEF Stop
<1>5. CASE Advance
  <2>1. failed = {}
    BY <1>5, NothingFailed DEF Advance
  <2>2. Tail(pending) \in Seq(Stages) /\ Tail(pending) # <<>>
    <3> DEFINE before == Len(pending)
               after  == Len(Tail(pending))
    <3>1. after = before - 1 /\ Tail(pending) \in Seq(Stages)
      BY <1>5, HeadTailProperties DEF Advance
    <3>2. before \in Nat /\ before > 1
      BY <1>5, LenProperties DEF Advance
    <3>3. after # 0
      <4> HIDE DEF before, after
      <4> QED
        BY <3>1, <3>2
    <3>4. Len(<<>>) = 0
      BY EmptySeq, Zenon
    <3> QED
      BY <3>1, <3>3, <3>4, Zenon
  <2>3. buffer' = EmptyBuffer /\ BufferInv(EmptyBuffer)
    BY <1>5, EmptyBufferOK DEF Advance
  <2> QED
    BY <1>5, <2>1, <2>2, <2>3 DEF Advance, EmptyBuffer
<1>6. CASE Succeed
  <2>1. failed = {}
    BY <1>6, NothingFailed DEF Succeed
  <2> QED
    BY <1>6, <2>1 DEF Succeed
<1>7. CASE Exited \/ UNCHANGED vars
  BY <1>7 DEF Exited, vars
<1> QED
  BY <1>1, <1>2, <1>3, <1>4, <1>5, <1>6, <1>7 DEF Next

LEMMA IInvHolds == CapMissed => (Spec => []IInv)
<1> SUFFICES ASSUME CapMissed PROVE Spec => []IInv
  OBVIOUS
<1>1. IInv /\ [Next]_vars => IInv'
  BY NextIInv
<1> QED
  BY <1>1, InitIInv, PTL DEF Spec

(* util.h's claim, under the condition it needs: no diagnostic and no       *)
(* overflow notice is stored outside the slots allocated, whatever the cap  *)
(* that doubling misses, and whatever is reported.                          *)
THEOREM BufferNeverOverrun == CapMissed => (Spec => []WritesInBounds)
<1>1. IInv => WritesInBounds
  BY DEF IInv, BufferInv, WritesInBounds
<1> QED
  BY <1>1, IInvHolds, PTL

(* cc_count_errors on a capped buffer is enough: a command that exits with  *)
(* 0 had no error reported by any of its stages.                            *)
THEOREM NoErrorIsLost == CapMissed => (Spec => []ErrorsReachExitCode)
<1>1. IInv => ErrorsReachExitCode
  BY DEF IInv, FailureShows, ErrorsReachExitCode
<1> QED
  BY <1>1, IInvHolds, PTL
-----------------------------------------------------------------------------
(* What is printed when, and what it needs.                                 *)
CleanProducts == {"text", "ast", "json", "summary", "code"}

ProductsInv ==
    /\ status # "exited" => product = "none"
    /\ product \in CleanProducts => failed = {} /\ exitCode = 0

LEMMA InitProducts == Init => ProductsInv
  BY DEF Init, ProductsInv, CleanProducts

LEMMA NextProducts == IInv /\ ProductsInv /\ [Next]_vars => ProductsInv'
<1> SUFFICES ASSUME IInv, ProductsInv, [Next]_vars PROVE ProductsInv'
  OBVIOUS
<1> USE DEF ProductsInv, CleanProducts, Exit, commandLine
<1>1. CASE Dump \/ Help \/ Unrecognized \/ Positional \/ Usage
  BY <1>1 DEF Dump, Help, Unrecognized, Positional, Usage
<1>2. ASSUME NEW loaded \in BOOLEAN, Run(loaded)
      PROVE  ProductsInv'
  BY <1>2 DEF Run
<1>3. ASSUME NEW severity \in Severities, Report(severity)
      PROVE  ProductsInv'
  BY <1>3 DEF Report
<1>4. CASE Stop
  <2>1. ProductOf("lex") \in {"tokens", "none"}
    BY DEF ProductOf
  <2> QED
    BY <1>4, <2>1 DEF Stop
<1>5. CASE Advance
  BY <1>5 DEF Advance
<1>6. CASE Succeed
  <2>1. failed = {}
    BY <1>6, NothingFailed DEF Succeed
  <2> QED
    BY <1>6, <2>1 DEF Succeed
<1>7. CASE Exited \/ UNCHANGED vars
  BY <1>7 DEF Exited, vars
<1> QED
  BY <1>1, <1>2, <1>3, <1>4, <1>5, <1>6, <1>7 DEF Next

(* Text, tree, summary and code reach stdout only from a command none of    *)
(* whose stages reported an error, and that exits with 0, however the       *)
(* stages' reports are ordered and whatever the cap dropped of them.        *)
THEOREM ProductsOnlyFromCleanRuns == CapMissed => (Spec => []ProductsAreClean)
<1> SUFFICES ASSUME CapMissed PROVE Spec => []ProductsAreClean
  OBVIOUS
<1>1. ProductsInv => ProductsAreClean
  BY DEF ProductsInv, ProductsAreClean, CleanProducts
<1> QED
  BY <1>1, IInvHolds, InitProducts, NextProducts, PTL DEF Spec

(* Only the start of a command and the end of a stage move the pipeline.    *)
LEMMA PipelineMoves ==
    ASSUME IInv, Next, pending' # pending
    PROVE  failed = {}
<1>1. (\E loaded \in BOOLEAN : Run(loaded)) \/ Advance
  BY DEF Next, Dump, Help, Unrecognized, Positional, Usage, Report, Stop, Succeed, Exited, vars
<1>2. ASSUME NEW loaded \in BOOLEAN, Run(loaded)
      PROVE  failed = {}
  BY <1>2 DEF Run, IInv, FailureShows
<1>3. ASSUME Advance
      PROVE  failed = {}
  BY <1>3, NothingFailed DEF Advance
<1> QED
  BY <1>1, <1>2, <1>3

(* No stage is started on the result of one that reported an error.         *)
THEOREM NoStageAfterAFailure == CapMissed => (Spec => StagesGetCleanInput)
<1> SUFFICES ASSUME CapMissed PROVE Spec => StagesGetCleanInput
  OBVIOUS
<1>1. IInv /\ [Next]_vars => [pending' # pending => failed = {}]_vars
  BY PipelineMoves
<1> QED
  BY <1>1, IInvHolds, PTL DEF Spec, StagesGetCleanInput
=============================================================================
