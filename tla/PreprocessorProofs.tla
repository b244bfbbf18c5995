------------------------- MODULE PreprocessorProofs -------------------------
(***************************************************************************)
(* Proofs about Preprocessor and its trace, for every set of files, every  *)
(* program, and every value of the two limits; and, at the end, about the  *)
(* expansion of one line (MacroExpansion), for every set of macros.        *)
(***************************************************************************)
EXTENDS PreprocessorTrace, MacroExpansion, FiniteSetTheorems, SequenceTheorems, WellFoundedInduction, TLAPS

\* The files do not change while they are read.
ProgramOK == program \in Programs

StackEntry == [file : Files, line : Nat \ {0}]

OutputEntry == [file : Files, line : Nat \ {0}, expanded : BOOLEAN]

(* Popping a stack: what cc_preprocess_path's return and #endif do.        *)
LEMMA PopProperties ==
  ASSUME NEW S, NEW seq \in Seq(S), seq # <<>>
  PROVE  /\ Len(seq) \in Nat /\ Len(seq) >= 1
         /\ SubSeq(seq, 1, Len(seq) - 1) \in Seq(S)
         /\ Len(SubSeq(seq, 1, Len(seq) - 1)) = Len(seq) - 1
         /\ \A i \in 1 .. Len(seq) - 1 : SubSeq(seq, 1, Len(seq) - 1)[i] = seq[i]
<1> DEFINE n == Len(seq)
<1>1. n \in Nat /\ n >= 1
  BY EmptySeq
<1>2. \A i \in 1 .. n - 1 : seq[i] \in S
  BY <1>1, ElementOfSeq
<1>3. n - 1 \in Int /\ 1 \in Int
  BY <1>1
<1>4. /\ SubSeq(seq, 1, n - 1) \in Seq(S)
      /\ Len(SubSeq(seq, 1, n - 1)) = IF 1 <= n - 1 THEN (n - 1) - 1 + 1 ELSE 0
      /\ \A i \in 1 .. (n - 1) - 1 + 1 : SubSeq(seq, 1, n - 1)[i] = seq[1 + i - 1]
  <2> HIDE DEF n
  <2> QED
    BY <1>2, <1>3, SubSeqProperties
<1>5. \A i \in 1 .. n - 1 : i \in 1 .. (n - 1) - 1 + 1 /\ 1 + i - 1 = i
  BY <1>1
<1>6. Len(SubSeq(seq, 1, n - 1)) = n - 1
  <2> DEFINE m == Len(SubSeq(seq, 1, n - 1))
  <2>1. m = IF 1 <= n - 1 THEN (n - 1) - 1 + 1 ELSE 0
    BY <1>4
  <2> HIDE DEF n, m
  <2>2. m = n - 1
    BY <1>1, <2>1
  <2>3. QED
    BY <2>2 DEF m
<1>7. QED
  BY <1>1, <1>4, <1>5, <1>6

(* Recording a diagnostic keeps the buffer a sequence of at most one more  *)
(* entry than the cap: cc_diagnostic_buffer_can_add.                       *)
LEMMA AddDiagnosticBound ==
  ASSUME NEW buffer \in Seq(Messages), NEW message \in Messages,
         Len(buffer) <= MaxDiagnostics + 1
  PROVE  /\ AddDiagnostic(buffer, message) \in Seq(Messages)
         /\ Len(AddDiagnostic(buffer, message)) <= MaxDiagnostics + 1
<1>1. Overflow \in Messages
  BY DEF Messages
<1>2. CASE Len(buffer) < MaxDiagnostics
  BY <1>2, CapAssumption DEF AddDiagnostic
<1>3. CASE Len(buffer) = MaxDiagnostics
  BY <1>1, <1>3, CapAssumption DEF AddDiagnostic
<1>4. CASE Len(buffer) > MaxDiagnostics
  BY <1>4, CapAssumption DEF AddDiagnostic
<1>5. Len(buffer) \in Nat
  OBVIOUS
<1>6. QED
  BY <1>2, <1>3, <1>4, <1>5, CapAssumption

DiagnosticsOK == diagnostics \in Seq(Messages) /\ Len(diagnostics) <= MaxDiagnostics + 1

(* Both ways a handler reports preserve the type of the buffer.            *)
LEMMA ReportOK ==
  ASSUME NEW message \in Messages, DiagnosticsOK, Report(message)
  PROVE  DiagnosticsOK'
BY AddDiagnosticBound DEF Report, DiagnosticsOK

LEMMA ReportIfOK ==
  ASSUME NEW message \in Messages, NEW condition, DiagnosticsOK,
         ReportIf(condition, message)
  PROVE  DiagnosticsOK'
<1>1. CASE condition
  BY <1>1, ReportOK DEF ReportIf
<1>2. CASE ~condition
  BY <1>2 DEF ReportIf, DiagnosticsOK
<1>3. QED
  BY <1>1, <1>2

StackOK == stack \in Seq(StackEntry) /\ Len(stack) <= MaxIncludeDepth

(* The line a handler looks at is a line, and the stack behind it is well  *)
(* typed.                                                                  *)
LEMMA CurrentOK ==
  ASSUME ProgramOK, StackOK, Reading, ~AtEnd
  PROVE  /\ Top \in StackEntry
         /\ Current \in Line
         /\ Top.line \in 1 .. Len(program[Top.file])
         /\ Current.op = "define" => Current.arg \in {"zero", "other"}
         /\ Advanced \in Seq(StackEntry)
         /\ Len(Advanced) = Len(stack)
<1>1. Top \in StackEntry /\ Len(stack) \in 1 .. Len(stack) /\ Len(stack) \in Nat
  BY DEF Top, StackOK, Reading
<1>2. Top.file \in Files /\ Top.line \in Nat /\ Top.line >= 1
  BY <1>1 DEF StackEntry
<1>3. program \in [Files -> Seq(Line)]
  BY ProgramAssumption DEF ProgramOK
<1>4. program[Top.file] \in Seq(Line)
  BY <1>2, <1>3
<1>5. Top.line \in 1 .. Len(program[Top.file])
  BY <1>2, <1>4 DEF AtEnd
<1>6. Current \in Line
  BY <1>4, <1>5 DEF Current
<1>7. Current.op = "define" => Current.arg \in {"zero", "other"}
  BY <1>2, <1>5, ProgramAssumption DEF ProgramOK, Current
<1>8. [Top EXCEPT !.line = @ + 1] \in StackEntry
  BY <1>1 DEF StackEntry
<1>9. Advanced = [stack EXCEPT ![Len(stack)] = [Top EXCEPT !.line = @ + 1]]
  BY DEF Advanced, AdvancedOver, Top
<1>10. Advanced \in Seq(StackEntry) /\ Len(Advanced) = Len(stack)
  BY <1>1, <1>8, <1>9 DEF StackOK
<1>11. QED
  BY <1>1, <1>5, <1>6, <1>7, <1>10

(* Entering a file, or declining to, respects the depth cap.               *)
LEMMA CallOK ==
  ASSUME NEW file \in Files \cup {Unloadable}, NEW caller \in Seq(StackEntry),
         Len(caller) <= MaxIncludeDepth, DiagnosticsOK, Call(file, caller)
  PROVE  StackOK' /\ DiagnosticsOK'
<1>1. CASE stack' = caller /\ UNCHANGED diagnostics
  BY <1>1 DEF StackOK, DiagnosticsOK
<1>2. CASE stack' = caller /\ Report("include nesting too deep")
  BY <1>2, ReportOK DEF StackOK, Messages
<1>3. CASE stack' = caller /\ Report("unable to open source file")
  BY <1>3, ReportOK DEF StackOK, Messages
<1>4. CASE /\ Len(caller) < MaxIncludeDepth
           /\ file \in Files
           /\ stack' = Append(caller, [file |-> file, line |-> 1])
           /\ UNCHANGED diagnostics
  <2>1. [file |-> file, line |-> 1] \in StackEntry
    BY <1>4 DEF StackEntry
  <2>2. QED
    BY <1>4, <2>1, DepthAssumption DEF StackOK, DiagnosticsOK
<1>5. QED
  BY <1>1, <1>2, <1>3, <1>4 DEF Call

-----------------------------------------------------------------------------
(* The conditional frames.                                                 *)

\* An active frame has only active frames below it.
DownwardActive ==
  \A i, j \in 1 .. Len(conditionals) :
    i <= j /\ conditionals[j].current => conditionals[i].current

FramesInv == conditionals \in Seq(Frame) /\ FrameChain /\ DownwardActive

\* The four things a step may do to the frames.
FramesStep ==
  \/ UNCHANGED conditionals
  \/ \E condition \in BOOLEAN : conditionals' = Append(conditionals, NewFrame(condition))
  \/ /\ conditionals # <<>>
     /\ \E condition \in BOOLEAN :
          conditionals' = [conditionals EXCEPT ![Len(conditionals)] = ElifFrame(@, condition)]
  \/ /\ conditionals # <<>>
     /\ conditionals' = [conditionals EXCEPT ![Len(conditionals)] = ElseFrame(@)]
  \/ /\ conditionals # <<>>
     /\ conditionals' = SubSeq(conditionals, 1, Len(conditionals) - 1)

(* Every handler does one of them.                                         *)
LEMMA NextFramesStep ==
  ASSUME [Next]_vars
  PROVE  FramesStep
<1>1. CASE OpenConditional
  <2>1. OpeningCondition(Current) \in BOOLEAN
    BY DEF OpeningCondition
  <2>2. QED
    BY <1>1, <2>1 DEF OpenConditional, FramesStep
<1>2. CASE NextBranch
  <2>1. SimpleIfCondition(Current) \in BOOLEAN
    BY DEF SimpleIfCondition
  <2>2. CASE conditionals = <<>>
    BY <1>2, <2>2 DEF NextBranch, FramesStep
  <2>3. CASE conditionals # <<>> /\ Current.op = "else"
    BY <1>2, <2>3 DEF NextBranch, FramesStep
  <2>4. CASE conditionals # <<>> /\ Current.op # "else"
    BY <1>2, <2>1, <2>4 DEF NextBranch, FramesStep
  <2>5. QED
    BY <2>2, <2>3, <2>4
<1>3. CASE CloseConditional
  BY <1>3 DEF CloseConditional, FramesStep
<1>4. CASE TextLine \/ NullDirective \/ Define \/ Pragma \/ UnknownDirective
  BY <1>4 DEF TextLine, NullDirective, Define, Pragma, UnknownDirective, tables,
              FramesStep
<1>5. CASE Include \/ Start \/ Return \/ Finish \/ UNCHANGED vars
  BY <1>5 DEF Include, Start, Return, Finish, tables, vars, FramesStep
<1>6. QED
  BY <1>1, <1>2, <1>3, <1>4, <1>5 DEF Next, HandleLine

(* Replacing the innermost frame by one with the same parent that is       *)
(* active only when the parent is, and then marked taken, keeps the chain. *)
LEMMA ReplaceTop ==
  ASSUME FramesInv, conditionals # <<>>, NEW frame \in Frame,
         frame.parent = conditionals[Len(conditionals)].parent,
         frame.current => frame.parent /\ frame.taken,
         conditionals' = [conditionals EXCEPT ![Len(conditionals)] = frame]
  PROVE  FramesInv'
<1> DEFINE n == Len(conditionals)
<1>1. n \in Nat /\ n >= 1 /\ conditionals \in Seq(Frame)
  BY DEF FramesInv
<1>2. conditionals' \in Seq(Frame) /\ Len(conditionals') = n
  BY <1>1
<1>3. conditionals'[n] = frame
  BY <1>1
<1>4. \A i \in 1 .. n - 1 : conditionals'[i] = conditionals[i]
  BY <1>1
<1>5. FrameChain'
  <2>1. \A i \in 1 .. n : conditionals'[i].current =>
                            conditionals'[i].parent /\ conditionals'[i].taken
    BY <1>1, <1>3, <1>4 DEF FramesInv, FrameChain
  <2>2. ASSUME NEW i \in 2 .. n
        PROVE  conditionals'[i].parent = conditionals'[i - 1].current
    <3>1. conditionals[i].parent = conditionals[i - 1].current
      BY <2>2 DEF FramesInv, FrameChain
    <3>2. conditionals'[i].parent = conditionals[i].parent
      BY <1>1, <1>3, <1>4, <2>2
    <3>3. QED
      BY <1>1, <1>4, <2>2, <3>1, <3>2
  <2>3. conditionals'[1].parent
    BY <1>1, <1>3, <1>4 DEF FramesInv, FrameChain
  <2>4. QED
    BY <1>2, <2>1, <2>2, <2>3 DEF FrameChain
<1>6. DownwardActive'
  <2> SUFFICES ASSUME NEW i \in 1 .. n, NEW j \in 1 .. n, i <= j,
                      conditionals'[j].current
               PROVE  conditionals'[i].current
    BY <1>2 DEF DownwardActive
  <2>1. CASE j < n
    BY <1>1, <1>4, <2>1 DEF FramesInv, DownwardActive
  <2>2. CASE j = n /\ i = n
    BY <2>2
  <2>3. CASE j = n /\ i < n
    <3>1. conditionals[n].parent
      BY <1>3, <2>3
    <3>2. conditionals[n - 1].current
      BY <1>1, <2>3, <3>1 DEF FramesInv, FrameChain
    <3>3. conditionals[i].current
      BY <1>1, <2>3, <3>2 DEF FramesInv, DownwardActive
    <3>4. QED
      BY <1>1, <1>4, <2>3, <3>3
  <2>4. QED
    BY <1>1, <2>1, <2>2, <2>3
<1>7. QED
  BY <1>2, <1>5, <1>6 DEF FramesInv

(* The frame chain survives each of the four.                              *)
LEMMA FramesStepInv ==
  ASSUME FramesInv, FramesStep
  PROVE  FramesInv'
<1> DEFINE n == Len(conditionals)
<1>1. n \in Nat /\ conditionals \in Seq(Frame)
  BY DEF FramesInv
<1>2. CASE UNCHANGED conditionals
  BY <1>2 DEF FramesInv, FrameChain, DownwardActive
<1>3. ASSUME NEW condition \in BOOLEAN,
             conditionals' = Append(conditionals, NewFrame(condition))
      PROVE  FramesInv'
  <2>1. Active \in BOOLEAN /\ (conditionals # <<>> => Active = conditionals[n].current)
    <3>1. CASE conditionals = <<>>
      BY <3>1 DEF Active
    <3>2. CASE conditionals # <<>>
      <4>1. conditionals[n] \in Frame
        BY <1>1, <3>2, EmptySeq
      <4>2. QED
        BY <3>2, <4>1 DEF Active, Frame
    <3>3. QED
      BY <3>1, <3>2
  <2>2. /\ NewFrame(condition) \in Frame
        /\ NewFrame(condition).parent = Active
        /\ NewFrame(condition).current => Active /\ NewFrame(condition).taken
    <3>1. (Active /\ condition) \in BOOLEAN
      OBVIOUS
    <3>2. NewFrame(condition) \in Frame
      BY <2>1, <3>1 DEF NewFrame, Frame
    <3>3. QED
      BY <3>2 DEF NewFrame
  <2>3. /\ conditionals' \in Seq(Frame)
        /\ Len(conditionals') = n + 1
        /\ conditionals'[n + 1] = NewFrame(condition)
        /\ \A i \in 1 .. n : conditionals'[i] = conditionals[i]
    BY <1>1, <1>3, <2>2
  <2>4. FrameChain'
    <3>1. \A i \in 1 .. n + 1 : conditionals'[i].current =>
                              conditionals'[i].parent /\ conditionals'[i].taken
      BY <1>1, <2>2, <2>3 DEF FramesInv, FrameChain
    <3>2. ASSUME NEW i \in 2 .. n + 1
          PROVE  conditionals'[i].parent = conditionals'[i - 1].current
      <4>1. CASE i <= n
        BY <1>1, <2>3, <3>2, <4>1 DEF FramesInv, FrameChain
      <4>2. CASE i = n + 1
        <5>1. conditionals # <<>> /\ n \in 1 .. n
          BY <1>1, <3>2, <4>2
        <5>2. conditionals'[i].parent = Active
          BY <2>2, <2>3, <4>2
        <5>3. conditionals'[i - 1] = conditionals[n]
          BY <1>1, <2>3, <4>2, <5>1
        <5>4. QED
          BY <2>1, <5>1, <5>2, <5>3
      <4>3. QED
        BY <1>1, <4>1, <4>2
    <3>3. conditionals'[1].parent
      <4>1. CASE n = 0
        <5>1. conditionals = <<>>
          BY <1>1, <4>1, EmptySeq
        <5>2. Active
          BY <5>1 DEF Active
        <5>3. conditionals'[1] = NewFrame(condition)
          BY <2>3, <4>1
        <5>4. QED
          BY <2>2, <5>2, <5>3
      <4>2. CASE n >= 1
        BY <1>1, <2>3, <4>2 DEF FramesInv, FrameChain
      <4>3. QED
        BY <1>1, <4>1, <4>2
    <3>4. QED
      BY <2>3, <3>1, <3>2, <3>3 DEF FrameChain
  <2>5. DownwardActive'
    <3> SUFFICES ASSUME NEW i \in 1 .. n + 1, NEW j \in 1 .. n + 1, i <= j,
                        conditionals'[j].current
                 PROVE  conditionals'[i].current
      BY <2>3 DEF DownwardActive
    <3>1. CASE j <= n
      BY <1>1, <2>3, <3>1 DEF FramesInv, DownwardActive
    <3>2. CASE j = n + 1 /\ i = n + 1
      BY <3>2
    <3>3. CASE j = n + 1 /\ i <= n
      <4>1. Active /\ n >= 1 /\ conditionals # <<>>
        BY <1>1, <2>2, <2>3, <3>3
      <4>2. conditionals[n].current
        BY <2>1, <4>1
      <4>3. i \in 1 .. n /\ n \in 1 .. n /\ i <= n
        BY <1>1, <3>3, <4>1
      <4>4. conditionals[i].current
        BY <4>2, <4>3 DEF FramesInv, DownwardActive
      <4>5. QED
        BY <2>3, <4>3, <4>4
    <3>4. QED
      BY <1>1, <3>1, <3>2, <3>3
  <2>6. QED
    BY <2>3, <2>4, <2>5 DEF FramesInv
<1>4. ASSUME conditionals # <<>>, NEW condition \in BOOLEAN,
             conditionals' = [conditionals EXCEPT ![n] = ElifFrame(@, condition)]
      PROVE  FramesInv'
  <2>1. conditionals[n] \in Frame
    BY <1>1, <1>4
  <2>2. /\ ElifFrame(conditionals[n], condition) \in Frame
        /\ ElifFrame(conditionals[n], condition).parent = conditionals[n].parent
        /\ ElifFrame(conditionals[n], condition).current =>
             /\ ElifFrame(conditionals[n], condition).parent
             /\ ElifFrame(conditionals[n], condition).taken
    BY <2>1 DEF ElifFrame, Frame
  <2>3. QED
    BY <1>4, <2>2, ReplaceTop
<1>5. ASSUME conditionals # <<>>,
             conditionals' = [conditionals EXCEPT ![n] = ElseFrame(@)]
      PROVE  FramesInv'
  <2>1. conditionals[n] \in Frame
    BY <1>1, <1>5
  <2>2. /\ ElseFrame(conditionals[n]) \in Frame
        /\ ElseFrame(conditionals[n]).parent = conditionals[n].parent
        /\ ElseFrame(conditionals[n]).current =>
             ElseFrame(conditionals[n]).parent /\ ElseFrame(conditionals[n]).taken
    BY <2>1 DEF ElseFrame, Frame
  <2>3. QED
    BY <1>5, <2>2, ReplaceTop
<1>6. ASSUME conditionals # <<>>, conditionals' = SubSeq(conditionals, 1, n - 1)
      PROVE  FramesInv'
  <2>1. /\ conditionals' \in Seq(Frame)
        /\ Len(conditionals') = n - 1
        /\ \A i \in 1 .. n - 1 : conditionals'[i] = conditionals[i]
    BY <1>1, <1>6, PopProperties
  <2>2. FrameChain'
    BY <1>1, <2>1 DEF FramesInv, FrameChain
  <2>3. DownwardActive'
    BY <1>1, <2>1 DEF FramesInv, DownwardActive
  <2>4. QED
    BY <2>1, <2>2, <2>3 DEF FramesInv
<1>7. QED
  BY <1>2, <1>3, <1>4, <1>5, <1>6 DEF FramesStep

LEMMA FramesInvariant == Spec => []FramesInv
<1>1. Init => FramesInv
  BY DEF Init, FramesInv, FrameChain, DownwardActive
<1>2. FramesInv /\ [Next]_vars => FramesInv'
  BY NextFramesStep, FramesStepInv
<1>3. QED
  BY <1>1, <1>2, PTL DEF Spec

(* The frames always form a chain, so the activity the code reads off the  *)
(* innermost frame is that of every enclosing group, of every file being   *)
(* included: cc_current_block_active.                                      *)
THEOREM FrameChainHolds == Spec => []FrameChain
<1>1. FramesInv => FrameChain
  BY DEF FramesInv
<1>2. QED
  BY <1>1, FramesInvariant, PTL

(* When the innermost frame is active so is every frame, so text inside an *)
(* inactive group of any file is never acted on: cc_current_block_active.  *)
THEOREM ActiveIsConjunction == Spec => []ActiveMeansAllActive
<1>1. FramesInv => ActiveMeansAllActive
  <2> SUFFICES ASSUME FramesInv, Active, NEW i \in 1 .. Len(conditionals)
               PROVE  conditionals[i].current
    BY DEF ActiveMeansAllActive
  <2>1. Len(conditionals) \in Nat
    BY DEF FramesInv
  <2>2. conditionals # <<>>
    BY <2>1, EmptySeq
  <2>3. conditionals[Len(conditionals)].current
    BY <2>2 DEF Active
  <2>4. QED
    BY <2>1, <2>3 DEF FramesInv, DownwardActive
<1>2. QED
  BY <1>1, FramesInvariant, PTL

-----------------------------------------------------------------------------
(* Type correctness.                                                       *)

\* The parts of TypeOK that no handler shares with another.
TablesOK ==
  /\ macros \in [MacroNames -> {"undefined", "zero", "other"}]
  /\ pragmaOnce \subseteq Files
  /\ inComment \in BOOLEAN
  /\ output \in Seq(OutputEntry)
  /\ phase \in {"start", "reading", "finished"}

IInv == ProgramOK /\ StackOK /\ DiagnosticsOK /\ TablesOK

(* A handler that includes no file moves to the next line.                 *)
LEMMA TakeOK ==
  ASSUME IInv, NEW ops, Take(ops)
  PROVE  /\ ProgramOK' /\ StackOK' /\ phase' = phase
         /\ Top \in StackEntry /\ Current \in Line
         /\ Current.op = "define" => Current.arg \in {"zero", "other"}
<1>1. Reading /\ ~AtEnd /\ stack' = Advanced /\ program' = program /\ phase' = phase
  BY DEF Take, AtLine
<1>2. QED
  BY <1>1, CurrentOK DEF IInv, StackOK, ProgramOK

(* Every step preserves the typing invariant.                                *)
LEMMA NextIInv ==
  ASSUME IInv, [Next]_vars
  PROVE  IInv'
<1>1. CASE TextLine
  <2>1. Take({"text"}) /\ UNCHANGED <<macros, pragmaOnce, diagnostics>>
    BY <1>1 DEF TextLine
  <2>2. ProgramOK' /\ StackOK' /\ phase' = phase /\ Top \in StackEntry
    BY <2>1, TakeOK
  <2>3. CommentAfter \in BOOLEAN /\ Expanded \in BOOLEAN
    BY DEF CommentAfter, Expanded
  <2>4. inComment' \in BOOLEAN /\ output' \in Seq(OutputEntry)
    <3>1. CASE Active
      <4> DEFINE entry == [file |-> Top.file, line |-> Top.line, expanded |-> Expanded]
      <4>1. entry \in OutputEntry
        BY <2>2, <2>3 DEF StackEntry, OutputEntry
      <4>2. output' = Append(output, entry) /\ inComment' = CommentAfter
        BY <1>1, <3>1 DEF TextLine
      <4>3. output \in Seq(OutputEntry)
        BY DEF IInv, TablesOK
      <4> HIDE DEF entry
      <4>4. QED
        BY <2>3, <4>1, <4>2, <4>3
    <3>2. CASE ~Active
      BY <1>1, <3>2 DEF TextLine, IInv, TablesOK
    <3>3. QED
      BY <3>1, <3>2
  <2>5. QED
    BY <2>1, <2>2, <2>4 DEF IInv, TablesOK, DiagnosticsOK
<1>2. CASE NullDirective
  <2>1. Take({"null"}) /\ UNCHANGED <<tables, diagnostics>>
    BY <1>2 DEF NullDirective
  <2>2. QED
    BY <2>1, TakeOK DEF IInv, TablesOK, DiagnosticsOK, tables
<1>3. CASE Define
  <2>1. /\ Take({"define", "undef"}) /\ UNCHANGED <<pragmaOnce, inComment, output>>
        /\ ReportIf(Active /\ Current.name = NoName, "expected macro name")
    BY <1>3 DEF Define
  <2>2. /\ ProgramOK' /\ StackOK' /\ phase' = phase /\ Current \in Line
        /\ Current.op = "define" => Current.arg \in {"zero", "other"}
    BY <2>1, TakeOK
  <2>3. DiagnosticsOK'
    BY <2>1, ReportIfOK DEF IInv, Messages
  <2>4. macros' \in [MacroNames -> {"undefined", "zero", "other"}]
    <3>1. CASE Active /\ Current.name # NoName
      <4>1. Current.name \in MacroNames
        BY <2>2, <3>1 DEF Line
      <4>2. (IF Current.op = "define" THEN Current.arg ELSE "undefined")
              \in {"undefined", "zero", "other"}
        BY <2>2
      <4>3. QED
        BY <1>3, <3>1, <4>1, <4>2 DEF Define, IInv, TablesOK
    <3>2. CASE ~(Active /\ Current.name # NoName)
      BY <1>3, <3>2 DEF Define, IInv, TablesOK
    <3>3. QED
      BY <3>1, <3>2
  <2>5. QED
    BY <2>1, <2>2, <2>3, <2>4 DEF IInv, TablesOK
<1>4. CASE OpenConditional
  <2>1. /\ Take({"ifdef", "ifndef", "if"})
        /\ UNCHANGED <<macros, pragmaOnce, inComment, output>>
        /\ ReportIf(Current.op # "if" /\ Current.name = NoName, "expected macro name")
    BY <1>4 DEF OpenConditional
  <2>2. DiagnosticsOK'
    BY <2>1, ReportIfOK DEF IInv, Messages
  <2>3. QED
    BY <2>1, <2>2, TakeOK DEF IInv, TablesOK
<1>5. CASE NextBranch
  <2>1. /\ Take({"elif", "else"}) /\ UNCHANGED <<macros, pragmaOnce, inComment, output>>
        /\ ReportIf(conditionals = <<>>, "unmatched branch")
    BY <1>5 DEF NextBranch
  <2>2. DiagnosticsOK'
    BY <2>1, ReportIfOK DEF IInv, Messages
  <2>3. QED
    BY <2>1, <2>2, TakeOK DEF IInv, TablesOK
<1>6. CASE CloseConditional
  <2>1. /\ Take({"endif"}) /\ UNCHANGED <<macros, pragmaOnce, inComment, output>>
        /\ ReportIf(conditionals = <<>>, "unmatched endif")
    BY <1>6 DEF CloseConditional
  <2>2. DiagnosticsOK'
    BY <2>1, ReportIfOK DEF IInv, Messages
  <2>3. QED
    BY <2>1, <2>2, TakeOK DEF IInv, TablesOK
<1>7. CASE Pragma
  <2>1. Take({"pragma"}) /\ UNCHANGED <<macros, inComment, output, diagnostics>>
    BY <1>7 DEF Pragma
  <2>2. ProgramOK' /\ StackOK' /\ phase' = phase /\ Top.file \in Files
    BY <2>1, TakeOK DEF StackEntry
  <2>3. pragmaOnce' \subseteq Files
    BY <1>7, <2>2 DEF Pragma, IInv, TablesOK
  <2>4. QED
    BY <2>1, <2>2, <2>3 DEF IInv, TablesOK, DiagnosticsOK
<1>8. CASE Include
  <2>1. /\ AtLine({"include"})
        /\ UNCHANGED <<program, phase, macros, pragmaOnce, inComment, output>>
    BY <1>8 DEF Include, tables
  <2>2. /\ Advanced \in Seq(StackEntry) /\ Len(Advanced) <= MaxIncludeDepth
        /\ Len(Advanced) = Len(stack)
    BY <2>1, CurrentOK DEF IInv, AtLine, StackOK
  <2>3. StackOK' /\ DiagnosticsOK'
    <3>1. CASE stack' = Advanced /\ UNCHANGED diagnostics
      BY <2>2, <3>1 DEF IInv, StackOK, DiagnosticsOK
    <3>2. CASE stack' = Advanced /\ Report("expected include path")
      BY <2>2, <3>2, ReportOK DEF IInv, StackOK, Messages
    <3>3. CASE stack' = Advanced /\ Report("unable to open include")
      BY <2>2, <3>3, ReportOK DEF IInv, StackOK, Messages
    <3>4. CASE Current.arg \in Files \cup {Unloadable} /\ Call(Current.arg, Advanced)
      BY <2>2, <3>4, CallOK DEF IInv
    <3>5. QED
      BY <1>8, <3>1, <3>2, <3>3, <3>4 DEF Include
  <2>4. QED
    BY <2>1, <2>3 DEF IInv, ProgramOK, TablesOK
<1>9. CASE UnknownDirective
  <2>1. /\ Take({"unknown"}) /\ UNCHANGED tables
        /\ ReportIf(Active, "unsupported directive")
    BY <1>9 DEF UnknownDirective
  <2>2. DiagnosticsOK'
    BY <2>1, ReportIfOK DEF IInv, Messages
  <2>3. QED
    BY <2>1, <2>2, TakeOK DEF IInv, TablesOK, tables
<1>10. CASE Return
  <2>1. stack # <<>> /\ stack' = SubSeq(stack, 1, Len(stack) - 1)
    BY <1>10 DEF Return, Reading
  <2>2. StackOK'
    <3>1. stack' \in Seq(StackEntry) /\ Len(stack') = Len(stack) - 1 /\ Len(stack) \in Nat
      BY <2>1, PopProperties DEF IInv, StackOK
    <3>2. QED
      BY <3>1, DepthAssumption DEF IInv, StackOK
  <2>3. QED
    BY <1>10, <2>2 DEF Return, IInv, ProgramOK, TablesOK, DiagnosticsOK, tables
<1>11. CASE Start
  <2>1. /\ phase' = "reading"
        /\ UNCHANGED <<program, macros, pragmaOnce, inComment, output>>
        /\ \E file \in {Main, Unloadable} : Call(file, stack)
    BY <1>11 DEF Start, tables
  <2>2. StackOK' /\ DiagnosticsOK'
    <3>1. PICK file \in {Main, Unloadable} : Call(file, stack)
      BY <2>1
    <3>2. file \in Files \cup {Unloadable}
      BY ProgramAssumption
    <3>3. QED
      BY <3>1, <3>2, CallOK DEF IInv, StackOK
  <2>3. QED
    BY <2>1, <2>2 DEF IInv, ProgramOK, TablesOK
<1>12. CASE Finish
  <2>1. /\ phase' = "finished" /\ UNCHANGED <<program, stack, tables>>
        /\ ReportIf(conditionals # <<>>, "unterminated conditional")
    BY <1>12 DEF Finish
  <2>2. DiagnosticsOK'
    BY <2>1, ReportIfOK DEF IInv, Messages
  <2>3. QED
    BY <2>1, <2>2 DEF IInv, ProgramOK, StackOK, TablesOK, tables
<1>13. CASE UNCHANGED vars
  BY <1>13 DEF IInv, ProgramOK, StackOK, TablesOK, DiagnosticsOK, vars
<1>14. QED
  BY <1>1, <1>2, <1>3, <1>4, <1>5, <1>6, <1>7, <1>8, <1>9, <1>10, <1>11, <1>12,
     <1>13 DEF Next, HandleLine

LEMMA InitIInv == Init => IInv
<1> SUFFICES ASSUME Init
             PROVE  IInv
  OBVIOUS
<1>1. ProgramOK
  BY DEF Init, ProgramOK
<1>2. StackOK
  <2>1. <<>> \in Seq(StackEntry) /\ Len(<<>>) <= MaxIncludeDepth
    BY DepthAssumption, EmptySeq
  <2>2. QED
    BY <2>1 DEF Init, StackOK
<1>3. DiagnosticsOK
  <2>1. <<>> \in Seq(Messages) /\ Len(<<>>) <= MaxDiagnostics + 1
    BY CapAssumption, EmptySeq
  <2>2. QED
    BY <2>1 DEF Init, DiagnosticsOK
<1>4. TablesOK
  BY EmptySeq DEF Init, TablesOK
<1>5. QED
  BY <1>1, <1>2, <1>3, <1>4 DEF IInv

(* Every state is well typed, the include nesting stays within the cap,    *)
(* and so does the number of diagnostics, for every program.               *)
THEOREM TypeCorrect == Spec => []TypeOK
<1>1. Init => IInv
  BY InitIInv
<1>2. IInv /\ [Next]_vars => IInv'
  BY NextIInv
<1>3. IInv /\ FramesInv => TypeOK
  BY ProgramAssumption DEF IInv, FramesInv, ProgramOK, StackOK, DiagnosticsOK,
     TablesOK, TypeOK, StackEntry, OutputEntry
<1>4. QED
  BY <1>1, <1>2, <1>3, FramesInvariant, PTL DEF Spec

-----------------------------------------------------------------------------
(* #pragma once.                                                           *)

\* A file that begins with #pragma once.
Marked(f) ==
  program[f] # <<>> /\ program[f][1].op = "pragma" /\ program[f][1].arg = "once"

\* Of the files s that are being read f is at most one, read beyond its
\* first line and marked; what it gave is from lines before the one it is at.
Once(f, s, marks, given) ==
  /\ \A p, q \in 1 .. Len(s) : s[p].file = f /\ s[q].file = f => p = q
  /\ \A p \in 1 .. Len(s) : s[p].file = f => f \in marks
  /\ \A i \in 1 .. Len(given) : given[i].file = f =>
       f \in marks /\ \A p \in 1 .. Len(s) : s[p].file = f => given[i].line < s[p].line
  /\ \A i, j \in 1 .. Len(given) :
       given[i].file = f /\ given[j].file = f /\ given[i].line = given[j].line => i = j

\* f has just been entered, for the first time, and its mark is read next.
Entering(f) ==
  /\ stack # <<>> /\ Top.file = f /\ Top.line = 1 /\ Active
  /\ \A p \in 1 .. Len(stack) - 1 : stack[p].file # f
  /\ \A i \in 1 .. Len(output) : output[i].file # f

OnceFor(f) == Marked(f) => Entering(f) \/ Once(f, stack, pragmaOnce, output)

\* Before the start nothing is open; later every state is one of OnceFor.
OnceInv ==
  /\ phase = "start" => stack = <<>> /\ conditionals = <<>>
  /\ \A f \in Files : OnceFor(f)

(* A line that is left behind moves the file it is in by one.              *)
LEMMA AdvancedMoves ==
  ASSUME IInv, Reading, ~AtEnd
  PROVE  /\ Len(stack) \in Nat /\ Len(stack) >= 1 /\ Len(Advanced) = Len(stack)
         /\ \A p \in 1 .. Len(stack) :
              /\ Advanced[p].file = stack[p].file
              /\ stack[p].line \in Nat
              /\ Advanced[p].line = IF p = Len(stack) THEN stack[p].line + 1 ELSE stack[p].line
         /\ Advanced \in Seq(StackEntry)
<1>1. stack \in Seq(StackEntry) /\ stack # <<>>
  BY DEF IInv, StackOK, Reading
<1>2. Len(stack) \in Nat /\ Len(stack) >= 1
  BY <1>1, EmptySeq
<1>3. \A p \in 1 .. Len(stack) : stack[p] \in StackEntry
  BY <1>1, ElementOfSeq
<1>4. \A p \in 1 .. Len(stack) : stack[p].line \in Nat
  BY <1>3 DEF StackEntry
<1>5. Advanced = [stack EXCEPT ![Len(stack)] = [stack[Len(stack)] EXCEPT !.line = @ + 1]]
  BY DEF Advanced, AdvancedOver
<1>6. \A p \in 1 .. Len(stack) :
        Advanced[p] = IF p = Len(stack) THEN [stack[p] EXCEPT !.line = @ + 1] ELSE stack[p]
  BY <1>1, <1>2, <1>5
<1>7. Advanced \in Seq(StackEntry) /\ Len(Advanced) = Len(stack)
  BY <1>2, CurrentOK DEF IInv
<1>8. ASSUME NEW p \in 1 .. Len(stack)
      PROVE  /\ Advanced[p].file = stack[p].file
             /\ Advanced[p].line = IF p = Len(stack) THEN stack[p].line + 1 ELSE stack[p].line
  <2>1. stack[p] \in StackEntry
    BY <1>3
  <2>2. DOMAIN stack[p] = {"file", "line"}
    BY <2>1 DEF StackEntry
  <2>3. CASE p = Len(stack)
    <3>1. Advanced[p] = [stack[p] EXCEPT !.line = @ + 1]
      BY <1>6, <2>3
    <3>2. Advanced[p].file = stack[p].file /\ Advanced[p].line = stack[p].line + 1
      BY <3>1, <2>2
    <3>3. QED
      BY <2>3, <3>2
  <2>4. CASE p # Len(stack)
    BY <1>6, <2>4
  <2>5. QED
    BY <2>3, <2>4
<1>9. QED
  BY <1>2, <1>4, <1>7, <1>8

(* Leaving a line behind that gives no text keeps a file once.             *)
LEMMA OnceAdvanced ==
  ASSUME IInv, Reading, ~AtEnd, NEW f \in Files, NEW marks, Once(f, stack, marks, output),
         NEW more, marks \subseteq more
  PROVE  Once(f, Advanced, more, output)
<1>1. /\ Len(stack) \in Nat /\ Len(Advanced) = Len(stack)
      /\ \A p \in 1 .. Len(stack) :
           /\ Advanced[p].file = stack[p].file
           /\ stack[p].line \in Nat
           /\ Advanced[p].line = stack[p].line \/ Advanced[p].line = stack[p].line + 1
  BY AdvancedMoves
<1>2. \A i \in 1 .. Len(output) : output[i].line \in Nat
  <2>1. output \in Seq(OutputEntry)
    BY DEF IInv, TablesOK
  <2>2. \A i \in 1 .. Len(output) : output[i] \in OutputEntry
    BY <2>1, ElementOfSeq
  <2>3. QED
    BY <2>2 DEF OutputEntry
<1>3. ASSUME NEW i \in 1 .. Len(output), output[i].file = f,
             NEW p \in 1 .. Len(Advanced), Advanced[p].file = f
      PROVE  output[i].line < Advanced[p].line
  <2>1. output[i].line < stack[p].line
    BY <1>1, <1>3 DEF Once
  <2>2. QED
    BY <1>1, <1>2, <2>1
<1>4. QED
  BY <1>1, <1>3 DEF Once

(* Giving the line at hand as well.                                        *)
LEMMA OnceGiven ==
  ASSUME IInv, Reading, ~AtEnd, NEW f \in Files, NEW marks, Once(f, stack, marks, output),
         NEW entry \in OutputEntry, entry.file = Top.file, entry.line = Top.line
  PROVE  Once(f, Advanced, marks, Append(output, entry))
<1> DEFINE n == Len(output)
           given == Append(output, entry)
           top == Len(stack)
<1>1. /\ top \in Nat /\ top >= 1 /\ Len(Advanced) = top
      /\ \A p \in 1 .. top :
           /\ Advanced[p].file = stack[p].file
           /\ stack[p].line \in Nat
           /\ Advanced[p].line = IF p = top THEN stack[p].line + 1 ELSE stack[p].line
  BY AdvancedMoves
<1>2. /\ n \in Nat /\ Len(given) = n + 1 /\ given[n + 1] = entry
      /\ \A i \in 1 .. n : given[i] = output[i]
  BY DEF IInv, TablesOK
<1>3. Top = stack[top] /\ top \in 1 .. top
  BY <1>1 DEF Top
<1>4. Once(f, Advanced, marks, output)
  BY OnceAdvanced
<1> HIDE DEF given, n, top
<1>5. CASE entry.file # f
  <2>1. \A i \in 1 .. n + 1 : given[i].file = f => i \in 1 .. n /\ given[i] = output[i]
    BY <1>2, <1>5
  <2>2. QED
    BY <1>2, <1>4, <2>1 DEF Once, given, n
<1>6. CASE entry.file = f
  <2>1. stack[top].file = f /\ f \in marks
    BY <1>3, <1>6 DEF Once, top
  <2>2. \A p \in 1 .. top : Advanced[p].file = f => p = top
    BY <1>1, <1>3, <2>1 DEF Once, top
  <2>3. \A i \in 1 .. n : output[i].file = f => output[i].line < entry.line
    BY <1>3, <2>1 DEF Once, top, n
  <2>4. Advanced[top].line = entry.line + 1 /\ entry.line \in Nat
    BY <1>1, <1>3
  <2>5. ASSUME NEW i \in 1 .. n + 1, given[i].file = f, NEW p \in 1 .. top, Advanced[p].file = f
        PROVE  given[i].line < Advanced[p].line
    <3>1. p = top
      BY <2>2, <2>5
    <3>2. CASE i = n + 1
      BY <1>2, <2>4, <3>1, <3>2
    <3>3. CASE i # n + 1
      <4>1. i \in 1 .. n /\ given[i] = output[i]
        BY <1>2, <3>3
      <4>2. QED
        BY <1>4, <1>1, <2>5, <4>1 DEF Once, n, top
    <3>4. QED
      BY <3>2, <3>3
  <2>6. ASSUME NEW i \in 1 .. n + 1, NEW j \in 1 .. n + 1,
               given[i].file = f, given[j].file = f, given[i].line = given[j].line
        PROVE  i = j
    <3>1. CASE i \in 1 .. n /\ j \in 1 .. n
      BY <1>2, <1>4, <2>6, <3>1 DEF Once, n
    <3>2. CASE i \in 1 .. n /\ j = n + 1
      <4>1. given[i].line < entry.line
        BY <1>2, <2>3, <2>6, <3>2
      <4>2. given[i].line = entry.line
        BY <1>2, <2>6, <3>2
      <4>3. QED
        BY <2>4, <4>1, <4>2
    <3>3. CASE i = n + 1 /\ j \in 1 .. n
      <4>1. given[j].line < entry.line
        BY <1>2, <2>3, <2>6, <3>3
      <4>2. given[j].line = entry.line
        BY <1>2, <2>6, <3>3
      <4>3. QED
        BY <2>4, <4>1, <4>2
    <3>4. QED
      BY <1>2, <3>1, <3>2, <3>3
  <2>7. QED
    BY <1>1, <1>2, <1>4, <2>1, <2>5, <2>6 DEF Once, given, n, top
<1>7. QED
  BY <1>5, <1>6 DEF given

(* A call leaves f as it was, or enters it.                                *)
LEMMA OnceEntered ==
  ASSUME NEW f \in Files, NEW file \in Files \cup {Unloadable}, NEW caller \in Seq(StackEntry),
         NEW marks, Once(f, caller, marks, output), Call(file, caller)
  PROVE  \/ Once(f, stack', marks, output)
         \/ /\ f \notin pragmaOnce
            /\ Len(caller) \in Nat /\ Len(stack') = Len(caller) + 1 /\ stack' # <<>>
            /\ stack'[Len(stack')].file = f /\ stack'[Len(stack')].line = 1
            /\ \A p \in 1 .. Len(caller) : stack'[p] = caller[p]
<1>1. CASE stack' = caller
  BY <1>1
<1>2. CASE file \in Files \ pragmaOnce /\ stack' = Append(caller, [file |-> file, line |-> 1])
  <2> DEFINE n == Len(caller)
             entry == [file |-> file, line |-> 1]
  <2>1. /\ n \in Nat /\ Len(stack') = n + 1 /\ stack'[n + 1] = entry /\ stack' # <<>>
        /\ \A p \in 1 .. n : stack'[p] = caller[p]
    <3>1. entry \in StackEntry
      BY <1>2 DEF StackEntry
    <3> HIDE DEF entry
    <3>2. QED
      BY <1>2, <3>1 DEF entry
  <2>2. entry.file = file /\ entry.line = 1
    OBVIOUS
  <2> HIDE DEF n, entry
  <2>3. CASE file = f
    BY <1>2, <2>1, <2>2, <2>3 DEF n
  <2>4. CASE file # f
    <3>1. \A p \in 1 .. n + 1 : stack'[p].file = f => p \in 1 .. n /\ stack'[p] = caller[p]
      BY <2>1, <2>2, <2>4
    <3>2. QED
      BY <2>1, <3>1 DEF Once, n
  <2>5. QED
    BY <2>3, <2>4
<1>3. QED
  BY <1>1, <1>2 DEF Call

(* An unmarked file was never read; once it is entered it is read first.   *)
LEMMA OnceCalled ==
  ASSUME NEW f \in Files, NEW file \in Files \cup {Unloadable}, NEW caller \in Seq(StackEntry),
         Active, Once(f, caller, pragmaOnce, output), Call(file, caller),
         UNCHANGED <<conditionals, pragmaOnce, output>>
  PROVE  Entering(f)' \/ Once(f, stack, pragmaOnce, output)'
<1>1. CASE Once(f, stack', pragmaOnce, output)
  BY <1>1
<1> DEFINE n == Len(caller)
<1>2. CASE /\ f \notin pragmaOnce
           /\ n \in Nat /\ Len(stack') = n + 1 /\ stack' # <<>>
           /\ stack'[Len(stack')].file = f /\ stack'[Len(stack')].line = 1
           /\ \A p \in 1 .. n : stack'[p] = caller[p]
  <2>1. \A p \in 1 .. n : stack'[p].file # f
    BY <1>2 DEF Once
  <2>2. \A i \in 1 .. Len(output) : output[i].file # f
    BY <1>2 DEF Once
  <2> HIDE DEF n
  <2>3. Top'.file = f /\ Top'.line = 1 /\ Active' /\ Len(stack') - 1 = n
    BY <1>2 DEF Top, Active
  <2>4. Entering(f)'
    BY <1>2, <2>1, <2>2, <2>3 DEF Entering
  <2>5. QED
    BY <2>4
<1>3. QED
  BY <1>1, <1>2, OnceEntered

(* Every handled line keeps a file that is not just being entered once.    *)
LEMMA OnceHandled ==
  ASSUME IInv, Reading, ~AtEnd, NEW f \in Files, Once(f, stack, pragmaOnce, output), HandleLine
  PROVE  Entering(f)' \/ Once(f, stack, pragmaOnce, output)'
<1>1. ASSUME stack' = Advanced, output' = output, pragmaOnce \subseteq pragmaOnce'
      PROVE  Once(f, stack, pragmaOnce, output)'
  BY <1>1, OnceAdvanced
<1>2. CASE TextLine
  <2>1. stack' = Advanced /\ pragmaOnce' = pragmaOnce
    BY <1>2 DEF TextLine, Take
  <2>2. CASE Active
    <3> DEFINE entry == [file |-> Top.file, line |-> Top.line, expanded |-> Expanded]
    <3>1. Top \in StackEntry /\ Expanded \in BOOLEAN
      BY CurrentOK DEF IInv, Expanded
    <3>2. entry \in OutputEntry
      BY <3>1 DEF StackEntry, OutputEntry
    <3>3. entry.file = Top.file /\ entry.line = Top.line /\ output' = Append(output, entry)
      BY <1>2, <2>2 DEF TextLine
    <3> HIDE DEF entry
    <3>4. QED
      BY <2>1, <3>2, <3>3, OnceGiven
  <2>3. CASE ~Active
    BY <1>1, <1>2, <2>1, <2>3 DEF TextLine
  <2>4. QED
    BY <2>2, <2>3
<1>3. CASE Pragma
  <2>1. stack' = Advanced /\ output' = output
    BY <1>3 DEF Pragma, Take
  <2>2. pragmaOnce \subseteq pragmaOnce'
    BY <1>3 DEF Pragma
  <2>3. QED
    BY <1>1, <2>1, <2>2
<1>4. CASE Include
  <2>1. UNCHANGED <<conditionals, pragmaOnce, output>>
    BY <1>4 DEF Include, tables
  <2>2. CASE stack' = Advanced
    BY <1>1, <2>1, <2>2
  <2>3. CASE Active /\ Current.arg \in Files \cup {Unloadable} /\ Call(Current.arg, Advanced)
    <3>1. Advanced \in Seq(StackEntry)
      BY AdvancedMoves
    <3>2. Once(f, Advanced, pragmaOnce, output)
      BY OnceAdvanced
    <3>3. QED
      BY <2>1, <2>3, <3>1, <3>2, OnceCalled
  <2>4. QED
    BY <1>4, <2>2, <2>3 DEF Include
<1>5. CASE NullDirective \/ Define \/ OpenConditional \/ NextBranch \/ CloseConditional \/ UnknownDirective
  <2>1. stack' = Advanced /\ output' = output /\ pragmaOnce' = pragmaOnce
    BY <1>5 DEF NullDirective, Define, OpenConditional, NextBranch, CloseConditional,
                UnknownDirective, Take, tables
  <2>2. QED
    BY <1>1, <2>1
<1>6. QED
  BY <1>2, <1>3, <1>4, <1>5 DEF HandleLine

(* The file just entered has its mark read, and is marked behind it.       *)
LEMMA OnceMarked ==
  ASSUME IInv, NEW f \in Files, Marked(f), Entering(f), HandleLine
  PROVE  Once(f, stack, pragmaOnce, output)'
<1>1. /\ Reading /\ ~AtEnd
      /\ Current.op = "pragma" /\ Current.arg = "once"
  BY DEF Entering, Marked, Current, HandleLine, TextLine, NullDirective, Define, OpenConditional,
         NextBranch, CloseConditional, Pragma, Include, UnknownDirective, Take, AtLine
<1>2. Pragma
  BY <1>1 DEF HandleLine, TextLine, NullDirective, Define, OpenConditional,
              NextBranch, CloseConditional, Include, UnknownDirective, Take, AtLine
<1>3. stack' = Advanced /\ output' = output /\ f \in pragmaOnce'
  BY <1>1, <1>2 DEF Pragma, Take, Entering
<1>4. /\ Len(stack) \in Nat /\ Len(Advanced) = Len(stack)
      /\ \A p \in 1 .. Len(stack) : Advanced[p].file = stack[p].file
  BY <1>1, AdvancedMoves
<1>5. /\ \A p \in 1 .. Len(stack) - 1 : stack[p].file # f
      /\ \A i \in 1 .. Len(output) : output[i].file # f
  BY DEF Entering
<1>6. \A p \in 1 .. Len(Advanced) : Advanced[p].file = f => p = Len(stack)
  BY <1>4, <1>5
<1>7. QED
  BY <1>3, <1>5, <1>6 DEF Once

LEMMA OnceStep ==
  ASSUME IInv, OnceInv, [Next]_vars
  PROVE  OnceInv'
<1>1. ASSUME NEW f \in Files, HandleLine
      PROVE  OnceFor(f)'
  <2>1. Reading /\ ~AtEnd /\ program' = program
    BY <1>1 DEF HandleLine, TextLine, NullDirective, Define, OpenConditional, NextBranch,
                CloseConditional, Pragma, Include, UnknownDirective, Take, AtLine
  <2>2. Marked(f)' = Marked(f)
    BY <2>1 DEF Marked
  <2>3. Marked(f) => Entering(f)' \/ Once(f, stack, pragmaOnce, output)'
    BY <1>1, <2>1, OnceHandled, OnceMarked DEF OnceInv, OnceFor
  <2>4. QED
    BY <2>2, <2>3 DEF OnceFor
<1>2. ASSUME NEW f \in Files, Return
      PROVE  OnceFor(f)'
  <2> DEFINE n == Len(stack)
  <2>1. /\ Reading /\ AtEnd /\ stack' = SubSeq(stack, 1, n - 1)
        /\ UNCHANGED <<program, pragmaOnce, output>>
    BY <1>2 DEF Return, tables
  <2>2. stack \in Seq(StackEntry) /\ stack # <<>>
    BY <2>1 DEF Reading, IInv, StackOK
  <2>3. n \in Nat /\ n >= 1 /\ Len(stack') = n - 1 /\ \A p \in 1 .. n - 1 : stack'[p] = stack[p]
    BY <2>1, <2>2, PopProperties
  <2>4. ASSUME Marked(f)
        PROVE  ~Entering(f)
    <3>1. program[f] \in Seq(Line)
      BY ProgramAssumption DEF IInv, ProgramOK
    <3>2. Len(program[f]) \in Nat /\ Len(program[f]) >= 1
      BY <2>4, <3>1, EmptySeq DEF Marked
    <3>3. QED
      BY <2>1, <3>2 DEF Entering, AtEnd
  <2>5. Marked(f) => Once(f, stack, pragmaOnce, output)
    BY <2>4 DEF OnceInv, OnceFor
  <2> HIDE DEF n
  <2>6. \A p \in 1 .. n - 1 : p \in 1 .. n
    BY <2>3
  <2>7. Once(f, stack, pragmaOnce, output) => Once(f, stack, pragmaOnce, output)'
    <3> SUFFICES ASSUME Once(f, stack, pragmaOnce, output)
                 PROVE  Once(f, stack, pragmaOnce, output)'
      OBVIOUS
    <3> DEFINE popped == stack'
    <3>1. /\ Len(stack) = n /\ Len(popped) = n - 1
          /\ \A p \in 1 .. n - 1 : p \in 1 .. n /\ popped[p] = stack[p]
      BY <2>3, <2>6 DEF n
    <3> HIDE DEF popped
    <3>2. Once(f, popped, pragmaOnce, output)
      <4>1. \A p, q \in 1 .. n - 1 : popped[p].file = f /\ popped[q].file = f => p = q
        BY <3>1 DEF Once
      <4>2. \A p \in 1 .. n - 1 : popped[p].file = f => f \in pragmaOnce
        BY <3>1 DEF Once
      <4>3. \A i \in 1 .. Len(output) : output[i].file = f =>
               /\ f \in pragmaOnce
               /\ \A p \in 1 .. n - 1 : popped[p].file = f => output[i].line < popped[p].line
        BY <3>1 DEF Once
      <4> QED BY <3>1, <4>1, <4>2, <4>3 DEF Once
    <3> QED BY <2>1, <3>2 DEF popped
  <2>8. Marked(f)' = Marked(f)
    BY <2>1 DEF Marked
  <2>9. QED
    BY <2>5, <2>7, <2>8 DEF OnceFor
<1>3. ASSUME NEW f \in Files, Start
      PROVE  OnceFor(f)'
  <2>1. /\ stack = <<>> /\ conditionals = <<>>
        /\ UNCHANGED <<program, conditionals, pragmaOnce, output>>
    BY <1>3 DEF Start, OnceInv, tables
  <2>2. PICK file \in {Main, Unloadable} : Call(file, stack)
    BY <1>3 DEF Start
  <2>3. file \in Files \cup {Unloadable} /\ Active /\ stack \in Seq(StackEntry)
    BY <2>1, ProgramAssumption DEF Active
  <2>4. ~Entering(f) /\ Marked(f)' = Marked(f)
    BY <2>1 DEF Entering, Marked
  <2>5. QED
    BY <2>1, <2>2, <2>3, <2>4, OnceCalled DEF OnceInv, OnceFor
<1>4. ASSUME NEW f \in Files, Finish \/ UNCHANGED vars
      PROVE  OnceFor(f)'
  <2>1. UNCHANGED <<program, stack, conditionals, pragmaOnce, output>>
    BY <1>4 DEF Finish, tables, vars
  <2>2. Entering(f)' = Entering(f) /\ Marked(f)' = Marked(f)
    BY <2>1 DEF Entering, Top, Active, Marked
  <2>3. Once(f, stack, pragmaOnce, output)' = Once(f, stack, pragmaOnce, output)
    BY <2>1
  <2>4. QED
    BY <2>2, <2>3 DEF OnceInv, OnceFor
<1>5. phase' = "start" => stack' = <<>> /\ conditionals' = <<>>
  <2>1. CASE HandleLine
    BY <2>1 DEF HandleLine, TextLine, NullDirective, Define, OpenConditional, NextBranch,
                CloseConditional, Pragma, Include, UnknownDirective, Take, AtLine, Reading
  <2>2. CASE Start \/ Return \/ Finish
    BY <2>2 DEF Start, Return, Finish, Reading
  <2>3. CASE UNCHANGED vars
    BY <2>3 DEF vars, OnceInv
  <2>4. QED
    BY <2>1, <2>2, <2>3 DEF Next
<1>6. QED
  BY <1>1, <1>2, <1>3, <1>4, <1>5 DEF Next, OnceInv

(* A file that begins with #pragma once gives each of its lines once, by   *)
(* whichever files, itself among them, and however often it is included.   *)
THEOREM MarkedFilesGiveTextOnce == Spec => []PragmaOnceGivesTextOnce
<1>1. Init => OnceInv
  <2> SUFFICES ASSUME Init
               PROVE  OnceInv
    OBVIOUS
  <2>1. Len(<<>>) = 0
    OBVIOUS
  <2>2. \A f \in Files : Once(f, stack, pragmaOnce, output)
    BY <2>1 DEF Init, Once
  <2>3. QED
    BY <2>2 DEF Init, OnceInv, OnceFor
<1>2. OnceInv => PragmaOnceGivesTextOnce
  <2> SUFFICES ASSUME OnceInv, NEW f \in Files, Marked(f),
                      NEW i \in 1 .. Len(output), NEW j \in 1 .. Len(output),
                      output[i].file = f, output[j].file = f, output[i].line = output[j].line
               PROVE  i = j
    BY DEF PragmaOnceGivesTextOnce, Marked
  <2>1. Entering(f) \/ Once(f, stack, pragmaOnce, output)
    BY DEF OnceInv, OnceFor
  <2>2. QED
    BY <2>1 DEF Entering, Once
<1>3. OnceInv /\ IInv /\ [Next]_vars => OnceInv'
  BY OnceStep
<1>4. Spec => []IInv
  BY InitIInv, NextIInv, PTL DEF Spec
<1>5. QED
  BY <1>1, <1>2, <1>3, <1>4, PTL DEF Spec

-----------------------------------------------------------------------------
(* The include guard.                                                      *)

Below == SubSeq(stack, 1, Len(stack) - 1)

\* Defining the guard is what marks the file.
Marks(f, guard) == IF IsDefined(guard) THEN {f} ELSE {}

\* f has been entered and is at its guard, or is being passed over; until
\* its end nothing but f is read.
InGuard(f, guard) ==
  /\ stack # <<>> /\ Top.file = f
  /\ Once(f, Below, Marks(f, guard), output)
  /\ \/ Top.line = 1 /\ Active
     \/ Top.line = 2 /\ (Active <=> ~IsDefined(guard))
     \/ Top.line \in 3 .. Len(program[f]) /\ ~Active /\ IsDefined(guard)
     \/ Top.line = Len(program[f]) + 1 /\ IsDefined(guard)

GuardFor(f, guard) ==
  GuardedBy(f, guard) => InGuard(f, guard) \/ Once(f, stack, Marks(f, guard), output)

GuardInv ==
  /\ phase = "start" => stack = <<>> /\ conditionals = <<>>
  /\ \A f \in Files, guard \in MacroNames : GuardFor(f, guard)

(* Once only looks at the files and the lines.                             *)
LEMMA OnceSame ==
  ASSUME NEW f, NEW s, NEW t, NEW marks, NEW given, Once(f, s, marks, given),
         Len(t) = Len(s), \A p \in 1 .. Len(s) : t[p].file = s[p].file /\ t[p].line = s[p].line
  PROVE  Once(f, t, marks, given)
BY DEF Once

(* A guard, once defined, stays defined.                                   *)
LEMMA GuardStays ==
  ASSUME IInv, NEW f \in Files, NEW guard \in MacroNames, GuardedBy(f, guard), HandleLine,
         IsDefined(guard)
  PROVE  IsDefined(guard)' /\ Marks(f, guard) \subseteq Marks(f, guard)'
<1>1. CASE Define
  <2>1. Reading /\ ~AtEnd /\ Current.op \in {"define", "undef"}
    BY <1>1 DEF Define, Take, AtLine
  <2>2. /\ Top.file \in Files /\ Top.line \in 1 .. Len(program[Top.file])
        /\ Current.op = "define" => Current.arg \in {"zero", "other"}
    BY <2>1, CurrentOK DEF IInv, StackEntry
  <2>3. Current.op = "undef" => Current.name # guard
    BY <2>2 DEF GuardedBy, Current
  <2>4. macros \in [MacroNames -> {"undefined", "zero", "other"}]
    BY DEF IInv, TablesOK
  <2>5. macros[guard] # "undefined"
    BY DEF IsDefined
  <2>6. \/ macros' = macros
        \/ Current.name # guard /\ \E x : macros' = [macros EXCEPT ![Current.name] = x]
        \/ Current.op = "define" /\ macros' = [macros EXCEPT ![Current.name] = Current.arg]
    BY <1>1, <2>1, <2>3 DEF Define
  <2>7. macros'[guard] # "undefined"
    BY <2>2, <2>4, <2>5, <2>6
  <2>8. QED
    BY <2>7 DEF IsDefined, Marks
<1>2. CASE ~Define
  <2>1. macros' = macros
    BY <1>2 DEF HandleLine, TextLine, NullDirective, OpenConditional, NextBranch,
                CloseConditional, Pragma, Include, UnknownDirective, tables
  <2>2. QED
    BY <2>1 DEF IsDefined, Marks
<1>3. QED
  BY <1>1, <1>2

LEMMA MarksGrow ==
  ASSUME IInv, NEW f \in Files, NEW guard \in MacroNames, GuardedBy(f, guard), HandleLine
  PROVE  Marks(f, guard) \subseteq Marks(f, guard)'
BY GuardStays DEF Marks

(* Outside of its guard a file is read like any other, and may be entered. *)
LEMMA GuardHandled ==
  ASSUME IInv, IInv', Reading, ~AtEnd, NEW f \in Files, NEW guard \in MacroNames,
         GuardedBy(f, guard), Once(f, stack, Marks(f, guard), output), HandleLine
  PROVE  (InGuard(f, guard) \/ Once(f, stack, Marks(f, guard), output))'
<1> DEFINE marks == Marks(f, guard)
<1>1. marks \subseteq marks'
  BY MarksGrow
<1> HIDE DEF marks
<1>2. ASSUME stack' = Advanced, output' = output
      PROVE  Once(f, stack, marks, output)'
  BY <1>1, <1>2, OnceAdvanced DEF marks
<1>3. CASE TextLine
  <2>1. stack' = Advanced /\ marks' = marks
    BY <1>3 DEF TextLine, Take, marks, Marks, IsDefined
  <2>2. CASE Active
    <3> DEFINE entry == [file |-> Top.file, line |-> Top.line, expanded |-> Expanded]
    <3>1. Top \in StackEntry /\ Expanded \in BOOLEAN
      BY CurrentOK DEF IInv, Expanded
    <3>2. entry \in OutputEntry
      BY <3>1 DEF StackEntry, OutputEntry
    <3>3. entry.file = Top.file /\ entry.line = Top.line /\ output' = Append(output, entry)
      BY <1>3, <2>2 DEF TextLine
    <3> HIDE DEF entry
    <3>4. Once(f, Advanced, marks, Append(output, entry))
      BY <3>2, <3>3, OnceGiven DEF marks
    <3>5. QED
      BY <2>1, <3>3, <3>4 DEF marks
  <2>3. CASE ~Active
    BY <1>2, <1>3, <2>1, <2>3 DEF TextLine, marks
  <2>4. QED
    BY <2>2, <2>3
<1>4. CASE Include
  <2>1. UNCHANGED <<conditionals, pragmaOnce, output, macros>>
    BY <1>4 DEF Include, tables
  <2>2. CASE stack' = Advanced
    BY <1>2, <2>1, <2>2 DEF marks
  <2>3. CASE Active /\ Current.arg \in Files \cup {Unloadable} /\ Call(Current.arg, Advanced)
    <3> DEFINE caller == Advanced
               n == Len(caller)
    <3>1. caller \in Seq(StackEntry) /\ Once(f, caller, marks, output) /\ marks' = marks
      BY <2>1, AdvancedMoves, OnceAdvanced DEF marks, Marks, IsDefined
    <3>2. CASE Once(f, stack', marks, output)
      BY <2>1, <3>1, <3>2 DEF marks
    <3>3. CASE /\ n \in Nat /\ Len(stack') = n + 1 /\ stack' # <<>>
               /\ stack'[Len(stack')].file = f /\ stack'[Len(stack')].line = 1
               /\ \A p \in 1 .. n : stack'[p] = caller[p]
      <4>1. stack' \in Seq(StackEntry)
        BY DEF IInv, StackOK
      <4>2. Len(Below') = Len(stack') - 1 /\ \A p \in 1 .. Len(stack') - 1 : Below'[p] = stack'[p]
        BY <3>3, <4>1, PopProperties DEF Below
      <4> HIDE DEF n, caller
      <4>3. Len(Below') = Len(caller) /\ \A p \in 1 .. Len(caller) : Below'[p] = caller[p]
        BY <3>3, <4>2 DEF n
      <4>4. Once(f, Below', marks', output')
        BY <2>1, <3>1, <4>3, OnceSame
      <4>5. Top'.file = f /\ Top'.line = 1 /\ Active'
        BY <2>1, <2>3, <3>3 DEF Top, Active
      <4>6. QED
        BY <3>3, <4>4, <4>5 DEF InGuard, marks
    <3> HIDE DEF n, caller
    <3>4. QED
      BY <2>3, <3>1, <3>2, <3>3, OnceEntered DEF n, caller
  <2>4. QED
    BY <1>4, <2>2, <2>3 DEF Include
<1>5. CASE NullDirective \/ Define \/ OpenConditional \/ NextBranch \/ CloseConditional
           \/ Pragma \/ UnknownDirective
  <2>1. stack' = Advanced /\ output' = output
    BY <1>5 DEF NullDirective, Define, OpenConditional, NextBranch, CloseConditional,
                Pragma, UnknownDirective, Take, tables
  <2>2. QED
    BY <1>2, <2>1 DEF marks
<1>6. QED
  BY <1>3, <1>4, <1>5 DEF HandleLine

(* What is below the top stays as it was when the top moves on.            *)
LEMMA BelowAdvanced ==
  ASSUME IInv, Reading, ~AtEnd, NEW f \in Files, NEW marks, Once(f, Below, marks, output),
         NEW more, marks \subseteq more, stack' = Advanced, output' = output
  PROVE  Once(f, Below', more, output')
<1>1. /\ Len(stack) \in Nat /\ Len(stack) >= 1 /\ Len(Advanced) = Len(stack)
      /\ Advanced \in Seq(StackEntry)
      /\ \A p \in 1 .. Len(stack) :
           /\ Advanced[p].file = stack[p].file
           /\ Advanced[p].line = IF p = Len(stack) THEN stack[p].line + 1 ELSE stack[p].line
  BY AdvancedMoves
<1>2. stack \in Seq(StackEntry) /\ stack # <<>> /\ Advanced # <<>>
  BY <1>1, EmptySeq DEF IInv, StackOK, Reading
<1>3. Len(Below) = Len(stack) - 1 /\ \A p \in 1 .. Len(stack) - 1 : Below[p] = stack[p]
  BY <1>2, PopProperties DEF Below
<1>4. Below' = SubSeq(Advanced, 1, Len(Advanced) - 1)
  BY DEF Below
<1>5. Len(Below') = Len(stack) - 1 /\ \A p \in 1 .. Len(stack) - 1 : Below'[p] = Advanced[p]
  BY <1>1, <1>2, <1>4, PopProperties
<1>6. \A p \in 1 .. Len(stack) - 1 : p \in 1 .. Len(stack) /\ p # Len(stack)
  BY <1>1
<1>7. \A p \in 1 .. Len(Below) : Below'[p].file = Below[p].file /\ Below'[p].line = Below[p].line
  BY <1>1, <1>3, <1>5, <1>6
<1>8. Once(f, Below', marks, output)
  BY <1>3, <1>5, <1>7, OnceSame
<1>9. QED
  BY <1>8 DEF Once

(* In its guard a file is passed over, but for the first time.             *)
LEMMA GuardPassed ==
  ASSUME IInv, FramesInv, NEW f \in Files, NEW guard \in MacroNames,
         GuardedBy(f, guard), InGuard(f, guard), HandleLine
  PROVE  (InGuard(f, guard) \/ Once(f, stack, Marks(f, guard), output))'
<1> DEFINE end == Len(program[f])
<1>1. Reading /\ ~AtEnd /\ program' = program
  BY DEF HandleLine, TextLine, NullDirective, Define, OpenConditional, NextBranch,
         CloseConditional, Pragma, Include, UnknownDirective, Take, AtLine
<1>2. Top.file = f /\ Current = program[f][Top.line] /\ Top.line \in 1 .. end
  BY <1>1, CurrentOK DEF InGuard, Current, IInv
<1>3. end \in Nat /\ end >= 3
  <2>1. program[f] \in Seq(Line)
    BY ProgramAssumption DEF IInv, ProgramOK
  <2>2. QED
    BY <2>1 DEF GuardedBy
<1>4. /\ Len(stack) \in Nat /\ Len(stack) >= 1 /\ Len(Advanced) = Len(stack)
      /\ \A p \in 1 .. Len(stack) : Advanced[p].file = stack[p].file
      /\ Advanced[Len(stack)].line = Top.line + 1
  BY <1>1, AdvancedMoves DEF Top
<1>5. ASSUME stack' = Advanced
      PROVE  Top'.file = f /\ Top'.line = Top.line + 1 /\ stack' # <<>> /\ Len(program'[f]) = end
  BY <1>1, <1>2, <1>4, <1>5, EmptySeq DEF Top
<1>6. ASSUME stack' = Advanced, output' = output
      PROVE  Once(f, Below, Marks(f, guard), output)'
  BY <1>1, <1>6, BelowAdvanced, MarksGrow DEF InGuard
<1>7. Top.line = 1 \/ Top.line = 2 \/ Top.line \in 3 .. end - 1 \/ Top.line = end
  BY <1>2, <1>3
<1> HIDE DEF end
<1>8. CASE Top.line = 1
  <2>1. Active /\ Current.op = "ifndef" /\ Current.name = guard
    BY <1>2, <1>3, <1>8 DEF InGuard, GuardedBy, end
  <2>2. OpenConditional
    BY <2>1 DEF HandleLine, TextLine, NullDirective, Define, NextBranch,
                CloseConditional, Pragma, Include, UnknownDirective, Take, AtLine
  <2>3. stack' = Advanced /\ output' = output /\ macros' = macros
    BY <2>2 DEF OpenConditional, Take
  <2>4. OpeningCondition(Current) = ~IsDefined(guard)
    BY <2>1, ProgramAssumption DEF OpeningCondition
  <2>5. conditionals' = Append(conditionals, NewFrame(~IsDefined(guard)))
    BY <2>2, <2>4 DEF OpenConditional
  <2>6. Active' <=> ~IsDefined(guard)
    <3> DEFINE frame == NewFrame(~IsDefined(guard))
    <3>1. frame.current = ~IsDefined(guard)
      BY <2>1 DEF NewFrame
    <3>2. conditionals \in Seq(Frame)
      BY DEF FramesInv
    <3> HIDE DEF frame
    <3>3. conditionals' # <<>> /\ conditionals'[Len(conditionals')] = frame
      BY <2>5, <3>2 DEF frame
    <3>4. QED
      BY <3>1, <3>3 DEF Active
  <2>7. IsDefined(guard)' <=> IsDefined(guard)
    BY <2>3 DEF IsDefined
  <2>8. Top'.line = 2
    BY <1>5, <1>8, <2>3
  <2>9. Active' <=> ~IsDefined(guard)'
    BY <2>6, <2>7
  <2>10. QED
    BY <1>5, <1>6, <2>3, <2>8, <2>9 DEF InGuard
<1>9. CASE Top.line = 2
  <2>1. (Active <=> ~IsDefined(guard)) /\ Current.op = "define" /\ Current.name = guard
    BY <1>2, <1>3, <1>9 DEF InGuard, GuardedBy, end
  <2>2. Define
    BY <2>1 DEF HandleLine, TextLine, NullDirective, OpenConditional, NextBranch,
                CloseConditional, Pragma, Include, UnknownDirective, Take, AtLine
  <2>3. stack' = Advanced /\ output' = output /\ conditionals' = conditionals
    BY <2>2 DEF Define, Take
  <2>4. CASE ~Active
    <3>1. IsDefined(guard)' /\ ~Active'
      BY <2>1, <2>3, <2>4, GuardStays DEF Active
    <3>2. Top.line + 1 \in 3 .. end
      BY <1>3, <1>9
    <3>3. QED
      BY <1>5, <1>6, <2>3, <3>1, <3>2 DEF InGuard
  <2>5. CASE Active
    <3>1. Once(f, Below, {}, output)
      BY <2>1, <2>5 DEF InGuard, Marks
    <3>2. stack \in Seq(StackEntry) /\ stack # <<>>
      BY <1>1 DEF IInv, StackOK, Reading
    <3>3. Len(Below) = Len(stack) - 1 /\ \A p \in 1 .. Len(stack) - 1 : Below[p] = stack[p]
      BY <3>2, PopProperties DEF Below
    <3>4. /\ \A p \in 1 .. Len(stack) - 1 : stack[p].file # f
          /\ \A i \in 1 .. Len(output) : output[i].file # f
      BY <3>1, <3>3 DEF Once
    <3>5. \A p \in 1 .. Len(Advanced) : Advanced[p].file = f => p = Len(stack)
      BY <1>4, <3>4
    <3>6. IsDefined(guard)'
      <4>1. macros' = [macros EXCEPT ![guard] = Current.arg] /\ Current.arg \in {"zero", "other"}
        BY <1>1, <2>1, <2>2, <2>5, CurrentOK, ProgramAssumption DEF Define, IInv
      <4>2. macros \in [MacroNames -> {"undefined", "zero", "other"}]
        BY DEF IInv, TablesOK
      <4>3. QED
        BY <4>1, <4>2 DEF IsDefined
    <3>7. f \in Marks(f, guard)'
      BY <3>6 DEF Marks
    <3>8. QED
      BY <2>3, <3>4, <3>5, <3>7 DEF Once
  <2>6. QED
    BY <2>4, <2>5
<1>10. CASE Top.line \in 3 .. end - 1
  <2>1. ~Active /\ IsDefined(guard)
    BY <1>3, <1>10 DEF InGuard, end
  <2>2. Current.op \in {"text", "define", "pragma", "null", "include"}
    BY <1>2, <1>10 DEF GuardedBy, end
  <2>3. TextLine \/ Define \/ Pragma \/ NullDirective \/ Include
    BY <2>2 DEF HandleLine, OpenConditional, NextBranch, CloseConditional, UnknownDirective, Take, AtLine
  <2>4. stack' = Advanced /\ output' = output /\ conditionals' = conditionals
    BY <2>1, <2>3 DEF TextLine, Define, Pragma, NullDirective, Include, Take, tables
  <2>5. IsDefined(guard)' /\ ~Active'
    BY <2>1, <2>4, GuardStays DEF Active
  <2>6. Top.line + 1 \in 3 .. end
    BY <1>3, <1>10
  <2>7. QED
    BY <1>5, <1>6, <2>4, <2>5, <2>6 DEF InGuard
<1>11. CASE Top.line = end
  <2>1. IsDefined(guard) /\ Current.op = "endif"
    BY <1>2, <1>3, <1>11 DEF InGuard, GuardedBy, end
  <2>2. CloseConditional
    BY <2>1 DEF HandleLine, TextLine, NullDirective, Define, OpenConditional, NextBranch,
                Pragma, Include, UnknownDirective, Take, AtLine
  <2>3. stack' = Advanced /\ output' = output
    BY <2>2 DEF CloseConditional, Take
  <2>4. QED
    BY <1>5, <1>6, <1>11, <2>1, <2>3, GuardStays DEF InGuard
<1>12. QED
  BY <1>7, <1>8, <1>9, <1>10, <1>11

LEMMA GuardStep ==
  ASSUME IInv, IInv', FramesInv, GuardInv, [Next]_vars
  PROVE  GuardInv'
<1>1. ASSUME NEW f \in Files, NEW guard \in MacroNames, HandleLine
      PROVE  GuardFor(f, guard)'
  <2>1. Reading /\ ~AtEnd /\ program' = program
    BY <1>1 DEF HandleLine, TextLine, NullDirective, Define, OpenConditional, NextBranch,
                CloseConditional, Pragma, Include, UnknownDirective, Take, AtLine
  <2>2. GuardedBy(f, guard)' = GuardedBy(f, guard)
    BY <2>1 DEF GuardedBy
  <2>3. QED
    BY <1>1, <2>1, <2>2, GuardHandled, GuardPassed DEF GuardInv, GuardFor
<1>2. ASSUME NEW f \in Files, NEW guard \in MacroNames, Return
      PROVE  GuardFor(f, guard)'
  <2> DEFINE n == Len(stack)
  <2>1. /\ Reading /\ stack' = Below /\ UNCHANGED <<program, macros, output>>
    BY <1>2 DEF Return, tables, Below
  <2>2. stack \in Seq(StackEntry) /\ stack # <<>>
    BY <2>1 DEF Reading, IInv, StackOK
  <2>3. n \in Nat /\ Len(Below) = n - 1 /\ \A p \in 1 .. n - 1 : Below[p] = stack[p]
    BY <2>2, PopProperties DEF Below
  <2>4. Marks(f, guard)' = Marks(f, guard) /\ GuardedBy(f, guard)' = GuardedBy(f, guard)
    BY <2>1 DEF Marks, IsDefined, GuardedBy
  <2>5. Once(f, stack, Marks(f, guard), output) => Once(f, Below, Marks(f, guard), output)
    <3>1. \A p \in 1 .. n - 1 : p \in 1 .. n
      BY <2>3
    <3> HIDE DEF n
    <3>2. QED
      BY <2>3, <3>1 DEF Once, n
  <2>6. QED
    BY <2>1, <2>4, <2>5 DEF GuardInv, GuardFor, InGuard
<1>3. ASSUME NEW f \in Files, NEW guard \in MacroNames, Start
      PROVE  GuardFor(f, guard)'
  <2>1. /\ stack = <<>> /\ conditionals = <<>>
        /\ UNCHANGED <<program, conditionals, macros, output>>
    BY <1>3 DEF Start, GuardInv, tables
  <2>2. PICK file \in {Main, Unloadable} : Call(file, stack)
    BY <1>3 DEF Start
  <2>3. file \in Files \cup {Unloadable} /\ Active' /\ stack \in Seq(StackEntry)
    BY <2>1, ProgramAssumption DEF Active
  <2>4. /\ ~InGuard(f, guard) /\ GuardedBy(f, guard)' = GuardedBy(f, guard)
        /\ Marks(f, guard)' = Marks(f, guard)
    BY <2>1 DEF InGuard, GuardedBy, Marks, IsDefined
  <2> DEFINE marks == Marks(f, guard)
  <2> HIDE DEF marks
  <2>5. ASSUME Once(f, stack, marks, output)
        PROVE  InGuard(f, guard)' \/ Once(f, stack', marks, output)
    <3>1. CASE /\ Len(stack') = Len(stack) + 1 /\ stack' # <<>>
               /\ stack'[Len(stack')].file = f /\ stack'[Len(stack')].line = 1
      <4>1. Len(stack) = 0 /\ stack' \in Seq(StackEntry)
        BY <2>1 DEF IInv, StackOK
      <4>2. Len(Below') = 0
        BY <3>1, <4>1, PopProperties DEF Below
      <4>3. Once(f, Below', marks, output)
        BY <2>5, <4>1, <4>2, OnceSame
      <4>4. QED
        BY <2>1, <2>3, <2>4, <3>1, <4>3 DEF InGuard, Top, marks
    <3>2. QED
      BY <2>2, <2>3, <2>5, <3>1, OnceEntered
  <2>6. QED
    BY <2>1, <2>4, <2>5 DEF GuardInv, GuardFor, marks
<1>4. ASSUME NEW f \in Files, NEW guard \in MacroNames, Finish \/ UNCHANGED vars
      PROVE  GuardFor(f, guard)'
  <2>1. UNCHANGED <<program, stack, conditionals, macros, output>>
    BY <1>4 DEF Finish, tables, vars
  <2>2. InGuard(f, guard)' = InGuard(f, guard) /\ GuardedBy(f, guard)' = GuardedBy(f, guard)
    BY <2>1 DEF InGuard, Top, Active, Below, Marks, IsDefined, GuardedBy
  <2>3. Once(f, stack, Marks(f, guard), output)' = Once(f, stack, Marks(f, guard), output)
    BY <2>1 DEF Marks, IsDefined
  <2>4. QED
    BY <2>2, <2>3 DEF GuardInv, GuardFor
<1>5. phase' = "start" => stack' = <<>> /\ conditionals' = <<>>
  <2>1. CASE HandleLine
    BY <2>1 DEF HandleLine, TextLine, NullDirective, Define, OpenConditional, NextBranch,
                CloseConditional, Pragma, Include, UnknownDirective, Take, AtLine, Reading
  <2>2. CASE Start \/ Return \/ Finish
    BY <2>2 DEF Start, Return, Finish, Reading
  <2>3. CASE UNCHANGED vars
    BY <2>3 DEF vars, GuardInv
  <2>4. QED
    BY <2>1, <2>2, <2>3 DEF Next
<1>6. QED
  BY <1>1, <1>2, <1>3, <1>4, <1>5 DEF Next, GuardInv

(* A file behind an include guard gives each of its lines once, whatever   *)
(* its lines include, itself among it, and whatever those files make of    *)
(* the groups that are open.                                               *)
THEOREM GuardedFilesGiveTextOnce == Spec => []IncludeGuardGivesTextOnce
<1>1. Init => GuardInv
  <2> SUFFICES ASSUME Init
               PROVE  GuardInv
    OBVIOUS
  <2>1. Len(<<>>) = 0
    OBVIOUS
  <2>2. \A f \in Files, guard \in MacroNames : Once(f, stack, Marks(f, guard), output)
    BY <2>1 DEF Init, Once
  <2>3. QED
    BY <2>2 DEF Init, GuardInv, GuardFor
<1>2. GuardInv => IncludeGuardGivesTextOnce
  <2> SUFFICES ASSUME GuardInv, NEW f \in Files, NEW guard \in MacroNames, GuardedBy(f, guard),
                      NEW i \in 1 .. Len(output), NEW j \in 1 .. Len(output),
                      output[i].file = f, output[j].file = f, output[i].line = output[j].line
               PROVE  i = j
    BY DEF IncludeGuardGivesTextOnce
  <2>1. InGuard(f, guard) \/ Once(f, stack, Marks(f, guard), output)
    BY DEF GuardInv, GuardFor
  <2>2. QED
    BY <2>1 DEF InGuard, Once
<1>3. GuardInv /\ IInv /\ IInv' /\ FramesInv /\ [Next]_vars => GuardInv'
  BY GuardStep
<1>4. Spec => []IInv
  BY InitIInv, NextIInv, PTL DEF Spec
<1>5. QED
  BY <1>1, <1>2, <1>3, <1>4, FramesInvariant, PTL DEF Spec


-----------------------------------------------------------------------------
(* The refinement of ConditionalInclusion.                                 *)

(* The reference, as a function of the lines read and the verdicts on them. *)
Of(ls, inc) == INSTANCE ConditionalInclusion WITH lines <- ls, included <- inc, text <- <<>>

\* The directives that open a group.
OpeningOps == {"if", "ifdef", "ifndef"}

\* The lines from one position to another with one of the operations.
Counted(ls, ops, from, to) == Cardinality({i \in from .. to : ls[i].op \in ops})

(* How many more openings than closings there are behind i, up to j.        *)
Surplus(ls, i, j) == Counted(ls, OpeningOps, i + 1, j) - Counted(ls, {"endif"}, i + 1, j)

(* The reference counts with the same cardinality.                          *)
LEMMA CountIs ==
  ASSUME NEW ls, NEW inc, NEW ops, NEW from, NEW to
  PROVE  Of(ls, inc)!Count(ops, from, to) = Counted(ls, ops, from, to)
<1>1. \A S : Of(ls, inc)!Cardinality(S) = Cardinality(S)
  BY DEF Of!Cardinality, Cardinality
<1> QED BY <1>1 DEF Of!Count, Counted

(* Counting one line more.                                                 *)
LEMMA CountedNext ==
  ASSUME NEW ls, NEW ops, NEW from \in Nat, NEW to \in Nat, from <= to + 1
  PROVE  /\ Counted(ls, ops, from, to) \in Nat
         /\ Counted(ls, ops, from, to + 1)
              = Counted(ls, ops, from, to) + (IF ls[to + 1].op \in ops THEN 1 ELSE 0)
<1> DEFINE S == {i \in from .. to : ls[i].op \in ops}
           T == {i \in from .. to + 1 : ls[i].op \in ops}
<1>1. IsFiniteSet(S)
  <2>1. IsFiniteSet(from .. to)
    BY FS_Interval
  <2>2. S \subseteq from .. to
    OBVIOUS
  <2> HIDE DEF S
  <2> QED BY <2>1, <2>2, FS_Subset
<1>2. Cardinality(S) \in Nat
  <2> HIDE DEF S
  <2> QED BY <1>1, FS_CardinalityType
<1>3. to + 1 \notin S
  OBVIOUS
<1>4. CASE ls[to + 1].op \in ops
  <2>1. T = S \union {to + 1}
    BY <1>4
  <2> HIDE DEF S, T
  <2>2. Cardinality(S \union {to + 1}) = Cardinality(S) + 1
    BY <1>1, <1>3, FS_AddElement
  <2>3. Cardinality(T) = Cardinality(S) + 1
    BY <2>1, <2>2
  <2> QED BY <1>2, <1>4, <2>3 DEF Counted, S, T
<1>5. CASE ls[to + 1].op \notin ops
  <2>1. T = S
    BY <1>5
  <2> HIDE DEF S, T
  <2>2. Cardinality(T) = Cardinality(S) + 0
    BY <1>2, <2>1
  <2> QED BY <1>2, <1>5, <2>2 DEF Counted, S, T
<1> QED BY <1>4, <1>5

(* There is nothing to count behind the end.                               *)
LEMMA CountedNone ==
  ASSUME NEW ls, NEW ops, NEW to \in Nat
  PROVE  Counted(ls, ops, to + 1, to) = 0
<1>1. {i \in to + 1 .. to : ls[i].op \in ops} = {}
  OBVIOUS
<1> QED BY <1>1, FS_EmptySet DEF Counted

(* The surplus grows by an opening and shrinks by a closing.               *)
LEMMA SurplusNext ==
  ASSUME NEW ls, NEW i \in Nat, NEW j \in Nat, i <= j
  PROVE  /\ Surplus(ls, i, j) \in Int
         /\ Surplus(ls, i, j + 1)
              = Surplus(ls, i, j) + (IF ls[j + 1].op \in OpeningOps THEN 1
                                     ELSE IF ls[j + 1].op = "endif" THEN -1 ELSE 0)
<1>1. /\ Counted(ls, OpeningOps, i + 1, j) \in Nat
      /\ Counted(ls, OpeningOps, i + 1, j + 1)
           = Counted(ls, OpeningOps, i + 1, j) + (IF ls[j + 1].op \in OpeningOps THEN 1 ELSE 0)
  BY CountedNext
<1>2. /\ Counted(ls, {"endif"}, i + 1, j) \in Nat
      /\ Counted(ls, {"endif"}, i + 1, j + 1)
           = Counted(ls, {"endif"}, i + 1, j) + (IF ls[j + 1].op \in {"endif"} THEN 1 ELSE 0)
  BY CountedNext
<1>4. ls[j + 1].op \in OpeningOps => ls[j + 1].op # "endif"
  BY DEF OpeningOps
<1> DEFINE o == Counted(ls, OpeningOps, i + 1, j)
           c == Counted(ls, {"endif"}, i + 1, j)
           opens == Counted(ls, OpeningOps, i + 1, j + 1)
           closes == Counted(ls, {"endif"}, i + 1, j + 1)
           op == ls[j + 1].op
<1>6. Surplus(ls, i, j) = o - c /\ Surplus(ls, i, j + 1) = opens - closes
  BY DEF Surplus
<1>7. /\ o \in Nat /\ c \in Nat
      /\ opens = o + (IF op \in OpeningOps THEN 1 ELSE 0)
      /\ closes = c + (IF op = "endif" THEN 1 ELSE 0)
  BY <1>1, <1>2
<1> HIDE DEF o, c, opens, closes, op
<1>8. opens - closes = (o - c) + (IF op \in OpeningOps THEN 1 ELSE IF op = "endif" THEN -1 ELSE 0)
  BY <1>4, <1>7 DEF op
<1> QED BY <1>6, <1>7, <1>8 DEF op

(* Nothing is open behind a position that was not left.                    *)
LEMMA SurplusNone ==
  ASSUME NEW ls, NEW j \in Nat
  PROVE  Surplus(ls, j, j) = 0
<1>1. Counted(ls, OpeningOps, j + 1, j) = 0 /\ Counted(ls, {"endif"}, j + 1, j) = 0
  BY CountedNone
<1> QED BY <1>1 DEF Surplus

(* A group stays open as long as it has no more closings than openings.     *)
LEMMA OpenIs ==
  ASSUME NEW ls, NEW inc, NEW i \in Nat, NEW j \in Nat
  PROVE  Of(ls, inc)!OpenBehind(i, j) <=>
           ls[i].op \in OpeningOps /\ \A k \in i + 1 .. j : Surplus(ls, i, k) >= 0
<1>1. ASSUME NEW k \in i + 1 .. j
      PROVE  Of(ls, inc)!Count({"endif"}, i + 1, k) <= Of(ls, inc)!Count(OpeningOps, i + 1, k)
               <=> Surplus(ls, i, k) >= 0
  <2>1. k \in Nat /\ i + 1 <= k + 1
    OBVIOUS
  <2>2. Counted(ls, OpeningOps, i + 1, k) \in Nat /\ Counted(ls, {"endif"}, i + 1, k) \in Nat
    BY <2>1, CountedNext
  <2> QED BY <2>2, CountIs DEF Surplus
<1>2. Of(ls, inc)!Opening = OpeningOps
  BY DEF Of!Opening, OpeningOps
<1>3. Of(ls, inc)!OpenBehind(i, j) <=>
        /\ ls[i].op \in OpeningOps
        /\ \A k \in i + 1 .. j :
             Of(ls, inc)!Count({"endif"}, i + 1, k) <= Of(ls, inc)!Count(OpeningOps, i + 1, k)
  BY <1>2 DEF Of!OpenBehind
<1> QED BY <1>1, <1>3

(* One more line leaves a group open unless it closes it.                  *)
LEMMA OpenNext ==
  ASSUME NEW ls, NEW inc, NEW i \in Nat, NEW j \in Nat, i <= j
  PROVE  Of(ls, inc)!OpenBehind(i, j + 1) <=>
           Of(ls, inc)!OpenBehind(i, j) /\ Surplus(ls, i, j + 1) >= 0
<1>1. i + 1 .. j + 1 = (i + 1 .. j) \union {j + 1}
  OBVIOUS
<1>2. j + 1 \in Nat
  OBVIOUS
<1> QED BY <1>1, <1>2, OpenIs

(* A group is open behind the line that opens it.                          *)
LEMMA OpenAtOnce ==
  ASSUME NEW ls, NEW inc, NEW j \in Nat
  PROVE  Of(ls, inc)!OpenBehind(j, j) <=> ls[j].op \in OpeningOps
<1>1. j + 1 .. j = {}
  OBVIOUS
<1> QED BY <1>1, OpenIs

\* The groups open behind a position.
Groups(ls, inc, j) == Of(ls, inc)!GroupsBehind(j)

(* What was read before a line is not changed by it.                        *)
LEMMA CountedPrefix ==
  ASSUME NEW ls \in Seq(Line), NEW line, NEW ops, NEW from \in Nat, NEW to \in Nat,
         from >= 1, to <= Len(ls)
  PROVE  Counted(Append(ls, line), ops, from, to) = Counted(ls, ops, from, to)
<1>1. \A i \in from .. to : Append(ls, line)[i] = ls[i]
  OBVIOUS
<1>2. {i \in from .. to : Append(ls, line)[i].op \in ops} = {i \in from .. to : ls[i].op \in ops}
  BY <1>1
<1> QED BY <1>2 DEF Counted

(* The surplus up to a line read earlier stays as it was.                  *)
LEMMA SurplusPrefix ==
  ASSUME NEW ls \in Seq(Line), NEW line, NEW i \in Nat, NEW j \in Nat, j <= Len(ls)
  PROVE  Surplus(Append(ls, line), i, j) = Surplus(ls, i, j)
<1>1. i + 1 \in Nat /\ i + 1 >= 1
  OBVIOUS
<1> QED BY <1>1, CountedPrefix DEF Surplus

(* So do the groups open behind it.                                        *)
LEMMA GroupsPrefix ==
  ASSUME NEW ls \in Seq(Line), NEW inc, NEW line, NEW a, NEW j \in Nat, j <= Len(ls)
  PROVE  Groups(Append(ls, line), Append(inc, a), j) = Groups(ls, inc, j)
<1> DEFINE lt == Append(ls, line)
           it == Append(inc, a)
<1>1. \A i \in 1 .. j : lt[i] = ls[i]
  OBVIOUS
<1>2. \A i \in Nat, k \in Nat : k <= j => Surplus(lt, i, k) = Surplus(ls, i, k)
  BY SurplusPrefix
<1> HIDE DEF lt, it
<1>3. ASSUME NEW i \in 1 .. j
      PROVE  Of(lt, it)!OpenBehind(i, j) <=> Of(ls, inc)!OpenBehind(i, j)
  <2>1. i \in Nat /\ \A k \in i + 1 .. j : k \in Nat /\ k <= j
    OBVIOUS
  <2>2. \A k \in i + 1 .. j : Surplus(lt, i, k) = Surplus(ls, i, k)
    BY <1>2, <2>1
  <2> QED BY <1>1, <2>1, <2>2, OpenIs
<1>4. {i \in 1 .. j : Of(lt, it)!OpenBehind(i, j)} = {i \in 1 .. j : Of(ls, inc)!OpenBehind(i, j)}
  BY <1>3
<1> QED BY <1>4 DEF Groups, Of!GroupsBehind, lt, it

-----------------------------------------------------------------------------
(* The groups that are open, as the stack of conditional frames has them.   *)
Stacked(ls, inc, g) ==
  /\ ls \in Seq(Line)
  /\ g \in Seq(Nat)
  /\ \A p \in 1 .. Len(g) : g[p] \in 1 .. Len(ls)
  /\ \A p, q \in 1 .. Len(g) : p < q => g[p] < g[q]
  /\ \A i \in 1 .. Len(ls) :
       Of(ls, inc)!OpenBehind(i, Len(ls)) <=> \E p \in 1 .. Len(g) : g[p] = i
  /\ \A p \in 1 .. Len(g) : Surplus(ls, g[p], Len(ls)) = Len(g) - p

(* A line that opens a group puts it on top.                               *)
LEMMA StackedOpens ==
  ASSUME NEW ls, NEW inc, NEW g, Stacked(ls, inc, g),
         NEW line \in Line, NEW a, line.op \in OpeningOps
  PROVE  Stacked(Append(ls, line), Append(inc, a), Append(g, Len(ls) + 1))
<1> DEFINE n == Len(ls)
           d == Len(g)
           lt == Append(ls, line)
           it == Append(inc, a)
           h == Append(g, n + 1)
<1>1. ls \in Seq(Line) /\ g \in Seq(Nat) /\ n \in Nat /\ d \in Nat
  BY DEF Stacked
<1>2. /\ lt \in Seq(Line) /\ Len(lt) = n + 1 /\ lt[n + 1] = line
      /\ h \in Seq(Nat) /\ Len(h) = d + 1 /\ h[d + 1] = n + 1
      /\ \A p \in 1 .. d : h[p] = g[p]
      /\ \A i \in 1 .. n : lt[i] = ls[i]
  BY <1>1
<1>3. \A i \in Nat : Surplus(lt, i, n) = Surplus(ls, i, n)
  BY <1>1, SurplusPrefix
<1>4. \A i \in 1 .. n : Of(lt, it)!OpenBehind(i, n) <=> Of(ls, inc)!OpenBehind(i, n)
  <2>1. Groups(lt, it, n) = Groups(ls, inc, n)
    BY <1>1, GroupsPrefix
  <2> HIDE DEF lt, it, n
  <2> QED BY <2>1 DEF Groups, Of!GroupsBehind
<1> HIDE DEF lt, it, h, n, d
<1>5. ASSUME NEW p \in 1 .. d
      PROVE  Surplus(lt, g[p], n + 1) = d - p + 1
  <2>1. g[p] \in 1 .. n /\ Surplus(ls, g[p], n) = d - p
    BY DEF Stacked, n, d
  <2>2. g[p] \in Nat /\ g[p] <= n
    BY <1>1, <2>1
  <2>3. Surplus(lt, g[p], n + 1) = Surplus(lt, g[p], n) + 1
    BY <1>1, <1>2, <2>2, SurplusNext
  <2> QED BY <1>3, <2>1, <2>2, <2>3
<1>6. Surplus(lt, n + 1, n + 1) = 0
  <2>1. n + 1 \in Nat
    BY <1>1
  <2> QED BY <2>1, SurplusNone
<1>7. ASSUME NEW p \in 1 .. Len(h)
      PROVE  h[p] \in 1 .. Len(lt) /\ Surplus(lt, h[p], Len(lt)) = Len(h) - p
  <2>1. CASE p = d + 1
    BY <1>1, <1>2, <1>6, <2>1
  <2>2. CASE p # d + 1
    <3>1. p \in 1 .. d
      BY <1>1, <1>2, <2>2
    <3>2. g[p] \in 1 .. n
      BY <3>1 DEF Stacked, n, d
    <3> QED BY <1>1, <1>2, <1>5, <3>1, <3>2
  <2> QED BY <2>1, <2>2
<1>8. ASSUME NEW p \in 1 .. Len(h), NEW q \in 1 .. Len(h), p < q
      PROVE  h[p] < h[q]
  <2>1. p \in 1 .. d /\ h[p] = g[p] /\ g[p] \in 1 .. n
    BY <1>1, <1>2, <1>8 DEF Stacked, n, d
  <2>2. CASE q = d + 1
    BY <1>1, <1>2, <2>1, <2>2
  <2>3. CASE q # d + 1
    <3>1. q \in 1 .. d
      BY <1>1, <1>2, <2>3
    <3> QED BY <1>2, <1>8, <2>1, <3>1 DEF Stacked, d
  <2> QED BY <2>2, <2>3
<1>9. ASSUME NEW i \in 1 .. n
      PROVE  Of(lt, it)!OpenBehind(i, n + 1) <=> \E p \in 1 .. d : g[p] = i
  <2>1. i \in Nat /\ i <= n
    BY <1>1
  <2>2. Of(lt, it)!OpenBehind(i, n + 1) <=>
          Of(ls, inc)!OpenBehind(i, n) /\ Surplus(lt, i, n + 1) >= 0
    BY <1>1, <1>4, <2>1, OpenNext
  <2>3. Of(ls, inc)!OpenBehind(i, n) <=> \E p \in 1 .. d : g[p] = i
    BY DEF Stacked, n, d
  <2>4. ASSUME NEW p \in 1 .. d, g[p] = i
        PROVE  Surplus(lt, i, n + 1) >= 0
    BY <1>1, <1>5, <2>4
  <2> QED BY <2>2, <2>3, <2>4
<1>10. Of(lt, it)!OpenBehind(n + 1, n + 1)
  <2>1. n + 1 \in Nat
    BY <1>1
  <2> QED BY <1>2, <2>1, OpenAtOnce
<1>11. ASSUME NEW i \in 1 .. Len(lt)
       PROVE  Of(lt, it)!OpenBehind(i, Len(lt)) <=> \E p \in 1 .. Len(h) : h[p] = i
  <2>1. CASE i = n + 1
    <3>1. d + 1 \in 1 .. Len(h)
      BY <1>1, <1>2
    <3> QED BY <1>2, <1>10, <2>1, <3>1
  <2>2. CASE i # n + 1
    <3>1. i \in 1 .. n
      BY <1>1, <1>2, <2>2
    <3>2. (\E p \in 1 .. d : g[p] = i) <=> \E p \in 1 .. Len(h) : h[p] = i
      <4>1. 1 .. Len(h) = (1 .. d) \union {d + 1}
        BY <1>1, <1>2
      <4> QED BY <1>2, <2>2, <4>1
    <3> QED BY <1>2, <1>9, <3>1, <3>2
  <2> QED BY <2>1, <2>2
<1>12. Stacked(lt, it, h)
  BY <1>2, <1>7, <1>8, <1>11 DEF Stacked
<1> QED BY <1>12 DEF lt, it, h, n

(* How many groups a line opens.                                            *)
Delta(line) == IF line.op \in OpeningOps THEN 1 ELSE IF line.op = "endif" THEN -1 ELSE 0

(* How a line moves the surplus of the open groups.                        *)
LEMMA StackedSurplus ==
  ASSUME NEW ls, NEW inc, NEW g, Stacked(ls, inc, g), NEW line \in Line, NEW p \in 1 .. Len(g)
  PROVE  Surplus(Append(ls, line), g[p], Len(ls) + 1) = Len(g) - p + Delta(line)
<1> DEFINE n == Len(ls)
           lt == Append(ls, line)
<1>1. ls \in Seq(Line) /\ g \in Seq(Nat) /\ n \in Nat /\ Len(g) \in Nat /\ p \in Int
  BY DEF Stacked
<1>2. lt[n + 1] = line
  BY <1>1
<1>3. g[p] \in 1 .. n /\ Surplus(ls, g[p], n) = Len(g) - p
  BY DEF Stacked
<1>4. g[p] \in Nat /\ g[p] <= n
  BY <1>1, <1>3
<1>5. Surplus(lt, g[p], n) = Len(g) - p
  BY <1>1, <1>3, <1>4, SurplusPrefix
<1> HIDE DEF lt, n
<1>6. Surplus(lt, g[p], n + 1) = Surplus(lt, g[p], n) + Delta(line)
  BY <1>1, <1>2, <1>4, SurplusNext DEF Delta
<1>7. Surplus(lt, g[p], n + 1) = Len(g) - p + Delta(line)
  BY <1>5, <1>6
<1> QED BY <1>7 DEF lt, n

(* Which of the open groups are open behind one more line.                 *)
LEMMA StackedOpen ==
  ASSUME NEW ls, NEW inc, NEW g, Stacked(ls, inc, g), NEW line \in Line, NEW a,
         NEW i \in 1 .. Len(ls)
  PROVE  Of(Append(ls, line), Append(inc, a))!OpenBehind(i, Len(ls) + 1)
           <=> \E p \in 1 .. Len(g) : g[p] = i /\ Len(g) - p + Delta(line) >= 0
<1> DEFINE n == Len(ls)
           lt == Append(ls, line)
           it == Append(inc, a)
<1>1. ls \in Seq(Line) /\ n \in Nat /\ i \in Nat /\ i <= n
  BY DEF Stacked
<1>2. Of(lt, it)!OpenBehind(i, n) <=> Of(ls, inc)!OpenBehind(i, n)
  <2>1. Groups(lt, it, n) = Groups(ls, inc, n)
    BY <1>1, GroupsPrefix
  <2> HIDE DEF lt, it, n
  <2> QED BY <2>1 DEF Groups, Of!GroupsBehind, n
<1>3. Of(ls, inc)!OpenBehind(i, n) <=> \E p \in 1 .. Len(g) : g[p] = i
  BY DEF Stacked
<1>4. \A p \in 1 .. Len(g) : Surplus(lt, g[p], n + 1) = Len(g) - p + Delta(line)
  BY StackedSurplus
<1> HIDE DEF lt, it, n
<1>5. Of(lt, it)!OpenBehind(i, n + 1) <=>
        Of(lt, it)!OpenBehind(i, n) /\ Surplus(lt, i, n + 1) >= 0
  BY <1>1, OpenNext
<1>6. Of(lt, it)!OpenBehind(i, n + 1) <=>
        \E p \in 1 .. Len(g) : g[p] = i /\ Len(g) - p + Delta(line) >= 0
  BY <1>2, <1>3, <1>4, <1>5
<1> QED BY <1>6 DEF lt, it, n

(* A line that neither opens nor closes a group.                            *)
LEMMA StackedStays ==
  ASSUME NEW ls, NEW inc, NEW g, Stacked(ls, inc, g), NEW line \in Line, NEW a,
         line.op \notin OpeningOps,
         line.op = "endif" => g = <<>>
  PROVE  Stacked(Append(ls, line), Append(inc, a), g)
<1> DEFINE n == Len(ls)
           d == Len(g)
           lt == Append(ls, line)
           it == Append(inc, a)
<1>1. ls \in Seq(Line) /\ g \in Seq(Nat) /\ n \in Nat /\ d \in Nat
  BY DEF Stacked
<1>2. lt \in Seq(Line) /\ Len(lt) = n + 1 /\ lt[n + 1] = line
  BY <1>1
<1>3. \A p \in 1 .. d : Surplus(lt, g[p], n + 1) = d - p + Delta(line)
  BY StackedSurplus
<1>4. \A i \in 1 .. n : Of(lt, it)!OpenBehind(i, n + 1)
                          <=> \E p \in 1 .. d : g[p] = i /\ d - p + Delta(line) >= 0
  BY StackedOpen
<1>5. \A p \in 1 .. d : Delta(line) = 0
  <2>1. CASE g = <<>>
    BY <2>1
  <2>2. CASE line.op # "endif"
    BY <2>2 DEF Delta
  <2> QED BY <2>1, <2>2
<1>6. /\ \A p \in 1 .. d : g[p] \in 1 .. n
      /\ \A p, q \in 1 .. d : p < q => g[p] < g[q]
  BY DEF Stacked
<1> HIDE DEF lt, it, n, d
<1>7. ~ Of(lt, it)!OpenBehind(n + 1, n + 1)
  <2>1. n + 1 \in Nat
    BY <1>1
  <2> QED BY <1>2, <2>1, OpenAtOnce
<1>8. ASSUME NEW p \in 1 .. d
      PROVE  g[p] \in 1 .. Len(lt) /\ Surplus(lt, g[p], Len(lt)) = d - p
  <2>1. Surplus(lt, g[p], n + 1) = d - p + Delta(line) /\ Delta(line) = 0
    BY <1>3, <1>5
  <2>2. d - p + 0 = d - p
    BY <1>1
  <2>3. Surplus(lt, g[p], Len(lt)) = d - p
    BY <1>2, <2>1, <2>2
  <2>4. g[p] \in 1 .. n
    BY <1>6
  <2>5. g[p] \in 1 .. n + 1
    BY <1>1, <2>4
  <2> QED BY <1>2, <2>3, <2>5
<1>9. ASSUME NEW i \in 1 .. Len(lt)
      PROVE  Of(lt, it)!OpenBehind(i, Len(lt)) <=> \E p \in 1 .. d : g[p] = i
  <2>1. CASE i = n + 1
    <3>1. \A p \in 1 .. d : g[p] # i
      BY <1>1, <1>6, <2>1
    <3> QED BY <1>2, <1>7, <2>1, <3>1
  <2>2. CASE i # n + 1
    <3>1. i \in 1 .. n
      BY <1>1, <1>2, <2>2
    <3>2. \A p \in 1 .. d : d - p + Delta(line) >= 0
      BY <1>1, <1>5
    <3> QED BY <1>2, <1>4, <3>1, <3>2
  <2> QED BY <2>1, <2>2
<1>10. Stacked(lt, it, g)
  BY <1>1, <1>2, <1>6, <1>8, <1>9 DEF Stacked, d
<1> QED BY <1>10 DEF lt, it

(* A line that closes the innermost group.                                  *)
LEMMA StackedCloses ==
  ASSUME NEW ls, NEW inc, NEW g, Stacked(ls, inc, g), NEW line \in Line, NEW a,
         line.op = "endif", g # <<>>
  PROVE  Stacked(Append(ls, line), Append(inc, a), SubSeq(g, 1, Len(g) - 1))
<1> DEFINE n == Len(ls)
           d == Len(g)
           lt == Append(ls, line)
           it == Append(inc, a)
           h == SubSeq(g, 1, d - 1)
<1>1. ls \in Seq(Line) /\ g \in Seq(Nat) /\ n \in Nat /\ d \in Nat
  BY DEF Stacked
<1>2. lt \in Seq(Line) /\ Len(lt) = n + 1 /\ lt[n + 1] = line
  BY <1>1
<1>3. \A p \in 1 .. d : Surplus(lt, g[p], n + 1) = d - p + Delta(line)
  BY StackedSurplus
<1>4. \A i \in 1 .. n : Of(lt, it)!OpenBehind(i, n + 1)
                          <=> \E p \in 1 .. d : g[p] = i /\ d - p + Delta(line) >= 0
  BY StackedOpen
<1>5. Delta(line) = -1
  BY DEF Delta, OpeningOps
<1>6. /\ \A p \in 1 .. d : g[p] \in 1 .. n
      /\ \A p, q \in 1 .. d : p < q => g[p] < g[q]
  BY DEF Stacked
<1>7. h \in Seq(Nat) /\ Len(h) = d - 1 /\ d >= 1 /\ \A p \in 1 .. d - 1 : h[p] = g[p]
  BY <1>1, PopProperties
<1> HIDE DEF lt, it, n, d, h
<1>8. ~ Of(lt, it)!OpenBehind(n + 1, n + 1)
  <2>1. n + 1 \in Nat
    BY <1>1
  <2> QED BY <1>2, <2>1, OpenAtOnce DEF OpeningOps
<1>9. ASSUME NEW p \in 1 .. Len(h)
      PROVE  h[p] \in 1 .. Len(lt) /\ Surplus(lt, h[p], Len(lt)) = Len(h) - p
  <2>1. p \in 1 .. d /\ h[p] = g[p]
    BY <1>1, <1>7
  <2>2. Surplus(lt, g[p], n + 1) = d - p + Delta(line)
    BY <1>3, <2>1
  <2>3. d - p + -1 = (d - 1) - p
    BY <1>1, <2>1
  <2>4. Surplus(lt, h[p], Len(lt)) = Len(h) - p
    BY <1>2, <1>5, <1>7, <2>1, <2>2, <2>3
  <2>5. g[p] \in 1 .. n
    BY <1>6, <2>1
  <2>6. g[p] \in 1 .. n + 1
    BY <1>1, <2>5
  <2> QED BY <1>2, <2>1, <2>4, <2>6
<1>10. \A p, q \in 1 .. Len(h) : p < q => h[p] < h[q]
  <2>1. \A p \in 1 .. Len(h) : p \in 1 .. d /\ h[p] = g[p]
    BY <1>1, <1>7
  <2> QED BY <1>6, <2>1
<1>11. ASSUME NEW i \in 1 .. Len(lt)
       PROVE  Of(lt, it)!OpenBehind(i, Len(lt)) <=> \E p \in 1 .. Len(h) : h[p] = i
  <2>1. CASE i = n + 1
    <3>1. \A p \in 1 .. Len(h) : h[p] # i
      <4>1. \A p \in 1 .. Len(h) : p \in 1 .. d /\ h[p] = g[p]
        BY <1>1, <1>7
      <4> QED BY <1>1, <1>6, <2>1, <4>1
    <3> QED BY <1>2, <1>8, <2>1, <3>1
  <2>2. CASE i # n + 1
    <3>1. i \in 1 .. n
      BY <1>1, <1>2, <2>2
    <3>2. \A p \in 1 .. d : d - p + Delta(line) >= 0 <=> p \in 1 .. d - 1
      BY <1>1, <1>5
    <3>3. \A p \in 1 .. d - 1 : p \in 1 .. d
      BY <1>1
    <3>4. (\E p \in 1 .. d : g[p] = i /\ d - p + Delta(line) >= 0) <=> \E p \in 1 .. d - 1 : g[p] = i
      BY <3>2, <3>3
    <3> QED BY <1>2, <1>4, <1>7, <3>1, <3>4
  <2> QED BY <2>1, <2>2
<1>12. Stacked(lt, it, h)
  BY <1>1, <1>2, <1>7, <1>9, <1>10, <1>11 DEF Stacked
<1> QED BY <1>12 DEF lt, it, h, d

(* The groups open, and the innermost of them.                              *)
LEMMA StackedGroups ==
  ASSUME NEW ls, NEW inc, NEW g, Stacked(ls, inc, g)
  PROVE  /\ Of(ls, inc)!GroupsBehind(Len(ls)) = {g[p] : p \in 1 .. Len(g)}
         /\ Of(ls, inc)!GroupsBehind(Len(ls)) = {} <=> g = <<>>
<1>1. Len(ls) \in Nat /\ g \in Seq(Nat) /\ Len(g) \in Nat
  BY DEF Stacked
<1>2. /\ \A p \in 1 .. Len(g) : g[p] \in 1 .. Len(ls)
      /\ \A i \in 1 .. Len(ls) : Of(ls, inc)!OpenBehind(i, Len(ls)) <=> \E p \in 1 .. Len(g) : g[p] = i
  BY DEF Stacked
<1>3. {i \in 1 .. Len(ls) : Of(ls, inc)!OpenBehind(i, Len(ls))} = {g[p] : p \in 1 .. Len(g)}
  BY <1>2
<1>4. Of(ls, inc)!GroupsBehind(Len(ls)) = {g[p] : p \in 1 .. Len(g)}
  BY <1>3 DEF Of!GroupsBehind
<1>5. CASE g = <<>>
  <2>1. 1 .. Len(g) = {}
    BY <1>5
  <2> QED BY <1>4, <1>5, <2>1
<1>6. CASE g # <<>>
  <2>1. 1 \in 1 .. Len(g)
    BY <1>1, <1>6
  <2> QED BY <1>4, <1>6, <2>1
<1> QED BY <1>4, <1>5, <1>6

(* The last of them is the innermost.                                      *)
LEMMA StackedInnermost ==
  ASSUME NEW ls, NEW inc, NEW g, Stacked(ls, inc, g), g # <<>>
  PROVE  Of(ls, inc)!InnermostBehind(Len(ls)) = g[Len(g)]
<1> DEFINE G == {g[p] : p \in 1 .. Len(g)}
           d == Len(g)
<1>1. Len(ls) \in Nat /\ g \in Seq(Nat) /\ d \in Nat /\ d # 0
  BY DEF Stacked
<1>2. /\ \A p \in 1 .. d : g[p] \in 1 .. Len(ls)
      /\ \A p, q \in 1 .. d : p < q => g[p] < g[q]
  BY DEF Stacked
<1>3. g[d] \in G /\ d \in 1 .. d
  BY <1>1
<1>4. \A x \in G : x \in Int /\ x <= g[d]
  <2> SUFFICES ASSUME NEW p \in 1 .. d
               PROVE  g[p] \in Int /\ g[p] <= g[d]
    OBVIOUS
  <2>1. p = d \/ p < d
    BY <1>1
  <2>2. g[p] \in 1 .. Len(ls) /\ g[d] \in 1 .. Len(ls)
    BY <1>2, <1>3
  <2>3. p < d => g[p] < g[d]
    BY <1>2, <1>3
  <2> HIDE DEF d
  <2> QED BY <1>1, <2>1, <2>2, <2>3
<1>5. Of(ls, inc)!GroupsBehind(Len(ls)) = G
  BY StackedGroups
<1> HIDE DEF G, d
<1>6. (CHOOSE i \in G : \A k \in G : k <= i) = g[d]
  <2>1. \A i \in G : (\A k \in G : k <= i) => i = g[d]
    BY <1>3, <1>4
  <2> QED BY <1>3, <1>4, <2>1
<1> QED BY <1>5, <1>6 DEF Of!InnermostBehind, d

(* A nonempty set of naturals has a least member.                          *)
LEMMA LeastNumber ==
    ASSUME NEW T \in SUBSET Nat, T # {}
    PROVE  \E x \in T : \A y \in T : x <= y
<1> DEFINE R == OpToRel(<, Nat)
<1>1. IsWellFoundedOn(R, Nat)
  BY NatLessThanWellFounded
<1>2. \A x, y \in Nat : <<x, y>> \in R <=> x < y
  BY DEF OpToRel
<1> HIDE DEF R
<1>3. PICK x \in T : \A y \in T : ~ (<<y, x>> \in R)
  BY <1>1, WFMin, Zenon
<1>4. ASSUME NEW y \in T PROVE x <= y
  <2>1. x \in Nat /\ y \in Nat
    OBVIOUS
  <2>2. ~ (y < x)
    BY <1>2, <1>3, <2>1
  <2> QED BY <2>1, <2>2
<1> QED BY <1>4

(* A nonempty set of positions has a last one.                             *)
LEMMA GreatestNumber ==
    ASSUME NEW L \in Nat, NEW S \in SUBSET (1..L), S # {}
    PROVE  \E x \in S : \A y \in S : y <= x
<1> DEFINE T == {L - x : x \in S}
<1>1. T \in SUBSET Nat /\ T # {}
  <2>1. \A x \in S : L - x \in Nat
    OBVIOUS
  <2>2. PICK x \in S : TRUE
    OBVIOUS
  <2>3. L - x \in T
    BY <2>2
  <2>4. T \subseteq Nat
    BY <2>1
  <2> QED BY <2>3, <2>4
<1>2. PICK z \in T : \A y \in T : z <= y
  <2> HIDE DEF T
  <2> QED BY <1>1, LeastNumber
<1>3. PICK x \in S : z = L - x
  OBVIOUS
<1>4. ASSUME NEW y \in S PROVE y <= x
  <2>1. z <= L - y
    BY <1>2
  <2> QED BY <1>3, <2>1
<1> QED BY <1>4

(* The last position of a set, as the reference chooses it.                 *)
Latest(S) == CHOOSE x \in S : \A y \in S : y <= x

(* It is the one the others do not pass.                                   *)
LEMMA LatestIs ==
  ASSUME NEW S \in SUBSET Nat, NEW m \in S, \A y \in S : y <= m
  PROVE  Latest(S) = m
<1>1. \A x \in S : (\A y \in S : y <= x) => x = m
  OBVIOUS
<1>2. \E x \in S : \A y \in S : y <= x
  OBVIOUS
<1> QED BY <1>1, <1>2 DEF Latest

(* It is one of them.                                                      *)
LEMMA LatestOf ==
  ASSUME NEW L \in Nat, NEW S \in SUBSET (1 .. L), S # {}
  PROVE  Latest(S) \in S
<1>1. \E x \in S : \A y \in S : y <= x
  BY GreatestNumber
<1> QED BY <1>1 DEF Latest

-----------------------------------------------------------------------------
(* Lines and verdicts, as the history records them.                         *)
Recorded(ls, inc) == ls \in Seq(Line) /\ inc \in Seq(BOOLEAN) /\ Len(inc) = Len(ls)

(* One more line, with its verdict.                                        *)
LEMMA RecordedNext ==
  ASSUME NEW ls, NEW inc, Recorded(ls, inc), NEW line \in Line, NEW a \in BOOLEAN
  PROVE  /\ Recorded(Append(ls, line), Append(inc, a))
         /\ Len(Append(ls, line)) = Len(ls) + 1 /\ Len(ls) \in Nat
         /\ Append(ls, line)[Len(ls) + 1] = line
         /\ Append(inc, a)[Len(ls) + 1] = a
         /\ \A i \in 1 .. Len(ls) : Append(ls, line)[i] = ls[i] /\ Append(inc, a)[i] = inc[i]
BY DEF Recorded

(* The definitions included before a position.                              *)
Definitions(ls, inc, name, k) ==
  {d \in 1 .. k - 1 : ls[d].op \in {"define", "undef"} /\ ls[d].name = name /\ inc[d]}

(* The kind of a macro, by its last included definition.                   *)
LEMMA MacroIs ==
  ASSUME NEW ls, NEW inc, NEW name, NEW k
  PROVE  Of(ls, inc)!MacroAt(name, k) =
           IF Definitions(ls, inc, name, k) = {}
              \/ ls[Latest(Definitions(ls, inc, name, k))].op = "undef"
           THEN "undefined" ELSE ls[Latest(Definitions(ls, inc, name, k))].arg
BY DEF Of!MacroAt, Of!DefinitionsBefore, Definitions, Latest

(* The kinds at lines read earlier stay as they were.                      *)
LEMMA MacroPrefix ==
  ASSUME NEW ls, NEW inc, Recorded(ls, inc), NEW line \in Line, NEW a \in BOOLEAN,
         NEW name, NEW k \in 1 .. Len(ls) + 1
  PROVE  Of(Append(ls, line), Append(inc, a))!MacroAt(name, k) = Of(ls, inc)!MacroAt(name, k)
<1> DEFINE n == Len(ls)
           lt == Append(ls, line)
           it == Append(inc, a)
           D == Definitions(ls, inc, name, k)
<1>1. n \in Nat /\ \A i \in 1 .. n : lt[i] = ls[i] /\ it[i] = inc[i]
  BY DEF Recorded
<1>2. \A d \in 1 .. k - 1 : d \in 1 .. n
  BY <1>1
<1> HIDE DEF n, lt, it
<1>3. Definitions(lt, it, name, k) = D
  BY <1>1, <1>2 DEF Definitions
<1>4. D # {} => lt[Latest(D)] = ls[Latest(D)]
  <2>1. D \in SUBSET (1 .. n)
    BY <1>2 DEF Definitions
  <2> HIDE DEF D
  <2> QED BY <1>1, <2>1, LatestOf
<1> HIDE DEF D
<1>5. Of(lt, it)!MacroAt(name, k) = Of(ls, inc)!MacroAt(name, k)
  BY <1>3, <1>4, MacroIs DEF D
<1> QED BY <1>5 DEF lt, it

(* An included definition decides the kind behind it.                      *)
LEMMA MacroNext ==
  ASSUME NEW ls, NEW inc, Recorded(ls, inc), NEW line \in Line, NEW a \in BOOLEAN, NEW name
  PROVE  Of(Append(ls, line), Append(inc, a))!MacroAt(name, Len(ls) + 2) =
           IF line.op \in {"define", "undef"} /\ line.name = name /\ a
           THEN IF line.op = "undef" THEN "undefined" ELSE line.arg
           ELSE Of(ls, inc)!MacroAt(name, Len(ls) + 1)
<1> DEFINE n == Len(ls)
           lt == Append(ls, line)
           it == Append(inc, a)
           D == Definitions(ls, inc, name, n + 1)
           E == Definitions(lt, it, name, n + 2)
           acts == line.op \in {"define", "undef"} /\ line.name = name /\ a
<1>1. /\ n \in Nat /\ \A i \in 1 .. n : lt[i] = ls[i] /\ it[i] = inc[i]
      /\ lt[n + 1] = line /\ it[n + 1] = a
  BY DEF Recorded
<1> HIDE DEF n, lt, it
<1>2. n + 2 - 1 = n + 1 /\ n + 1 - 1 = n /\ 1 .. n + 1 = (1 .. n) \union {n + 1}
  BY <1>1
<1>3. D \in SUBSET (1 .. n)
  BY <1>2 DEF Definitions
<1>4. E = D \union (IF acts THEN {n + 1} ELSE {})
  BY <1>1, <1>2 DEF Definitions
<1> HIDE DEF D, E
<1>5. CASE acts
  <2>1. n + 1 \in E /\ E \in SUBSET Nat /\ \A y \in E : y <= n + 1
    <3>1. E = D \union {n + 1}
      BY <1>4, <1>5
    <3>2. \A y \in D : y \in Nat /\ y <= n + 1
      BY <1>1, <1>3
    <3>3. n + 1 \in Nat /\ n + 1 <= n + 1
      BY <1>1
    <3> QED BY <3>1, <3>2, <3>3
  <2>2. Latest(E) = n + 1
    BY <2>1, LatestIs
  <2>3. Of(lt, it)!MacroAt(name, n + 2) =
          IF line.op = "undef" THEN "undefined" ELSE line.arg
    BY <1>1, <2>1, <2>2, MacroIs DEF E
  <2> QED BY <1>5, <2>3 DEF lt, it, n
<1>6. CASE ~ acts
  <2>1. E = D
    BY <1>4, <1>6
  <2>2. D # {} => lt[Latest(D)] = ls[Latest(D)]
    BY <1>1, <1>3, LatestOf
  <2>3. Of(lt, it)!MacroAt(name, n + 2) = Of(ls, inc)!MacroAt(name, n + 1)
    BY <2>1, <2>2, MacroIs DEF D, E
  <2> QED BY <1>6, <2>3 DEF lt, it, n
<1> QED BY <1>5, <1>6

(* Conditions: those evaluated before stay as they were.                    *)
ConditionOf(line, kind) ==
  LET defined == line.name \in MacroNames /\ kind # "undefined"
  IN  CASE line.op = "else"   -> TRUE
        [] line.op = "ifdef"  -> defined
        [] line.op = "ifndef" -> line.name # NoName /\ ~defined
        [] OTHER              -> \/ line.arg = "one"
                                 \/ line.arg = "defined" /\ defined
                                 \/ line.arg = "value" /\ kind = "other"

(* A condition looks at one macro.                                         *)
LEMMA HoldsIs ==
  ASSUME NEW ls, NEW inc, NEW k
  PROVE  Of(ls, inc)!Holds(k) = ConditionOf(ls[k], Of(ls, inc)!MacroAt(ls[k].name, k))
BY DEF Of!Holds, ConditionOf

(* Conditions read earlier stay as they were.                              *)
LEMMA HoldsPrefix ==
  ASSUME NEW ls, NEW inc, Recorded(ls, inc), NEW line \in Line, NEW a \in BOOLEAN,
         NEW k \in 1 .. Len(ls)
  PROVE  Of(Append(ls, line), Append(inc, a))!Holds(k) = Of(ls, inc)!Holds(k)
<1> DEFINE lt == Append(ls, line)
           it == Append(inc, a)
<1>1. lt[k] = ls[k] /\ k \in 1 .. Len(ls) + 1
  BY RecordedNext
<1>2. Of(lt, it)!MacroAt(ls[k].name, k) = Of(ls, inc)!MacroAt(ls[k].name, k)
  BY <1>1, MacroPrefix
<1> HIDE DEF lt, it
<1>3. Of(lt, it)!Holds(k) = Of(ls, inc)!Holds(k)
  BY <1>1, <1>2, HoldsIs
<1> QED BY <1>3 DEF lt, it

(* The condition of the line being read.                                   *)
LEMMA HoldsNext ==
  ASSUME NEW ls, NEW inc, Recorded(ls, inc), NEW line \in Line, NEW a \in BOOLEAN
  PROVE  Of(Append(ls, line), Append(inc, a))!Holds(Len(ls) + 1)
           = ConditionOf(line, Of(ls, inc)!MacroAt(line.name, Len(ls) + 1))
<1> DEFINE lt == Append(ls, line)
           it == Append(inc, a)
           n == Len(ls)
<1>1. lt[n + 1] = line /\ n + 1 \in 1 .. n + 1
  BY RecordedNext
<1>2. Of(lt, it)!MacroAt(line.name, n + 1) = Of(ls, inc)!MacroAt(line.name, n + 1)
  BY <1>1, MacroPrefix
<1> HIDE DEF lt, it, n
<1>3. Of(lt, it)!Holds(n + 1) = ConditionOf(line, Of(ls, inc)!MacroAt(line.name, n + 1))
  BY <1>1, <1>2, HoldsIs
<1> QED BY <1>3 DEF lt, it, n

\* The positions where the branches of a group begin.
Branches(ls, inc, i, j) == Of(ls, inc)!BranchesOf(i, j)

\* The line begins a branch of this group.
Continues(ls, inc, i, k) ==
  /\ ls[k].op \in {"elif", "else"}
  /\ Groups(ls, inc, k - 1) # {}
  /\ Latest(Groups(ls, inc, k - 1)) = i

(* The branches of a group are the lines that continue it.                 *)
LEMMA BranchesIs ==
  ASSUME NEW ls, NEW inc, NEW i, NEW j
  PROVE  Branches(ls, inc, i, j) = {i} \union {k \in i + 1 .. j : Continues(ls, inc, i, k)}
<1>1. \A k : Of(ls, inc)!InnermostBehind(k) = Latest(Groups(ls, inc, k))
  BY DEF Of!InnermostBehind, Groups, Latest
<1>2. \A k : Of(ls, inc)!GroupsBehind(k) = Groups(ls, inc, k)
  BY DEF Groups
<1>3. Of(ls, inc)!Branch = {"elif", "else"}
  BY DEF Of!Branch
<1> QED BY <1>1, <1>2, <1>3 DEF Of!BranchesOf, Branches, Continues

(* The branches of a group when one more line has been read.                *)
LEMMA BranchesNext ==
  ASSUME NEW ls, NEW inc, Recorded(ls, inc), NEW line \in Line, NEW a \in BOOLEAN,
         NEW i \in 1 .. Len(ls)
  PROVE  Branches(Append(ls, line), Append(inc, a), i, Len(ls) + 1)
           = Branches(ls, inc, i, Len(ls)) \union
               (IF /\ line.op \in {"elif", "else"}
                   /\ Groups(ls, inc, Len(ls)) # {}
                   /\ Latest(Groups(ls, inc, Len(ls))) = i
                THEN {Len(ls) + 1} ELSE {})
<1> DEFINE n == Len(ls)
           lt == Append(ls, line)
           it == Append(inc, a)
           continued == /\ line.op \in {"elif", "else"}
                        /\ Groups(ls, inc, n) # {}
                        /\ Latest(Groups(ls, inc, n)) = i
<1>1. /\ n \in Nat /\ i \in Nat /\ i <= n /\ \A k \in 1 .. n : lt[k] = ls[k]
      /\ lt[n + 1] = line
  BY DEF Recorded
<1>2. \A k \in Nat : k <= n => Groups(lt, it, k) = Groups(ls, inc, k)
  BY GroupsPrefix DEF Recorded
<1> HIDE DEF n, lt, it
<1>3. \A k \in i + 1 .. n : Continues(lt, it, i, k) <=> Continues(ls, inc, i, k)
  <2> TAKE k \in i + 1 .. n
  <2>1. k \in 1 .. n /\ k - 1 \in Nat /\ k - 1 <= n
    BY <1>1
  <2>2. lt[k] = ls[k] /\ Groups(lt, it, k - 1) = Groups(ls, inc, k - 1)
    BY <1>1, <1>2, <2>1
  <2> QED BY <2>2 DEF Continues
<1>4. Continues(lt, it, i, n + 1) <=> continued
  <2>1. n + 1 - 1 = n /\ n \in Nat /\ n <= n
    BY <1>1
  <2>2. Groups(lt, it, n) = Groups(ls, inc, n)
    BY <1>2, <2>1
  <2> QED BY <1>1, <2>1, <2>2 DEF Continues
<1>5. i + 1 .. n + 1 = (i + 1 .. n) \union {n + 1}
  BY <1>1
<1> HIDE DEF continued
<1>6. {k \in i + 1 .. n + 1 : Continues(lt, it, i, k)}
        = {k \in i + 1 .. n : Continues(ls, inc, i, k)} \union (IF continued THEN {n + 1} ELSE {})
  BY <1>3, <1>4, <1>5
<1>7. Branches(lt, it, i, n + 1) = Branches(ls, inc, i, n) \union (IF continued THEN {n + 1} ELSE {})
  BY <1>6, BranchesIs
<1> QED BY <1>7 DEF n, lt, it, continued

(* They are lines read so far, the opening among them.                     *)
LEMMA BranchesBound ==
  ASSUME NEW ls, NEW inc, NEW n \in Nat, NEW i \in 1 .. n
  PROVE  /\ Branches(ls, inc, i, n) \in SUBSET (1 .. n)
         /\ i \in Branches(ls, inc, i, n)
BY BranchesIs

(* A group begins with one branch.                                         *)
LEMMA BranchesOfNew ==
  ASSUME NEW ls, NEW inc, NEW j \in Nat
  PROVE  Branches(ls, inc, j, j) = {j}
<1>1. j + 1 .. j = {}
  OBVIOUS
<1> QED BY <1>1, BranchesIs

-----------------------------------------------------------------------------
(* What the frame of a group remembers of its branches.                     *)
Taken(ls, inc, i, j) == \E b \in Branches(ls, inc, i, j) : Of(ls, inc)!Holds(b)

\* The group is in its chosen branch.
Chosen(ls, inc, i, j) == Of(ls, inc)!InChosenBranch(i, j)

(* The chosen branch, by the last one and those before it.                 *)
LEMMA ChosenIs ==
  ASSUME NEW ls, NEW inc, NEW i, NEW j
  PROVE  Chosen(ls, inc, i, j) <=>
           /\ Of(ls, inc)!Holds(Latest(Branches(ls, inc, i, j)))
           /\ \A b \in Branches(ls, inc, i, j) \ {Latest(Branches(ls, inc, i, j))} :
                ~ Of(ls, inc)!Holds(b)
BY DEF Of!InChosenBranch, Chosen, Branches, Latest

(* A line that begins no branch of a group leaves it as it was.             *)
LEMMA OtherGroups ==
  ASSUME NEW ls, NEW inc, Recorded(ls, inc), NEW line \in Line, NEW a \in BOOLEAN,
         NEW i \in 1 .. Len(ls),
         ~ (/\ line.op \in {"elif", "else"}
            /\ Groups(ls, inc, Len(ls)) # {}
            /\ Latest(Groups(ls, inc, Len(ls))) = i)
  PROVE  /\ Taken(Append(ls, line), Append(inc, a), i, Len(ls) + 1) <=> Taken(ls, inc, i, Len(ls))
         /\ Chosen(Append(ls, line), Append(inc, a), i, Len(ls) + 1) <=> Chosen(ls, inc, i, Len(ls))
<1> DEFINE n == Len(ls)
           lt == Append(ls, line)
           it == Append(inc, a)
           B == Branches(ls, inc, i, n)
<1> DEFINE continued == /\ line.op \in {"elif", "else"}
                        /\ Groups(ls, inc, Len(ls)) # {}
                        /\ Latest(Groups(ls, inc, Len(ls))) = i
<1>0. Branches(lt, it, i, n + 1) = B \union (IF continued THEN {n + 1} ELSE {})
  BY BranchesNext
<1>1. Branches(lt, it, i, n + 1) = B
  <2>1. ~ continued
    OBVIOUS
  <2> HIDE DEF continued, lt, it, B, n
  <2> QED BY <1>0, <2>1
<1>2. n \in Nat
  BY DEF Recorded
<1>3. B \in SUBSET (1 .. n) /\ i \in B
  BY <1>2, BranchesBound
<1>4. \A k \in 1 .. n : Of(lt, it)!Holds(k) <=> Of(ls, inc)!Holds(k)
  BY HoldsPrefix
<1> HIDE DEF n, lt, it, B
<1>5. Latest(B) \in B
  BY <1>2, <1>3, LatestOf
<1>6. \A k \in B : Of(lt, it)!Holds(k) <=> Of(ls, inc)!Holds(k)
  BY <1>3, <1>4
<1>7. Taken(lt, it, i, n + 1) <=> Taken(ls, inc, i, n)
  BY <1>1, <1>6 DEF Taken, B
<1>8. Chosen(lt, it, i, n + 1) <=> Chosen(ls, inc, i, n)
  BY <1>1, <1>5, <1>6, ChosenIs DEF B
<1> QED BY <1>7, <1>8 DEF lt, it, n

(* A line that begins a branch of the innermost group.                      *)
LEMMA InnermostGroup ==
  ASSUME NEW ls, NEW inc, Recorded(ls, inc), NEW line \in Line, NEW a \in BOOLEAN,
         NEW i \in 1 .. Len(ls),
         line.op \in {"elif", "else"},
         Groups(ls, inc, Len(ls)) # {},
         Latest(Groups(ls, inc, Len(ls))) = i,
         NEW holds, holds <=> ConditionOf(line, Of(ls, inc)!MacroAt(line.name, Len(ls) + 1))
  PROVE  /\ Taken(Append(ls, line), Append(inc, a), i, Len(ls) + 1)
              <=> Taken(ls, inc, i, Len(ls)) \/ holds
         /\ Chosen(Append(ls, line), Append(inc, a), i, Len(ls) + 1)
              <=> ~ Taken(ls, inc, i, Len(ls)) /\ holds
<1> DEFINE n == Len(ls)
           lt == Append(ls, line)
           it == Append(inc, a)
           B == Branches(ls, inc, i, n)
           C == Branches(lt, it, i, n + 1)
<1>1. C = B \union {n + 1}
  BY BranchesNext
<1>2. n \in Nat
  BY DEF Recorded
<1>3. B \in SUBSET (1 .. n)
  BY <1>2, BranchesBound
<1>4. \A k \in 1 .. n : Of(lt, it)!Holds(k) <=> Of(ls, inc)!Holds(k)
  BY HoldsPrefix
<1>5. Of(lt, it)!Holds(n + 1) <=> holds
  BY HoldsNext
<1> HIDE DEF n, lt, it, B, C
<1>6. Latest(C) = n + 1 /\ n + 1 \notin B
  <2>1. \A y \in B : y \in Nat /\ y <= n
    BY <1>2, <1>3
  <2>2. n + 1 \in C /\ C \in SUBSET Nat /\ \A y \in C : y <= n + 1
    BY <1>1, <1>2, <2>1
  <2>3. n + 1 \notin B
    BY <1>2, <2>1
  <2> QED BY <2>2, <2>3, LatestIs
<1>7. \A k \in B : Of(lt, it)!Holds(k) <=> Of(ls, inc)!Holds(k)
  BY <1>3, <1>4
<1>8. Taken(lt, it, i, n + 1) <=> Taken(ls, inc, i, n) \/ holds
  BY <1>1, <1>5, <1>7 DEF Taken, B, C
<1>9. C \ {Latest(C)} = B
  BY <1>1, <1>6
<1>10. Chosen(lt, it, i, n + 1) <=> ~ Taken(ls, inc, i, n) /\ holds
  <2>1. Chosen(lt, it, i, n + 1) <=>
          Of(lt, it)!Holds(n + 1) /\ \A b \in B : ~ Of(lt, it)!Holds(b)
    BY <1>6, <1>9, ChosenIs DEF C
  <2> QED BY <1>5, <1>7, <2>1 DEF Taken, B
<1> QED BY <1>8, <1>10 DEF lt, it, n

(* A line that opens a group.                                               *)
LEMMA NewGroup ==
  ASSUME NEW ls, NEW inc, Recorded(ls, inc), NEW line \in Line, NEW a \in BOOLEAN,
         NEW holds, holds <=> ConditionOf(line, Of(ls, inc)!MacroAt(line.name, Len(ls) + 1))
  PROVE  /\ Taken(Append(ls, line), Append(inc, a), Len(ls) + 1, Len(ls) + 1) <=> holds
         /\ Chosen(Append(ls, line), Append(inc, a), Len(ls) + 1, Len(ls) + 1) <=> holds
<1> DEFINE n == Len(ls)
           lt == Append(ls, line)
           it == Append(inc, a)
<1>1. Of(lt, it)!Holds(n + 1) <=> holds
  BY HoldsNext
<1>2. n + 1 \in Nat
  BY DEF Recorded
<1> HIDE DEF n, lt, it
<1>3. Branches(lt, it, n + 1, n + 1) = {n + 1}
  BY <1>2, BranchesOfNew
<1>4. Latest({n + 1}) = n + 1
  <2>1. {n + 1} \in SUBSET Nat /\ n + 1 \in {n + 1} /\ \A y \in {n + 1} : y <= n + 1
    BY <1>2
  <2> QED BY <2>1, LatestIs
<1>5. Taken(lt, it, n + 1, n + 1) <=> holds
  BY <1>1, <1>3 DEF Taken
<1>6. Chosen(lt, it, n + 1, n + 1) <=> holds
  BY <1>1, <1>3, <1>4, ChosenIs
<1> QED BY <1>5, <1>6 DEF lt, it, n

(* The frames stand for the open groups, outermost first.                   *)
Mirrors(frames, ls, inc, g) ==
  /\ Stacked(ls, inc, g)
  /\ Len(g) = Len(frames)
  /\ \A p \in 1 .. Len(g) :
       /\ frames[p].taken <=> Taken(ls, inc, g[p], Len(ls))
       /\ frames[p].current <=> frames[p].parent /\ Chosen(ls, inc, g[p], Len(ls))

\* The frames stand for some list of groups: the open ones.
Follows(frames, ls, inc) == \E g : Mirrors(frames, ls, inc, g)

(* #if, #ifdef, #ifndef: a frame more.                                      *)
LEMMA FollowsOpened ==
  ASSUME NEW ls, NEW inc, Recorded(ls, inc), NEW line \in Line, NEW a \in BOOLEAN,
         NEW frames \in Seq(Frame), Follows(frames, ls, inc),
         line.op \in OpeningOps,
         NEW f \in Frame,
         NEW holds, holds <=> ConditionOf(line, Of(ls, inc)!MacroAt(line.name, Len(ls) + 1)),
         f.taken <=> holds, f.current <=> f.parent /\ holds
  PROVE  Follows(Append(frames, f), Append(ls, line), Append(inc, a))
<1>1. PICK g : Mirrors(frames, ls, inc, g)
  BY DEF Follows
<1> DEFINE n == Len(ls)
           d == Len(g)
           lt == Append(ls, line)
           it == Append(inc, a)
           h == Append(g, n + 1)
           new == Append(frames, f)
<1>2. Stacked(lt, it, h)
  BY <1>1, StackedOpens DEF Mirrors
<1>3. /\ n \in Nat /\ d \in Nat /\ Len(lt) = n + 1 /\ Len(h) = d + 1 /\ h[d + 1] = n + 1
      /\ \A p \in 1 .. d : h[p] = g[p] /\ g[p] \in 1 .. n
      /\ d = Len(frames)
  BY <1>1 DEF Mirrors, Stacked
<1>4. Len(new) = d + 1 /\ new[d + 1] = f /\ \A p \in 1 .. d : new[p] = frames[p]
  BY <1>3
<1>5. /\ Taken(lt, it, n + 1, n + 1) <=> holds
      /\ Chosen(lt, it, n + 1, n + 1) <=> holds
  BY NewGroup
<1>6. \A i \in 1 .. n : /\ Taken(lt, it, i, n + 1) <=> Taken(ls, inc, i, n)
                        /\ Chosen(lt, it, i, n + 1) <=> Chosen(ls, inc, i, n)
  <2>1. line.op \notin {"elif", "else"}
    BY DEF OpeningOps
  <2> QED BY <2>1, OtherGroups
<1>7. \A p \in 1 .. d :
        /\ frames[p].taken <=> Taken(ls, inc, g[p], n)
        /\ frames[p].current <=> frames[p].parent /\ Chosen(ls, inc, g[p], n)
  BY <1>1 DEF Mirrors
<1> HIDE DEF n, d, lt, it, h, new
<1>8. ASSUME NEW p \in 1 .. Len(h)
      PROVE  /\ new[p].taken <=> Taken(lt, it, h[p], Len(lt))
             /\ new[p].current <=> new[p].parent /\ Chosen(lt, it, h[p], Len(lt))
  <2>1. CASE p = d + 1
    BY <1>3, <1>4, <1>5, <2>1
  <2>2. CASE p # d + 1
    <3>1. p \in 1 .. d
      BY <1>3, <2>2
    <3> QED BY <1>3, <1>4, <1>6, <1>7, <3>1
  <2> QED BY <2>1, <2>2
<1>9. Mirrors(new, lt, it, h)
  BY <1>2, <1>3, <1>4, <1>8 DEF Mirrors
<1> QED BY <1>9 DEF Follows, new, lt, it

(* #elif, #else: the innermost frame is rewritten.                          *)
LEMMA FollowsBranched ==
  ASSUME NEW ls, NEW inc, Recorded(ls, inc), NEW line \in Line, NEW a \in BOOLEAN,
         NEW frames \in Seq(Frame), Follows(frames, ls, inc), frames # <<>>,
         line.op \in {"elif", "else"},
         NEW f \in Frame,
         NEW holds, holds <=> ConditionOf(line, Of(ls, inc)!MacroAt(line.name, Len(ls) + 1)),
         f.taken <=> frames[Len(frames)].taken \/ holds,
         f.current <=> f.parent /\ ~ frames[Len(frames)].taken /\ holds
  PROVE  Follows([frames EXCEPT ![Len(frames)] = f], Append(ls, line), Append(inc, a))
<1>1. PICK g : Mirrors(frames, ls, inc, g)
  BY DEF Follows
<1> DEFINE n == Len(ls)
           d == Len(g)
           lt == Append(ls, line)
           it == Append(inc, a)
           new == [frames EXCEPT ![Len(frames)] = f]
<1>2. Stacked(lt, it, g)
  BY <1>1, StackedStays DEF Mirrors, OpeningOps
<1>3. /\ n \in Nat /\ d \in Nat /\ d # 0 /\ Len(lt) = n + 1 /\ g # <<>>
      /\ d = Len(frames) /\ Stacked(ls, inc, g)
  BY <1>1 DEF Mirrors, Stacked
<1>4. /\ \A p \in 1 .. d : g[p] \in 1 .. n
      /\ \A p, q \in 1 .. d : p < q => g[p] < g[q]
  BY <1>1 DEF Mirrors, Stacked
<1>5. Len(new) = d /\ new[d] = f /\ \A p \in 1 .. d : p # d => new[p] = frames[p]
  BY <1>3
<1>6. Groups(ls, inc, n) # {} /\ Latest(Groups(ls, inc, n)) = g[d]
  <2>1. Of(ls, inc)!GroupsBehind(n) # {}
    BY <1>3, StackedGroups
  <2>2. Of(ls, inc)!InnermostBehind(n) = g[d]
    BY <1>3, StackedInnermost
  <2> QED BY <2>1, <2>2 DEF Groups, Of!InnermostBehind, Latest
<1>7. d \in 1 .. d /\ g[d] \in 1 .. n
  BY <1>3, <1>4
<1>8. /\ Taken(lt, it, g[d], n + 1) <=> Taken(ls, inc, g[d], n) \/ holds
      /\ Chosen(lt, it, g[d], n + 1) <=> ~ Taken(ls, inc, g[d], n) /\ holds
  BY <1>6, <1>7, InnermostGroup
<1>9. \A p \in 1 .. d : p # d =>
        /\ Taken(lt, it, g[p], n + 1) <=> Taken(ls, inc, g[p], n)
        /\ Chosen(lt, it, g[p], n + 1) <=> Chosen(ls, inc, g[p], n)
  <2> SUFFICES ASSUME NEW p \in 1 .. d, p # d
               PROVE  /\ Taken(lt, it, g[p], n + 1) <=> Taken(ls, inc, g[p], n)
                      /\ Chosen(lt, it, g[p], n + 1) <=> Chosen(ls, inc, g[p], n)
    OBVIOUS
  <2>1. g[p] # g[d] /\ g[p] \in 1 .. n
    <3>1. p < d /\ d \in 1 .. d
      BY <1>3
    <3>2. g[p] < g[d] /\ g[p] \in 1 .. n /\ g[d] \in 1 .. n
      BY <1>4, <3>1
    <3> HIDE DEF n, d
    <3> QED BY <1>3, <3>2
  <2>2. Latest(Groups(ls, inc, n)) # g[p]
    BY <1>6, <2>1
  <2> QED BY <2>1, <2>2, OtherGroups
<1>10. \A p \in 1 .. d :
        /\ frames[p].taken <=> Taken(ls, inc, g[p], n)
        /\ frames[p].current <=> frames[p].parent /\ Chosen(ls, inc, g[p], n)
  BY <1>1 DEF Mirrors
<1> HIDE DEF n, d, lt, it, new
<1>11. ASSUME NEW p \in 1 .. d
      PROVE  /\ new[p].taken <=> Taken(lt, it, g[p], Len(lt))
             /\ new[p].current <=> new[p].parent /\ Chosen(lt, it, g[p], Len(lt))
  <2>1. CASE p = d
    BY <1>3, <1>5, <1>7, <1>8, <1>10, <2>1
  <2>2. CASE p # d
    BY <1>3, <1>5, <1>9, <1>10, <2>2
  <2> QED BY <2>1, <2>2
<1>12. Mirrors(new, lt, it, g)
  BY <1>2, <1>3, <1>5, <1>11 DEF Mirrors, d
<1> QED BY <1>12 DEF Follows, new, lt, it

(* #endif: the innermost frame goes.                                        *)
LEMMA FollowsClosed ==
  ASSUME NEW ls, NEW inc, Recorded(ls, inc), NEW line \in Line, NEW a \in BOOLEAN,
         NEW frames \in Seq(Frame), Follows(frames, ls, inc), frames # <<>>,
         line.op = "endif"
  PROVE  Follows(SubSeq(frames, 1, Len(frames) - 1), Append(ls, line), Append(inc, a))
<1>1. PICK g : Mirrors(frames, ls, inc, g)
  BY DEF Follows
<1> DEFINE n == Len(ls)
           d == Len(g)
           lt == Append(ls, line)
           it == Append(inc, a)
           h == SubSeq(g, 1, Len(g) - 1)
           new == SubSeq(frames, 1, Len(frames) - 1)
<1>3. /\ n \in Nat /\ d \in Nat /\ d # 0 /\ Len(lt) = n + 1 /\ g # <<>> /\ g \in Seq(Nat)
      /\ d = Len(frames) /\ Stacked(ls, inc, g)
  BY <1>1 DEF Mirrors, Stacked
<1>2. Stacked(lt, it, h)
  BY <1>3, StackedCloses
<1>4. \A p \in 1 .. d : g[p] \in 1 .. n
  BY <1>3 DEF Stacked
<1>5. Len(new) = d - 1 /\ \A p \in 1 .. d - 1 : new[p] = frames[p]
  BY <1>3, PopProperties
<1>6. Len(h) = d - 1 /\ \A p \in 1 .. d - 1 : h[p] = g[p]
  BY <1>3, PopProperties
<1>7. \A i \in 1 .. n : /\ Taken(lt, it, i, n + 1) <=> Taken(ls, inc, i, n)
                        /\ Chosen(lt, it, i, n + 1) <=> Chosen(ls, inc, i, n)
  BY OtherGroups
<1>8. \A p \in 1 .. d :
        /\ frames[p].taken <=> Taken(ls, inc, g[p], n)
        /\ frames[p].current <=> frames[p].parent /\ Chosen(ls, inc, g[p], n)
  BY <1>1 DEF Mirrors
<1> HIDE DEF n, d, lt, it, h, new
<1>9. ASSUME NEW p \in 1 .. Len(h)
      PROVE  /\ new[p].taken <=> Taken(lt, it, h[p], Len(lt))
             /\ new[p].current <=> new[p].parent /\ Chosen(lt, it, h[p], Len(lt))
  <2>1. p \in 1 .. d /\ p \in 1 .. d - 1
    BY <1>3, <1>6
  <2> QED BY <1>3, <1>4, <1>5, <1>6, <1>7, <1>8, <2>1
<1>10. Mirrors(new, lt, it, h)
  BY <1>2, <1>5, <1>6, <1>9 DEF Mirrors
<1> QED BY <1>10 DEF Follows, new, lt, it

(* Any other line, and an #elif, #else or #endif outside every group.       *)
LEMMA FollowsSame ==
  ASSUME NEW ls, NEW inc, Recorded(ls, inc), NEW line \in Line, NEW a \in BOOLEAN,
         NEW frames \in Seq(Frame), Follows(frames, ls, inc),
         line.op \notin OpeningOps,
         line.op \in {"elif", "else", "endif"} => frames = <<>>
  PROVE  Follows(frames, Append(ls, line), Append(inc, a))
<1>1. PICK g : Mirrors(frames, ls, inc, g)
  BY DEF Follows
<1> DEFINE n == Len(ls)
           d == Len(g)
           lt == Append(ls, line)
           it == Append(inc, a)
<1>3. /\ n \in Nat /\ d \in Nat /\ Len(lt) = n + 1 /\ g \in Seq(Nat)
      /\ d = Len(frames) /\ Stacked(ls, inc, g)
  BY <1>1 DEF Mirrors, Stacked
<1>2. Stacked(lt, it, g)
  <2>1. ASSUME line.op = "endif" PROVE g = <<>>
    <3>1. frames = <<>>
      BY <2>1
    <3>2. Len(g) = 0
      BY <1>1, <3>1 DEF Mirrors
    <3> QED BY <1>3, <3>2, EmptySeq
  <2> QED BY <1>3, <2>1, StackedStays
<1>4. \A p \in 1 .. d : g[p] \in 1 .. n
  BY <1>3 DEF Stacked
<1>5. ASSUME NEW p \in 1 .. d
      PROVE  /\ Taken(lt, it, g[p], n + 1) <=> Taken(ls, inc, g[p], n)
             /\ Chosen(lt, it, g[p], n + 1) <=> Chosen(ls, inc, g[p], n)
  <2>1. line.op \notin {"elif", "else"}
    BY <1>3
  <2>2. g[p] \in 1 .. n
    BY <1>4
  <2> QED BY <2>1, <2>2, OtherGroups
<1>6. \A p \in 1 .. d :
        /\ frames[p].taken <=> Taken(ls, inc, g[p], n)
        /\ frames[p].current <=> frames[p].parent /\ Chosen(ls, inc, g[p], n)
  BY <1>1 DEF Mirrors
<1> HIDE DEF n, d, lt, it
<1>7. Mirrors(frames, lt, it, g)
  BY <1>2, <1>3, <1>5, <1>6 DEF Mirrors, d, n
<1> QED BY <1>7 DEF Follows, lt, it

(* Consulting the innermost frame is asking every group around the line.    *)
LEMMA ActiveIsIncluded ==
  ASSUME NEW ls, NEW inc, Recorded(ls, inc), Follows(conditionals, ls, inc), FramesInv
  PROVE  Active <=> Of(ls, inc)!NextIsIncluded
<1>1. PICK g : Mirrors(conditionals, ls, inc, g)
  BY DEF Follows
<1> DEFINE n == Len(ls)
           d == Len(conditionals)
<1>2. /\ d \in Nat /\ Len(g) = d /\ conditionals \in Seq(Frame)
      /\ \A p \in 1 .. d : conditionals[p] \in Frame
      /\ conditionals = <<>> <=> d = 0
  BY <1>1 DEF Mirrors, FramesInv
<1>3. Of(ls, inc)!NextIsIncluded <=> \A p \in 1 .. d : Chosen(ls, inc, g[p], n)
  <2>1. Of(ls, inc)!GroupsBehind(n) = {g[p] : p \in 1 .. d}
    BY <1>1, <1>2, StackedGroups DEF Mirrors
  <2> QED BY <2>1 DEF Of!NextIsIncluded, Chosen
<1>4. \A p \in 1 .. d : conditionals[p].current <=> conditionals[p].parent /\ Chosen(ls, inc, g[p], n)
  BY <1>1, <1>2 DEF Mirrors
<1>5. CASE d = 0
  BY <1>2, <1>3, <1>5 DEF Active
<1>6. CASE d # 0
  <2>1. d \in 1 .. d /\ (Active <=> conditionals[d].current)
    BY <1>2, <1>6 DEF Active
  <2>2. ASSUME Active PROVE \A p \in 1 .. d : Chosen(ls, inc, g[p], n)
    <3>1. \A p \in 1 .. d : conditionals[p].current
      <4>1. \A p \in 1 .. d : p <= d
        BY <1>2
      <4> QED BY <2>1, <2>2, <4>1 DEF FramesInv, DownwardActive
    <3> QED BY <1>4, <3>1
  <2>3. ASSUME \A p \in 1 .. d : Chosen(ls, inc, g[p], n) PROVE Active
    <3> DEFINE Bad == {p \in 1 .. d : ~ conditionals[p].current}
    <3>1. ASSUME Bad # {} PROVE FALSE
      <4>1. PICK p \in Bad : \A q \in Bad : p <= q
        <5>1. Bad \in SUBSET Nat
          OBVIOUS
        <5> HIDE DEF Bad
        <5> QED BY <3>1, <5>1, LeastNumber
      <4>2. p \in 1 .. d /\ ~ conditionals[p].current
        OBVIOUS
      <4>3. ~ conditionals[p].parent
        BY <1>4, <2>3, <4>2
      <4>4. CASE p = 1
        BY <1>2, <1>6, <4>3, <4>4 DEF FramesInv, FrameChain
      <4>5. CASE p # 1
        <5>1. p \in 2 .. d /\ p - 1 \in 1 .. d /\ ~ (p <= p - 1)
          BY <1>2, <4>2, <4>5
        <5>2. conditionals[p].parent = conditionals[p - 1].current
          BY <5>1 DEF FramesInv, FrameChain
        <5>3. ~ conditionals[p - 1].current
          BY <4>3, <5>2
        <5>4. p - 1 \in Bad
          BY <5>1, <5>3
        <5> QED BY <4>1, <5>1, <5>4
      <4> QED BY <4>4, <4>5
    <3>2. d \notin Bad
      BY <3>1
    <3> QED BY <2>1, <3>2
  <2> QED BY <1>3, <2>2, <2>3
<1> QED BY <1>5, <1>6

\* The macro table holds the kinds the reference finds.
MacrosFollow(table, ls, inc) ==
  \A name \in MacroNames : table[name] = Of(ls, inc)!MacroAt(name, Len(ls) + 1)

\* What the history and the state say of each other.
HistoryInv ==
  /\ Recorded(consumed, activity)
  /\ Follows(conditionals, consumed, activity)
  /\ MacrosFollow(macros, consumed, activity)

(* A line is handled as its operation says, and looks at one macro.         *)
LEMMA CurrentForm ==
  ASSUME IInv, Reading, ~AtEnd
  PROVE  /\ Current \in Line
         /\ Current.op \in {"if", "elif"} /\ Current.arg \in {"defined", "value"}
              => Current.name \in MacroNames
<1>1. Top \in StackEntry /\ Current \in Line /\ Top.line \in 1 .. Len(program[Top.file])
  BY CurrentOK DEF IInv
<1>2. Top.file \in Files
  BY <1>1 DEF StackEntry
<1> QED BY <1>1, <1>2, ProgramAssumption DEF IInv, ProgramOK, Current

(* #if, #ifdef and #ifndef evaluate what the reference evaluates.          *)
LEMMA OpeningIs ==
  ASSUME NEW ls, NEW inc, MacrosFollow(macros, ls, inc), IInv, AtLine(OpeningOps)
  PROVE  OpeningCondition(Current)
           <=> ConditionOf(Current, Of(ls, inc)!MacroAt(Current.name, Len(ls) + 1))
<1> DEFINE kind == Of(ls, inc)!MacroAt(Current.name, Len(ls) + 1)
           line == Current
<1>1. line.op \in {"if", "ifdef", "ifndef"}
  BY DEF AtLine, OpeningOps
<1>2. line.name \in MacroNames => macros[line.name] = kind
  BY DEF MacrosFollow
<1>3. line.op = "if" /\ line.arg \in {"defined", "value"} => line.name \in MacroNames
  BY CurrentForm DEF AtLine
<1>4. NoName \notin MacroNames
  BY ProgramAssumption
<1> HIDE DEF kind, line
<1>5. OpeningCondition(line) <=> ConditionOf(line, kind)
  <2>1. CASE line.op = "ifdef"
    BY <1>2, <1>4, <2>1 DEF OpeningCondition, IsDefined, ConditionOf
  <2>2. CASE line.op = "ifndef"
    BY <1>2, <1>4, <2>2 DEF OpeningCondition, IsDefined, ConditionOf
  <2>3. CASE line.op = "if"
    BY <1>2, <1>3, <2>3 DEF OpeningCondition, SimpleIfCondition, IsDefined, ConditionOf
  <2> QED BY <1>1, <2>1, <2>2, <2>3
<1> QED BY <1>5 DEF line, kind

(* So do #elif and #else.                                                  *)
LEMMA BranchIs ==
  ASSUME NEW ls, NEW inc, MacrosFollow(macros, ls, inc), IInv, AtLine({"elif", "else"})
  PROVE  (Current.op = "else" \/ SimpleIfCondition(Current))
           <=> ConditionOf(Current, Of(ls, inc)!MacroAt(Current.name, Len(ls) + 1))
<1> DEFINE kind == Of(ls, inc)!MacroAt(Current.name, Len(ls) + 1)
           line == Current
<1>1. line.op \in {"elif", "else"}
  BY DEF AtLine
<1>2. line.name \in MacroNames => macros[line.name] = kind
  BY DEF MacrosFollow
<1>3. line.op = "elif" /\ line.arg \in {"defined", "value"} => line.name \in MacroNames
  BY CurrentForm DEF AtLine
<1> HIDE DEF kind, line
<1>4. (line.op = "else" \/ SimpleIfCondition(line)) <=> ConditionOf(line, kind)
  <2>1. CASE line.op = "else"
    BY <2>1 DEF ConditionOf
  <2>2. CASE line.op = "elif"
    BY <1>2, <1>3, <2>2 DEF SimpleIfCondition, IsDefined, ConditionOf
  <2> QED BY <1>1, <2>1, <2>2
<1> QED BY <1>4 DEF line, kind

(* The activity is a flag.                                                 *)
LEMMA ActiveIsBoolean ==
  ASSUME FramesInv
  PROVE  Active \in BOOLEAN
<1>1. conditionals \in Seq(Frame)
  BY DEF FramesInv
<1>2. ASSUME conditionals # <<>> PROVE conditionals[Len(conditionals)] \in Frame
  BY <1>1, <1>2
<1> QED BY <1>1, <1>2 DEF Active, Frame

(* The frames, after any line.                                              *)
LEMMA FramesFollow ==
  ASSUME IInv, FramesInv, NEW ls, NEW inc, Recorded(ls, inc),
         Follows(conditionals, ls, inc), MacrosFollow(macros, ls, inc), HandleLine,
         NEW a \in BOOLEAN
  PROVE  Follows(conditionals', Append(ls, Current), Append(inc, a))
<1>1. conditionals \in Seq(Frame) /\ Active \in BOOLEAN
  BY ActiveIsBoolean DEF FramesInv
<1>2. CASE OpenConditional
  <2> DEFINE holds == OpeningCondition(Current)
             f == NewFrame(OpeningCondition(Current))
  <2>1. AtLine(OpeningOps) /\ conditionals' = Append(conditionals, f)
    BY <1>2 DEF OpenConditional, Take, OpeningOps, AtLine
  <2>2. Current \in Line /\ Current.op \in OpeningOps
    BY <2>1, CurrentForm DEF AtLine
  <2>3. holds \in BOOLEAN
    BY DEF OpeningCondition
  <2>4. f = [parent |-> Active, current |-> Active /\ holds, taken |-> holds]
    BY DEF NewFrame
  <2>5. holds <=> ConditionOf(Current, Of(ls, inc)!MacroAt(Current.name, Len(ls) + 1))
    BY <2>1, OpeningIs
  <2> HIDE DEF holds, f
  <2>6. f \in Frame /\ (f.taken <=> holds) /\ (f.current <=> f.parent /\ holds)
    BY <1>1, <2>3, <2>4 DEF Frame
  <2>7. Follows(Append(conditionals, f), Append(ls, Current), Append(inc, a))
    BY <1>1, <2>2, <2>5, <2>6, FollowsOpened
  <2> QED BY <2>1, <2>7
<1>3. CASE NextBranch
  <2> DEFINE d == Len(conditionals)
             top == conditionals[d]
             holds == Current.op = "else" \/ SimpleIfCondition(Current)
             f == IF Current.op = "else" THEN ElseFrame(top)
                  ELSE ElifFrame(top, SimpleIfCondition(Current))
  <2>1. AtLine({"elif", "else"})
    BY <1>3 DEF NextBranch, Take
  <2>2. Current \in Line /\ Current.op \in {"elif", "else"}
    BY <2>1, CurrentForm DEF AtLine
  <2>3. CASE conditionals = <<>>
    <3>1. conditionals' = conditionals
      BY <1>3, <2>3 DEF NextBranch
    <3>2. Current.op \notin OpeningOps
      BY <2>2 DEF OpeningOps
    <3>3. Follows(conditionals, Append(ls, Current), Append(inc, a))
      BY <1>1, <2>2, <2>3, <3>2, FollowsSame
    <3> QED BY <3>1, <3>3
  <2>4. CASE conditionals # <<>>
    <3>1. conditionals' = [conditionals EXCEPT ![d] = f]
      BY <1>3, <2>4 DEF NextBranch
    <3>2. top \in Frame
      BY <1>1, <2>4
    <3>3. SimpleIfCondition(Current) \in BOOLEAN
      BY DEF SimpleIfCondition
    <3>4. holds <=> ConditionOf(Current, Of(ls, inc)!MacroAt(Current.name, Len(ls) + 1))
      BY <2>1, BranchIs
    <3>5. f \in Frame /\ (f.taken <=> top.taken \/ holds)
          /\ (f.current <=> f.parent /\ ~ top.taken /\ holds)
      <4> HIDE DEF d, top
      <4>1. CASE Current.op = "else"
        <5>1. f = [top EXCEPT !.current = top.parent /\ ~ top.taken, !.taken = TRUE]
          BY <4>1 DEF ElseFrame
        <5> HIDE DEF f
        <5> QED BY <3>2, <4>1, <5>1 DEF Frame
      <4>2. CASE Current.op # "else"
        <5> DEFINE c == SimpleIfCondition(Current)
        <5>1. f = [top EXCEPT !.current = top.parent /\ ~ top.taken /\ c, !.taken = top.taken \/ c]
          BY <4>2 DEF ElifFrame
        <5>2. holds <=> c
          BY <4>2
        <5> HIDE DEF f, holds, c
        <5> QED BY <3>2, <5>1, <5>2 DEF Frame
      <4> QED BY <4>1, <4>2
    <3> HIDE DEF f, holds
    <3>6. Follows([conditionals EXCEPT ![d] = f], Append(ls, Current), Append(inc, a))
      BY <1>1, <2>2, <2>4, <3>4, <3>5, FollowsBranched
    <3> QED BY <3>1, <3>6
  <2> QED BY <2>3, <2>4
<1>4. CASE CloseConditional
  <2>1. AtLine({"endif"})
    BY <1>4 DEF CloseConditional, Take
  <2>2. Current \in Line /\ Current.op = "endif" /\ Current.op \notin OpeningOps
    BY <2>1, CurrentForm DEF AtLine, OpeningOps
  <2>3. CASE conditionals = <<>>
    <3>1. conditionals' = conditionals
      BY <1>4, <2>3 DEF CloseConditional
    <3>2. Follows(conditionals, Append(ls, Current), Append(inc, a))
      BY <1>1, <2>2, <2>3, FollowsSame
    <3> QED BY <3>1, <3>2
  <2>4. CASE conditionals # <<>>
    <3>1. conditionals' = SubSeq(conditionals, 1, Len(conditionals) - 1)
      BY <1>4, <2>4 DEF CloseConditional
    <3>2. Follows(SubSeq(conditionals, 1, Len(conditionals) - 1), Append(ls, Current), Append(inc, a))
      BY <1>1, <2>2, <2>4, FollowsClosed
    <3> QED BY <3>1, <3>2
  <2> QED BY <2>3, <2>4
<1>5. CASE TextLine \/ NullDirective \/ Define \/ Pragma \/ Include \/ UnknownDirective
  <2>1. /\ conditionals' = conditionals
        /\ AtLine({"text", "null", "define", "undef", "pragma", "include", "unknown"})
    BY <1>5 DEF TextLine, NullDirective, Define, Pragma, Include, UnknownDirective, Take, AtLine,
                tables
  <2>2. /\ Current \in Line /\ Current.op \notin OpeningOps
        /\ Current.op \notin {"elif", "else", "endif"}
    BY <2>1, CurrentForm DEF AtLine, OpeningOps
  <2>3. Follows(conditionals, Append(ls, Current), Append(inc, a))
    BY <1>1, <2>2, FollowsSame
  <2> QED BY <2>1, <2>3
<1> QED BY <1>2, <1>3, <1>4, <1>5 DEF HandleLine

(* The macro table, after any line.                                         *)
LEMMA TableFollows ==
  ASSUME IInv, FramesInv, NEW ls, NEW inc, Recorded(ls, inc), MacrosFollow(macros, ls, inc),
         HandleLine
  PROVE  MacrosFollow(macros', Append(ls, Current), Append(inc, Active))
<1> DEFINE lt == Append(ls, Current)
           it == Append(inc, Active)
<1>1. Current \in Line /\ NoName \notin MacroNames
  <2>1. Reading /\ ~AtEnd
    BY DEF HandleLine, TextLine, NullDirective, Define, OpenConditional, NextBranch,
           CloseConditional, Pragma, Include, UnknownDirective, Take, AtLine
  <2> QED BY <2>1, CurrentForm, ProgramAssumption
<1>2. Len(lt) + 1 = Len(ls) + 2
  BY DEF Recorded
<1>0. Active \in BOOLEAN
  BY ActiveIsBoolean
<1> SUFFICES ASSUME NEW name \in MacroNames
             PROVE  macros'[name] = Of(lt, it)!MacroAt(name, Len(ls) + 2)
  BY <1>2 DEF MacrosFollow
<1>3. Of(lt, it)!MacroAt(name, Len(ls) + 2) =
        IF Current.op \in {"define", "undef"} /\ Current.name = name /\ Active
        THEN IF Current.op = "undef" THEN "undefined" ELSE Current.arg
        ELSE macros[name]
  <2>1. macros[name] = Of(ls, inc)!MacroAt(name, Len(ls) + 1)
    BY DEF MacrosFollow
  <2> QED BY <1>0, <1>1, <2>1, MacroNext
<1> HIDE DEF lt, it
<1>4. CASE Define
  <2>1. /\ Current.op \in {"define", "undef"}
        /\ macros' = IF Active /\ Current.name # NoName
                     THEN [macros EXCEPT ![Current.name] =
                             IF Current.op = "define" THEN Current.arg ELSE "undefined"]
                     ELSE macros
    BY <1>4 DEF Define, Take, AtLine
  <2>2. macros \in [MacroNames -> {"undefined", "zero", "other"}]
    BY DEF IInv, TablesOK
  <2> QED BY <1>1, <1>3, <2>1, <2>2
<1>5. CASE TextLine \/ NullDirective \/ OpenConditional \/ NextBranch \/ CloseConditional
           \/ Pragma \/ Include \/ UnknownDirective
  <2>1. macros' = macros /\ Current.op \notin {"define", "undef"}
    BY <1>5 DEF TextLine, NullDirective, OpenConditional, NextBranch, CloseConditional, Pragma,
                Include, UnknownDirective, Take, AtLine, tables
  <2> QED BY <1>3, <2>1
<1> QED BY <1>4, <1>5 DEF HandleLine

(* A handled line is a line, and the history grows by it.                   *)
LEMMA HandledLine ==
  ASSUME IInv, HandleLine
  PROVE  Current \in Line /\ Reading /\ phase' = phase
<1>1. Reading /\ ~AtEnd /\ phase' = phase
  BY DEF HandleLine, TextLine, NullDirective, Define, OpenConditional, NextBranch,
         CloseConditional, Pragma, Include, UnknownDirective, Take, AtLine
<1> QED BY <1>1, CurrentForm

(* The frames and the macro table follow the history.                      *)
LEMMA HistoryStep ==
  ASSUME IInv, FramesInv, HistoryInv, [TraceNext]_<<vars, history>>
  PROVE  HistoryInv'
<1>1. CASE HandleLine /\ consumed' = Append(consumed, Current) /\ activity' = Append(activity, Active)
  <2>1. Current \in Line /\ Active \in BOOLEAN
    BY <1>1, HandledLine, ActiveIsBoolean
  <2>2. Recorded(consumed, activity)'
    BY <1>1, <2>1, RecordedNext DEF HistoryInv
  <2>3. Follows(conditionals, consumed, activity)'
    BY <1>1, <2>1, FramesFollow DEF HistoryInv
  <2>4. MacrosFollow(macros, consumed, activity)'
    BY <1>1, TableFollows DEF HistoryInv
  <2> QED BY <2>2, <2>3, <2>4 DEF HistoryInv
<1>2. CASE UNCHANGED <<consumed, activity, conditionals, macros>>
  <2>1. Recorded(consumed, activity)'
    BY <1>2 DEF HistoryInv
  <2>2. Follows(conditionals, consumed, activity)'
    BY <1>2 DEF HistoryInv
  <2>3. MacrosFollow(macros, consumed, activity)'
    BY <1>2 DEF HistoryInv
  <2> QED BY <2>1, <2>2, <2>3 DEF HistoryInv
<1>3. CASE (Start \/ Return \/ Finish) /\ UNCHANGED history
  BY <1>2, <1>3 DEF Start, Return, Finish, tables, history
<1>4. CASE UNCHANGED <<vars, history>>
  BY <1>2, <1>4 DEF vars, history
<1> QED BY <1>1, <1>3, <1>4 DEF TraceNext

(* They do so from the start.                                              *)
LEMMA HistoryStart ==
  ASSUME TraceInit
  PROVE  HistoryInv
<1>1. consumed = <<>> /\ activity = <<>> /\ conditionals = <<>>
      /\ macros = [name \in MacroNames |-> "undefined"]
  BY DEF TraceInit, Init
<1>2. Recorded(consumed, activity)
  BY <1>1, EmptySeq DEF Recorded
<1>3. Mirrors(conditionals, consumed, activity, <<>>)
  <2>1. Len(consumed) = 0 /\ Len(conditionals) = 0 /\ Len(<<>>) = 0
    BY <1>1
  <2>2. consumed \in Seq(Line) /\ <<>> \in Seq(Nat)
    BY <1>1, EmptySeq
  <2>3. 1 .. 0 = {}
    OBVIOUS
  <2>4. Stacked(consumed, activity, <<>>)
    BY <2>1, <2>2, <2>3 DEF Stacked
  <2> QED BY <2>1, <2>3, <2>4 DEF Mirrors
<1>4. MacrosFollow(macros, consumed, activity)
  <2> SUFFICES ASSUME NEW name \in MacroNames
               PROVE  Of(consumed, activity)!MacroAt(name, Len(consumed) + 1) = "undefined"
    BY <1>1 DEF MacrosFollow
  <2>1. Len(consumed) + 1 - 1 = 0 /\ 1 .. 0 = {}
    BY <1>1
  <2>2. Definitions(consumed, activity, name, Len(consumed) + 1) = {}
    BY <2>1 DEF Definitions
  <2> QED BY <2>2, MacroIs
<1> QED BY <1>2, <1>3, <1>4 DEF HistoryInv, Follows

(* The trace is a run of the preprocessor.                                  *)
LEMMA TraceRefines == TraceSpec => Spec
<1>1. TraceInit => Init
  BY DEF TraceInit
<1>2. [TraceNext]_<<vars, history>> => [Next]_vars
  BY DEF TraceNext, Next, vars
<1> QED BY <1>1, <1>2, PTL DEF TraceSpec, Spec

(* What the proofs below use of a reachable state.                         *)
LEMMA TraceInvariant == TraceSpec => [](IInv /\ FramesInv /\ HistoryInv)
<1>1. Spec => []IInv
  BY InitIInv, NextIInv, PTL DEF Spec
<1>2. TraceInit => HistoryInv
  BY HistoryStart
<1>3. IInv /\ FramesInv /\ HistoryInv /\ [TraceNext]_<<vars, history>> => HistoryInv'
  BY HistoryStep
<1> QED BY <1>1, <1>2, <1>3, TraceRefines, FramesInvariant, PTL DEF TraceSpec

(* The reference, read off the history.                                     *)
LEMMA ReferenceIs ==
  /\ Reference!NextIsIncluded <=> Of(consumed, activity)!NextIsIncluded
  /\ Reference!NextIsIncluded <=>
       \A i \in Reference!GroupsBehind(Len(consumed)) :
         Reference!InChosenBranch(i, Len(consumed))
<1>1. \A S : Reference!Cardinality(S) = Cardinality(S)
  BY DEF Reference!Cardinality, Cardinality
<1>2. \A S : Of(consumed, activity)!Cardinality(S) = Cardinality(S)
  BY DEF Of!Cardinality, Cardinality
<1>3. \A ops, from, to :
        Reference!Count(ops, from, to) = Of(consumed, activity)!Count(ops, from, to)
  BY <1>1, <1>2 DEF Reference!Count, Of!Count
<1>4. \A i, j : Reference!OpenBehind(i, j) <=> Of(consumed, activity)!OpenBehind(i, j)
  BY <1>3 DEF Reference!OpenBehind, Of!OpenBehind, Reference!Opening, Of!Opening
<1>5. \A j : Reference!GroupsBehind(j) = Of(consumed, activity)!GroupsBehind(j)
  BY <1>4 DEF Reference!GroupsBehind, Of!GroupsBehind
<1>6. \A j : Reference!InnermostBehind(j) = Of(consumed, activity)!InnermostBehind(j)
  BY <1>5 DEF Reference!InnermostBehind, Of!InnermostBehind
<1>7. \A i, j : Reference!BranchesOf(i, j) = Of(consumed, activity)!BranchesOf(i, j)
  BY <1>5, <1>6 DEF Reference!BranchesOf, Of!BranchesOf, Reference!Branch, Of!Branch
<1>8. \A name, k : Reference!MacroAt(name, k) = Of(consumed, activity)!MacroAt(name, k)
  BY DEF Reference!MacroAt, Of!MacroAt, Reference!DefinitionsBefore, Of!DefinitionsBefore
<1>9. \A k : Reference!Holds(k) = Of(consumed, activity)!Holds(k)
  BY <1>8 DEF Reference!Holds, Of!Holds
<1>10. \A i, j : Reference!InChosenBranch(i, j) <=> Of(consumed, activity)!InChosenBranch(i, j)
  BY <1>7, <1>9 DEF Reference!InChosenBranch, Of!InChosenBranch
<1>11. Reference!NextIsIncluded <=>
         \A i \in Reference!GroupsBehind(Len(consumed)) :
           Reference!InChosenBranch(i, Len(consumed))
  BY DEF Reference!NextIsIncluded
<1>12. Of(consumed, activity)!NextIsIncluded <=>
         \A i \in Of(consumed, activity)!GroupsBehind(Len(consumed)) :
           Of(consumed, activity)!InChosenBranch(i, Len(consumed))
  BY DEF Of!NextIsIncluded
<1> QED BY <1>5, <1>10, <1>11, <1>12

(* The code and the reference agree about the next line.                   *)
LEMMA IncludedIsActive ==
  ASSUME FramesInv, HistoryInv
  PROVE  Active <=> Reference!NextIsIncluded
BY ActiveIsIncluded, ReferenceIs DEF HistoryInv

(* A step either reads the line the code handled, or reads nothing.         *)
LEMMA ReferenceStep ==
  ASSUME IInv, FramesInv, HistoryInv, [TraceNext]_<<vars, history>>
  PROVE  [Reference!Next]_<<consumed, activity, emitted>>
<1>1. CASE /\ HandleLine
           /\ consumed' = Append(consumed, Current)
           /\ activity' = Append(activity, Active)
           /\ emitted' = IF Len(output') > Len(output)
                         THEN Append(emitted, Len(consumed) + 1) ELSE emitted
  <2>1. Current \in Line
    BY <1>1, HandledLine
  <2>2. Active = Reference!NextIsIncluded
    <3>1. Active \in BOOLEAN
      BY ActiveIsBoolean
    <3>2. Reference!NextIsIncluded \in BOOLEAN
      BY DEF Reference!NextIsIncluded
    <3> QED BY <3>1, <3>2, IncludedIsActive
  <2>3. Len(output') > Len(output) <=> Current.op = "text" /\ Active
    <3>1. output \in Seq(OutputEntry)
      BY DEF IInv, TablesOK
    <3>2. CASE TextLine
      <4>1. Current.op = "text"
        BY <3>2 DEF TextLine, Take, AtLine
      <4>2. CASE Active
        <5>1. PICK entry : output' = Append(output, entry)
          BY <3>2, <4>2 DEF TextLine
        <5>2. Len(output') = Len(output) + 1 /\ Len(output) \in Nat
          BY <3>1, <5>1
        <5> QED BY <4>1, <4>2, <5>2
      <4>3. CASE ~Active
        <5>1. output' = output
          BY <3>2, <4>3 DEF TextLine
        <5> QED BY <3>1, <4>3, <5>1
      <4> QED BY <4>2, <4>3
    <3>3. CASE NullDirective \/ Define \/ OpenConditional \/ NextBranch \/ CloseConditional
               \/ Pragma \/ Include \/ UnknownDirective
      <4>1. output' = output /\ Current.op # "text"
        BY <3>3 DEF NullDirective, Define, OpenConditional, NextBranch, CloseConditional, Pragma,
                    Include, UnknownDirective, Take, AtLine, tables
      <4> QED BY <3>1, <4>1
    <3> QED BY <1>1, <3>2, <3>3 DEF HandleLine
  <2>4. Reference!Read(Current)
    BY <1>1, <2>2, <2>3 DEF Reference!Read
  <2> QED BY <2>1, <2>4 DEF Reference!Next
<1>2. CASE UNCHANGED history
  BY <1>2 DEF history
<1> QED BY <1>1, <1>2 DEF TraceNext

(* The frames consulted at their top, shared by all files, include exactly  *)
(* the lines that lie in the chosen branch of every group open around them, *)
(* found by counting over all the lines read: cc_current_block_active and   *)
(* the handlers of cc_process_directive.                                    *)
THEOREM IncludesWhatCDoes == TraceSpec => ImplementsConditionalInclusion
<1>1. TraceInit => Reference!Init
  BY DEF TraceInit, Reference!Init
<1>2. IInv /\ FramesInv /\ HistoryInv /\ [TraceNext]_<<vars, history>>
        => [Reference!Next]_<<consumed, activity, emitted>>
  BY ReferenceStep
<1> QED BY <1>1, <1>2, TraceInvariant, PTL DEF TraceSpec, ImplementsConditionalInclusion, Reference!Spec

(* A group open behind a line was open behind every line before it that     *)
(* comes behind its opening.                                                *)
LEMMA OpenBefore ==
  ASSUME NEW ls, NEW inc, NEW k \in Nat, NEW i \in Groups(ls, inc, k), NEW j \in Nat, i <= j, j <= k
  PROVE  i \in Groups(ls, inc, j)
<1>1. i \in 1 .. k /\ Of(ls, inc)!OpenBehind(i, k)
  BY DEF Groups, Of!GroupsBehind
<1>2. \A m \in i + 1 .. j : m \in i + 1 .. k
  BY <1>1
<1>3. i \in Nat /\ i \in 1 .. j
  BY <1>1
<1>4. Of(ls, inc)!OpenBehind(i, j)
  BY <1>1, <1>2, <1>3, OpenIs
<1> QED BY <1>3, <1>4 DEF Groups, Of!GroupsBehind

(* What is read behind a position changes neither the branches of a group   *)
(* before it nor the choice among them.                                     *)
LEMMA ChosenPrefix ==
  ASSUME NEW ls, NEW inc, Recorded(ls, inc), NEW line \in Line, NEW a \in BOOLEAN,
         NEW j \in Nat, j <= Len(ls), NEW i \in 1 .. j
  PROVE  Chosen(Append(ls, line), Append(inc, a), i, j) <=> Chosen(ls, inc, i, j)
<1> DEFINE lt == Append(ls, line)
           it == Append(inc, a)
           B == Branches(ls, inc, i, j)
<1>1. \A k \in 1 .. Len(ls) : lt[k] = ls[k]
  BY DEF Recorded
<1>2. \A k \in Nat : k <= Len(ls) => Groups(lt, it, k) = Groups(ls, inc, k)
  BY GroupsPrefix DEF Recorded
<1>3. Len(ls) \in Nat
  BY DEF Recorded
<1>4. \A k \in 1 .. Len(ls) : Of(lt, it)!Holds(k) <=> Of(ls, inc)!Holds(k)
  BY HoldsPrefix
<1> HIDE DEF lt, it
<1>5. ASSUME NEW k \in i + 1 .. j
      PROVE  Continues(lt, it, i, k) <=> Continues(ls, inc, i, k)
  <2>1. k \in 1 .. Len(ls) /\ k - 1 \in Nat /\ k - 1 <= Len(ls)
    BY <1>3
  <2> QED BY <1>1, <1>2, <2>1 DEF Continues
<1>6. Branches(lt, it, i, j) = B
  <2>1. {k \in i + 1 .. j : Continues(lt, it, i, k)} = {k \in i + 1 .. j : Continues(ls, inc, i, k)}
    BY <1>5
  <2> QED BY <2>1, BranchesIs
<1>7. B \in SUBSET (1 .. j) /\ i \in B
  BY BranchesBound
<1> HIDE DEF B
<1>8. Latest(B) \in B
  BY <1>7, LatestOf
<1>9. \A k \in B : Of(lt, it)!Holds(k) <=> Of(ls, inc)!Holds(k)
  BY <1>3, <1>4, <1>7
<1>10. Chosen(lt, it, i, j) <=> Chosen(ls, inc, i, j)
  BY <1>6, <1>8, <1>9, ChosenIs DEF B
<1> QED BY <1>10 DEF lt, it

\* Around every line that was included, each group was in its chosen branch.
WellChosen(ls, inc) ==
  \A k \in 1 .. Len(ls) : inc[k] => \A i \in Groups(ls, inc, k - 1) : Chosen(ls, inc, i, k - 1)

(* It stays so when a line is read.                                         *)
LEMMA WellChosenNext ==
  ASSUME NEW ls, NEW inc, Recorded(ls, inc), WellChosen(ls, inc), NEW line \in Line, NEW a \in BOOLEAN,
         a => Of(ls, inc)!NextIsIncluded
  PROVE  WellChosen(Append(ls, line), Append(inc, a))
<1> DEFINE lt == Append(ls, line)
           it == Append(inc, a)
           n == Len(ls)
<1>1. /\ n \in Nat /\ Len(lt) = n + 1 /\ it[n + 1] = a
      /\ \A k \in 1 .. n : it[k] = inc[k]
  <2>1. n \in Nat /\ Len(inc) = n /\ ls \in Seq(Line) /\ inc \in Seq(BOOLEAN)
    BY DEF Recorded
  <2>2. Len(lt) = n + 1
    BY <2>1
  <2>3. it[n + 1] = a /\ \A k \in 1 .. n : it[k] = inc[k]
    BY <2>1
  <2> QED BY <2>1, <2>2, <2>3
<1>2. \A k \in Nat : k <= n => Groups(lt, it, k) = Groups(ls, inc, k)
  BY GroupsPrefix DEF Recorded
<1>3. \A k \in Nat : k <= n => \A i \in Groups(ls, inc, k) : i \in 1 .. k
  BY DEF Groups, Of!GroupsBehind
<1>4. \A k \in Nat : k <= n => \A i \in 1 .. k : Chosen(lt, it, i, k) <=> Chosen(ls, inc, i, k)
  BY ChosenPrefix
<1>5. a => \A i \in Groups(ls, inc, n) : Chosen(ls, inc, i, n)
  BY DEF Of!NextIsIncluded, Groups, Chosen
<1> HIDE DEF lt, it, n
<1>6. ASSUME NEW k \in 1 .. n + 1, it[k], NEW i \in Groups(lt, it, k - 1)
      PROVE  Chosen(lt, it, i, k - 1)
  <2>1. k - 1 \in Nat /\ k - 1 <= n
    BY <1>1
  <2>2. i \in Groups(ls, inc, k - 1) /\ i \in 1 .. k - 1
    BY <1>2, <1>3, <1>6, <2>1
  <2>3. Chosen(ls, inc, i, k - 1)
    <3>1. CASE k = n + 1
      BY <1>1, <1>5, <1>6, <2>2, <3>1
    <3>2. CASE k # n + 1
      <4>1. k \in 1 .. Len(ls) /\ inc[k]
        BY <1>1, <1>6, <3>2 DEF n
      <4> QED BY <4>1, <2>2 DEF WellChosen
    <3> QED BY <3>1, <3>2
  <2> QED BY <1>4, <2>1, <2>2, <2>3
<1>7. WellChosen(lt, it)
  BY <1>1, <1>6 DEF WellChosen
<1> QED BY <1>7 DEF lt, it

(* Two included lines inside a group are in the same branch of it: a branch *)
(* chosen at the first holds, so none behind it can be chosen at the other. *)
LEMMA NoBranchBetween ==
  ASSUME NEW ls, NEW inc, Recorded(ls, inc), WellChosen(ls, inc),
         NEW k \in 1 .. Len(ls), inc[k], NEW i \in Groups(ls, inc, k - 1),
         NEW j \in i + 1 .. k - 1, inc[j]
  PROVE  Branches(ls, inc, i, k - 1) \cap (j .. k - 1) = {}
<1> SUFFICES ASSUME NEW b \in Branches(ls, inc, i, k - 1), b \in j .. k - 1
             PROVE  FALSE
  OBVIOUS
<1> DEFINE early == Branches(ls, inc, i, j - 1)
           late == Branches(ls, inc, i, k - 1)
<1>1. Len(ls) \in Nat /\ k \in Nat /\ k - 1 \in Nat
  BY DEF Recorded
<1>2. i \in 1 .. k - 1
  BY DEF Groups, Of!GroupsBehind
<1>3. j - 1 \in Nat /\ i \in 1 .. j - 1 /\ j - 1 <= k - 1 /\ j \in 1 .. Len(ls)
  BY <1>1, <1>2
<1>4. i \in Groups(ls, inc, j - 1)
  BY <1>1, <1>3, OpenBefore
<1>5. Chosen(ls, inc, i, j - 1) /\ Chosen(ls, inc, i, k - 1)
  BY <1>3, <1>4 DEF WellChosen
<1>6. early \in SUBSET (1 .. j - 1) /\ early # {} /\ late \in SUBSET (1 .. k - 1) /\ late # {}
  BY <1>1, <1>2, <1>3, BranchesBound
<1>7. early \subseteq late
  <2>1. \A m \in i + 1 .. j - 1 : m \in i + 1 .. k - 1
    BY <1>1, <1>2, <1>3
  <2> QED BY <2>1, BranchesIs
<1>8. Of(ls, inc)!Holds(Latest(early)) /\ \A x \in late \ {Latest(late)} : ~ Of(ls, inc)!Holds(x)
  BY <1>5, ChosenIs
<1> HIDE DEF early, late
<1>9. Latest(early) \in early
  BY <1>3, <1>6, LatestOf
<1>10. Latest(early) = Latest(late)
  BY <1>7, <1>8, <1>9
<1>11. b <= Latest(late)
  <2>1. \E x \in late : \A y \in late : y <= x
    BY <1>1, <1>6, GreatestNumber
  <2> QED BY <2>1 DEF Latest, late
<1>12. Latest(early) \in 1 .. j - 1
  BY ONLY <1>6, <1>9
<1>13. j \in Nat /\ b \in Nat /\ j <= b
  BY <1>1, <1>3
<1> HIDE DEF Latest
<1>14. \A x \in 1 .. j - 1 : x \in Int /\ x < b
  BY ONLY <1>13
<1> QED BY <1>10, <1>11, <1>12, <1>13, <1>14

(* The reference's groups and branches are those of the lemmas.             *)
LEMMA ReferenceGroups ==
  /\ \A k : Reference!GroupsBehind(k) = Groups(consumed, activity, k)
  /\ \A i, k : Reference!BranchesOf(i, k) = Branches(consumed, activity, i, k)
<1>1. \A S : Reference!Cardinality(S) = Cardinality(S)
  BY DEF Reference!Cardinality, Cardinality
<1>2. \A S : Of(consumed, activity)!Cardinality(S) = Cardinality(S)
  BY DEF Of!Cardinality, Cardinality
<1>3. \A ops, from, to :
        Reference!Count(ops, from, to) = Of(consumed, activity)!Count(ops, from, to)
  BY <1>1, <1>2 DEF Reference!Count, Of!Count
<1>4. \A i, j : Reference!OpenBehind(i, j) <=> Of(consumed, activity)!OpenBehind(i, j)
  BY <1>3 DEF Reference!OpenBehind, Of!OpenBehind, Reference!Opening, Of!Opening
<1>5. \A j : Reference!GroupsBehind(j) = Of(consumed, activity)!GroupsBehind(j)
  BY <1>4 DEF Reference!GroupsBehind, Of!GroupsBehind
<1>6. \A j : Reference!InnermostBehind(j) = Of(consumed, activity)!InnermostBehind(j)
  BY <1>5 DEF Reference!InnermostBehind, Of!InnermostBehind
<1>7. \A i, j : Reference!BranchesOf(i, j) = Of(consumed, activity)!BranchesOf(i, j)
  BY <1>5, <1>6 DEF Reference!BranchesOf, Of!BranchesOf, Reference!Branch, Of!Branch
<1> QED BY <1>5, <1>7 DEF Groups, Branches

(* Of any group, and whatever files its lines come from, only lines of one  *)
(* branch are ever included, however many branches hold or follow: the      *)
(* flags current and branch_taken that #elif and #else consult.             *)
THEOREM OneBranchOfAGroup == TraceSpec => []BranchOnce
<1>1. TraceInit => WellChosen(consumed, activity)
  <2> SUFFICES ASSUME TraceInit PROVE WellChosen(consumed, activity)
    OBVIOUS
  <2>1. 1 .. Len(consumed) = {}
    BY DEF TraceInit
  <2> QED BY <2>1 DEF WellChosen
<1>2. IInv /\ FramesInv /\ HistoryInv /\ WellChosen(consumed, activity) /\ [TraceNext]_<<vars, history>>
        => WellChosen(consumed, activity)'
  <2> SUFFICES ASSUME IInv, FramesInv, HistoryInv, WellChosen(consumed, activity),
                      [TraceNext]_<<vars, history>>
               PROVE  WellChosen(consumed, activity)'
    OBVIOUS
  <2>1. CASE HandleLine /\ consumed' = Append(consumed, Current) /\ activity' = Append(activity, Active)
    <3>1. Current \in Line /\ Active \in BOOLEAN
      BY <2>1, HandledLine, ActiveIsBoolean
    <3>2. Recorded(consumed, activity) /\ (Active => Of(consumed, activity)!NextIsIncluded)
      BY ActiveIsIncluded DEF HistoryInv
    <3>3. WellChosen(Append(consumed, Current), Append(activity, Active))
      BY <3>1, <3>2, WellChosenNext
    <3> QED BY <2>1, <3>3
  <2>2. CASE UNCHANGED history
    BY <2>2 DEF history
  <2> QED BY <2>1, <2>2 DEF TraceNext
<1>3. HistoryInv /\ WellChosen(consumed, activity) => BranchOnce
  <2> SUFFICES ASSUME HistoryInv, WellChosen(consumed, activity),
                      NEW k \in DOMAIN consumed, activity[k],
                      NEW i \in Reference!GroupsBehind(k - 1), NEW j \in i + 1 .. k - 1, activity[j]
               PROVE  Reference!BranchesOf(i, k - 1) \cap (j .. k - 1) = {}
    BY DEF BranchOnce
  <2>1. Recorded(consumed, activity)
    BY DEF HistoryInv
  <2>2. k \in 1 .. Len(consumed) /\ i \in Groups(consumed, activity, k - 1)
    BY <2>1, ReferenceGroups DEF Recorded
  <2>3. Branches(consumed, activity, i, k - 1) \cap (j .. k - 1) = {}
    BY <2>1, <2>2, NoBranchBetween
  <2> QED BY <2>3, ReferenceGroups
<1> QED BY <1>1, <1>2, <1>3, TraceInvariant, PTL DEF TraceSpec

(* No group is open when the translation starts.                           *)
StartInv == phase = "start" => conditionals = <<>>

(* Lines are only handled behind the start.                                *)
LEMMA StartStep ==
  ASSUME StartInv, [Next]_vars
  PROVE  StartInv'
<1>1. CASE HandleLine
  BY <1>1 DEF HandleLine, TextLine, NullDirective, Define, OpenConditional, NextBranch,
              CloseConditional, Pragma, Include, UnknownDirective, Take, AtLine, Reading, StartInv
<1>2. CASE Start \/ Return \/ Finish
  BY <1>2 DEF Start, Return, Finish, Reading, StartInv
<1>3. CASE UNCHANGED vars
  BY <1>3 DEF vars, StartInv
<1> QED BY <1>1, <1>2, <1>3 DEF Next

\* What a step may do when the block is not active.
Idle ==
  /\ UNCHANGED <<macros, pragmaOnce, inComment, output>>
  /\ Len(stack') <= Len(stack)
  /\ AtLine(Conditional) \/ UNCHANGED conditionals
  /\ AtLine(Conditional) \/ phase' = "finished" \/ UNCHANGED diagnostics

(* Every handler but those of groups looks at the activity first.           *)
LEMMA InactiveIsIdle ==
  ASSUME IInv, StartInv, [Next]_vars, ~Active
  PROVE  Idle
<1>1. stack \in Seq(StackEntry) /\ Len(stack) \in Nat
  BY DEF IInv, StackOK
<1>2. ASSUME Reading, ~AtEnd PROVE Len(Advanced) = Len(stack)
  BY <1>2, CurrentOK DEF IInv
<1>3. CASE TextLine
  <2>1. UNCHANGED <<macros, pragmaOnce, inComment, output, conditionals, diagnostics>>
    BY <1>3 DEF TextLine
  <2>2. stack' = Advanced /\ Reading /\ ~AtEnd
    BY <1>3 DEF TextLine, Take, AtLine
  <2> QED BY <1>1, <1>2, <2>1, <2>2 DEF Idle
<1>4. CASE NullDirective
  <2>1. UNCHANGED <<macros, pragmaOnce, inComment, output, conditionals, diagnostics>>
    BY <1>4 DEF NullDirective, tables
  <2>2. stack' = Advanced /\ Reading /\ ~AtEnd
    BY <1>4 DEF NullDirective, Take, AtLine
  <2> QED BY <1>1, <1>2, <2>1, <2>2 DEF Idle
<1>5. CASE Define
  <2>1. UNCHANGED <<macros, pragmaOnce, inComment, output, conditionals, diagnostics>>
    BY <1>5 DEF Define, ReportIf
  <2>2. stack' = Advanced /\ Reading /\ ~AtEnd
    BY <1>5 DEF Define, Take, AtLine
  <2> QED BY <1>1, <1>2, <2>1, <2>2 DEF Idle
<1>6. CASE OpenConditional \/ NextBranch \/ CloseConditional
  <2>1. UNCHANGED <<macros, pragmaOnce, inComment, output>>
    BY <1>6 DEF OpenConditional, NextBranch, CloseConditional
  <2>2. stack' = Advanced /\ Reading /\ ~AtEnd
    BY <1>6 DEF OpenConditional, NextBranch, CloseConditional, Take, AtLine
  <2>3. AtLine(Conditional)
    BY <1>6 DEF OpenConditional, NextBranch, CloseConditional, Take, AtLine, Conditional
  <2> QED BY <1>1, <1>2, <2>1, <2>2, <2>3 DEF Idle
<1>7. CASE Pragma
  <2>1. UNCHANGED <<macros, pragmaOnce, inComment, output, conditionals, diagnostics>>
    BY <1>7 DEF Pragma
  <2>2. stack' = Advanced /\ Reading /\ ~AtEnd
    BY <1>7 DEF Pragma, Take, AtLine
  <2> QED BY <1>1, <1>2, <2>1, <2>2 DEF Idle
<1>8. CASE Include
  <2>1. UNCHANGED <<macros, pragmaOnce, inComment, output, conditionals, diagnostics>>
    BY <1>8 DEF Include, tables
  <2>2. stack' = Advanced /\ Reading /\ ~AtEnd
    BY <1>8 DEF Include, AtLine
  <2> QED BY <1>1, <1>2, <2>1, <2>2 DEF Idle
<1>9. CASE UnknownDirective
  <2>1. UNCHANGED <<macros, pragmaOnce, inComment, output, conditionals, diagnostics>>
    BY <1>9 DEF UnknownDirective, tables, ReportIf
  <2>2. stack' = Advanced /\ Reading /\ ~AtEnd
    BY <1>9 DEF UnknownDirective, Take, AtLine
  <2> QED BY <1>1, <1>2, <2>1, <2>2 DEF Idle
<1>10. CASE Start
  BY <1>10 DEF Start, StartInv, Active
<1>11. CASE Return
  <2>1. UNCHANGED <<macros, pragmaOnce, inComment, output, conditionals, diagnostics>>
    BY <1>11 DEF Return, tables
  <2>2. stack' = SubSeq(stack, 1, Len(stack) - 1) /\ stack # <<>>
    BY <1>11 DEF Return, Reading
  <2>3. Len(stack') = Len(stack) - 1
    BY <1>1, <2>2, PopProperties
  <2> QED BY <1>1, <2>1, <2>3 DEF Idle
<1>12. CASE Finish
  <2>1. UNCHANGED <<macros, pragmaOnce, inComment, output, conditionals, stack>> /\ phase' = "finished"
    BY <1>12 DEF Finish, tables
  <2> QED BY <1>1, <2>1 DEF Idle
<1>13. CASE UNCHANGED vars
  BY <1>1, <1>13 DEF vars, Idle
<1> QED BY <1>3, <1>4, <1>5, <1>6, <1>7, <1>8, <1>9, <1>10, <1>11, <1>12, <1>13 DEF Next, HandleLine

(* A line outside the chosen branch of a group around it, as C counts the   *)
(* groups, does nothing but open, continue or close a group, and nothing    *)
(* but that is reported of it: the guards of cc_process_directive and of    *)
(* the text lines.                                                          *)
THEOREM ExcludedLinesDoNothing == TraceSpec => OnlyIncludedLinesAct
<1>1. Init => StartInv
  BY DEF Init, StartInv
<1>2. StartInv /\ [Next]_vars => StartInv'
  BY StartStep
<1>3. Spec => []StartInv
  BY <1>1, <1>2, PTL DEF Spec
<1>4. ASSUME IInv, FramesInv, HistoryInv, StartInv, [TraceNext]_<<vars, history>>
      PROVE  [~Reference!NextIsIncluded => Idle]_<<vars, history>>
  <2>1. [Next]_vars
    BY <1>4 DEF TraceNext, Next, vars
  <2> QED BY <1>4, <2>1, InactiveIsIdle, IncludedIsActive
<1>5. TraceSpec => [][~Reference!NextIsIncluded => Idle]_<<vars, history>>
  BY <1>3, <1>4, TraceInvariant, TraceRefines, PTL DEF TraceSpec
<1> QED BY <1>5 DEF OnlyIncludedLinesAct, Idle
-----------------------------------------------------------------------------
(* A clean run reads a balanced input.                                      *)
Balanced ==
  /\ Surplus(consumed, 0, Len(consumed)) = Len(conditionals)
  /\ \A k \in 1 .. Len(consumed) :
       /\ Surplus(consumed, 0, k) >= 0
       /\ consumed[k].op \in {"elif", "else"} => Surplus(consumed, 0, k) > 0
  /\ phase = "finished" => conditionals = <<>>

\* Nothing was reported of a balanced input only.
CleanInv == diagnostics = <<>> => Balanced

(* A buffer that is still empty has not been reported to.                  *)
LEMMA ReportedIsNotClean ==
  ASSUME DiagnosticsOK, NEW condition, NEW message, ReportIf(condition, message)
  PROVE  diagnostics' = <<>> => diagnostics = <<>> /\ ~condition
<1>1. diagnostics \in Seq(Messages) /\ Len(diagnostics) \in Nat /\ MaxDiagnostics \in Nat
  BY CapAssumption DEF DiagnosticsOK
<1>2. AddDiagnostic(diagnostics, message) # <<>>
  <2>1. \A m : Append(diagnostics, m) # <<>>
    BY <1>1
  <2>2. Len(diagnostics) > MaxDiagnostics => diagnostics # <<>>
    BY <1>1
  <2> QED BY <1>1, <2>1, <2>2 DEF AddDiagnostic
<1> QED BY <1>2 DEF ReportIf, Report

(* A line handled without a report keeps the balance.                      *)
LEMMA BalancedLine ==
  ASSUME IInv, FramesInv, HistoryInv, HandleLine, consumed' = Append(consumed, Current),
         diagnostics' = <<>>, CleanInv
  PROVE  Balanced'
<1>1. Current \in Line /\ phase' = phase /\ phase # "finished"
  BY HandledLine DEF Reading
<1> DEFINE n == Len(consumed)
           d == Len(conditionals)
<1>2. consumed \in Seq(Line) /\ n \in Nat /\ Len(consumed') = n + 1 /\ consumed'[n + 1] = Current
      /\ \A k \in 1 .. n : consumed'[k] = consumed[k]
  BY <1>1 DEF HistoryInv, Recorded
<1>3. conditionals \in Seq(Frame) /\ d \in Nat
  BY DEF FramesInv
<1>4. DiagnosticsOK
  BY DEF IInv
<1>5. \A k \in Nat : k <= n => Surplus(consumed', 0, k) = Surplus(consumed, 0, k)
  BY <1>2, SurplusPrefix
<1>6. Surplus(consumed', 0, n + 1) = Surplus(consumed', 0, n) + Delta(Current)
  <2>1. 0 \in Nat /\ 0 <= n /\ n \in Nat /\ consumed'[n + 1] = Current
    BY <1>2
  <2> HIDE DEF n
  <2> QED BY <2>1, SurplusNext DEF Delta
<1>7. /\ diagnostics = <<>>
      /\ Len(conditionals') = d + Delta(Current) /\ d + Delta(Current) >= 0
      /\ Current.op \in {"elif", "else"} => d > 0 /\ Delta(Current) = 0
  <2>1. CASE OpenConditional
    <3>1. diagnostics = <<>> /\ Current.op \in OpeningOps
      BY <1>4, <2>1, ReportedIsNotClean DEF OpenConditional, Take, AtLine, OpeningOps
    <3>2. Len(conditionals') = d + 1
      <4>1. PICK f : conditionals' = Append(conditionals, f)
        BY <2>1 DEF OpenConditional
      <4> QED BY <1>3, <4>1
    <3> QED BY <1>3, <3>1, <3>2 DEF Delta, OpeningOps
  <2>2. CASE NextBranch
    <3>1. diagnostics = <<>> /\ conditionals # <<>> /\ Current.op \in {"elif", "else"}
      BY <1>4, <2>2, ReportedIsNotClean DEF NextBranch, Take, AtLine
    <3>2. Len(conditionals') = d
      <4>1. PICK f : conditionals' = [conditionals EXCEPT ![d] = f]
        BY <2>2, <3>1 DEF NextBranch
      <4> QED BY <1>3, <4>1
    <3>3. Delta(Current) = 0 /\ d > 0
      BY <1>3, <3>1, EmptySeq DEF Delta, OpeningOps
    <3> QED BY <1>3, <3>1, <3>2, <3>3
  <2>3. CASE CloseConditional
    <3>1. diagnostics = <<>> /\ conditionals # <<>> /\ Current.op = "endif"
      BY <1>4, <2>3, ReportedIsNotClean DEF CloseConditional, Take, AtLine
    <3>2. Len(conditionals') = d - 1 /\ d >= 1
      BY <1>3, <2>3, <3>1, PopProperties DEF CloseConditional
    <3>3. Delta(Current) = -1
      BY <3>1 DEF Delta, OpeningOps
    <3> QED BY <1>3, <3>1, <3>2, <3>3
  <2>4. CASE TextLine \/ NullDirective \/ Define \/ Pragma \/ Include \/ UnknownDirective
    <3>1. /\ conditionals' = conditionals
          /\ Current.op \in {"text", "null", "define", "undef", "pragma", "include", "unknown"}
      BY <2>4 DEF TextLine, NullDirective, Define, Pragma, Include, UnknownDirective, Take, AtLine,
                  tables
    <3>2. diagnostics = <<>>
      <4>1. CASE TextLine \/ NullDirective \/ Pragma
        BY <4>1 DEF TextLine, NullDirective, Pragma
      <4>2. CASE Define
        BY <1>4, <4>2, ReportedIsNotClean DEF Define
      <4>3. CASE UnknownDirective
        BY <1>4, <4>3, ReportedIsNotClean DEF UnknownDirective
      <4>4. CASE Include
        <5>1. UNCHANGED diagnostics \/ \E message : Report(message)
          BY <4>4 DEF Include, Call
        <5>2. UNCHANGED diagnostics \/ \E message : ReportIf(TRUE, message)
          BY <5>1 DEF ReportIf
        <5> QED BY <1>4, <5>2, ReportedIsNotClean
      <4> QED BY <2>4, <4>1, <4>2, <4>3, <4>4
    <3>3. Delta(Current) = 0
      BY <3>1 DEF Delta, OpeningOps
    <3> QED BY <1>3, <3>1, <3>2, <3>3
  <2> QED BY <2>1, <2>2, <2>3, <2>4 DEF HandleLine
<1>8. Surplus(consumed, 0, n) = d
  BY <1>7 DEF CleanInv, Balanced
<1>9. Surplus(consumed', 0, n + 1) = d + Delta(Current)
  <2>1. Surplus(consumed', 0, n) = d
    BY <1>2, <1>5, <1>8
  <2> QED BY <1>6, <2>1
<1>10. ASSUME NEW k \in 1 .. n
       PROVE  /\ Surplus(consumed', 0, k) >= 0
              /\ consumed'[k].op \in {"elif", "else"} => Surplus(consumed', 0, k) > 0
  <2>1. k \in Nat /\ k <= n
    BY <1>2
  <2> QED BY <1>2, <1>5, <1>7, <2>1 DEF CleanInv, Balanced
<1> HIDE DEF n, d
<1>11. ASSUME NEW k \in 1 .. n + 1
       PROVE  /\ Surplus(consumed', 0, k) >= 0
              /\ consumed'[k].op \in {"elif", "else"} => Surplus(consumed', 0, k) > 0
  <2>1. CASE k = n + 1
    <3>1. Surplus(consumed', 0, n + 1) >= 0
      BY <1>7, <1>9
    <3>2. Current.op \in {"elif", "else"} => Surplus(consumed', 0, n + 1) > 0
      BY <1>3, <1>7, <1>9
    <3> QED BY <1>2, <2>1, <3>1, <3>2
  <2>2. CASE k # n + 1
    <3>1. k \in 1 .. n
      BY <1>2, <2>2
    <3> QED BY <1>10, <3>1
  <2> QED BY <2>1, <2>2
<1> QED BY <1>1, <1>2, <1>7, <1>9, <1>11 DEF Balanced

(* So does every other step.                                               *)
LEMMA CleanStep ==
  ASSUME IInv, FramesInv, HistoryInv, CleanInv, [TraceNext]_<<vars, history>>
  PROVE  CleanInv'
<1> SUFFICES ASSUME diagnostics' = <<>>
             PROVE  Balanced'
  BY DEF CleanInv
<1>1. CASE HandleLine /\ consumed' = Append(consumed, Current)
  BY <1>1, BalancedLine
<1>2. CASE Start /\ UNCHANGED history
  <2>1. UNCHANGED <<consumed, conditionals>> /\ phase' = "reading"
    BY <1>2 DEF Start, tables, history
  <2>2. diagnostics = <<>>
    <3>1. UNCHANGED diagnostics \/ \E message : Report(message)
      BY <1>2 DEF Start, Call
    <3>2. UNCHANGED diagnostics \/ \E message : ReportIf(TRUE, message)
      BY <3>1 DEF ReportIf
    <3> QED BY <3>2, ReportedIsNotClean DEF IInv
  <2> QED BY <2>1, <2>2 DEF CleanInv, Balanced
<1>3. CASE Return /\ UNCHANGED history
  <2>1. UNCHANGED <<consumed, conditionals, phase, diagnostics>>
    BY <1>3 DEF Return, tables, history
  <2> QED BY <2>1 DEF CleanInv, Balanced
<1>4. CASE Finish /\ UNCHANGED history
  <2>1. UNCHANGED <<consumed, conditionals>>
        /\ ReportIf(conditionals # <<>>, "unterminated conditional")
    BY <1>4 DEF Finish, tables, history
  <2>2. diagnostics = <<>> /\ conditionals = <<>>
    BY <2>1, ReportedIsNotClean DEF IInv
  <2> QED BY <2>1, <2>2 DEF CleanInv, Balanced
<1>5. CASE UNCHANGED <<vars, history>>
  BY <1>5 DEF vars, history, CleanInv, Balanced
<1> QED BY <1>1, <1>2, <1>3, <1>4, <1>5 DEF TraceNext

(* A run that reports nothing has read as many closings as openings, never  *)
(* more closings than openings so far, and no branch outside a group:       *)
(* the unmatched and unterminated diagnostics of preprocessor.c.            *)
THEOREM CleanRunsAreBalanced == TraceSpec => []CleanRunIsBalanced
<1>1. TraceInit => CleanInv
  <2> SUFFICES ASSUME TraceInit
               PROVE  Balanced
    BY DEF CleanInv
  <2>1. consumed = <<>> /\ conditionals = <<>> /\ phase = "start"
    BY DEF TraceInit, Init
  <2>2. Len(consumed) = 0 /\ Len(conditionals) = 0 /\ 1 .. 0 = {} /\ 0 \in Nat
    BY <2>1
  <2>3. Surplus(consumed, 0, 0) = 0
    BY SurplusNone
  <2> QED BY <2>1, <2>2, <2>3 DEF Balanced
<1>2. IInv /\ FramesInv /\ HistoryInv /\ CleanInv /\ [TraceNext]_<<vars, history>> => CleanInv'
  BY CleanStep
<1>3. CleanInv => CleanRunIsBalanced
  <2> SUFFICES ASSUME CleanInv, phase = "finished", diagnostics = <<>>
               PROVE  /\ Surplus(consumed, 0, Len(consumed)) = 0
                      /\ \A k \in 1 .. Len(consumed) :
                           /\ Surplus(consumed, 0, k) >= 0
                           /\ consumed[k].op \in {"elif", "else"} => Surplus(consumed, 0, k) > 0
    <3>1. 0 + 1 = 1
      OBVIOUS
    <3> QED BY <3>1 DEF CleanRunIsBalanced, Surplus, Counted, OpeningOps
  <2>1. Balanced /\ conditionals = <<>> /\ Len(<<>>) = 0
    BY DEF CleanInv, Balanced
  <2> QED BY <2>1 DEF Balanced
<1> QED BY <1>1, <1>2, <1>3, TraceInvariant, PTL DEF TraceSpec

-----------------------------------------------------------------------------
(* Macro expansion: no macro expands inside itself, for any macros, lines   *)
(* and depth.                                                               *)
(*                                                                          *)
(* What a flag means is seen in the calls in progress: the line's own call  *)
(* is at the bottom, each other call belongs to a macro, no two to the      *)
(* same, and the flags are those macros.  A new call takes a name whose     *)
(* flag is clear, so it is in no call below; the innermost call returns     *)
(* and takes its flag along.                                                *)
(* The calls are a sequence, of whatever they are.                          *)
IsSequence(s) == \E S : s \in Seq(S)

FlagsInv ==
    /\ IsSequence(calls)
    /\ lineMacros \in Tables
    /\ Len(calls) > 0 => calls[1].macro = NoMacro
    /\ \A i \in 2..Len(calls) : calls[i].macro \in LineMacros
    /\ \A i, j \in 2..Len(calls) : calls[i].macro = calls[j].macro => i = j
    /\ expanding = {calls[i].macro : i \in 2..Len(calls)}
    /\ Len(calls) <= MaxExpansionDepth + 1

LEMMA SequenceFacts ==
    ASSUME NEW s, IsSequence(s)
    PROVE  /\ Len(s) \in Nat
           /\ DOMAIN s = 1..Len(s)
           /\ s # <<>> => Len(s) > 0
  <1>1. PICK S : s \in Seq(S)  BY DEF IsSequence
  <1> QED  BY <1>1, LenProperties, EmptySeq

(* The last call replaced by one of the same macro.                         *)
LEMMA UpdatedCall ==
    ASSUME NEW s, IsSequence(s), Len(s) > 0, NEW e, e.macro = s[Len(s)].macro
    PROVE  /\ IsSequence([s EXCEPT ![Len(s)] = e])
           /\ Len([s EXCEPT ![Len(s)] = e]) = Len(s)
           /\ \A j \in 1..Len(s) : [s EXCEPT ![Len(s)] = e][j].macro = s[j].macro
  <1> DEFINE t == [s EXCEPT ![Len(s)] = e]
  <1>1. PICK S : s \in Seq(S)  BY DEF IsSequence
  <1> DEFINE T == S \union {e}
  <1>2. s \in Seq(T)  BY <1>1, SeqMonotonic
  <1>3. Len(s) \in 1..Len(s)  BY SequenceFacts
  <1>4. /\ t \in Seq(T)
        /\ Len(t) = Len(s)
        /\ \A j \in 1..Len(s) : t[j] = IF j = Len(s) THEN e ELSE s[j]
    BY <1>2, <1>3, ExceptSeq
  <1> HIDE DEF t
  <1>5. \A j \in 1..Len(s) : t[j].macro = s[j].macro  BY <1>4
  <1>6. IsSequence(t)  BY <1>4 DEF IsSequence
  <1> QED  BY <1>4, <1>5, <1>6 DEF t

LEMMA PushedCall ==
    ASSUME NEW s, IsSequence(s), NEW e
    PROVE  /\ IsSequence(Append(s, e))
           /\ Len(Append(s, e)) = Len(s) + 1
           /\ \A j \in 1..Len(s) : Append(s, e)[j] = s[j]
           /\ Append(s, e)[Len(s) + 1] = e
  <1>1. PICK S : s \in Seq(S)  BY DEF IsSequence
  <1> DEFINE T == S \union {e}
  <1>2. s \in Seq(T) /\ e \in T  BY <1>1, SeqMonotonic
  <1>3. Append(s, e) \in Seq(T)  BY <1>2
  <1> QED  BY <1>2, <1>3 DEF IsSequence

(* The last call gone and the one before it replaced by one of its macro.   *)
LEMMA PoppedCall ==
    ASSUME NEW s, IsSequence(s), Len(s) > 1, NEW e, e.macro = s[Len(s) - 1].macro,
           NEW t, t = Append(SubSeq(s, 1, Len(s) - 2), e)
    PROVE  /\ IsSequence(t)
           /\ Len(t) = Len(s) - 1
           /\ \A j \in 1..(Len(s) - 1) : t[j].macro = s[j].macro
  <1>1. PICK S : s \in Seq(S)  BY DEF IsSequence
  <1> DEFINE below == SubSeq(s, 1, Len(s) - 2)
  <1>2. Len(s) \in Nat  BY SequenceFacts
  <1>3. \A i \in 1..(Len(s) - 2) : s[i] \in S  BY <1>1, <1>2, ElementOfSeq
  <1>4. /\ below \in Seq(S)
        /\ Len(below) = IF 1 <= Len(s) - 2 THEN Len(s) - 2 - 1 + 1 ELSE 0
        /\ \A i \in 1..(Len(s) - 2 - 1 + 1) : below[i] = s[1 + i - 1]
    BY <1>2, <1>3, SubSeqProperties
  <1>0. t = Append(below, e)  OBVIOUS
  <1> HIDE DEF below
  <1>5. Len(below) = Len(s) - 2
    <2> DEFINE n == Len(s)
               m == Len(below)
    <2>1. n \in Nat /\ n > 1 /\ m = IF 1 <= n - 2 THEN n - 2 - 1 + 1 ELSE 0
      BY <1>2, <1>4
    <2> HIDE DEF n, m
    <2>2. m = n - 2  BY <2>1
    <2> QED  BY <2>2 DEF n, m
  <1>6. \A i \in 1..(Len(s) - 2) : below[i] = s[i]  BY <1>2, <1>4
  <1>7. IsSequence(below)  BY <1>4 DEF IsSequence
  <1>8. /\ IsSequence(t)
        /\ Len(t) = Len(below) + 1
        /\ \A j \in 1..Len(below) : t[j] = below[j]
        /\ t[Len(below) + 1] = e
    <2>1. /\ IsSequence(Append(below, e))
          /\ Len(Append(below, e)) = Len(below) + 1
          /\ \A j \in 1..Len(below) : Append(below, e)[j] = below[j]
          /\ Append(below, e)[Len(below) + 1] = e
      BY <1>7, PushedCall
    <2> QED  BY <2>1, <1>0
  <1>9. Len(t) = Len(s) - 1 /\ t[Len(s) - 1] = e  BY <1>2, <1>5, <1>8
  <1>10. ASSUME NEW j \in 1..(Len(s) - 1)  PROVE t[j].macro = s[j].macro
    <2>1. CASE j = Len(s) - 1  BY <2>1, <1>9
    <2>2. CASE j # Len(s) - 1
      <3>1. j \in 1..(Len(s) - 2)  BY <2>2, <1>2
      <3>2. t[j] = s[j]  BY <3>1, <1>5, <1>6, <1>8
      <3> QED  BY <3>2
    <2> QED  BY <2>1, <2>2
  <1> QED  BY <1>8, <1>9, <1>10

-----------------------------------------------------------------------------

(* A step that leaves the macros of the calls and their flags.              *)
LEMMA SameCalls ==
    ASSUME FlagsInv, IsSequence(calls'), Len(calls') = Len(calls),
           \A j \in 1..Len(calls) : calls'[j].macro = calls[j].macro,
           UNCHANGED <<lineMacros, expanding>>
    PROVE  FlagsInv'
  <1>1. Len(calls) \in Nat  BY SequenceFacts DEF FlagsInv
  <1>2. \A j \in 2..Len(calls) : calls'[j].macro = calls[j].macro  BY <1>1
  <1>3. Len(calls') > 0 => calls'[1].macro = NoMacro  BY <1>1 DEF FlagsInv
  <1>4. {calls'[i].macro : i \in 2..Len(calls')} = {calls[i].macro : i \in 2..Len(calls)}
    BY <1>2
  <1> QED  BY <1>1, <1>2, <1>3, <1>4 DEF FlagsInv

LEMMA BuiltSame ==
    ASSUME FlagsInv, ReadingText, NEW tokens, NEW next, calls' = Built(tokens, next),
           UNCHANGED <<lineMacros, expanding>>
    PROVE  FlagsInv'
  <1> DEFINE e == ReadTo(Innermost, tokens, next)
  <1>1. IsSequence(calls) /\ Len(calls) > 0  BY SequenceFacts DEF FlagsInv, ReadingText
  <1>2. e.macro = calls[Len(calls)].macro  BY DEF ReadTo, Innermost
  <1>3. calls' = [calls EXCEPT ![Len(calls)] = e]  BY DEF Built
  <1> HIDE DEF e
  <1>4. /\ IsSequence(calls')
        /\ Len(calls') = Len(calls)
        /\ \A j \in 1..Len(calls) : calls'[j].macro = calls[j].macro
    <2>1. /\ IsSequence([calls EXCEPT ![Len(calls)] = e])
          /\ Len([calls EXCEPT ![Len(calls)] = e]) = Len(calls)
          /\ \A j \in 1..Len(calls) :
                 [calls EXCEPT ![Len(calls)] = e][j].macro = calls[j].macro
      BY <1>1, <1>2, UpdatedCall
    <2> QED  BY <2>1, <1>3
  <1> QED  BY <1>4, SameCalls

LEMMA ExpandKeepsFlags ==
    ASSUME FlagsInv, ReadingText, Expandable, NEW text, NEW next, Expand(text, next),
           UNCHANGED lineMacros
    PROVE  FlagsInv'
  <1>0. MaxExpansionDepth \in Nat  BY NoMacroAssumption, TablesAssumption, MaxExpansionDepthAssumption DEF FlagsInv
  <1> USE <1>0
  <1>1. CASE Len(calls) > MaxExpansionDepth
    BY <1>1, BuiltSame DEF Expand
  <1>2. CASE ~(Len(calls) > MaxExpansionDepth)
    <2> DEFINE built == Built(<<>>, next)
               n     == Len(calls)
    <2>1. /\ calls' = Append(built, ExpansionCall(Token, text))
          /\ expanding' = expanding \union {Token}
      BY <1>2 DEF Expand
    <2>2. IsSequence(calls) /\ n \in Nat /\ n > 0
      BY SequenceFacts DEF FlagsInv, ReadingText
    <2>3. /\ IsSequence(built)
          /\ Len(built) = n
          /\ \A j \in 1..n : built[j].macro = calls[j].macro
      <3> DEFINE e == ReadTo(Innermost, <<>>, next)
      <3>1. e.macro = calls[n].macro  BY DEF ReadTo, Innermost
      <3>2. built = [calls EXCEPT ![n] = e]  BY DEF Built
      <3> HIDE DEF e, built
      <3>3. /\ IsSequence([calls EXCEPT ![n] = e])
            /\ Len([calls EXCEPT ![n] = e]) = n
            /\ \A j \in 1..n : [calls EXCEPT ![n] = e][j].macro = calls[j].macro
        BY <2>2, <3>1, UpdatedCall
      <3> QED  BY <3>2, <3>3
    <2> HIDE DEF built
    <2>4. /\ IsSequence(calls')
          /\ Len(calls') = n + 1
          /\ \A j \in 1..n : calls'[j] = built[j]
          /\ calls'[n + 1] = ExpansionCall(Token, text)
      <3> DEFINE e == ExpansionCall(Token, text)
      <3> HIDE DEF e
      <3>1. calls' = Append(built, e)  BY <2>1 DEF e
      <3>2. /\ IsSequence(calls')
            /\ Len(calls') = n + 1
            /\ \A j \in 1..n : calls'[j] = built[j]
            /\ calls'[n + 1] = e
        BY <3>1, <2>3, PushedCall
      <3> QED  BY <3>2 DEF e
    <2>5. \A j \in 1..n : calls'[j].macro = calls[j].macro  BY <2>3, <2>4
    <2>6. calls'[n + 1].macro = Token  BY <2>4 DEF ExpansionCall
    <2>7. Token \in LineMacros /\ Token \notin expanding
      BY NoMacroAssumption, TablesAssumption, MaxExpansionDepthAssumption DEF Expandable, IsMacro, FlagsInv
    <2>8. Token \notin {calls[i].macro : i \in 2..n}  BY <2>7 DEF FlagsInv
    <2>9. lineMacros' \in Tables  BY DEF FlagsInv
    <2>10. calls'[1].macro = NoMacro  BY <2>2, <2>5 DEF FlagsInv
    <2>11. \A i \in 2..(n + 1) : calls'[i].macro = IF i = n + 1 THEN Token ELSE calls[i].macro
      BY <2>2, <2>5, <2>6
    <2>12. \A i \in 2..(n + 1) : calls'[i].macro \in LineMacros
      BY <2>2, <2>7, <2>11 DEF FlagsInv
    <2>13. ASSUME NEW i \in 2..(n + 1), NEW j \in 2..(n + 1), calls'[i].macro = calls'[j].macro
           PROVE  i = j
      <3>1. i \in 2..n \/ i = n + 1  BY <2>2
      <3>2. j \in 2..n \/ j = n + 1  BY <2>2
      <3>3. \A k \in 2..n : calls'[k].macro = calls[k].macro /\ calls[k].macro # Token
        BY <2>2, <2>5, <2>8
      <3> QED  BY <3>1, <3>2, <3>3, <2>6, <2>13 DEF FlagsInv
    <2>14. expanding' = {calls'[i].macro : i \in 2..(n + 1)}
      <3>1. expanding = {calls[i].macro : i \in 2..n}  BY DEF FlagsInv
      <3>2. \A i \in 2..n : i \in 2..(n + 1) /\ i # n + 1  BY <2>2
      <3>3. \A i \in 2..(n + 1) : i \in 2..n \/ i = n + 1  BY <2>2
      <3>4. n + 1 \in 2..(n + 1)  BY <2>2
      <3> QED  BY <2>1, <2>11, <3>1, <3>2, <3>3, <3>4
    <2>15. Len(calls') <= MaxExpansionDepth + 1  BY <1>2, <2>2, <2>4
    <2> QED  BY <2>4, <2>9, <2>10, <2>12, <2>13, <2>14, <2>15 DEF FlagsInv
  <1> QED  BY <1>1, <1>2

LEMMA ReturnKeepsFlags ==
    ASSUME FlagsInv, EndCall
    PROVE  FlagsInv'
  <1> DEFINE n == Len(calls)
             caller == calls[n - 1]
             e == ReadTo(caller, Innermost.built, caller.index)
  <1>0. MaxExpansionDepth \in Nat  BY NoMacroAssumption, TablesAssumption, MaxExpansionDepthAssumption DEF FlagsInv
  <1> USE <1>0
  <1>1. IsSequence(calls) /\ n \in Nat /\ n > 1
    BY SequenceFacts DEF FlagsInv, EndCall
  <1>2. calls' = Append(SubSeq(calls, 1, n - 2), e)  BY DEF EndCall, Returned
  <1>3. e.macro = calls[n - 1].macro  BY DEF ReadTo
  <1>4. /\ IsSequence(calls')
        /\ Len(calls') = n - 1
        /\ \A j \in 1..(n - 1) : calls'[j].macro = calls[j].macro
    <2> HIDE DEF e
    <2> QED  BY <1>1, <1>2, <1>3, PoppedCall
  <1>5. expanding' = expanding \ {calls[n].macro} /\ lineMacros' = lineMacros
    BY DEF EndCall, Innermost
  <1>6. \A i \in 2..(n - 1) : /\ i \in 2..n /\ i # n
                               /\ calls'[i].macro = calls[i].macro
    BY <1>1, <1>4
  <1>7. \A i \in 2..n : i \in 2..(n - 1) \/ i = n  BY <1>1
  <1>8. n \in 2..n  BY <1>1
  <1>9. expanding' = {calls'[i].macro : i \in 2..(n - 1)}
    <2>1. expanding = {calls[i].macro : i \in 2..n}  BY DEF FlagsInv
    <2>2. \A i \in 2..(n - 1) : calls[i].macro # calls[n].macro
      BY <1>6, <1>8 DEF FlagsInv
    <2> QED  BY <1>5, <1>6, <1>7, <2>1, <2>2
  <1>10. calls'[1].macro = NoMacro  BY <1>1, <1>4 DEF FlagsInv
  <1>11. \A i \in 2..(n - 1) : calls'[i].macro \in LineMacros  BY <1>6 DEF FlagsInv
  <1>12. \A i, j \in 2..(n - 1) : calls'[i].macro = calls'[j].macro => i = j
    BY <1>6 DEF FlagsInv
  <1>13. Len(calls') <= MaxExpansionDepth + 1  BY <1>1, <1>4 DEF FlagsInv
  <1> QED  BY <1>4, <1>5, <1>9, <1>10, <1>11, <1>12, <1>13 DEF FlagsInv

-----------------------------------------------------------------------------

LEMMA FlagsInitial == ExpansionInit => FlagsInv
  <1> SUFFICES ASSUME ExpansionInit PROVE FlagsInv  OBVIOUS
  <1> DEFINE first == ExpansionCall(NoMacro, givenLine.text)
  <1>1. calls = <<first>> /\ expanding = {} /\ lineMacros \in Tables  BY DEF ExpansionInit
  <1> HIDE DEF first
  <1>2. calls \in Seq({first}) /\ Len(calls) = 1 /\ calls[1] = first  BY <1>1
  <1>3. first.macro = NoMacro  BY DEF first, ExpansionCall
  <1>4. 2..Len(calls) = {}  BY <1>2
  <1>5. {calls[i].macro : i \in 2..Len(calls)} = {}  BY <1>4
  <1>6. IsSequence(calls)  BY <1>2 DEF IsSequence
  <1>7. calls[1].macro = NoMacro  BY <1>2, <1>3
  <1>8. Len(calls) <= MaxExpansionDepth + 1  BY <1>2, NoMacroAssumption, TablesAssumption, MaxExpansionDepthAssumption
  <1> QED  BY <1>1, <1>4, <1>5, <1>6, <1>7, <1>8 DEF FlagsInv

LEMMA FlagsStep == FlagsInv /\ [ExpansionNext]_expansionVars => FlagsInv'
  <1> SUFFICES ASSUME FlagsInv, [ExpansionNext]_expansionVars PROVE FlagsInv'  OBVIOUS
  <1>1. CASE CommentText  BY <1>1, BuiltSame DEF CommentText, Append1
  <1>2. CASE OpenComment  BY <1>2, BuiltSame DEF OpenComment, Append1
  <1>3. CASE LineComment  BY <1>3, BuiltSame DEF LineComment
  <1>4. CASE PlainToken  BY <1>4, BuiltSame DEF PlainToken, Append1
  <1>5. CASE ObjectMacro  BY <1>5, ExpandKeepsFlags DEF ObjectMacro
  <1>6. CASE FunctionMacro
    <2> DEFINE open == Innermost.index + 1
               arguments == Arguments(Innermost.text, open)
               next == Closing(Innermost.text, open) + 1
    <2>1. ReadingText /\ Expandable /\ UNCHANGED lineMacros  BY <1>6 DEF FunctionMacro
    <2>2. CASE Closings(Innermost.text, open) = {}
      <3>1. calls' = Built(<<Token>>, Len(Innermost.text) + 1) /\ UNCHANGED expanding
        BY <1>6, <2>2 DEF FunctionMacro
      <3> QED  BY <2>1, <3>1, BuiltSame
    <2>3. CASE /\ Closings(Innermost.text, open) # {}
               /\ Len(arguments) # Len(lineMacros[Token].parameters)
      <3>1. calls' = Built(<<Token>>, next) /\ UNCHANGED expanding
        BY <1>6, <2>3 DEF FunctionMacro
      <3> QED  BY <2>1, <3>1, BuiltSame
    <2>4. CASE /\ Closings(Innermost.text, open) # {}
               /\ Len(arguments) = Len(lineMacros[Token].parameters)
      <3>1. Expand(Substituted(lineMacros[Token], arguments), next)
        BY <1>6, <2>4 DEF FunctionMacro
      <3> QED  BY <2>1, <3>1, ExpandKeepsFlags
    <2> QED  BY <2>2, <2>3, <2>4
  <1>7. CASE EndCall  BY <1>7, ReturnKeepsFlags
  <1>8. CASE FinishLine
    <2>1. calls' = <<>> /\ expanding' = expanding /\ lineMacros' = lineMacros /\ Len(calls) = 1
      BY <1>8 DEF FinishLine, Done
    <2>2. expanding = {}  BY <2>1 DEF FlagsInv
    <2>3. calls' \in Seq({}) /\ Len(calls') = 0  BY <2>1
    <2> QED  BY <2>1, <2>2, <2>3, NoMacroAssumption, TablesAssumption, MaxExpansionDepthAssumption DEF FlagsInv, IsSequence
  <1>9. CASE UNCHANGED expansionVars
    <2>1. UNCHANGED <<calls, lineMacros, expanding>>  BY <1>9 DEF expansionVars
    <2> QED  BY <2>1 DEF FlagsInv
  <1> QED  BY <1>1, <1>2, <1>3, <1>4, <1>5, <1>6, <1>7, <1>8, <1>9 DEF ExpansionNext

LEMMA FlagsHold ==
    ExpansionSpec => []FlagsInv
  <1>1. ExpansionInit => FlagsInv  BY FlagsInitial
  <1> QED  BY <1>1, FlagsStep, PTL DEF ExpansionSpec

(* The flags in the macro table are exactly the macros whose text is being  *)
(* expanded, none of them twice (cc_expand_text, cc_expand_function_macro). *)
THEOREM NoMacroInItself ==
    ExpansionSpec => []FlagsAreTheCalls
  <1>1. FlagsInv => FlagsAreTheCalls
    <2> SUFFICES ASSUME FlagsInv PROVE FlagsAreTheCalls  OBVIOUS
    <2>1. Len(calls) \in Nat /\ DOMAIN calls = 1..Len(calls)
      BY SequenceFacts DEF FlagsInv
    <2>2. \A i \in 1..Len(calls) : i = 1 \/ i \in 2..Len(calls)  BY <2>1
    <2>3. \A i \in 2..Len(calls) : /\ i \in 1..Len(calls)
                                   /\ calls[i].macro # NoMacro
      BY <2>1, NoMacroAssumption, TablesAssumption, MaxExpansionDepthAssumption DEF FlagsInv
    <2>4. 1 \in DOMAIN calls => calls[1].macro = NoMacro  BY <2>1 DEF FlagsInv
    <2>5. expanding = {calls[i].macro : i \in DOMAIN calls} \ {NoMacro}
      <3>1. expanding = {calls[i].macro : i \in 2..Len(calls)}  BY DEF FlagsInv
      <3> QED  BY <3>1, <2>1, <2>2, <2>3, <2>4
    <2>6. \A i, j \in DOMAIN calls : calls[i].macro = calls[j].macro => i = j
      BY <2>1, <2>2, <2>3, <2>4 DEF FlagsInv
    <2> QED  BY <2>5, <2>6 DEF FlagsAreTheCalls
  <1> QED  BY <1>1, FlagsHold, PTL

(* Calls of cc_expand_text never nest deeper than the cap allows.           *)
THEOREM NestingIsCapped ==
    ExpansionSpec => [](Len(calls) <= MaxExpansionDepth + 1)
  <1>1. FlagsInv => Len(calls) <= MaxExpansionDepth + 1  BY DEF FlagsInv
  <1> QED  BY <1>1, FlagsHold, PTL

=============================================================================
