------------------------- MODULE PreprocessorTrace --------------------------
(***************************************************************************)
(* Preprocessor with a history of the lines it has handled, and the        *)
(* refinement of ConditionalInclusion by it.                               *)
(***************************************************************************)
EXTENDS Preprocessor, FiniteSets

VARIABLES
  consumed,  \* the lines handled so far, across all files
  activity,  \* for each, what cc_current_block_active said when it began
  emitted    \* for each output line, the position in consumed it comes from

history == <<consumed, activity, emitted>>

TraceInit == Init /\ consumed = <<>> /\ activity = <<>> /\ emitted = <<>>

\* A handled line joins the history; entering and leaving files does not.
TraceNext ==
  \/ /\ HandleLine
     /\ consumed' = Append(consumed, Current)
     /\ activity' = Append(activity, Active)
     /\ emitted' = IF Len(output') > Len(output)
                   THEN Append(emitted, Len(consumed) + 1) ELSE emitted
  \/ (Start \/ Return \/ Finish) /\ UNCHANGED history

TraceSpec == TraceInit /\ [][TraceNext]_<<vars, history>>

-----------------------------------------------------------------------------

Reference == INSTANCE ConditionalInclusion
               WITH lines <- consumed, included <- activity, text <- emitted

\* The frame stack, consulted only at its top and shared by all files,
\* includes exactly the lines the reference includes, also where groups
\* cross files, branches repeat and closings are missing.
ImplementsConditionalInclusion == Reference!Spec

\* A preprocessing that ends without diagnostics has read a balanced input:
\* as many closings as openings, and never more closings than openings so
\* far; with every branch directive inside a group.
CleanRunIsBalanced ==
  LET count(ops, k) == Cardinality({i \in 1 .. k : consumed[i].op \in ops})
      depth(k) == count({"if", "ifdef", "ifndef"}, k) - count({"endif"}, k)
  IN  phase = "finished" /\ diagnostics = <<>> =>
        /\ depth(Len(consumed)) = 0
        /\ \A k \in 1 .. Len(consumed) :
             /\ depth(k) >= 0
             /\ consumed[k].op \in {"elif", "else"} => depth(k) > 0

\* At most one branch of a group is ever active: if two lines inside a group
\* were included, whatever else was read between them and from whichever
\* files, then no #elif or #else of the group stands between them.
BranchOnce ==
  \A k \in DOMAIN consumed : activity[k] =>
    \A i \in Reference!GroupsBehind(k - 1) : \A j \in i + 1 .. k - 1 :
      activity[j] => Reference!BranchesOf(i, k - 1) \cap (j .. k - 1) = {}

\* The directives obeyed, and complained of, in excluded branches as well.
Conditional == {"if", "ifdef", "ifndef", "elif", "else", "endif"}

\* Excluded lines do nothing: text, macros, pragma marks and the comment flag
\* stay, and no file is entered.  Only directives of groups change the frames
\* there and, but for the complaint of an open group at the end of the input,
\* the diagnostics.
OnlyIncludedLinesAct ==
  [][~Reference!NextIsIncluded =>
       /\ UNCHANGED <<macros, pragmaOnce, inComment, output>>
       /\ Len(stack') <= Len(stack)
       /\ AtLine(Conditional) \/ UNCHANGED conditionals
       /\ AtLine(Conditional) \/ phase' = "finished" \/ UNCHANGED diagnostics]_<<vars, history>>

=============================================================================
