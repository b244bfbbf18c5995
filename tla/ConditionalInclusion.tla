------------------------ MODULE ConditionalInclusion ------------------------
(***************************************************************************)
(* What conditional inclusion promises, with no stack: the lines a         *)
(* translation reads, in the order it reads them and with the files'       *)
(* boundaries forgotten, and for each whether it is included.  A line is   *)
(* included when every group open around it is in the first of its         *)
(* branches whose condition holds.  Groups are found by counting openings  *)
(* and closings, conditions are evaluated with the definitions included so *)
(* far.  This is the reference that the frames and flags of preprocessor.c *)
(* (module Preprocessor) are shown to implement.                           *)
(***************************************************************************)
EXTENDS Integers, Sequences, FiniteSets

CONSTANTS Line, MacroNames, NoName

VARIABLES
  lines,     \* the lines read so far
  included,  \* for each of them, whether it is included
  text       \* positions, in lines, of the text lines emitted

Opening == {"if", "ifdef", "ifndef"}
Branch  == {"elif", "else"}

Count(ops, from, to) ==
  Cardinality({i \in from .. to : lines[i].op \in ops})

\* The group opened at i is still open behind position j.
OpenBehind(i, j) ==
  /\ lines[i].op \in Opening
  /\ \A k \in i + 1 .. j :
       Count({"endif"}, i + 1, k) <= Count(Opening, i + 1, k)

\* The groups open behind position j, and the innermost of them.
GroupsBehind(j) == {i \in 1 .. j : OpenBehind(i, j)}

InnermostBehind(j) == CHOOSE i \in GroupsBehind(j) : \A k \in GroupsBehind(j) : k <= i

\* The positions where the branches of group i begin, up to position j.
BranchesOf(i, j) ==
  {i} \cup {k \in i + 1 .. j : /\ lines[k].op \in Branch
                               /\ GroupsBehind(k - 1) # {}
                               /\ InnermostBehind(k - 1) = i}

\* The replacement of a macro at position k: the last included definition.
DefinitionsBefore(name, k) ==
  {d \in 1 .. k - 1 : /\ lines[d].op \in {"define", "undef"}
                      /\ lines[d].name = name
                      /\ included[d]}

MacroAt(name, k) ==
  LET D == DefinitionsBefore(name, k)
      d == CHOOSE x \in D : \A y \in D : y <= x
  IN  IF D = {} \/ lines[d].op = "undef" THEN "undefined" ELSE lines[d].arg

\* The condition of the branch beginning at position k.
Holds(k) ==
  LET line    == lines[k]
      defined == line.name \in MacroNames /\ MacroAt(line.name, k) # "undefined"
  IN  CASE line.op = "else"   -> TRUE
        [] line.op = "ifdef"  -> defined
        [] line.op = "ifndef" -> line.name # NoName /\ ~defined
        [] OTHER              -> \/ line.arg = "one"
                                 \/ line.arg = "defined" /\ defined
                                 \/ line.arg = "value" /\ MacroAt(line.name, k) = "other"

\* Behind position j, group i is in the first of its branches that holds.
InChosenBranch(i, j) ==
  LET B       == BranchesOf(i, j)
      current == CHOOSE k \in B : \A b \in B : b <= k
  IN  Holds(current) /\ \A b \in B \ {current} : ~Holds(b)

\* The line that follows the lines read so far is included.
NextIsIncluded ==
  \A i \in GroupsBehind(Len(lines)) : InChosenBranch(i, Len(lines))

Init == lines = <<>> /\ included = <<>> /\ text = <<>>

\* Reading a line decides, once and for all, whether it is included.
Read(line) ==
  /\ lines' = Append(lines, line)
  /\ included' = Append(included, NextIsIncluded)
  /\ text' = IF line.op = "text" /\ NextIsIncluded
             THEN Append(text, Len(lines) + 1) ELSE text

Next == \E line \in Line : Read(line)

Spec == Init /\ [][Next]_<<lines, included, text>>

=============================================================================
