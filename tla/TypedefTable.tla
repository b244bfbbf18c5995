---------------------------- MODULE TypedefTable ----------------------------
(***************************************************************************)
(* The parser's record of typedef names: one list of names, and for every  *)
(* open brace the length the list had there.  It is all the parser knows   *)
(* of declarations, and what tells `T * x;` the declaration from `T * x;`  *)
(* the expression.                                                         *)
(***************************************************************************)
EXTENDS Integers, Sequences, SequencesExt

NameExists(table, n) == \E i \in DOMAIN table.names : table.names[i] = n

(* A name that is known already, from whatever scope, is not recorded.      *)
Recorded(table, n) ==
    IF NameExists(table, n) THEN table ELSE [table EXCEPT !.names = Append(@, n)]

(* The names of a declaration, one after the other.                         *)
AllRecorded(table, ns) ==
    [table EXCEPT !.names =
        FoldLeft(LAMBDA known, n : IF Contains(known, n) THEN known ELSE Append(known, n), @, ns)]

ScopePushed(table) == [table EXCEPT !.starts = Append(@, Len(table.names))]

(* Faulty: the mark goes, the names stay.                                   *)
ScopePoppedKeepingNames(table) == [table EXCEPT !.starts = Front(@)]

ScopePopped(table) ==
    IF table.starts = <<>>
    THEN table
    ELSE [names  |-> SubSeq(table.names, 1, Last(table.starts)),
          starts |-> Front(table.starts)]

(* The table at the start of a translation unit: the file scope is open and *)
(* the names of the standard headers are in it, in their order.  They are   *)
(* distinct, so recording one after the other leaves the list of them.      *)
Seeded(builtins) == [names |-> builtins, starts |-> <<0>>]
=============================================================================
