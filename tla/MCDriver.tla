------------------------------ MODULE MCDriver ------------------------------
(***************************************************************************)
(* Command lines for the driver: every sequence of at most MaxArguments    *)
(* over a few words, each kind of option, command and path among them.     *)
(***************************************************************************)
EXTENDS Driver, SequencesExt

CONSTANTS MaxArguments, Words

MCCommandLines == BoundedSeq(Words, MaxArguments)

(* Doubling from 8 passes 200 at 256, and so does doubling from 16.         *)
MCCapacities == {8, 16, 32, 64, 128, 256}

MCInitialSlots == [s \in Stages |-> IF s = "lex" THEN 16 ELSE 8]

(* What CC_MAX_DIAGNOSTICS has to satisfy, and 200 does.                    *)
ASSUME CapMissed
=============================================================================
