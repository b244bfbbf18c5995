----------------------------- MODULE Diagnostics -----------------------------
(***************************************************************************)
(* The diagnostic buffer every stage of the compiler owns: util.c, and the *)
(* identical cc_add_diagnostic of preprocessor.c, lexer.c, parser.c,       *)
(* sema.c and codegen.c.                                                   *)
(*                                                                         *)
(* The entries are kept as how many there are of each severity, because    *)
(* nothing downstream looks at their order: the driver asks whether the    *)
(* buffer is empty and how many of its entries are errors.  The allocated  *)
(* size is kept, because cc_diagnostic_buffer_can_add writes the overflow  *)
(* notice without growing the buffer.                                      *)
(***************************************************************************)
EXTENDS Integers

CONSTANTS
    Cap,          \* CC_MAX_DIAGNOSTICS
    Capacities    \* the sizes a buffer may be allocated with, see below

(* The condition the cap has to meet, which 200 does.                       *)
CapMissed == Cap \notin Capacities

Severities == {"error", "warning"}

(* The sizes in Capacities are those that doubling from the first           *)
(* allocation reaches: closed under doubling until the cap is passed.       *)
ASSUME CapAssumption == Cap \in Nat \ {0}
ASSUME CapacitiesAssumption ==
    /\ Capacities \subseteq Nat \ {0}
    /\ \A c \in Capacities : c <= Cap => 2 * c \in Capacities

Buffers == [error : Nat, warning : Nat, notice : {"none"} \union Severities,
            capacity : {0} \union Capacities]

EmptyBuffer == [error |-> 0, warning |-> 0, notice |-> "none", capacity |-> 0]

(* buffer->count: the entries recorded, the overflow notice included.       *)
Count(b) == b.error + b.warning + (IF b.notice = "none" THEN 0 ELSE 1)

(* cc_count_errors of main.c: the notice carries the severity of the        *)
(* diagnostic it replaced.                                                  *)
ErrorCount(b) == b.error + (IF b.notice = "error" THEN 1 ELSE 0)

(* What cc_diagnostic_buffer_can_add does to a buffer at or past the cap:   *)
(* the first diagnostic past it leaves the notice, in the slot at count.    *)
Suppressed(b, severity) ==
    IF Count(b) = Cap THEN [b EXCEPT !.notice = severity] ELSE b

(* Faulty: the growth test looks one slot too far.                          *)
GrownLate(b, initial) ==
    IF Count(b) <= b.capacity
    THEN b
    ELSE [b EXCEPT !.capacity = IF @ = 0 THEN initial ELSE 2 * @]

(* Doubling, from `initial` slots for the first allocation.                 *)
Grown(b, initial) ==
    IF Count(b) # b.capacity
    THEN b
    ELSE [b EXCEPT !.capacity = IF @ = 0 THEN initial ELSE 2 * @]

(* One more entry, written at count.                                        *)
Recorded(b, severity) ==
    IF severity = "error"
    THEN [b EXCEPT !.error = @ + 1]
    ELSE [b EXCEPT !.warning = @ + 1]

(* cc_add_diagnostic: the buffer after a stage reports once.                *)
Added(b, severity, initial) ==
    IF Count(b) >= Cap
    THEN Suppressed(b, severity)
    ELSE Recorded(Grown(b, initial), severity)
=============================================================================
