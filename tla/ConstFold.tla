------------------------------ MODULE ConstFold ------------------------------
(***************************************************************************)
(* Constant folding (sema_const.c), which decides what a case label is     *)
(* worth, whether it is a constant at all, and which expressions the code  *)
(* generator replaces by a number.                                         *)
(*                                                                         *)
(* cc_eval_const_integer_expr walks an expression bottom up.  The model    *)
(* builds every expression in that order, on a stack of operands: each     *)
(* entry is an expression, with what the evaluator answers for it and with *)
(* what it means, computed in unbounded integers.  An answer, like a       *)
(* meaning, is a set: {v}, or {} for cc_invalid_const_value and for an     *)
(* expression whose evaluation C leaves undefined.                         *)
(***************************************************************************)
EXTENDS Integers, Sequences

CONSTANTS
    LLongMax,   \* the greatest long long
    Width,      \* bits of long long: LLongMax = 2^(Width-1) - 1
    CharMax,    \* the greatest code a char has, signed or not
    Operators,  \* the binary operators the expressions are built from
    MaxOperands \* expressions waiting for an operator

ASSUME LLongMaxAssumption == LLongMax \in Nat \ {0}

ASSUME WidthAssumption == Width \in Nat \ {0, 1} /\ LLongMax = 2^(Width - 1) - 1

ASSUME CharMaxAssumption == CharMax \in Nat /\ 2 * CharMax < LLongMax

UnaryOps == {"plus", "minus", "bang", "tilde"}

ArithmeticOps == {"+", "-", "*", "/", "%", "<<", ">>"}
BitOps        == {"&", "|", "^"}
Comparisons   == {"==", "!=", "<", "<=", ">", ">="}
BinaryOps ==
    ArithmeticOps \union BitOps \union Comparisons \union {"&&", "||", ","}

ASSUME OperatorsAssumption == Operators \subseteq BinaryOps

ASSUME MaxOperandsAssumption == MaxOperands \in Nat

-----------------------------------------------------------------------------
(* Arithmetic                                                               *)

LLongMin == -LLongMax - 1

LongLong == LLongMin .. LLongMax

(* C's division truncates towards zero; TLA+'s \div rounds down.           *)
Magnitude(a) == IF a < 0 THEN -a ELSE a

CDiv(a, b) ==
    IF (a < 0) = (b < 0)
    THEN Magnitude(a) \div Magnitude(b)
    ELSE -(Magnitude(a) \div Magnitude(b))

CRem(a, b) == a - b * CDiv(a, b)

Truth(b) == IF b THEN 1 ELSE 0

(* Two's complement.                                                        *)
AsUnsigned(v) == v % 2^Width
AsSigned(u)   == IF u > LLongMax THEN u - 2^Width ELSE u

(* The bits of a number, and the long long with the bits combined.          *)
Bit(v, i) == (v \div 2^i) % 2

BitOf(op, x, y) ==
    CASE op = "&" -> x = 1 /\ y = 1 [] op = "|" -> x = 1 \/ y = 1 [] op = "^" -> x # y

BitwiseOp(op, a, b) ==
    CHOOSE v \in LongLong : \A i \in 0 .. Width - 1 : Bit(v, i) = Truth(BitOf(op, Bit(a, i), Bit(b, i)))

Compare(op, a, b) ==
    CASE op = "==" -> a = b [] op = "!=" -> a # b
      [] op = "<"  -> a < b [] op = "<=" -> a <= b
      [] op = ">"  -> a > b [] op = ">=" -> a >= b
-----------------------------------------------------------------------------
(* The evaluator                                                            *)

(* The overflow tests.  They are signed arithmetic in C, so what they       *)
(* compute must itself be representable: the ...Terms list it.              *)
AddOverflows(a, b) == IF b > 0 THEN a > LLongMax - b ELSE a < LLongMin - b

AddTerms(a, b) == IF b > 0 THEN LLongMax - b ELSE LLongMin - b

SubOverflows(a, b) == IF b < 0 THEN a > LLongMax + b ELSE a < LLongMin + b

SubTerms(a, b) == IF b < 0 THEN LLongMax + b ELSE LLongMin + b

MulOverflows(a, b) ==
    CASE a = 0 \/ b = 0 -> FALSE
      [] a = -1         -> b = LLongMin
      [] b = -1         -> a = LLongMin
      [] OTHER          -> \/ a > CDiv(LLongMax, b)
                           \/ a < CDiv(LLongMin, b)
                           \/ CRem(a, b) # 0 /\ CDiv(a, b) < 0

(* value > LLONG_MAX >> shift, and value < LLONG_MIN >> shift.              *)
PosShiftOverflows(value, shift) == value > LLongMax \div 2^shift

NegShiftOverflows(value, shift) == value < LLongMin \div 2^shift

(* The literals: how one is spelled, the number or character code it stands *)
(* for in C, and the code of the letter in it that the evaluator looks at.  *)
(*   digits, binary  a number; binary with the prefix 0b                    *)
(*   character       a character, alone or as \n \r \t \\ \' \" and \?      *)
(*   letter          \a \b \f \v                                            *)
(*   code, zero      \x and octal escapes; octal ones whose first digit is 0 *)
(*   string          a string with an apostrophe, no integer at all          *)
Literals ==
         [form : {"digits", "binary", "code", "zero"}, value : 0 .. 2^Width, letter : {0}]
  \union [form : {"character"}, value : 0 .. 2 * CharMax + 1, letter : {0}]
  \union [form : {"letter"}, value : 0 .. CharMax, letter : 0 .. CharMax]
  \union [form : {"string"}, value : {0}, letter : 0 .. CharMax]

(* strtoll answers LLONG_MAX for a number that does not fit; the bits of a  *)
(* binary one are shifted out.  An escape without a case of its own is      *)
(* worth its letter, and a string what follows its first apostrophe.        *)
FoldLiteral(l) ==
    CASE l.form = "binary"               -> AsSigned(AsUnsigned(l.value))
      [] l.form = "zero"                 -> 0
      [] l.form \in {"letter", "string"} -> l.letter
      [] OTHER -> IF l.value > LLongMax THEN LLongMax ELSE l.value

(* The value of a negation the machine can produce: two's complement wraps. *)
FoldUnary(op, v) ==
    CASE op = "plus"  -> v
      [] op = "minus" -> AsSigned(AsUnsigned(-v))
      [] op = "bang"  -> Truth(v = 0)
      [] op = "tilde" -> -v - 1

(* The operations that are undefined in C when the evaluator performs them. *)
UnaryTrips(op, v) == op = "minus" /\ -v \notin LongLong

(* Faulty: only a zero divisor is looked for; the shift count stops short.  *)
DivisionByZero(a, b) == b = 0
ShiftRefusedEarly(b) == b < 0 \/ b >= Width - 1

DivisionRefused(a, b) == b = 0 \/ (a = LLongMin /\ b = -1)

ShiftRefused(b) == b < 0 \/ b >= Width

LeftShiftOverflows(a, b) ==
    IF a < 0 THEN NegShiftOverflows(a, b) ELSE PosShiftOverflows(a, b)

FoldBinary(op, a, b) ==
    CASE op = "+"  -> IF AddOverflows(a, b) THEN {} ELSE {a + b}
      [] op = "-"  -> IF SubOverflows(a, b) THEN {} ELSE {a - b}
      [] op = "*"  -> IF MulOverflows(a, b) THEN {} ELSE {a * b}
      [] op = "/"  -> IF DivisionRefused(a, b) THEN {} ELSE {CDiv(a, b)}
      [] op = "%"  -> IF DivisionRefused(a, b) THEN {} ELSE {CRem(a, b)}
      [] op = "<<" -> IF ShiftRefused(b) \/ LeftShiftOverflows(a, b)
                      THEN {} ELSE {AsSigned(AsUnsigned(AsUnsigned(a) * 2^b))}
      [] op = ">>" -> IF ShiftRefused(b) THEN {} ELSE {a \div 2^b}
      [] op \in BitOps      -> {BitwiseOp(op, a, b)}
      [] op \in Comparisons -> {Truth(Compare(op, a, b))}
      [] op = "&&" -> {Truth(a # 0 /\ b # 0)}
      [] op = "||" -> {Truth(a # 0 \/ b # 0)}
      [] op = ","  -> {b}
-----------------------------------------------------------------------------
(* What the expressions mean                                                *)

(* An integer is a meaning when long long holds it.                         *)
Representable(n) == {n} \intersect LongLong

MeaningUnary(op, v) == 
    CASE op = "plus"  -> {v}
      [] op = "minus" -> Representable(-v)
      [] op = "bang"  -> {Truth(v = 0)}
      [] op = "tilde" -> {-1 - v}

MeaningBinary(op, a, b) ==
    CASE op = "+"  -> Representable(a + b)
      [] op = "-"  -> Representable(a - b)
      [] op = "*"  -> Representable(a * b)
      [] op = "/"  -> {q \in LongLong : b # 0 /\ Magnitude(a - q * b) < Magnitude(b)
                                        /\ (a - q * b) * a >= 0}
      [] op = "%"  -> {r \in LongLong : /\ b # 0 /\ ~ (a = LLongMin /\ b = -1)
                                        /\ Magnitude(r) < Magnitude(b) /\ r * a >= 0
                                        /\ \E q \in LongLong : a = q * b + r}
      [] op = "<<" -> IF b \in 0 .. Width - 1 THEN Representable(a * 2^b) ELSE {}
      [] op = ">>" -> {q \in LongLong : b \in 0 .. Width - 1
                                        /\ a - q * 2^b \in 0 .. 2^b - 1}
      [] op \in BitOps      -> {BitwiseOp(op, a, b)}
      [] op \in Comparisons -> {Truth(Compare(op, a, b))}
      [] op = ","  -> {b}

MeaningLiteral(l) == IF l.form = "string" THEN {} ELSE Representable(l.value)

(* The literals whose value the conversion gets right: not numbers beyond   *)
(* long long, not \a \b \f \v, not octal escapes that begin with 0 and do   *)
(* not end there, not codes beyond what every char has (which C leaves to   *)
(* the implementation), and not strings.                                    *)
Ordinary(l) ==
    \/ l.form \in {"digits", "binary"} /\ l.value \in LongLong
    \/ l.form \in {"character", "code"} /\ l.value <= CharMax
    \/ l.form = "zero" /\ l.value = 0

(* && and || evaluate their right operand only when the left one does not   *)
(* decide.                                                                  *)
MeaningOf(op, l, r) ==
    IF op \in {"&&", "||"}
    THEN {Truth(b # 0) : b \in UNION {IF (a = 0) = (op = "&&") THEN {a} ELSE r : a \in l}}
    ELSE UNION {MeaningBinary(op, a, b) : a \in l, b \in r}
-----------------------------------------------------------------------------
(* The expressions                                                          *)

VARIABLE stack

(* answer, meaning: see above.  trips: evaluating it performs an undefined  *)
(* operation.  plain: its literals are ordinary and none of its casts       *)
(* changes the operand, of which the evaluator takes no notice.             *)
(* refused: somewhere in it a product, or an operand && and || do not need, *)
(* was given no answer.                                                     *)
Entries == [answer : SUBSET LongLong, meaning : SUBSET LongLong,
            trips : BOOLEAN, plain : BOOLEAN, refused : BOOLEAN]

(* Nothing is said of an expression that is not plain or that trips, so its *)
(* meaning need not be followed.                                            *)
Followed(e) ==
    IF e.plain /\ ~ e.trips THEN e ELSE [e EXCEPT !.meaning = {}, !.refused = FALSE]

Push(n, e) == stack' = Append(SubSeq(stack, 1, Len(stack) - n), Followed(e))

Operand(i) == stack[Len(stack) - i]

LiteralEntries ==
    {[answer |-> {FoldLiteral(l)}, meaning |-> MeaningLiteral(l),
      trips |-> FALSE, plain |-> Ordinary(l), refused |-> FALSE] : l \in Literals}

Literal == Len(stack) < MaxOperands /\ \E e \in LiteralEntries : Push(0, e)

(* An identifier, a call, a string without an apostrophe, a floating number *)
(* or anything else the evaluator makes nothing of.                         *)
NotConstant ==
    /\ Len(stack) < MaxOperands
    /\ Push(0, [answer |-> {}, meaning |-> {}, trips |-> FALSE, plain |-> TRUE,
                refused |-> FALSE])

Unary(op) ==
    /\ Len(stack) >= 1
    /\ LET x == Operand(0)
       IN  Push(1, [x EXCEPT
             !.answer  = {FoldUnary(op, v) : v \in x.answer},
             !.meaning = UNION {MeaningUnary(op, v) : v \in x.meaning},
             !.trips   = x.trips \/ \E v \in x.answer : UnaryTrips(op, v)])

(* Both operands are evaluated, whatever the operator.                      *)
Binary(op) ==
    /\ Len(stack) >= 2
    /\ LET l == Operand(1)  r == Operand(0)
           answer  == UNION {FoldBinary(op, a, b) : a \in l.answer, b \in r.answer}
           meaning == MeaningOf(op, l.meaning, r.meaning)
       IN  Push(2, [answer |-> answer, meaning |-> meaning,
                    trips |-> l.trips \/ r.trips,
                    plain |-> l.plain /\ r.plain,
                    refused |-> \/ l.refused \/ r.refused
                                \/ op \in {"*", "&&", "||"} /\ answer = {}])

(* Only the branch the condition selects is evaluated.                      *)
Conditional ==
    /\ Len(stack) >= 3
    /\ LET c == Operand(2)
           Chosen(v) == IF v # 0 THEN Operand(1) ELSE Operand(0)
           branches == {Chosen(v) : v \in c.answer}
       IN  Push(3, [answer |-> UNION {Chosen(v).answer : v \in c.answer},
                    meaning |-> UNION {Chosen(v).meaning : v \in c.meaning},
                    trips |-> c.trips \/ \E b \in branches : b.trips,
                    plain |-> c.plain /\ \A i \in {0, 1} : Operand(i).plain,
                    refused |-> c.refused \/ \E b \in branches : b.refused])

(* A cast to a type of `bits` bits.  The evaluator looks through it.        *)
Narrowed(bits, v) ==
    LET u == v % 2^bits IN IF u >= 2^(bits - 1) THEN u - 2^bits ELSE u

Cast(bits) ==
    /\ Len(stack) >= 1
    /\ LET x == Operand(0)
       IN  Push(1, [x EXCEPT
             !.meaning = {Narrowed(bits, v) : v \in x.meaning},
             !.plain   = x.plain /\ \A v \in x.meaning : Narrowed(bits, v) = v])

Init == stack = <<>>

Next ==
    \/ Literal
    \/ NotConstant
    \/ \E op \in UnaryOps : Unary(op)
    \/ \E op \in Operators : Binary(op)
    \/ Conditional
    \/ \E bits \in {1, Width} : Cast(bits)

Spec == Init /\ [][Next]_stack
-----------------------------------------------------------------------------
(* Properties                                                               *)

TypeOK == stack \in Seq(Entries) /\ Len(stack) <= MaxOperands

Expressions == {stack[i] : i \in DOMAIN stack}

(* A case label that is accepted, and a number that replaces an expression  *)
(* in the code, is the value of the expression when its literals are        *)
(* Ordinary and its casts keep their operands: whatever operators it is     *)
(* built from, an answer computed without an undefined operation is the     *)
(* meaning of the expression, so an expression that overflows, divides by   *)
(* zero or shifts too far is given none.                                    *)
AnswersAreMeanings ==
    \A e \in Expressions : e.plain /\ ~ e.trips => e.answer \subseteq e.meaning

(* The evaluator is as strong as its operators allow: a constant expression *)
(* with a meaning is refused only for a product in it that was refused, or  *)
(* for an operand of && or || that is not needed and has no answer.         *)
RefusedForAReason ==
    \A e \in Expressions :
        e.plain /\ ~ e.trips /\ ~ e.refused /\ e.meaning # {} => e.answer # {}
=============================================================================
