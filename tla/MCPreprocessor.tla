--------------------------- MODULE MCPreprocessor ---------------------------
(* Programs of a translation unit m and a header h, which may include      *)
(* themselves and each other.                                              *)
EXTENDS Preprocessor

CONSTANTS m, h, A

L(op, name, arg) == [op |-> op, name |-> name, arg |-> arg]

\* Every sequence of exactly n lines over an alphabet.
Texts(alphabet, n) == [1 .. n -> alphabet]

Plain == L("text", NoName, "plain")

\* The program whose translation unit is main and whose header is header.
Two(main, header) == [f \in {m, h} |-> IF f = m THEN main ELSE header]

\* A translation unit of two lines and a header of four that may guard
\* itself, mark itself, or include itself or the translation unit.
MainLines ==
  {Plain, L("include", NoName, h), L("include", NoName, m),
   L("ifdef", A, "none")}

HeaderLines ==
  {Plain, L("pragma", NoName, "once"), L("include", NoName, h),
   L("include", NoName, m), L("ifndef", A, "none"), L("define", A, "other"),
   L("else", NoName, "none"), L("endif", NoName, "none")}

\* Headers of four lines, and some that begin with a line without effect.
Headers ==
  Texts(HeaderLines, 4) \cup
    {<<idle, x, y, Plain>> :
       idle \in {L("null", NoName, "none"), L("unknown", NoName, "none")},
       x, y \in HeaderLines}

IncludePrograms ==
  {Two(main, header) : header \in Headers, main \in Texts(MainLines, 2)}

=============================================================================
