------------------------- MODULE MCPreprocessorTrace ------------------------
(* Groups that cross two files, for the specification with history.        *)
EXTENDS MCPreprocessor, PreprocessorTrace

\* A translation unit of four lines, the second of which includes a header of
\* two: groups that cross the files, and every line that can be reported.
CrossingMainLines ==
  {Plain, L("define", A, "zero"), L("ifdef", A, "none"), L("if", A, "value"),
   L("elif", A, "defined"), L("else", NoName, "none"), L("endif", NoName, "none")}

CrossingHeaderLines ==
  {L("text", NoName, "opens"), L("text", NoName, "closes"),
   L("null", NoName, "none"), L("unknown", NoName, "none"),
   L("pragma", NoName, "none"), L("pragma", NoName, "once"),
   L("define", NoName, "other"), L("define", A, "other"), L("undef", A, "none"),
   L("include", NoName, Missing), L("include", NoName, Malformed),
   L("include", NoName, Unloadable), L("ifndef", A, "none"),
   L("ifndef", NoName, "none"), L("elif", NoName, "one"),
   L("else", NoName, "none"), L("endif", NoName, "none")}

CrossingPrograms ==
  {Two(<<x, L("include", NoName, h), y, z>>, header) :
     header \in Texts(CrossingHeaderLines, 2), x, y, z \in CrossingMainLines}

=============================================================================
