------------------------------- MODULE Names --------------------------------
(***************************************************************************)
(* One translation unit, construct by construct, as its names pass through *)
(* the three tables the compiler keeps them in: the parser's typedef names,*)
(* the symbol table of the semantic analysis and the emitted names of the  *)
(* code generator.                                                         *)
(*                                                                         *)
(* The three passes run one after the other over the same text.  A table   *)
(* depends only on the text before it, so the model advances the three     *)
(* together, one construct at a time.  It stops at the first construct     *)
(* that a pass refuses, because no later pass then runs; until then what   *)
(* has been read is a program all three have worked on.                    *)
(***************************************************************************)
EXTENDS LexicalScoping, FiniteSets

CONSTANTS
    Builtins,          \* the names the parser seeds its table with, in order
    FunctionTypes,
    MaxDeclarations,   \* bounds of the model: declarations of a unit ...
    MaxDepth           \* ... and open scopes

(* The names of cc_seed_typedef_table: a fixed list without repetition.     *)
ASSUME BuiltinsAssumption ==
    /\ Builtins \in Seq(Names)
    /\ \A i, j \in DOMAIN Builtins : Builtins[i] = Builtins[j] => i = j

Parser == INSTANCE TypedefTable
Sema == INSTANCE SymbolTable
Emit == INSTANCE NameBinding

VARIABLES
    typedefs,     \* CCParser: typedef_names, typedef_scope_starts
    symbols,      \* CCSemaContext: scopes
    counts,       \* CCSemaContext: function_count, global_count, typedef_count
    bindings,     \* CCCodegenContext: name_scopes, unique_name_counter
    verdict,      \* "ok", or the pass that reported an error
    scoping,      \* what C makes of the text so far
    declared,     \* declarations so far: the next one's number
    emittedAs,    \* the name each declaration was emitted under
    wellScoped,   \* the text so far keeps C's rules for names
    hides         \* it uses an ordinary identifier that hides a typedef name

reference == <<scoping, declared, wellScoped, hides>>
vars == <<typedefs, symbols, counts, bindings, verdict, emittedAs, reference>>

NotEmitted == [name |-> "", number |-> 0]

TypeNames == {"int"} \union Names

Init ==
    /\ typedefs = Parser!Seeded(Builtins)
    /\ symbols = Sema!ScopePushed(<<>>)
    /\ counts = [function |-> 0, global |-> 0, typedef |-> 0]
    /\ bindings = Emit!NoBindings
    /\ verdict = "ok"
    /\ scoping = FileScope
    /\ declared = 0
    /\ emittedAs = <<>>
    /\ wellScoped = TRUE
    /\ hides = FALSE

-----------------------------------------------------------------------------
AtFileScope == Len(scoping) = 1
InBody == Top(scoping).opener \in {"function", "block", "for"}

(* The places a declaration can stand in.                                   *)
DeclarationPlace == Top(scoping).opener \in {"file", "function", "block", "for-init"}

(* What follows the first clause of a for statement is not that clause.     *)
Settled == IF Top(scoping).opener = "for-init" THEN Continued(scoping, "for") ELSE scoping

Judged(parserTakes, semaTakes) ==
    verdict' = IF ~parserTakes THEN "parser" ELSE IF ~semaTakes THEN "sema" ELSE "ok"

-----------------------------------------------------------------------------
(* cc_parse_declaration_specifiers and cc_type_from_specifiers: `int`, or a *)
(* name the parser takes for a type name and the semantic analysis then     *)
(* looks up.                                                                *)
ParserTakesType(spec) == spec = "int" \/ Parser!NameExists(typedefs, spec)
SemaTakesType(spec) == spec = "int" \/ Sema!Lookup(symbols, spec).kind = "typedef"
IsTypeInC(spec) == spec = "int" \/ Meaning(scoping, spec).kind = "typedef"

Symbol(n, kind, type, defined) ==
    [name |-> n, kind |-> kind, type |-> type, defined |-> defined, id |-> declared + 1]

Entity(kind, type, defined) ==
    [id |-> declared + 1, kind |-> kind, type |-> type, defined |-> defined]

(* The declaration C sees: a function declared again is the same function.  *)
Redeclared(n, entity) ==
    IF Here(scoping, n) # NoDeclaration /\ MayFollow(Here(scoping, n), entity)
    THEN [entity EXCEPT !.id = Here(scoping, n).id,
                        !.defined = @ \/ Here(scoping, n).defined]
    ELSE entity

(* A local variable or parameter is bound and emitted by its bound name.    *)
EmitLocal(n) ==
    /\ bindings' = Emit!Bound(bindings, n)
    /\ emittedAs' = Append(emittedAs, Emit!Emitted(n, Emit!NumberFor(bindings, n)))

(* A global or a function is emitted as it is written, a typedef not.       *)
EmitGlobal(n) ==
    /\ emittedAs' = Append(emittedAs, Emit!Emitted(n, Emit!Bare))
    /\ UNCHANGED bindings

EmitNothing == /\ emittedAs' = Append(emittedAs, NotEmitted)
               /\ UNCHANGED bindings

(* `spec n;`, at file scope, in a block or as the first clause of a for.    *)
DeclareObject(spec, n) ==
    /\ DeclarationPlace
    /\ LET add == Sema!Added(symbols, Symbol(n, "object", "int", FALSE))
       IN  /\ Judged(ParserTakesType(spec), SemaTakesType(spec) /\ ~add.refused)
           /\ symbols' = add.scopes
           /\ counts' = [counts EXCEPT !.global = IF add.added /\ AtFileScope THEN @ + 1 ELSE @]
    /\ scoping' = Declaring(Settled, n, Entity("object", "int", FALSE))
    /\ declared' = declared + 1
    /\ wellScoped' = (wellScoped /\ IsTypeInC(spec) /\ Here(scoping, n) = NoDeclaration)
    /\ IF AtFileScope THEN EmitGlobal(n) ELSE EmitLocal(n)
    /\ UNCHANGED <<typedefs, hides>>

(* `typedef spec n;`.  A for statement declares objects only.               *)
DeclareTypedef(spec, n) ==
    /\ DeclarationPlace /\ Top(scoping).opener # "for-init"
    /\ LET add == Sema!Added(symbols, Symbol(n, "typedef", "int", TRUE))
       IN  /\ Judged(ParserTakesType(spec), SemaTakesType(spec) /\ ~add.refused)
           /\ symbols' = add.scopes
           /\ counts' = [counts EXCEPT !.typedef = IF add.added THEN @ + 1 ELSE @]
    /\ typedefs' = Parser!Recorded(typedefs, n)
    /\ scoping' = Declaring(scoping, n, Entity("typedef", "int", TRUE))
    /\ declared' = declared + 1
    /\ wellScoped' = (wellScoped /\ IsTypeInC(spec) /\ Here(scoping, n) = NoDeclaration)
    /\ EmitNothing
    /\ UNCHANGED hides

(* `int n(type);` or the head of a definition: a function is added to the   *)
(* file scope.                                                              *)
AddFunction(n, type, defined) ==
    /\ AtFileScope
    /\ LET add == Sema!Added(symbols, Symbol(n, "function", type, defined))
       IN  /\ Judged(TRUE, ~add.refused)
           /\ symbols' = IF defined THEN Sema!ScopePushed(add.scopes) ELSE add.scopes
           /\ counts' = [counts EXCEPT !.function = IF add.added THEN @ + 1 ELSE @]
    /\ LET entity == Entity("function", type, defined)
           file == Declaring(scoping, n, Redeclared(n, entity))
       IN  /\ scoping' = IF defined THEN Opened(file, "parameters") ELSE file
           /\ wellScoped' = (wellScoped /\ MayFollow(Here(scoping, n), entity))
    /\ declared' = declared + 1
    /\ emittedAs' = Append(emittedAs, Emit!Emitted(n, Emit!Bare))
    /\ bindings' = IF defined THEN Emit!ScopePushed(bindings) ELSE bindings
    /\ UNCHANGED <<typedefs, hides>>

DeclareFunction(n, type) == AddFunction(n, type, FALSE)

OpenFunction(n, type) == AddFunction(n, type, TRUE)

(* `int n` in the parameter list of a definition.                           *)
DeclareParameter(n) ==
    /\ Top(scoping).opener = "parameters"
    /\ LET add == Sema!Added(symbols, Symbol(n, "object", "int", TRUE))
       IN  /\ Judged(TRUE, ~add.refused)
           /\ symbols' = add.scopes
    /\ scoping' = Declaring(scoping, n, Entity("object", "int", TRUE))
    /\ declared' = declared + 1
    /\ wellScoped' = (wellScoped /\ Here(scoping, n) = NoDeclaration)
    /\ EmitLocal(n)
    /\ UNCHANGED <<typedefs, counts, hides>>

-----------------------------------------------------------------------------
(* The brace of a function body: only the parser opens a scope for it.      *)
OpenBody ==
    /\ Top(scoping).opener = "parameters"
    /\ scoping' = Continued(scoping, "function")
    /\ typedefs' = Parser!ScopePushed(typedefs)
    /\ UNCHANGED <<symbols, counts, bindings, verdict, declared, emittedAs, wellScoped, hides>>

OpenBlock ==
    /\ InBody \/ Top(scoping).opener = "for-init"
    /\ Len(scoping) < MaxDepth
    /\ scoping' = Opened(Settled, "block")
    /\ typedefs' = Parser!ScopePushed(typedefs)
    /\ symbols' = Sema!ScopePushed(symbols)
    /\ bindings' = Emit!ScopePushed(bindings)
    /\ UNCHANGED <<counts, verdict, declared, emittedAs, wellScoped, hides>>

(* `for (`: a scope for the analysis and the code generator, none for the   *)
(* parser.                                                                  *)
OpenFor ==
    /\ InBody \/ Top(scoping).opener = "for-init"
    /\ Len(scoping) < MaxDepth
    /\ scoping' = Opened(Settled, "for-init")
    /\ symbols' = Sema!ScopePushed(symbols)
    /\ bindings' = Emit!ScopePushed(bindings)
    /\ UNCHANGED <<typedefs, counts, verdict, declared, emittedAs, wellScoped, hides>>

(* The closing brace, or the end of the for statement.                      *)
Close ==
    /\ Top(scoping).opener \in {"function", "block", "for", "for-init"}
    /\ scoping' = Closed(scoping)
    /\ typedefs' = IF Top(scoping).opener \in {"for", "for-init"}
                   THEN typedefs ELSE Parser!ScopePopped(typedefs)
    /\ symbols' = Sema!ScopePopped(symbols)
    /\ bindings' = Emit!ScopePopped(bindings)
    /\ UNCHANGED <<counts, verdict, declared, emittedAs, wellScoped, hides>>

-----------------------------------------------------------------------------
(* A name used for its value.  First in a statement (`n = 1;`) or after a   *)
(* parenthesis (`(n)`), the parser asks its table whether a declaration or  *)
(* a cast begins there; as an operand it takes any identifier.              *)
Use(n, place) ==
    /\ InBody \/ Top(scoping).opener = "for-init"
    /\ Judged(place = "operand" \/ ~Parser!NameExists(typedefs, n),
              Sema!Lookup(symbols, n).kind \in {"object", "function"})
    /\ LET ordinary == Meaning(scoping, n).kind \in {"object", "function"}
           typeName == \/ \E i \in DOMAIN Builtins : Builtins[i] = n
                       \/ \E i \in ScopesOf(scoping, n) : scoping[i].declares[n].kind = "typedef"
       IN  /\ wellScoped' = (wellScoped /\ ordinary)
           /\ hides' = (hides \/ (place # "operand" /\ ordinary /\ typeName))
    /\ scoping' = Settled
    /\ UNCHANGED <<typedefs, symbols, counts, bindings, declared, emittedAs>>

Declare ==
    /\ declared < MaxDeclarations
    /\ \/ \E spec \in TypeNames, n \in Names :
            DeclareObject(spec, n) \/ DeclareTypedef(spec, n)
       \/ \E n \in Names, type \in FunctionTypes :
            DeclareFunction(n, type) \/ OpenFunction(n, type)
       \/ \E n \in Names : DeclareParameter(n)

Next ==
    /\ verdict = "ok"
    /\ \/ Declare
       \/ OpenBody \/ OpenBlock \/ OpenFor \/ Close
       \/ \E n \in Names, place \in {"first", "parenthesised", "operand"} : Use(n, place)

Spec == Init /\ [][Next]_vars

-----------------------------------------------------------------------------
EmittedNames == {Emit!Emitted(n, k) : n \in Names, k \in -1..MaxDeclarations}

Symbols == [name : Names, kind : {"object", "typedef", "function"},
            type : {"int"} \union FunctionTypes, defined : BOOLEAN, id : 1..MaxDeclarations]

(* The shape of the state, and how deep each pass is: the parser has a      *)
(* scope for every brace, the symbol table one for every scope of C, the    *)
(* code generator one fewer because it keeps no globals.                    *)
TypeOK ==
    /\ typedefs.names \in Seq(Names)
    /\ typedefs.starts \in Seq(Nat)
    /\ symbols \in Seq(Seq(Symbols))
    /\ counts \in [{"function", "global", "typedef"} -> 0..MaxDeclarations]
    /\ bindings.scopes \in Seq(Seq(EmittedNames))
    /\ bindings.counter \in 0..MaxDeclarations
    /\ verdict \in {"ok", "parser", "sema"}
    /\ Len(symbols) = Len(scoping)
    /\ Len(bindings.scopes) = Len(scoping) - 1
    /\ Len(typedefs.starts) =
           Cardinality({i \in DOMAIN scoping :
                            scoping[i].opener \in {"file", "function", "block"}})

(* The text breaks C's rules for names (an undeclared name, a type used as  *)
(* a value or a value as a type, two declarations of a name in one scope):  *)
(* the parser or the semantic analysis has reported it, whichever of their  *)
(* two tables was wrong about the name.                                     *)
IllScopedIsRefused == ~wellScoped => verdict # "ok"

(* A program is refused for its names only when it breaks those rules, or   *)
(* uses an identifier that hides a typedef name where a type could stand.   *)
WellScopedIsAccepted == verdict # "ok" => ~wellScoped \/ hides

OfTheFile(kind) == {n \in Names : scoping[1].declares[n].kind = kind}

(* Every name the symbol table finds is the declaration C means by it,      *)
(* whatever has been opened, closed, hidden and declared again, and the     *)
(* functions and globals that `lumi check` counts are those of the file     *)
(* scope, each once however often it is declared.                           *)
LookupIsLexical ==
    verdict = "ok" =>
        /\ \A n \in Names :
              LET found == Sema!Lookup(symbols, n)
                  meant == Meaning(scoping, n)
              IN  /\ found.kind = meant.kind /\ found.id = meant.id
                  /\ found.kind = "function" => found.defined = meant.defined
        /\ counts.function = Cardinality(OfTheFile("function"))
        /\ counts.global = Cardinality(OfTheFile("object"))

(* cc_codegen_expression for an identifier: its binding, or itself.         *)
EmittedUse(n) ==
    IF Emit!Binding(bindings, n) = {}
    THEN Emit!Emitted(n, Emit!Bare)
    ELSE Emit!LookupEmitted(bindings, n)

(* A use of a variable or function is emitted under the name its            *)
(* declaration was emitted under.                                           *)
UsesReachTheirDeclaration ==
    verdict = "ok" =>
        \A n \in Names :
            Meaning(scoping, n).kind \in {"object", "function"} =>
                EmittedUse(n) = emittedAs[Meaning(scoping, n).id]

(* Two locals that are live at once never share an emitted name: the        *)
(* intermediate code has no scopes to tell them apart.                      *)
LocalsApart ==
    verdict = "ok" =>
        \A i, k \in DOMAIN bindings.scopes :
            \A j \in DOMAIN bindings.scopes[i], l \in DOMAIN bindings.scopes[k] :
                bindings.scopes[i][j] = bindings.scopes[k][l] => i = k /\ j = l
=============================================================================
