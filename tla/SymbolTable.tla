---------------------------- MODULE SymbolTable -----------------------------
(***************************************************************************)
(* The scope stack of sema.c: a list of symbols for every open scope.      *)
(***************************************************************************)
EXTENDS Integers, Sequences, SequencesExt, FiniteSetsExt

NoSymbol == [name |-> "", kind |-> "none", type |-> "none", defined |-> FALSE, id |-> 0]

PositionsOf(scope, n) == {i \in DOMAIN scope : scope[i].name = n}

ScopesWith(scopes, n) == {i \in DOMAIN scopes : PositionsOf(scopes[i], n) # {}}

FoundIn(scope, n) == scope[Min(PositionsOf(scope, n))]

(* Faulty: the search starts from the outermost scope.                      *)
LookupFromOutside(scopes, n) ==
    LET holding == ScopesWith(scopes, n)
    IN  IF holding = {} THEN NoSymbol ELSE FoundIn(scopes[Min(holding)], n)

(* cc_lookup_symbol: from the innermost scope out.                          *)
Lookup(scopes, n) ==
    LET holding == ScopesWith(scopes, n)
    IN  IF holding = {} THEN NoSymbol ELSE FoundIn(scopes[Max(holding)], n)

(* Faulty: any two declarations of one kind will do.                        *)
AgreesInKind(existing, new) == existing.kind = new.kind

(* A second declaration of a name in one scope that is not an error.        *)
Agrees(existing, new) ==
    /\ existing.kind = new.kind
    /\ new.kind = "function"
    /\ existing.type = new.type
    /\ ~(new.defined /\ existing.defined)

(* cc_add_symbol_to_current_scope: what it leaves, whether it added the     *)
(* symbol, and whether it reported an error.                                *)
Added(scopes, new) ==
    LET here == Len(scopes)
        same == PositionsOf(scopes[here], new.name)
    IN  IF same = {}
        THEN [scopes  |-> [scopes EXCEPT ![here] = Append(@, new)],
              added   |-> TRUE,
              refused |-> FALSE]
        ELSE LET agrees == Agrees(scopes[here][Min(same)], new)
             IN  [scopes  |-> IF agrees /\ new.defined
                              THEN [scopes EXCEPT ![here][Min(same)].defined = TRUE]
                              ELSE scopes,
                  added   |-> FALSE,
                  refused |-> ~agrees]

ScopePushed(scopes) == Append(scopes, <<>>)

ScopePopped(scopes) == IF scopes = <<>> THEN scopes ELSE Front(scopes)
=============================================================================
