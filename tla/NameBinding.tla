---------------------------- MODULE NameBinding -----------------------------
(***************************************************************************)
(* The names the code generator gives to local variables.  The             *)
(* intermediate code has no scopes, so a local that hides another one is   *)
(* renamed: x becomes x.0, where the number is counted over the whole      *)
(* translation unit.  An emitted name is its source name and that number,  *)
(* or Bare; a source name has no dot, so this tells apart what the text    *)
(* tells apart.                                                            *)
(***************************************************************************)
EXTENDS Integers, Sequences

Bare == -1

Emitted(n, number) == [name |-> n, number |-> number]

NoBindings == [scopes |-> <<>>, counter |-> 0]

(* The scopes that bind a source name.                                      *)
Binding(bindings, n) ==
    {i \in DOMAIN bindings.scopes :
        \E j \in DOMAIN bindings.scopes[i] : bindings.scopes[i][j].name = n}

(* Faulty: the search starts from the outermost scope.                      *)
LookupFromOutside(bindings, n) ==
    LET outer == bindings.scopes[CHOOSE i \in Binding(bindings, n) :
                                     \A k \in Binding(bindings, n) : i <= k]
    IN  outer[CHOOSE j \in DOMAIN outer : outer[j].name = n]

(* cc_lookup_emitted_name: the first binding of the innermost scope with    *)
(* one.                                                                     *)
LookupEmitted(bindings, n) ==
    LET inner == bindings.scopes[CHOOSE i \in Binding(bindings, n) :
                                     \A k \in Binding(bindings, n) : k <= i]
    IN  inner[CHOOSE j \in DOMAIN inner :
                  /\ inner[j].name = n
                  /\ \A k \in DOMAIN inner : inner[k].name = n => j <= k]

(* Faulty: only the innermost scope is searched for the name.               *)
NumberIfHereAlready(bindings, n) ==
    IF Len(bindings.scopes) \in Binding(bindings, n) THEN bindings.counter ELSE Bare

(* The number a new local gets: none, unless its name is bound already.     *)
NumberFor(bindings, n) ==
    IF Binding(bindings, n) = {} THEN Bare ELSE bindings.counter

(* cc_bind_local_name, in an open scope.                                    *)
Bound(bindings, n) ==
    [scopes  |-> [bindings.scopes EXCEPT
                    ![Len(bindings.scopes)] = Append(@, Emitted(n, NumberFor(bindings, n)))],
     counter |-> bindings.counter + (IF NumberFor(bindings, n) = Bare THEN 0 ELSE 1)]

ScopePushed(bindings) ==
    [scopes |-> Append(bindings.scopes, <<>>), counter |-> bindings.counter]

ScopePopped(bindings) ==
    IF bindings.scopes = <<>>
    THEN bindings
    ELSE [bindings EXCEPT !.scopes = SubSeq(@, 1, Len(@) - 1)]
=============================================================================
