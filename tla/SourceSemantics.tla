--------------------------- MODULE SourceSemantics ---------------------------
(***************************************************************************)
(* What a function body does, as C defines it: which expression is         *)
(* evaluated next, given the values of those before it, until the function *)
(* returns, reaches its end, or runs for ever without evaluating anything. *)
(* It knows nothing of the code the compiler produces for the body.        *)
(***************************************************************************)
EXTENDS Statements

LOCAL INSTANCE SequencesExt

CONSTANT Values     \* of expressions: strings, "0" is false

VARIABLES
    program,    \* the body, a statement tree
    position    \* where its execution is

Evaluating(path) == [where |-> "evaluating", path |-> path]
Entering(path)   == [where |-> "entering", path |-> path]
Leaving(path)    == [where |-> "leaving", path |-> path]
Returned         == [where |-> "returned", path |-> <<>>]
Ended            == [where |-> "ended", path |-> <<>>]
Diverged         == [where |-> "diverged", path |-> <<>>]

Parent(path) == Front(path)

RECURSIVE PlacesIn(_)
PlacesIn(tree) ==
    {<<>>} \union
    UNION {{<<i>> \o p : p \in PlacesIn(tree.kids[i])} : i \in DOMAIN tree.kids}

Kind(path) == At(program, path).kind
Kids(path) == At(program, path).kids

Loops == {"while", "do", "for"}

(* The innermost statement of one of the given kinds around a place.        *)
RECURSIVE Around(_, _)
Around(kinds, path) ==
    IF Kind(Parent(path)) \in kinds THEN Parent(path) ELSE Around(kinds, Parent(path))

(* The parts of a for statement, by the part they play.                     *)
HasPart(for, part) == \E i \in DOMAIN Kids(for) : Kids(for)[i].arg = part

Part(for, part) ==
    Child(for, CHOOSE i \in DOMAIN Kids(for) : Kids(for)[i].arg = part)

Body(loop) ==
    Child(loop, CASE Kind(loop) = "while" -> 2
                  [] Kind(loop) = "do"    -> 1
                  [] Kind(loop) = "for"   -> Len(Kids(loop)))

Test(loop) ==
    CASE Kind(loop) = "while" -> Evaluating(Child(loop, 1))
      [] Kind(loop) = "do"    -> Evaluating(Child(loop, 2))
      [] Kind(loop) = "for"   -> IF HasPart(loop, "condition")
                                 THEN Evaluating(Part(loop, "condition"))
                                 ELSE Entering(Body(loop))

(* The end of a loop's body, and what continue does.                        *)
NextRound(loop) ==
    IF Kind(loop) = "for" /\ HasPart(loop, "iteration")
    THEN Evaluating(Part(loop, "iteration"))
    ELSE Test(loop)

(* The labels of a switch are those no inner switch encloses.               *)
Labels(switch, kind) ==
    {p \in PlacesIn(program) :
        /\ Len(p) > Len(switch) /\ SubSeq(p, 1, Len(switch)) = switch
        /\ Kind(p) = kind
        /\ Around({"switch"}, p) = switch}

Selected(switch, v) ==
    LET matching == {p \in Labels(switch, "case") : At(program, p).arg = v}
        chosen   == IF matching # {} THEN matching ELSE Labels(switch, "default")
    IN  IF chosen = {} THEN Leaving(switch) ELSE Entering(CHOOSE p \in chosen : TRUE)

LabelPlace(name) ==
    CHOOSE p \in PlacesIn(program) : Kind(p) = "label" /\ At(program, p).arg = name

(* A place that is entered.                                                 *)
Enter(path) ==
    LET kind == Kind(path)
    IN  CASE kind = "compound" -> IF Kids(path) = <<>> THEN Leaving(path)
                                  ELSE Entering(Child(path, 1))
          [] kind \in {"if", "switch", "expression"} -> Evaluating(Child(path, 1))
          [] kind = "while"    -> Test(path)
          [] kind = "do"       -> Entering(Body(path))
          [] kind \in {"for", "case", "default", "label"} -> Entering(Child(path, 1))
          [] kind = "goto"     -> Entering(LabelPlace(At(program, path).arg))
          [] kind = "break"    -> Leaving(Around(Loops \union {"switch"}, path))
          [] kind = "continue" -> NextRound(Around(Loops, path))
          [] kind = "return"   -> IF Kids(path) = <<>> THEN Returned
                                  ELSE Evaluating(Child(path, 1))
          [] kind = "empty"    -> Leaving(path)

(* A statement that is done, as its parent goes on.                         *)
Leave(path) ==
    IF path = <<>> THEN Ended
    ELSE LET parent == Parent(path)
             kind   == Kind(parent)
         IN  CASE kind = "compound" /\ Last(path) < Len(Kids(parent)) ->
                      Entering(Child(parent, Last(path) + 1))
               [] kind = "for" /\ Last(path) = 1 /\ Body(parent) # path -> Test(parent)
               [] kind \in Loops /\ Body(parent) = path -> NextRound(parent)
               [] OTHER -> Leaving(parent)

(* An expression that has the value v.                                      *)
Resume(path, v) ==
    LET parent == Parent(path)
        kind   == Kind(parent)
        part   == At(program, path).arg
    IN  CASE kind = "if" ->
                 IF v # "0" THEN Entering(Child(parent, 2))
                 ELSE IF Len(Kids(parent)) > 2 THEN Entering(Child(parent, 3))
                 ELSE Leaving(parent)
          [] kind = "for" /\ part = "iteration" -> Test(parent)
          [] kind \in Loops /\ part # "iteration" ->
                 IF v # "0" THEN Entering(Body(parent)) ELSE Leaving(parent)
          [] kind = "switch"     -> Selected(parent, v)
          [] kind = "return"     -> Returned
          [] kind = "expression" -> Leaving(parent)

(* Execution goes on by itself from one evaluation to the next.             *)
RECURSIVE Settled(_, _)
Settled(p, seen) ==
    CASE p \in seen -> Diverged
      [] p.where = "entering" -> Settled(Enter(p.path), seen \union {p})
      [] p.where = "leaving"  -> Settled(Leave(p.path), seen \union {p})
      [] OTHER -> p

Init == position = Settled(Entering(<<>>), {})

Evaluate(v) ==
    /\ position.where = "evaluating"
    /\ position' = Settled(Resume(position.path, v), {})
    /\ UNCHANGED program

Next == \E v \in Values : Evaluate(v)

Spec == Init /\ [][Next]_<<program, position>>
=============================================================================
