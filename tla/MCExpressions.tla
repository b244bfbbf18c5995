--------------------------- MODULE MCExpressions ---------------------------
(***************************************************************************)
(* Expressions over two numbers, an array, a pointer into it and a         *)
(* structure with a structure in it, of two operators on top of each other *)
(* and more where they are few; for the analysis alone, expressions over   *)
(* names of every kind of type.  An array is a pointer to its first element *)
(* and used only where it is one.                                          *)
(***************************************************************************)
EXTENDS ExpressionMeaning

IntPointer == PointerTo(IntType)
VoidPointer == PointerTo(VoidType)
Outer == RecordOf("S")
Function == FunctionOf(IntType, <<IntType>>, FALSE)

Object(t) == [kind |-> "object", type |-> t]
Callable(t) == [kind |-> "function", type |-> t]

MCSymbols ==
    [x |-> Object(IntType), y |-> Object(IntType), a |-> Object(IntPointer), p |-> Object(IntPointer),
     v |-> Object(VoidPointer), s |-> Object(Outer), q |-> Object(PointerTo(Outer)),
     t |-> Object(RecordOf("T")), b |-> Object(BoolType), c |-> Object(Basic("char")),
     l |-> Object(LongType), r |-> Object(Basic("float")), d |-> Object(Basic("double")),
     open |-> Object(PointerTo(RecordOf("Open"))), g |-> Object(PointerTo(Function)),
     pp |-> Object(PointerTo(IntPointer)), z |-> Object(VoidType),
     k |-> Callable(FunctionOf(IntType, <<BoolType>>, FALSE)),
     f |-> Callable(Function), h |-> Callable(FunctionOf(VoidType, <<VoidPointer, IntType>>, TRUE)),
     Named |-> [kind |-> "typedef", type |-> IntType]]

MCFields == [T |-> [n |-> IntType], S |-> [n |-> IntType, t |-> RecordOf("T")]]

MCTypeNames ==
    [void |-> VoidType, bool |-> BoolType, char |-> Basic("char"), int |-> IntType, long |-> LongType,
     double |-> Basic("double"), IntPointer |-> IntPointer, VoidPointer |-> VoidPointer, S |-> Outer,
     TPointer |-> PointerTo(RecordOf("T")), Open |-> RecordOf("Open")]

(* The types of all of these, and what those are made of.                   *)
MadeOf(ts) ==
    ts \union UNION {{t.base[i] : i \in DOMAIN t.base} : t \in ts}
    \union UNION {{t.parameters[i] : i \in DOMAIN t.parameters} : t \in ts}

MCDeclared ==
    MadeOf(MadeOf(MadeOf(
        {MCSymbols[name].type : name \in DOMAIN MCSymbols}
        \union UNION {{MCFields[tag][name] : name \in DOMAIN MCFields[tag]} : tag \in DOMAIN MCFields}
        \union {MCTypeNames[text] : text \in DOMAIN MCTypeNames})))

MCMemory ==
    (<<"x">> :> Number(0)) @@ (<<"y">> :> Number(1)) @@ (<<"log">> :> Number(0))
    @@ (<<"cells", 0>> :> Number(4)) @@ (<<"cells", 1>> :> Number(5)) @@ (<<"cells", 2>> :> Number(6))
    @@ (<<"a">> :> Pointer(<<"cells", 0>>)) @@ (<<"p">> :> Pointer(<<"cells", 1>>))
    @@ (<<"v">> :> Pointer(<<"x">>)) @@ (<<"s", "n">> :> Number(7)) @@ (<<"s", "t", "n">> :> Number(8)) @@ (<<"q">> :> Pointer(<<"s">>))

Id(name) == Node("identifier", name, <<>>)
Unaries(ops, es) == {Node("unary", op, <<e>>) : op \in ops, e \in es}
Binaries(ops, ls, rs) == {Node("binary", op, <<l, r>>) : op \in ops, l \in ls, r \in rs}
Subscripts(bases, indexes) == {Node("subscript", "", <<b, i>>) : b \in bases, i \in indexes}
Members(how, bases, name) == {Node("member", how, <<b, Id(name)>>) : b \in bases}
CallsOf(callees, es) == {Node("call", "", <<callee, e>>) : callee \in callees, e \in es}
Calls(es) == CallsOf({Id("f")}, es)
TypeName(text) == Node("type", text, <<>>)
Casts(texts, es) == {Node("cast", "", <<TypeName(text), e>>) : text \in texts, e \in es}
Uses(how, texts, es) == {Node("use", how, <<TypeName(text), e>>) : text \in texts, e \in es}
Conditionals(tests, ones, others) ==
    {Node("conditional", "", <<t, a, b>>) : t \in tests, a \in ones, b \in others}

X == {Id("x")}
Y == {Id("y")}
One == {Literal(1)}

-----------------------------------------------------------------------------
(* Effects one after another and inside each other.                         *)
Effects0 == X \union One
Effects(es) ==
    es \union Unaries({"post++", "decrement"}, X) \union Binaries({"=", "-="}, X \union Y, es)
    \union Binaries({"+", ","}, es, es) \union Calls(es)

Logic(es) ==
    Unaries({"bang"}, es) \union Binaries({"&&", "||", "=="}, es, es)
    \union Conditionals(es, X \union Unaries({"post++"}, X), Y \union Binaries({"="}, X, Y))

Logic1 == X \union One \union Unaries({"post++"}, X) \union Logic(X \union Y) \union Binaries({"="}, X, Y)

(* Places through pointers and subscripts, whose parts have effects.        *)
Indexes == X \union One \union Unaries({"post++"}, X) \union Binaries({"="}, Y, One)

A == {Id("a")}
P == {Id("p")}
Pointers0 == P \union Unaries({"post++", "increment"}, P) \union Binaries({"+", "="}, P, One \union A)
Pointers1 ==
    {e \in Pointers0 : e.text # "=" \/ e.kids[2] \in A} \ Binaries({"+"}, P, A)
Pointers ==
    Pointers1 \union Unaries({"ampersand"}, X \union Subscripts(A, Indexes) \union Unaries({"star"}, Pointers1))

Places == Unaries({"star"}, Pointers) \union Subscripts(P \union A, Indexes)

UsesOf(places) ==
    places \union Unaries({"post++", "decrement"}, places)
    \union Binaries({"=", "+="}, places, X \union One \union Unaries({"post--"}, Y))
    \union Binaries({"+", ","}, places, places)

(* Members, directly, of members, and through pointers.                     *)
S == {Id("s")}
Q == {Id("q")}
Records == S \union Unaries({"star"}, Q)
Inner == Members(".", Records, "t") \union Members("->", Q \union Unaries({"ampersand"}, S), "t")
MembersOf == Members(".", Records \union Inner, "n") \union Members("->", Q, "n")

(* Operands that are not evaluated, and types that are changed.             *)
SizesOf == Unaries({"kw_sizeof"}, Indexes \union {TypeName("int")})
Converted ==
    Unaries({"star"}, Casts({"IntPointer"}, Binaries({"="}, {Id("v")}, Pointers1 \union {Id("v")})))
    \union Casts({"int", "void"}, Indexes) \union Casts({"VoidPointer"}, Q \union Pointers1)
    \union Conditionals(X, P, {Id("v")}) \union Conditionals(X, {Id("v")}, P) \union Conditionals(X, S, S)

MCExpressions ==
    Effects(Effects(Effects0))
    \union Logic(Logic1) \union Binaries({","}, Logic(X), Logic1)
    \union UsesOf(Places)
    \union UsesOf(MembersOf) \union UsesOf(Unaries({"star"}, Unaries({"ampersand"}, MembersOf)))
    \union SizesOf \union Converted

-----------------------------------------------------------------------------
(* Every operator on names of every kind, and every operator on every kind  *)
(* of result of those.                                                      *)
AnyName == {Id(n) : n \in (DOMAIN MCSymbols \ {"k", "z"}) \union {"undeclared"}}
Few == {Id("x"), Id("d"), Id("p"), Id("v"), Id("s")}

UnaryOps == {"ampersand", "star", "bang", "tilde", "minus", "increment", "post--", "kw_sizeof"}
BinaryOps == {"=", "+=", "*=", "%=", "+", "-", "*", "%", "<<", "==", "<", "&&", ","}
FewOps == {"=", "+=", "+", "%", "<", "&&", ","}
Texts == DOMAIN MCTypeNames

Two(ops, es, others) ==
    Binaries(ops, es, others) \union Subscripts(es, others) \union CallsOf(es, others)

On(es, others) ==
    Unaries(UnaryOps, es) \union Casts(Texts, es)
    \union UNION {Members(how, es, n) : how \in {".", "->"}, n \in {"n", "t", "missing"}}
    \union {Node("call", "", <<callee, e, o>>) : callee \in {Id("f"), Id("h")}, e \in es, o \in others}

Simple == On(AnyName, AnyName) \union Two(BinaryOps, AnyName, AnyName \union One)

(* One of each kind of result: objects, functions and voids behind pointers *)
(* and in structures, values of every type, and what has been reported.     *)
Results ==
    Unaries({"star"}, {Id(n) : n \in {"p", "v", "q", "open", "g", "f", "pp", "x"}})
    \union Unaries({"ampersand"}, {Id(n) : n \in {"x", "p", "s", "d", "f"}})
    \union Unaries({"bang"}, {Id("x"), Id("s")}) \union Unaries({"tilde", "post--"}, {Id("c")})
    \union Unaries({"kw_sizeof"}, {Id("x"), TypeName("int")})
    \union Binaries({"+", "<<", ","}, {Id("x")}, {Id("c"), Id("l"), Id("r"), Id("d"), Id("p"), Id("s")})
    \union Binaries({"=", "=="}, {Id("p"), Id("d"), Id("s")}, {Id("v"), Id("c"), Id("s")})
    \union Members(".", S, "n") \union Members(".", S, "t") \union Members("->", Q, "t")
    \union Members(".", {Node("binary", ",", <<Id("x"), Id("s")>>)}, "t")
    \union CallsOf({Id("f"), Id("g"), Id("x")}, {Id("x"), Id("p")})
    \union {Node("call", "", <<Id("h"), Id("v"), Id("x")>>), Node("binary", ",", <<Id("x"), Id("f")>>)}
    \union Casts(Texts, {Id("x"), Id("v")}) \union Subscripts({Id("p"), Id("v"), Id("q")}, X)

MCAnalysed ==
    Simple \union On(Results, Few) \union Two(FewOps, Results, Few) \union Two(FewOps, Few, Results)
    \union Conditionals({Id("x"), Id("s")}, AnyName, AnyName)
    \union Binaries({"="}, Unaries({"star"}, AnyName), Unaries({"star"}, AnyName))
    \union Conditionals({Id("c")}, Results, Few)
    \union Conditionals(Results, {Id("c")}, {Id("x")})
    \union Uses("condition", {"int"}, Results) \union Uses("selector", {"int"}, Results)
    \union Uses("returned", Texts, Results)
    \union Uses("initializer", Texts, AnyName \union One)
    \union CallsOf({Id("k")}, AnyName) \union Unaries({"ampersand", "star"}, {Id("k"), Id("z")})

=============================================================================
