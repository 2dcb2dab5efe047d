------------------------------ MODULE MCMacros ------------------------------
(***************************************************************************)
(* Three overloads of h, for a variable, a map and an expression, and one  *)
(* macro f of two statements and a value, in probes that call one with a   *)
(* variable, a literal, a map, a block or a call of the other.             *)
(***************************************************************************)
EXTENDS Macros

OneLit == MNode("lit", <<"1">>, <<>>)
T == VarNode(<<"t">>)
A == VarNode(<<"a">>)
X == MNode("ident", <<"x">>, <<>>)
M == MNode("map", <<"m">>, <<>>)
Assign(v, e) == MNode("assign", <<>>, <<v, e>>)
LetVar(v) == MNode("decl", <<>>, <<v>>)
MCall(name, arg, at) == [MNode("call", <<name>>, <<arg>>) EXCEPT !.site = at]
Macro(name, param, block) == [name |-> <<name>>, params |-> <<param>>, block |-> block]

\* The more exact definition comes first: the other order is refused.
Overloads ==
    <<Macro("h", A, MBlock(<<Assign(A, OneLit), Assign(T, A)>>, T)),
      Macro("h", M, MBlock(<<>>, M)),
      Macro("h", X, MBlock(<<Assign(LetVar(T), X), X>>, T))>>

(* A variable of a macro is assigned to before it is used: it is renamed   *)
(* from there on, and until then it is the caller's.                       *)
RECURSIVE Occurs(_)
Occurs(n) ==
    IF n.k = "var" THEN {n.name} ELSE UNION {Occurs(n.kids[i]) : i \in DOMAIN n.kids}
DefinesFirst(stmts) ==
    \A i \in DOMAIN stmts :
        Occurs(stmts[i]) # {} => \E j \in 1 .. i : stmts[j].k \in {"assign", "decl"}

Statements(at) ==
    {Assign(T, OneLit), Assign(T, X), Assign(LetVar(T), X), LetVar(T), X, T,
     MCall("h", X, at), MCall("h", T, at), Assign(T, MCall("h", T, at)), MCall("f", X, at)}
Fs == {Macro("f", X, MBlock(<<p, q>>, v)) :
        p \in Statements(11), q \in Statements(12), v \in {T, X}}
DefinedFs == {f \in Fs : DefinesFirst(f.block.kids)}
AllDefinitions ==
    {Overloads \o <<f>> : f \in DefinedFs} \cup {<<f>> \o Reverse(Overloads) : f \in DefinedFs}

\* The variables of a probe are its own.
RECURSIVE Own(_)
Own(n) ==
    IF n.k = "var" THEN [n EXCEPT !.own = <<<<>>, n.name>>]
    ELSE [n EXCEPT !.kids = [i \in DOMAIN @ |-> Own(@[i])]]

BlockArg == MBlock(<<Assign(T, OneLit)>>, T)
Args == {OneLit, T, BlockArg, M, MCall("h", T, 2), MCall("h", OneLit, 2)}
Uses ==
    {MCall("f", a, 1) : a \in Args} \cup {MCall("h", M, 1)}
    \cup {MCall("h", MCall("f", a, 2), 1) : a \in {OneLit, T, BlockArg}}
AllProbes ==
    {Own(MBlock(<<p, q, r>>, MNode("none", <<>>, <<>>))) :
        p \in {Assign(T, OneLit), OneLit}, q \in Uses \cup {Assign(T, u) : u \in Uses}, r \in {OneLit, T}}

\* A macro in its own argument: both have the names of depth one.
NestedProbes ==
    {Own(MBlock(<<MCall("f", MCall("f", OneLit, 2), 1)>>, MNode("none", <<>>, <<>>)))}
NestedDefinitions == {<<Macro("f", X, MBlock(<<Assign(T, OneLit), X>>, T))>>}

NoMacros ==
    /\ program = [macros |-> <<>>, block |-> MBlock(<<>>, OneLit)] /\ registry = <<>>
    /\ expanded = MBlock(<<>>, OneLit) /\ macroOk = TRUE /\ stage = "none"

MacroSpec == MacroInit /\ [][MacroNext]_macroVars
=============================================================================
