------------------------------ MODULE MCTypes ------------------------------
(* Scripts for TypeInference: every sequence of a few statements over two *)
(* maps or two variables, after a prefix.                                  *)
EXTENDS TypeInference

MCMaps == {"@a", "@b"}
MCVars == {"$x", "$y", "$z"}

Statement(k, to, e, type) == [k |-> k, to |-> to, e |-> e, node |-> None, type |-> type]
AssignTo(x, e) == Statement(IF x \in Maps THEN "map" ELSE "var", x, e, None)
Let(v, t) == Statement("let", v, Typed(None), t)
Increment(x) == Statement(IF x \in Maps THEN "map++" ELSE "var++", x, Typed(None), None)
UseOf(x) == Statement("use", "", ValueOf(x), None)

Small == Literal(1, 1)
Byte == Literal(1, 2)
Large == Literal(2, 4)
Widest == Literal(4, 8)
Values == {Small, Byte, Large, Widest, Negative(1), Negative(2), Typed(IntType(1, TRUE)),
           Typed(IntType(4, FALSE)), Typed(String)}

TypeStatements(X) ==
    {AssignTo(x, e) : x \in X, e \in Values \cup {ValueOf(y) : y \in X}}
    \cup {Increment(x) : x \in X}
    \cup {UseOf(x) : x \in X}
    \cup {Let(v, t) : v \in X \cap Vars, t \in {None, IntType(1, TRUE), IntType(2, FALSE)}}

Triples(S) == S \X S \X S
ShortScripts == Triples(TypeStatements({"@a", "$x"})) \cup Triples(TypeStatements(Maps))

\* Three variables with small values, and three more statements.
Chains ==
    {<<AssignTo("$x", Small), AssignTo("$y", Small), AssignTo("$z", Small), p, q, r>> :
        p, q, r \in {AssignTo(v, e) : v \in MCVars, e \in {Large} \cup {ValueOf(w) : w \in MCVars}}}

Declared == {<<Let("$x", IntType(1, TRUE)), p, q>> : p, q \in TypeStatements({"@a", "$x"})}
=============================================================================
