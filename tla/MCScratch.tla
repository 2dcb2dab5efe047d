----------------------------- MODULE MCScratch -----------------------------
(***************************************************************************)
(* Scripts for ScratchBuffers: a string variable is assigned, a statement  *)
(* uses it and other strings in every place a value can be, in the probe,  *)
(* in a branch, a loop or an unroll, and the variable is printed.          *)
(***************************************************************************)
EXTENDS ScratchBuffers

BNode(k, t, size, kids) ==
    [k |-> k, t |-> t, size |-> size, key |-> 0, name |-> "", n |-> 0, kids |-> kids]
Naming(node, name) == [node EXCEPT !.name = name]

AnInt == BNode("int", "int", 8, <<>>)
NoExpr == BNode("none", "none", 0, <<>>)
ALiteral(m) == BNode("lit", "string", m, <<>>)
StrCall(m) == BNode("str", "string", m, <<AnInt>>)
BufCall(n) == [BNode("buf", "string", n + 4, <<AnInt>>) EXCEPT !.n = n]
StringVar(name, m) == Naming(BNode("var", "string", m, <<>>), name)
ATuple(elems) == BNode("tuple", "tuple", FoldLeft(LAMBDA acc, e : acc + e.size, 0, elems), elems)
IfOf(a, b) == BNode("if", a.t, IF a.size > b.size THEN a.size ELSE b.size, <<AnInt, a, b>>)
BlockOf(name, stmts, e) == Naming(BNode("block", e.t, e.size, Append(stmts, e)), name)

KeyedBy(node, k, size) == [node EXCEPT !.key = size, !.kids = <<k>> \o @]
Lookup(map, k, m) == KeyedBy(Naming(BNode("access", "string", m, <<>>), map), k, m)
SetMap(k, e, m) == KeyedBy(Naming(BNode("set", "string", m, <<e>>), "@m"), k, m)
Counter == KeyedBy(Naming(BNode("increment", "int", 8, <<>>), "@n"), AnInt, 8)

SetVar(name, e, m) == Naming(BNode("assign", e.t, m, <<e>>), name)
PrintOf(e) == BNode("print", "none", 0, <<e>>)
PrintfOf(args) == BNode("printf", "none", 0, args)
InBlock(name, s) == BlockOf(name, <<s>>, NoExpr)
UnrollOf(stmts) == [BNode("unroll", "none", 0, <<BlockOf("u", stmts, NoExpr)>>) EXCEPT !.n = 2]
ABody(stmts) == BlockOf("probe", stmts, NoExpr)

-----------------------------------------------------------------------------
\* Strings of the size m, with a map and a scope of their own, and shorter ones.
SomeStrings(m, name) ==
    {StrCall(m), StringVar("$s", m), Lookup(name, StringVar("$s", m), m),
     IfOf(StrCall(m), StringVar("$s", m)), ALiteral(8),
     BlockOf(name, <<SetVar("$t", StrCall(m), m)>>, StringVar("$t", m))}
StringExprs(m, name) ==
    SomeStrings(m, name) \cup
    {ALiteral(m), BNode("path", "string", m, <<AnInt>>), BNode("param", "string", m, <<>>),
     [StrCall(m) EXCEPT !.kids = <<AnInt, StringVar("$s", m)>>], BufCall(16)}

\* Statements that use two of them, the second one after the first was computed.
Using(a, b, m) ==
    LET printed == BlockOf("h", <<PrintOf(b)>>, AnInt) IN
    {SetMap(a, b, m), PrintfOf(<<a, Counter, b>>), PrintOf(ATuple(<<a, AnInt, b>>)),
     KeyedBy(BNode("hist", "int", 8, <<printed>>), a, m),
     KeyedBy(BNode("sum", "int", 8, <<printed>>), a, m),
     BNode("if", "none", 0, <<KeyedBy(BNode("has_key", "int", 1, <<>>), a, m),
                              PrintOf(b), SetVar("$s", b, m)>>)}

UsingKey(a, m) ==
    {SetMap(ATuple(<<a, AnInt>>), ALiteral(8), m + 8)}
    \cup {[KeyedBy(BNode("delete", "int", 8, <<>>), a, m) EXCEPT !.n = i] : i \in {0, 1}}

UsingAny(firsts, m) ==
    UNION {Using(a, b, m) : a \in firsts, b \in SomeStrings(m, "@o")}

Doing(m) ==
    UsingAny(StringExprs(m, "@m"), m)
    \cup UNION {UsingKey(a, m) : a \in StringExprs(m, "@m") \ {ALiteral(8), BufCall(16)}}

\* In one branch of an if, in an unroll, in a loop over a map.
Around(s, m) ==
    LET entry == Naming(BNode("var", "tuple", 8 + m, <<>>), "$kv") IN
    {BNode("if", "none", 0,
           <<AnInt, InBlock("l", s), InBlock("r", SetVar("$s", StrCall(m), m))>>),
     UnrollOf(<<s>>),
     Naming(BNode("for", "tuple", 8 + m, <<BlockOf("f", <<s, PrintOf(entry)>>, NoExpr)>>), "$kv")}

BufferBodies(m) ==
    {ABody(<<SetVar("$s", ALiteral(m), m), SetMap(AnInt, StringVar("$s", m), m), w, SetVar("$u", StringVar("$s", m), m),
             PrintOf(StringVar("$s", m)), PrintOf(StringVar("$u", m))>>) :
        w \in Doing(m) \cup
              UNION {Around(s, m) : s \in UsingAny({StrCall(m), Lookup("@m", AnInt, m)}, m)}}

-----------------------------------------------------------------------------
\* on_stack_limit and max_strlen: integers, strings, nothing, strings are on the stack.
Settings == {<<32, 1024>>, <<2048, 1024>>, <<0, 1024>>, <<64, 56>>}

With(set, bodies) == [bodies |-> bodies, on_stack_limit |-> set[1], max_strlen |-> set[2]]

PlainBufferScripts == {With(set, BufferBodies(set[2])) : set \in Settings}

(* With a max_strlen below 1024, str() is known to take a byte more than   *)
(* was reserved for it; a constant length of buf() is not bounded by       *)
(* max_strlen; a shorter literal is copied as if it were as long as the    *)
(* other branch; the buffer of printf() is that of the print() in its      *)
(* arguments; a variable that is assigned later in a statement is read as  *)
(* its new value; and one that was declared and never assigned has the     *)
(* place of another.                                                       *)
KnownBufferScripts ==
    LET m == 1024
        aliased == BlockOf("e", <<SetVar("$s", StrCall(m), m)>>, AnInt)
    IN {With(<<32, 64>>, {ABody(<<PrintOf(StrCall(64))>>)}),
       With(<<32, m>>,
        {ABody(<<PrintOf([BufCall(m) EXCEPT !.size = m])>>),
         ABody(<<PrintOf(IfOf(ALiteral(8), ALiteral(16)))>>),
         ABody(<<PrintfOf(<<BlockOf("e", <<PrintOf(StrCall(m))>>, AnInt), StrCall(m)>>)>>),
         ABody(<<SetVar("$s", ALiteral(m), m), PrintOf(ATuple(<<StringVar("$s", m), aliased>>))>>),
         ABody(<<UnrollOf(<<SetVar("$t", StrCall(m), m)>>),
                 Naming(BNode("decl", "string", m, <<>>), "$x"), PrintOf(StringVar("$x", m))>>)})}

NoBufferScript ==
    /\ body = NoExpr /\ config = [on_stack_limit |-> 0, max_strlen |-> 0] /\ holds = FALSE
    /\ resources = NoBuffers /\ faults = {} /\ bufferPass = "none"

BufferSpec == BufferInit /\ [][BufferNext]_bufferVars
=============================================================================
