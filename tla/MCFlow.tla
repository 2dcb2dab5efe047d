------------------------------- MODULE MCFlow -------------------------------
(***************************************************************************)
(* Bodies of probes and functions: an if with a jump, an exit() or an      *)
(* effect in each branch, alone, with something behind it, as the value of *)
(* a let or in a block, and all of that in a loop.                         *)
(***************************************************************************)
EXTENDS ControlFlow

Act(l) == ExprStatement(Tree("act", l, <<>>))
Exit == ExprStatement(Tree("exit", "", <<>>))
Cond == Tree("cond", "", <<>>)
Do(stmts) == BlockExpr(stmts, NoneExpr)
AndThen(stmts, last) == {Do(<<s>>) : s \in stmts} \cup {Do(<<s, last>>) : s \in stmts}

Single == {Act("a"), Exit, Jump("return"), Jump("break"), Jump("continue")}
Short == {Do(<<>>)} \cup AndThen(Single, Act("b"))
Ifs == {ExprStatement(IfExpr(Cond, l, r)) : l \in Short, r \in Short \cup {NoneExpr}}
Lets == {Tree("let", "", <<BlockExpr(<<i>>, Tree("act", "v", <<>>))>>) : i \in Ifs}
Loopless ==
    Short \cup AndThen(Ifs \cup Lets, Act("c"))
    \cup {Do(<<Act("d"), ExprStatement(Do(<<i>>))>>) : i \in Ifs}
Looping ==
    {Tree("while", "", <<Cond, l>>) : l \in Loopless}
    \cup {Tree("for", "", <<Tree("act", "m", <<>>), l>>) : l \in Loopless}
    \cup {Tree("unroll", "", <<l>>) : l \in Loopless}

AllBodies == [of : {"probe", "function"}, block : Loopless \cup AndThen(Looping, Act("e"))]

-----------------------------------------------------------------------------
(***************************************************************************)
(* Known to come out otherwise than written: what follows a while whose    *)
(* body always returns is not run, dead code is looked for in an else only *)
(* when the other branch always jumps, and an unrolled body that always    *)
(* jumps is put behind its own jump.                                       *)
(***************************************************************************)
AnyJump == {"return", "break", "continue"}
Always(block, jumps) == \A o \in Oracles : RunOf(block, o, FALSE).jump \in jumps

RECURSIVE Within(_)
Within(n) == {n} \cup UNION {Within(n.kids[i]) : i \in DOMAIN n.kids}

HasDead(e) ==
    \E n \in Within(e) : n.k = "block" /\ \E i \in 1 .. Len(n.kids) - 1 :
        Always(n.kids[i], AnyJump) /\ ~(i = Len(n.kids) - 1 /\ Value(n) = NoneExpr)

ReturningWhile(n) == n.k = "while" /\ Always(n.kids[2], {"return"})
DeadElse(n) ==
    /\ n.k = "if" /\ HasDead(n.kids[3])
    /\ ~Always(n.kids[2], AnyJump) \/ HasDead(n.kids[2])
JumpingUnroll(n) == n.k = "unroll" /\ Always(n.kids[1], AnyJump)

PlainBodies ==
    {b \in AllBodies : \A n \in Within(b.block) :
        ~ReturningWhile(n) /\ ~DeadElse(n) /\ ~JumpingUnroll(n)}
WhileBodies == {b \in AllBodies : \E n \in Within(b.block) : ReturningWhile(n)}
ElseBodies == {b \in AllBodies : b.block \in Loopless /\ \E n \in Within(b.block) : DeadElse(n)}

NoFlow ==
    /\ source = [of |-> "probe", block |-> Do(<<>>)] /\ code = Do(<<>>)
    /\ accepted = TRUE /\ flow = "none"

FlowSpec == FlowInit /\ [][FlowNext]_flowVars
=============================================================================
