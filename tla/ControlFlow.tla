---------------------------- MODULE ControlFlow ----------------------------
(***************************************************************************)
(* The pass that gives every block of a program its end                    *)
(* (ast/passes/control_flow_analyser.cpp).                                 *)
(*                                                                         *)
(* Code generation puts no jump of its own at the end of a probe, of a     *)
(* function or of the body of a loop, and nothing may follow a jump in a   *)
(* basic block.  This pass writes the missing jumps into the tree, and     *)
(* moves what follows a jump into a branch that is never taken.            *)
(*                                                                         *)
(* A node is [k, label, kids].  Statements and expressions are not told    *)
(* apart, but for "stmt", an expression used as a statement.  The last     *)
(* child of a "block" is its value.  "act" is a call with an effect,       *)
(* "cond" an expression whose value only the run tells.                    *)
(***************************************************************************)
EXTENDS Integers, Sequences, SequencesExt

CONSTANT Bodies     \* records [of : kind of function, block : its body]

VARIABLES
    source,     \* the body as parsed
    code,       \* the body after the pass
    accepted,   \* no diagnostics
    flow        \* "parsed" or "checked": ControlFlowChecked

flowVars == <<source, code, accepted, flow>>

Tree(k, label, kids) == [k |-> k, label |-> label, kids |-> kids]
NoneExpr == Tree("none", "", <<>>)
Boolean == Tree("true", "", <<>>)
Jump(ident) == Tree("jump", ident, <<>>)
ExprStatement(e) == Tree("stmt", "", <<e>>)
BlockExpr(stmts, value) == Tree("block", "", Append(stmts, value))
IfExpr(cond, left, right) == Tree("if", "", <<cond, left, right>>)

Stmts(block) == Front(block.kids)
Value(block) == Last(block.kids)
Loops == {"while", "for"}

-----------------------------------------------------------------------------
\* ExitReturn: every call of exit() is followed by a return.
RECURSIVE ExitReturn(_)
ExitReturn(n) ==
    LET m == [n EXCEPT !.kids = [i \in DOMAIN @ |-> ExitReturn(@[i])]] IN
    IF n.k = "exit"
    THEN BlockExpr(<<ExprStatement(m), Jump("return")>>, NoneExpr)
    ELSE m

\* JumpDisallowed: the jumps that may not occur at a node.  The condition of
\* a while and what a for iterates over are not looked at.
DisallowedIn(n, kinds) ==
    CASE n.k = "for" -> {"return"}
      [] n.k = "while" -> kinds \cap {"return"}
      [] OTHER -> kinds

RECURSIVE Disallowed(_, _)
Disallowed(n, kinds) ==
    IF n.k = "jump" THEN n.label \in kinds
    ELSE \E i \in DOMAIN n.kids :
            /\ n.k \in Loops => i = 2
            /\ Disallowed(n.kids[i], DisallowedIn(n, kinds))

-----------------------------------------------------------------------------
(***************************************************************************)
(* ControlFlowAnalyser: does the node always end in a jump of kinds Ts?    *)
(* It answers with the node too, in which dead code has been moved.        *)
(***************************************************************************)
Answer(node, jumps) == [node |-> node, jumps |-> jumps]

\* What follows statement i can not be reached: it goes into the other
\* branch of an if that is not marked comptime.
WithDeadCode(block, i, stmt) ==
    LET unreached == SubSeq(Stmts(block), i + 1, Len(block.kids) - 1)
        dead == IF Value(block) = NoneExpr THEN unreached
                ELSE Append(unreached, ExprStatement(Value(block)))
    IN  IfExpr(Boolean, BlockExpr(<<stmt>>, NoneExpr), BlockExpr(dead, NoneExpr))

\* Mutant: one branch that jumps is enough.
Branches_Either(left, right) == left \/ right

Branches(left, right) == left /\ right

RECURSIVE Analyse(_, _)
RECURSIVE AnyOf(_, _, _)

\* visit(a) || visit(b) || ...: what comes after a jump is not visited.
AnyOf(kids, i, Ts) ==
    IF i > Len(kids) THEN Answer(kids, FALSE)
    ELSE LET a == Analyse(kids[i], Ts)
             visited == [kids EXCEPT ![i] = a.node]
         IN  IF a.jumps THEN Answer(visited, TRUE) ELSE AnyOf(visited, i + 1, Ts)

AnalyseBlock(n, Ts) ==
    LET a == AnyOf(n.kids, 1, Ts)
        block == [n EXCEPT !.kids = a.node]
        i == CHOOSE j \in DOMAIN n.kids :
                /\ Analyse(n.kids[j], Ts).jumps
                /\ \A h \in 1 .. j - 1 : ~Analyse(n.kids[h], Ts).jumps
    IN  IF ~a.jumps \/ i = Len(n.kids) \/ (i = Len(n.kids) - 1 /\ Value(n) = NoneExpr)
        THEN Answer(block, a.jumps)
        ELSE LET if == Analyse(WithDeadCode(block, i, block.kids[i]), Ts)
             IN  Answer(BlockExpr(Append(SubSeq(block.kids, 1, i - 1), ExprStatement(if.node)), NoneExpr),
                        if.jumps)

AnalyseIf(n, Ts) ==
    LET cond == Analyse(n.kids[1], Ts)
        left == Analyse(n.kids[2], Ts)
        right == IF left.jumps THEN Analyse(n.kids[3], Ts) ELSE Answer(n.kids[3], FALSE)
    IN  IF cond.jumps THEN Answer([n EXCEPT !.kids[1] = cond.node], TRUE)
        ELSE Answer(IfExpr(cond.node, left.node, right.node), Branches(left.jumps, right.jumps))

AnalyseWhile(n, Ts) ==
    LET cond == Analyse(n.kids[1], Ts)
        body == Analyse(n.kids[2], {"return"})
    IN  IF cond.jumps \/ "return" \notin Ts
        THEN Answer([n EXCEPT !.kids[1] = cond.node], cond.jumps)
        ELSE Answer([n EXCEPT !.kids = <<cond.node, body.node>>], body.jumps)

Analyse(n, Ts) ==
    CASE n.k = "jump" -> Answer(n, n.label \in Ts)
      [] n.k = "if" -> AnalyseIf(n, Ts)
      [] n.k = "block" -> AnalyseBlock(n, Ts)
      [] n.k = "while" -> AnalyseWhile(n, Ts)
      [] n.k = "for" -> LET it == Analyse(n.kids[1], Ts)
                        IN  Answer([n EXCEPT !.kids[1] = it.node], it.jumps)
      [] OTHER -> LET a == AnyOf(n.kids, 1, Ts)
                  IN  Answer([n EXCEPT !.kids = a.node], a.jumps)

-----------------------------------------------------------------------------
(* inject_jump<T, Ts...>: jump T at the ends of n that have no jump of Ts. *)
RECURSIVE inject_jump(_, _, _)
inject_jump(n, T, Ts) ==
    LET Branch(e) ==
            LET a == Analyse(e, Ts) IN IF a.jumps THEN a.node ELSE inject_jump(a.node, T, Ts)
    IN  CASE n.k = "if" -> IfExpr(n.kids[1], Branch(n.kids[2]), Branch(n.kids[3]))
          [] n.k # "block" /\ n.k # "if" ->
                BlockExpr(<<ExprStatement(n), Jump(T)>>, NoneExpr)
          [] n.k = "block" /\ Value(n) # NoneExpr ->
                [n EXCEPT !.kids[Len(n.kids)] = inject_jump(@, T, Ts)]
          [] n.k = "block" /\ Value(n) = NoneExpr ->
                IF Stmts(n) # <<>> /\ Last(Stmts(n)).k = "stmt"
                THEN [n EXCEPT !.kids[Len(n.kids) - 1].kids[1] = inject_jump(@, T, Ts)]
                ELSE BlockExpr(Append(Stmts(n), Jump(T)), NoneExpr)

\* The body of a loop or of a function: analysed, and completed.
Complete(block, T, Ts) ==
    LET a == Analyse(block, Ts) IN IF a.jumps THEN a.node ELSE inject_jump(a.node, T, Ts)

\* ControlFlowInjector below the top: every loop, the outer before the inner.
RECURSIVE ControlFlowInjector(_)
ControlFlowInjector(n) ==
    LET m == CASE n.k = "for" ->
                    [n EXCEPT !.kids[2] = Complete(@, "continue", {"continue", "break"})]
               [] n.k = "while" ->
                    [n EXCEPT !.kids[2] = Complete(@, "continue", {"continue", "break", "return"})]
               [] OTHER -> n
    IN  [m EXCEPT !.kids = [i \in DOMAIN @ |->
            IF n.k \in Loops /\ i = 1 THEN @[i] ELSE ControlFlowInjector(@[i])]]

\* CreateControlFlowPass for a probe, a function without a value and one with.
ControlFlowPass ==
    LET exits == ExitReturn(source.block)
        a == Analyse(exits, {"return"})
        must == source.of = "function" /\ ~a.jumps
    IN  /\ flow = "parsed"
        /\ flow' = "checked"
        /\ accepted' = ~(Disallowed(exits, {"break", "continue"}) \/ must)
        /\ code' = ControlFlowInjector(
                IF must THEN a.node ELSE Complete(exits, "return", {"return"}))
        /\ UNCHANGED source

FlowInit ==
    /\ source \in Bodies
    /\ code = source.block
    /\ accepted = TRUE
    /\ flow = "parsed"

FlowNext == ControlFlowPass

-----------------------------------------------------------------------------
(***************************************************************************)
(* What a body does.  The state of a run is the effects so far, the values *)
(* conditions are still going to have (FALSE when none is left), the value *)
(* of the last expression, the jump under way ("go": none), and whether    *)
(* the body is the one code is generated from.  There, exit() is a call    *)
(* like any other, and a loop goes nowhere at the end of its body.         *)
(***************************************************************************)
Started(oracle, generated) ==
    [acts |-> <<>>, oracle |-> oracle, val |-> TRUE, jump |-> "go", generated |-> generated]

Does(s, label) == [s EXCEPT !.acts = Append(@, label), !.val = TRUE]
Decided(s) ==
    IF s.oracle = <<>> THEN [s EXCEPT !.val = FALSE]
    ELSE [s EXCEPT !.val = Head(s.oracle), !.oracle = Tail(@)]

RECURSIVE Run(_, _)
RECURSIVE Iterate(_, _)

\* A loop whose next iteration s.val decides.
Iterate(n, s) ==
    IF s.jump # "go" \/ ~s.val THEN s
    ELSE LET b == Run(n.kids[2], s) IN
         CASE b.jump = "break" -> [b EXCEPT !.jump = "go"]
           [] b.jump = "return" -> b
           [] b.jump = "go" /\ s.generated -> [b EXCEPT !.jump = "nowhere"]
           [] b.jump = "continue" \/ (b.jump = "go" /\ ~s.generated) ->
                LET c == [b EXCEPT !.jump = "go"] IN
                Iterate(n, IF n.k = "for" THEN Decided(c) ELSE Run(n.kids[1], c))
           [] b.jump = "nowhere" -> b

Run(n, s) ==
    LET InTurn(kids, t) == FoldLeft(LAMBDA u, kid : Run(kid, u), t, kids) IN
    IF s.jump # "go" THEN s
    ELSE CASE n.k = "jump" -> [s EXCEPT !.jump = n.label]
           [] n.k = "act" -> Does(s, n.label)
           [] n.k = "exit" -> IF s.generated THEN Does(s, "exit")
                              ELSE [Does(s, "exit") EXCEPT !.jump = "return"]
           [] n.k = "cond" -> Decided(s)
           [] n.k \in {"true", "none"} -> [s EXCEPT !.val = TRUE]
           [] n.k = "if" -> LET c == Run(n.kids[1], s) IN
                            Run(IF c.val THEN n.kids[2] ELSE n.kids[3], c)
           [] n.k = "while" -> Iterate(n, Run(n.kids[1], s))
           [] n.k = "for" -> Iterate(n, Decided(Run(n.kids[1], s)))
           [] n.k = "unroll" -> InTurn(n.kids \o n.kids, s)
           [] n.k \in {"stmt", "let", "block"} -> InTurn(n.kids, s)

Oracles == SeqOf(BOOLEAN, 3)
RunOf(block, oracle, generated) == Run(block, Started(oracle, generated))

(***************************************************************************)
(* CodegenLLVM: whether the basic block code is put into has its jump      *)
(* ("closed"), and whether anything was put behind one or a function or a  *)
(* body was left without (wrong).                                          *)
(***************************************************************************)
Emitted(closed, wrong) == [closed |-> closed, wrong |-> wrong]
Put(b, closed) == Emitted(closed, b.wrong \/ b.closed)

RECURSIVE Emit(_, _)
Emit(n, b) ==
    LET InTurn(kids, c) == FoldLeft(LAMBDA d, kid : Emit(kid, d), c, kids) IN
    CASE n.k = "jump" -> Put(b, TRUE)
      [] n.k \in {"act", "exit", "cond"} -> Put(b, FALSE)
      [] n.k \in {"true", "none"} -> b
      [] n.k = "if" ->
            LET c == Put(Emit(n.kids[1], b), FALSE)
                left == Emit(n.kids[2], c)
                right == Emit(n.kids[3], c)
            IN  Emitted(left.closed /\ right.closed, left.wrong \/ right.wrong)
      [] n.k = "while" ->
            LET body == Emit(n.kids[2], Emit(n.kids[1], Put(b, FALSE)))
            IN  Emitted(FALSE, body.wrong \/ ~body.closed)
      [] n.k = "for" ->
            LET body == Emit(n.kids[2], Emitted(FALSE, FALSE))
                c == Put(Emit(n.kids[1], b), FALSE)
            IN  Emitted(FALSE, c.wrong \/ body.wrong \/ ~body.closed)
      [] n.k = "unroll" -> InTurn(n.kids \o n.kids, b)
      [] n.k \in {"stmt", "let", "block"} -> InTurn(n.kids, b)

WellFormed(block) == LET e == Emit(block, Emitted(FALSE, FALSE)) IN e.closed /\ ~e.wrong

(***************************************************************************)
(* Invariant: the rewritten body does what the one in the script does,     *)
(* whatever its conditions turn out to be, every path through it ends in a *)
(* return, and the code generated from it has exactly one jump at the end  *)
(* of every basic block (ControlFlowInjector, inject_jump and the dead     *)
(* code that visit(BlockExpr) moves).                                      *)
(***************************************************************************)
RunsAsWritten ==
    (flow = "checked" /\ accepted) =>
        /\ WellFormed(code)
        /\ \A o \in Oracles :
              LET now == RunOf(code, o, TRUE) IN
              /\ now.acts = RunOf(source.block, o, FALSE).acts
              /\ now.jump = "return"
=============================================================================
