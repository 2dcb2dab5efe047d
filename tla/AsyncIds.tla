------------------------------ MODULE AsyncIds ------------------------------
(***************************************************************************)
(* The ids that tie an event to its format string (ast/async_ids.h).       *)
(*                                                                         *)
(* ResourceAnalyser walks the script and appends an entry to a table for   *)
(* each call that sends an event, and counts the scratch buffers strings   *)
(* need.  CodegenLLVM walks the script again, in an order of its own, and  *)
(* counts: the n-th call of a kind gets id n.  Nothing but the order of    *)
(* the two walks relates an id to the entry it was meant for.              *)
(*                                                                         *)
(* A script is a tree of nodes [k, site, n, kids]: k the kind of node,     *)
(* site the place in the source, n the iterations of an unroll, kids the   *)
(* children in the order of the default visitor (ast/visitor.h).           *)
(***************************************************************************)
EXTENDS Integers, Sequences, SequencesExt

CONSTANT Scripts

VARIABLES
    script,     \* the sequence of statements of a probe
    pass,       \* the pass that runs next
    table,      \* kind of id -> the entries: RequiredResources
    uses        \* what codegen emitted: records [kind, site, id]

idVars == <<script, pass, table, uses>>

Node(k, site, kids) == [k |-> k, site |-> site, n |-> 1, kids |-> kids]
Leaf == Node("literal", <<>>, <<>>)

\* Calls that take an id before the arguments are visited, and after.
Formats == {"printf", "strftime", "cgroup_path"}
Kinds == Formats \cup {"print", "str"}

\* Numbers of buffers, not entries: any id below the count will do.
Buffers == {"str"}

NoEntries == [k \in Kinds |-> <<>>]

-----------------------------------------------------------------------------
(* ResourceAnalyser: the children of a node, then the node. *)
Append1(t, node) ==
    IF node.k \in Kinds THEN [t EXCEPT ![node.k] = Append(@, node.site)]
    ELSE IF node.k = "str_if" THEN [t EXCEPT !["str"] = Append(@, node.site)]
    ELSE t

RECURSIVE VisitResources(_, _)
VisitResources(node, t) ==
    Append1(FoldLeft(LAMBDA acc, kid : VisitResources(kid, acc), t, node.kids), node)

ResourceAnalyser ==
    /\ pass = "ResourceAnalyser"
    /\ pass' = "CodegenLLVM"
    /\ table' = FoldLeft(LAMBDA acc, s : VisitResources(s, acc), NoEntries, script)
    /\ UNCHANGED <<script, uses>>

-----------------------------------------------------------------------------
(***************************************************************************)
(* CodegenLLVM: its state is the counters, next, and the ids emitted.      *)
(***************************************************************************)
create == [next |-> [k \in Kinds |-> 0], uses |-> {}]

Take(st, kind, site) ==
    [next |-> [st.next EXCEPT ![kind] = @ + 1],
     uses |-> st.uses \cup {[kind |-> kind, site |-> site, id |-> st.next[kind]]}]

\* The children codegen visits, in its order: the value of an assignment
\* before the key, the array before the index, and no typeof.
Visited(node) ==
    CASE node.k \in {"assign", "hist", "index"} -> Reverse(node.kids)
      [] node.k = "typeof" -> <<>>
      [] OTHER -> node.kids

Before(st, node) ==
    IF node.k \in Formats THEN Take(st, node.k, node.site)
    ELSE IF node.k = "str_if" THEN Take(st, "str", node.site)
    ELSE st

After(st, node) ==
    IF node.k \in Kinds \ Formats THEN Take(st, node.k, node.site) ELSE st

\* Mutant: the counters go on from one iteration of an unroll to the next.
reset_ids_Kept(st, before) == st

reset_ids(st, before) == [st EXCEPT !.next = before.next]

RECURSIVE VisitCodegen(_, _)
RECURSIVE VisitUnroll(_, _, _)

VisitChildren(st, node) ==
    After(FoldLeft(LAMBDA acc, kid : VisitCodegen(kid, acc), Before(st, node), Visited(node)), node)

\* All iterations but the last restore the counters.
VisitUnroll(node, n, st) ==
    LET after == VisitChildren(st, node) IN
    IF n = 1 THEN after ELSE VisitUnroll(node, n - 1, reset_ids(after, st))

VisitCodegen(node, st) ==
    IF node.k = "unroll" THEN VisitUnroll(node, node.n, st) ELSE VisitChildren(st, node)

CodegenLLVM ==
    /\ pass = "CodegenLLVM"
    /\ pass' = "done"
    /\ uses' = FoldLeft(LAMBDA acc, s : VisitCodegen(s, acc), create, script).uses
    /\ UNCHANGED <<script, table>>

-----------------------------------------------------------------------------
IdsInit ==
    /\ script \in Scripts
    /\ pass = "ResourceAnalyser"
    /\ table = NoEntries
    /\ uses = {}

IdsNext == ResourceAnalyser \/ CodegenLLVM

(* The id in an event names the entry made for the call that sends it, and *)
(* every scratch buffer asked for exists: codegen's walk takes the ids in  *)
(* the order in which the resource analyser's walk made the entries, also  *)
(* when it generates a block several times (CodegenLLVM::visit(Unroll)).   *)
IdsAgree ==
    \A u \in uses :
        /\ u.id < Len(table[u.kind])
        /\ u.kind \notin Buffers => table[u.kind][u.id + 1] = u.site
=============================================================================
