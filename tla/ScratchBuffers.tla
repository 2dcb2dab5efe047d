--------------------------- MODULE ScratchBuffers ---------------------------
(***************************************************************************)
(* Where a program keeps values that are too large for the BPF stack.      *)
(*                                                                         *)
(* ResourceAnalyser walks the script and reserves, for each CPU, arrays of *)
(* buffers: how many of a kind, and as large as the largest needs to be    *)
(* (ast/passes/resource_analyser.cpp, globalvars.cpp).  CodegenLLVM walks  *)
(* the script again and takes one buffer after the other (createAllocation *)
(* in ast/irbuilderbpf.cpp, async_ids.h).  Neither knows the other's       *)
(* conditions and sizes, a value in memory is handed on as a pointer, and  *)
(* of two kinds there is one buffer for the whole program.                 *)
(*                                                                         *)
(* A node is [k, t, size, key, name, n, kids]: t and size are the type of  *)
(* its value (of the map or variable it writes, for a statement), key the  *)
(* size of the key type of the map it uses.  All sizes are in bytes and    *)
(* leave no padding.  A script is a block, run with all conditions true or *)
(* all false.                                                              *)
(***************************************************************************)
EXTENDS Naturals, Sequences, SequencesExt

\* Scripts, with the configuration their types are from:
\* [bodies, on_stack_limit, max_strlen].
CONSTANT BufferScripts

VARIABLES
    body,       \* the script
    config,
    holds,      \* what its conditions give
    resources,  \* RequiredResources: kind -> [count, size]
    faults,     \* history: what is wrong with the accesses the program makes
    bufferPass  \* the pass that runs next

bufferVars == <<body, config, holds, resources, faults, bufferPass>>

BufferKinds == {"str", "tuple", "read", "write", "var", "key", "fmt"}
\* Mutant: the values read from maps share one, too.
OneBuffer_Read == {"write", "fmt", "read"}
OneBuffer == {"write", "fmt"}

InMemory(node) == node.t # "int"    \* needMemcpy, inBpfMemory

KeyOf(node) == node.kids[1]
ValueOf(node) == node.kids[2]
ArgSize(node) == FoldLeft(LAMBDA acc, kid : acc + kid.size, 0, node.kids)

\* needMapKeyAllocation, needAssignMapStatementAllocation: of a value in memory of the
\* right size the program passes the pointer on.
NeedKey(node) == ~InMemory(KeyOf(node)) \/ KeyOf(node).size # node.key
NeedValue(node) == ~InMemory(ValueOf(node)) \/ ValueOf(node).size # node.size

-----------------------------------------------------------------------------
(* ResourceAnalyser: the children of a node, then the node. *)
KeyBuffer(node) == IF NeedKey(node) THEN <<<<"key", node.key>>>> ELSE <<>>

\* What a node is given, if it is too large for the stack.
BuffersOf(node) ==
    CASE node.k \in {"str", "buf", "path"} -> <<<<"str", config.max_strlen>>>>
      [] node.k = "param" -> <<<<"str", config.max_strlen>>, <<"read", node.size>>>>
      [] node.k = "if" /\ node.t = "string" -> <<<<"str", config.max_strlen>>>>
      [] node.k \in {"tuple", "for"} -> <<<<"tuple", node.size>>>>
      [] node.k \in {"access", "increment"} -> <<<<"read", node.size>>>> \o KeyBuffer(node)
      [] node.k = "set" ->
            (IF NeedValue(node) THEN <<<<"write", node.size>>>> ELSE <<>>) \o KeyBuffer(node)
      [] node.k = "delete" -> <<<<"write", node.size>>>> \o KeyBuffer(node)
      [] node.k \in {"sum", "has_key"} -> KeyBuffer(node)
      [] node.k = "hist" -> <<<<"key", node.key + 8>>>>
      [] node.k \in {"assign", "decl"} -> <<<<"var", node.size>>>>
      [] node.k = "printf" -> <<<<"fmt", 8 + ArgSize(node)>>>>
      [] node.k = "print" -> <<<<"fmt", 16 + ArgSize(node)>>>>
      [] OTHER -> <<>>

exceeds_stack_limit(size) == size > config.on_stack_limit

Reserve(r, kind, size) ==
    IF ~exceeds_stack_limit(size) THEN r
    ELSE [r EXCEPT ![kind] =
            [count |-> IF kind \in OneBuffer THEN 1 ELSE @.count + 1,
             size |-> IF size > @.size THEN size ELSE @.size]]

RECURSIVE ReserveAll(_, _)
ReserveAll(node, r) ==
    FoldLeft(LAMBDA acc, w : Reserve(acc, w[1], w[2]),
             FoldLeft(LAMBDA acc, kid : ReserveAll(kid, acc), r, node.kids),
             BuffersOf(node))

NoBuffers == [k \in BufferKinds |-> [count |-> 0, size |-> 0]]

ReserveBuffers ==
    /\ bufferPass = "ResourceAnalyser"
    /\ bufferPass' = "CodegenLLVM"
    /\ resources' = ReserveAll(body, NoBuffers)
    /\ UNCHANGED <<body, config, holds, faults>>

-----------------------------------------------------------------------------
(***************************************************************************)
(* CodegenLLVM, and the program it makes: an instruction is emitted and,   *)
(* unless it is in a branch that is not taken (live), run at once.  A      *)
(* value is where it is and what it should be: the numbers of the things   *)
(* it is made of, each numbered when it was computed.                      *)
(***************************************************************************)
InRegister == [buf |-> "register", id |-> 0, size |-> 0]
Constant(size) == [buf |-> "constant", id |-> 0, size |-> size]
ValueAt(where, is) == [where |-> where, is |-> is]
Null == ValueAt(InRegister, <<>>)

CodeStart ==
    [next |-> [k \in BufferKinds \cup {"stack"} |-> 0],     \* AsyncIds
     scopes |-> <<>>, vars |-> <<>>, maps |-> [m \in {} |-> <<>>],
     mem |-> [p \in {} |-> <<>>], live |-> TRUE, made |-> 0,
     where |-> InRegister, val |-> Null, faults |-> {}]

Fault(st, what) == [st EXCEPT !.faults = @ \cup {what}]
Place(p) == <<p.buf, p.id>>
Give(st, v) == [st EXCEPT !.val = v]
Make(st) == [st EXCEPT !.val = ValueAt(InRegister, <<st.made + 1>>), !.made = @ + 1]

\* createAllocation, createScratchBuffer and check_index.
AllocBuffer(st, kind, size) ==
    LET i == IF kind \in OneBuffer THEN 0 ELSE st.next[kind]
        onStack == [st EXCEPT !.where = [buf |-> "stack", id |-> st.next["stack"], size |-> size],
                              !.next["stack"] = @ + 1]
        scratch == [st EXCEPT !.where = [buf |-> kind, id |-> i, size |-> resources[kind].size],
                              !.next[kind] = @ + 1]
    IN IF ~exceeds_stack_limit(size) THEN onStack
       ELSE IF i < resources[kind].count THEN scratch
       ELSE Fault(scratch, "no buffer")

Fit(st, p, size) ==
    IF p.buf # "register" /\ size > p.size THEN Fault(st, "too long") ELSE st

Store(st, p, size, is) ==
    LET to == Fit(st, p, size) IN
    IF st.live THEN [to EXCEPT !.mem = (Place(p) :> is) @@ @] ELSE to

\* A use of a value reads what is in its place by then.
Load(st, v, size) ==
    LET by == Fit(st, v.where, size) IN
    IF st.live /\ v.where.buf \notin {"register", "constant"} /\ st.mem[Place(v.where)] # v.is
    THEN Fault(by, "other value")
    ELSE by

Copy(st, v, size, to, room) == Store(Load(st, v, size), to, room, v.is)

-----------------------------------------------------------------------------
RECURSIVE Generate(_, _)
GenerateAll(nodes, st) == FoldLeft(LAMBDA acc, n : Generate(n, acc), Give(st, Null), nodes)

\* str(), buf(), path() and string parameters; a length is the first kid.  str() asks for
\* a byte more than was reserved, buf() takes a constant length as it is.
Padding == IF config.max_strlen < 1024 THEN 1 ELSE 0
StringRoom(node) == config.max_strlen + (IF node.k = "str" THEN Padding ELSE 0)
StringLength(node) == IF node.k = "buf" /\ node.n > 0 THEN 4 + node.n ELSE StringRoom(node)

StringCall(node, st) ==
    LET late == IF node.k \in {"path", "param"} THEN node.kids ELSE <<Last(node.kids)>>
        early == SubSeq(node.kids, 1, Len(node.kids) - Len(late))
        to == AllocBuffer(GenerateAll(early, st), "str", StringRoom(node))
        args == GenerateAll(late, Store(to, to.where, StringLength(node), <<>>))
        new == Make(Load(args, args.val, 0))
    IN Give(Store(new, to.where, StringLength(node), new.val.is), ValueAt(to.where, new.val.is))

\* All elements are evaluated before the first is copied (visit(Tuple), createTuple).
TupleExpr(node, st) ==
    LET Elem(acc, n) == LET s == Generate(n, acc.st) IN
                        [st |-> s, vals |-> Append(acc.vals, [v |-> s.val, size |-> n.size])]
        elems == FoldLeft(Elem, [st |-> st, vals |-> <<>>], node.kids)
        to == AllocBuffer(elems.st, "tuple", node.size)
        is == FoldLeft(LAMBDA acc, e : acc \o e.v.is, <<>>, elems.vals)
        read == FoldLeft(LAMBDA acc, e : Load(acc, e.v, e.size), to, elems.vals)
    IN Give(Store(read, to.where, node.size, is), ValueAt(to.where, is))

\* Both branches copy as much as the larger of them has.
IfExpression(node, st) ==
    LET isString == node.t = "string"
        buf == AllocBuffer(st, "str", config.max_strlen)
        start == IF isString THEN Store(buf, buf.where, config.max_strlen, <<>>) ELSE st
        cond == Generate(node.kids[1], start)
        Branch(s, kid, taken) ==
            LET b == Generate(kid, [s EXCEPT !.live = @ /\ taken]) IN
            IF isString THEN Copy(b, b.val, node.size, buf.where, node.size) ELSE b
        left == Branch(cond, node.kids[2], holds)
        right == Branch([left EXCEPT !.live = st.live], node.kids[3], ~holds)
        is == IF holds THEN left.val.is ELSE right.val.is
    IN Give([right EXCEPT !.live = st.live],
            IF isString THEN ValueAt(buf.where, is) ELSE ValueAt(InRegister, is))

Scoped(node, st) ==
    LET inside == GenerateAll(node.kids, [st EXCEPT !.scopes = Append(@, node.name)])
    IN [inside EXCEPT !.scopes = st.scopes]

\* All iterations but the last restore the ids, not the variables.
RECURSIVE Iterations(_, _, _)
Iterations(node, n, st) ==
    LET after == GenerateAll(node.kids, st) IN
    IF n = 1 THEN after
    ELSE Iterations(node, n - 1,
            [after EXCEPT !.next = [st.next EXCEPT !["stack"] = after.next["stack"]]])

-----------------------------------------------------------------------------
(* Variables: the first scope that has the name, from the outermost inwards. *)
VariablesNamed(st, name) ==
    {i \in DOMAIN st.vars : st.vars[i].name = name /\ Contains(st.scopes, st.vars[i].scope)}
GetVariable(st, name) == CHOOSE i \in VariablesNamed(st, name) : TRUE

\* The hoisted initialisation is run before everything else.
maybeAllocVariable(st, name, size) ==
    LET to == AllocBuffer(st, "var", size)
        new == [name |-> name, scope |-> Last(st.scopes), where |-> to.where, is |-> <<>>]
    IN IF VariablesNamed(st, name) # {} THEN st
       ELSE [to EXCEPT !.vars = Append(@, new),
                       !.mem = @ @@ (Place(to.where) :> <<>>)]

AssignVariable(node, st) ==
    LET e == Generate(node.kids[1], st)
        to == maybeAllocVariable(e, node.name, node.size)
        i == GetVariable(to, node.name)
        done == Copy(to, e.val, node.kids[1].size, to.vars[i].where, node.size)
    IN IF st.live THEN [done EXCEPT !.vars[i].is = e.val.is] ELSE done

\* A string or a tuple is the place of the variable, an integer is loaded.
VariableExpr(node, st) ==
    LET var == st.vars[GetVariable(st, node.name)]
        v == ValueAt(var.where, var.is)
    IN IF InMemory(node) THEN Give(st, v)
       ELSE Give(Load(st, v, node.size), ValueAt(InRegister, v.is))

-----------------------------------------------------------------------------
(* Maps: one entry for each. *)
MapValue(st, m) == IF m \in DOMAIN st.maps THEN st.maps[m] ELSE <<>>

getMapKey(node, st) ==
    LET e == Generate(KeyOf(node), st)
        to == AllocBuffer(e, "key", node.key)
    IN IF ~NeedKey(node) THEN e
       ELSE Give(Copy(to, e.val, KeyOf(node).size, to.where, node.key), ValueAt(to.where, e.val.is))

getMultiMapKey(node, st) ==
    LET e == Generate(KeyOf(node), st)
        to == AllocBuffer(e, "key", node.key + 8)
    IN Give(Copy(to, e.val, KeyOf(node).size, to.where, node.key + 8), ValueAt(to.where, e.val.is))

MapLookup(node, st) ==
    LET key == getMapKey(node, st)
        to == AllocBuffer(Load(key, key.val, node.key), "read", node.size)
        v == ValueAt(to.where, MapValue(key, node.name))
        got == Store(to, v.where, node.size, v.is)
    IN IF InMemory(node) THEN Give(got, v)
       ELSE Give(Load(got, v, node.size), ValueAt(InRegister, v.is))

Increment(node, st) ==
    LET new == Make(MapLookup(node, st)) IN
    IF st.live THEN [new EXCEPT !.maps = (node.name :> new.val.is) @@ @] ELSE new

\* The value, the key, then the copy to the map (visit(AssignMapStatement)).
AssignMap(node, st) ==
    LET e == Generate(ValueOf(node), st)
        key == getMapKey(node, e)
        to == AllocBuffer(key, "write", node.size)
        copied == Copy(to, e.val, ValueOf(node).size, to.where, node.size)
        done == IF NeedValue(node) THEN Load(copied, ValueAt(to.where, e.val.is), node.size)
                ELSE Load(key, e.val, node.size)
        by == Load(done, key.val, node.key)
    IN IF st.live THEN [by EXCEPT !.maps = (node.name :> e.val.is) @@ @] ELSE by

\* sum(), min(), max() and avg(): the key, the value, then the use of the key.
Aggregate(node, st) ==
    LET key == getMapKey(node, st) IN Load(Generate(ValueOf(node), key), key.val, node.key)

\* hist(), lhist(): the value, then the key.
Histogram(node, st) ==
    LET key == getMultiMapKey(node, Generate(ValueOf(node), st)) IN Load(key, key.val, node.key)

\* delete() stores a zero in a map that cannot lose entries (n = 1).
Delete(node, st) ==
    LET key == getMapKey(node, st)
        to == AllocBuffer(key, "write", node.size)
        zero == IF node.n = 1 THEN Store(to, to.where, node.size, <<>>) ELSE key
    IN Make(Load(zero, key.val, node.key))

HasKey(node, st) == LET key == getMapKey(node, st) IN Make(Load(key, key.val, node.key))

-----------------------------------------------------------------------------
(* Events: printf() starts with the buffer, print() with its argument. *)
Arguments(node, st, p, room) ==
    LET Argument(acc, n) ==
            LET arg == Generate(n, acc.st)
                s == Load(arg, arg.val, n.size)
            IN [st |-> Store(s, p, room, (IF s.live THEN s.mem[Place(p)] ELSE <<>>) \o s.val.is),
                is |-> acc.is \o s.val.is]
    IN FoldLeft(Argument, [st |-> st, is |-> st.val.is], node.kids)

Printf(node, st) ==
    LET room == 8 + ArgSize(node)
        to == Make(AllocBuffer(st, "fmt", room))
        filled == Arguments(node, Store(to, to.where, room, to.val.is), to.where, room)
    IN Load(filled.st, ValueAt(to.where, filled.is), room)

PrintExpr(node, st) ==
    LET room == 16 + ArgSize(node)
        arg == GenerateAll(node.kids, st)
        to == Make(AllocBuffer(arg, "fmt", room))
        is == to.val.is \o arg.val.is
        filled == Store(Load(to, arg.val, ArgSize(node)), to.where, room, is)
    IN Load(filled, ValueAt(to.where, is), room)

\* The key and the value of an entry, for the body of a loop over a map.
ForMap(node, st) ==
    LET inner == [st EXCEPT !.scopes = Append(@, node.name)]
        to == Make(AllocBuffer(inner, "tuple", node.size))
        decl == [name |-> node.name, scope |-> node.name, where |-> to.where, is |-> to.val.is]
        kept == SelectSeq(to.vars, LAMBDA v : v.scope # node.name)
        entry == [Store(to, to.where, node.size, to.val.is) EXCEPT !.vars = Append(kept, decl)]
    IN [GenerateAll(node.kids, entry) EXCEPT !.scopes = st.scopes]

Generate(node, st) ==
    CASE node.k = "int" -> Make(st)
      [] node.k = "lit" -> LET m == Make(st) IN Give(m, ValueAt(Constant(node.size), m.val.is))
      [] node.k \in {"str", "buf", "path", "param"} -> StringCall(node, st)
      [] node.k = "tuple" -> TupleExpr(node, st)
      [] node.k = "if" -> IfExpression(node, st)
      [] node.k = "block" -> Scoped(node, st)
      [] node.k = "unroll" -> Iterations(node, node.n, st)
      [] node.k = "for" -> ForMap(node, st)
      [] node.k = "assign" -> AssignVariable(node, st)
      [] node.k = "decl" -> maybeAllocVariable(st, node.name, node.size)
      [] node.k = "var" -> VariableExpr(node, st)
      [] node.k = "access" -> MapLookup(node, st)
      [] node.k = "increment" -> Increment(node, st)
      [] node.k = "set" -> AssignMap(node, st)
      [] node.k = "sum" -> Aggregate(node, st)
      [] node.k = "hist" -> Histogram(node, st)
      [] node.k = "delete" -> Delete(node, st)
      [] node.k = "has_key" -> HasKey(node, st)
      [] node.k = "printf" -> Printf(node, st)
      [] node.k = "print" -> PrintExpr(node, st)
      [] node.k = "none" -> Give(st, Null)

GenerateCode ==
    /\ bufferPass = "CodegenLLVM"
    /\ bufferPass' = "done"
    /\ faults' = Generate(body, CodeStart).faults
    /\ UNCHANGED <<body, config, holds, resources>>

-----------------------------------------------------------------------------
BufferInit ==
    /\ \E s \in BufferScripts :
          /\ body \in s.bodies
          /\ config = [on_stack_limit |-> s.on_stack_limit, max_strlen |-> s.max_strlen]
    /\ holds \in BOOLEAN
    /\ resources = NoBuffers
    /\ faults = {}
    /\ bufferPass = "ResourceAnalyser"

BufferNext == ReserveBuffers \/ GenerateCode

(* What the two walks owe each other: every buffer code generation takes   *)
(* was reserved (the assertion of GlobalVars::check_index) and is as large *)
(* as what is written to it or read from it, and a value is still in its   *)
(* place when it is used: nothing computed in between, no other iteration  *)
(* of an unroll and no other event has taken the place.                    *)
BuffersKept == faults = {}
=============================================================================
