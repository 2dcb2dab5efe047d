--------------------------- MODULE TypeInference ---------------------------
(***************************************************************************)
(* The passes of the semantic analyser over a script, restricted to what   *)
(* they conclude about the types of maps and scratch variables             *)
(* (ast/passes/semantic_analyser.cpp).                                     *)
(*                                                                         *)
(* A script is a sequence of statements, of all its probes in order.  The  *)
(* analyser visits them one after the other, again and again, until two    *)
(* passes in a row resolve nothing more; the pass after these is the       *)
(* final one.  It writes into the script itself: the types it finds at     *)
(* the nodes, and the casts it puts around the expressions that are        *)
(* assigned.  Code is generated from what the nodes hold in the end.       *)
(*                                                                         *)
(* An expression is a base (an integer literal, a negative literal, the    *)
(* value of a map or of a variable, or something with a type of its own)   *)
(* under a sequence of casts, the innermost first.                         *)
(***************************************************************************)
EXTENDS Integers, Sequences

CONSTANTS
    Vars,       \* scratch variables
    Maps,       \* maps, without keys
    TypeScripts,    \* scripts as parsed
    MaxSize     \* bytes of the largest integer: 8

IntSizes == {1, 2, 4, 8}

ASSUME NamesAssumption == Vars \cap Maps = {} /\ "" \notin Vars \cup Maps
ASSUME MaxSizeAssumption == MaxSize \in IntSizes

VARIABLES
    stmts,     \* the statements, with the types and the casts found so far
    pc,         \* the statement to visit; one past the last: the end of the pass
    tracker,    \* PassTracker, and the number of unresolved of the last pass
    map_val,    \* map_val_: type of the value of a map seen so far
    variables,  \* variables_: [type, can_resize, was_assigned] of a variable seen so far
    ok,         \* ctx_.diagnostics().ok()
    done        \* analyse() has returned

typeVars == <<stmts, pc, tracker, map_val, variables, ok, done>>

-----------------------------------------------------------------------------
(***************************************************************************)
(* Types and expressions                                                   *)
(***************************************************************************)
Sized(ty, size, signed) == [ty |-> ty, size |-> size, signed |-> signed]
None == Sized("none", 0, FALSE)
String == Sized("string", 0, FALSE)
IntType(size, signed) == Sized("integer", size, signed)

IsNone(t) == t.ty = "none"
IsInt(t) == t.ty = "integer"
Max2(a, b) == IF a < b THEN b ELSE a

Expr(k, of, type, signed_size) ==
    [k |-> k, of |-> of, type |-> type, own |-> type, signed_size |-> signed_size, casts |-> <<>>]

\* A literal has its smallest unsigned type, and needs signed_size bytes when signed.
Literal(size, signed_size) == Expr("literal", "", IntType(size, FALSE), signed_size)
Negative(size) == Expr("negative", "", IntType(size, TRUE), size)
ValueOf(x) == Expr("read", x, None, 0)
Typed(t) == Expr("typed", "", t, 0)

TypeOf(e) == IF e.casts = <<>> THEN e.type ELSE e.casts[Len(e.casts)]
IsIntLiteral(e) == e.k = "literal" /\ e.casts = <<>>

(***************************************************************************)
(* What a script can be: its integers have the sizes of the language, a    *)
(* literal needs no more than one size above its own to be signed, and     *)
(* nothing is cast yet.  Of the types of values only integers have sizes   *)
(* that matter here.  Pointers are left out: a map of pointers takes       *)
(* integers too.                                                           *)
(***************************************************************************)
TypeNames == {"none", "integer", "bool", "string", "record", "array", "buffer", "tuple"}
Types == {t \in [ty : TypeNames, size : Nat, signed : BOOLEAN] :
            IsInt(t) => t.size \in IntSizes /\ t.size <= MaxSize}
Names == Vars \cup Maps \cup {""}
Exprs == [k : {"literal", "negative", "read", "typed"}, of : Names, type : Types, own : Types,
          signed_size : Nat, casts : Seq(Types)]
Statements == [k : {"map", "map++", "var", "var++", "let", "use"}, to : Names, e : Exprs,
               node : Types, type : Types]

ParsedExpr(e) ==
    \/ e = Literal(e.own.size, e.signed_size) /\ e.signed_size \in {e.own.size, 2 * e.own.size}
    \/ e = Negative(e.own.size)
    \/ e = ValueOf(e.of)
    \/ e = Typed(e.own)

ParsedStatement(s) ==
    /\ ParsedExpr(s.e)
    /\ s.k \in {"map", "map++"} => s.to \in Maps
    /\ s.k \in {"var", "var++", "let"} => s.to \in Vars

ASSUME ScriptsAssumption ==
    \A s \in TypeScripts : s \in Seq(Statements) /\ \A i \in DOMAIN s : ParsedStatement(s[i])

create_int_cast(e, t) ==
    IF e.casts = <<>> /\ e.k \in {"literal", "negative"}
    THEN [e EXCEPT !.type = t]
    ELSE [e EXCEPT !.casts = Append(@, t)]

\* The type two integers are brought to, None when there is none.
get_promoted_int(l, r) ==
    IF l.signed /\ l.size > r.size THEN l
    ELSE IF ~l.signed /\ l.size < r.size THEN r
    ELSE IF 2 * Max2(l.size, r.size) > MaxSize THEN None
    ELSE IntType(2 * Max2(l.size, r.size), TRUE)

\* Mutant: a literal takes the signed type it is assigned to, large enough or not.
update_int_type_Literal(e, stored) ==
    LET t == TypeOf(e) IN
    IF t.signed = stored.signed THEN IF t.size < stored.size THEN stored ELSE t
    ELSE IF ~IsIntLiteral(e) THEN get_promoted_int(stored, t)
    ELSE stored

\* The type an integer of type stored takes when e is assigned to it.
update_int_type(e, stored) ==
    LET t == TypeOf(e) IN
    IF t.signed = stored.signed THEN IF t.size < stored.size THEN stored ELSE t
    ELSE IF ~IsIntLiteral(e) THEN get_promoted_int(stored, t)
    ELSE IF e.signed_size > MaxSize THEN None
    ELSE IF e.signed_size <= stored.size THEN stored
    ELSE IntType(e.signed_size, TRUE)

\* e as it is left in the script: cast when its type is another one.
Fit(e, t) == IF IsNone(t) \/ TypeOf(e) = t THEN e ELSE create_int_cast(e, t)

-----------------------------------------------------------------------------
(***************************************************************************)
(* PassTracker                                                             *)
(***************************************************************************)
First == tracker.first
Final == tracker.state = "FinalPass"
Unresolved(n) == tracker' = [tracker EXCEPT !.unresolved = @ + n]

Infinity == 1000    \* std::numeric_limits<int>::max()

TypesInit ==
    /\ stmts \in TypeScripts
    /\ pc = 1
    /\ tracker = [state |-> "Converging", unresolved |-> 0, last |-> Infinity, first |-> TRUE]
    /\ map_val = [m \in {} |-> None]
    /\ variables = [v \in {} |-> None]
    /\ ok = TRUE
    /\ done = FALSE

Known(f, x) == x \in DOMAIN f
Set(f, x, v) == [y \in DOMAIN f \cup {x} |-> IF y = x THEN v ELSE f[y]]
Stmt == stmts[pc]

\* A statement of kind k is visited: it becomes node, and the diagnostics are good.
Enter(k) == ~done /\ pc <= Len(stmts) /\ Stmt.k = k
Leave(node, good) ==
    /\ stmts' = [stmts EXCEPT ![pc] = node]
    /\ pc' = pc + 1
    /\ ok' = (ok /\ good)
    /\ UNCHANGED done

(***************************************************************************)
(* Expressions: the value of a map is None the first time; a variable, and *)
(* in later passes a map, has to be known.                                 *)
(***************************************************************************)
UnknownMap(m) == m \in Maps /\ ~Known(map_val, m)
UnknownRead(e) == e.k = "read" /\ UnknownMap(e.of)
ReadType(x) == IF x \in Maps
               THEN IF Known(map_val, x) THEN map_val[x] ELSE None
               ELSE IF Known(variables, x) THEN variables[x].type ELSE None

ResolveRead(e) == IF e.k = "read" THEN [e EXCEPT !.type = ReadType(e.of)] ELSE e

\* Mutant: a map without an assignment is not reported.
MapGood_Any(m) == TRUE

MapGood(m) == First \/ Known(map_val, m)
ReadGood(e) ==
    LET known == IF e.of \in Maps THEN MapGood(e.of) ELSE Known(variables, e.of)
        base == ResolveRead(e).type
    IN  /\ e.k = "read" => known
        /\ e.casts # <<>> => IsInt(base) \/ (IsNone(base) /\ ~Final)

Count(b) == IF b THEN 1 ELSE 0

-----------------------------------------------------------------------------
(***************************************************************************)
(* Statements                                                              *)
(***************************************************************************)
\* Outcome of giving type t to map m, by assigning e: the type stored, whether that
\* is no mismatch, and whether it has to wait.
assign_map_type(m, t, e) ==
    LET stored == map_val[m] IN
    IF ~Known(map_val, m) THEN [type |-> t, good |-> TRUE, waits |-> FALSE]
    ELSE IF IsNone(stored) THEN [type |-> IF Final THEN None ELSE t, good |-> ~Final, waits |-> TRUE]
    ELSE IF stored.ty # t.ty THEN [type |-> stored, good |-> FALSE, waits |-> FALSE]
    ELSE IF ~IsInt(stored) THEN [type |-> stored, good |-> TRUE, waits |-> FALSE]
    ELSE LET updated == update_int_type(e, stored) IN
         IF IsNone(updated) THEN [type |-> stored, good |-> FALSE, waits |-> FALSE]
         ELSE [type |-> updated, good |-> TRUE, waits |-> FALSE]

\* @m = e
AssignMap ==
    /\ Enter("map")
    /\ LET m == Stmt.to
           e == ResolveRead(Stmt.e)
           t == TypeOf(e)
           a == assign_map_type(m, t, e)
           both_ints == IsInt(t) /\ Known(map_val, m) /\ IsInt(map_val[m])
       IN  /\ map_val' = Set(map_val, m, a.type)
           /\ Unresolved(Count(~Known(map_val, m)) + Count(UnknownRead(Stmt.e))
                         + Count(a.waits) + Count(IsNone(t)))
           /\ Leave([Stmt EXCEPT !.node = a.type,
                                   !.e = IF both_ints /\ a.good THEN Fit(e, a.type) ELSE e],
                      a.good /\ MapGood(m) /\ ReadGood(Stmt.e) /\ (Final => ~IsNone(t)))
    /\ UNCHANGED variables

\* Outcome of assigning e to a variable that is known.
assign_variable(found, e) ==
    LET stored == found.type
        t == TypeOf(e)
        updated == update_int_type(e, stored)
    IN  IF IsNone(stored) THEN [type |-> t, good |-> TRUE, waits |-> FALSE]
        ELSE IF stored.ty # t.ty
             THEN [type |-> stored, good |-> IsNone(t) /\ ~Final, waits |-> IsNone(t) /\ ~Final]
        ELSE IF ~IsInt(t) THEN [type |-> stored, good |-> TRUE, waits |-> FALSE]
        ELSE IF IsNone(updated) \/ (updated # stored /\ ~found.can_resize)
             THEN [type |-> stored, good |-> FALSE, waits |-> FALSE]
        ELSE [type |-> updated, good |-> TRUE, waits |-> FALSE]

\* $v = e.  The first assignment replaces the type of the declaration by the type
\* assigned, which is none while it waits for a map.
AssignVar ==
    /\ Enter("var")
    /\ LET v == Stmt.to
           e == ResolveRead(Stmt.e)
           t == TypeOf(e)
           known == Known(variables, v)
           a == assign_variable(variables[v], e)
           stored == IF ~known \/ (a.waits /\ ~variables[v].was_assigned) THEN t ELSE a.type
           resize == IF known THEN variables[v].can_resize ELSE TRUE
           both_ints == IsInt(t) /\ known /\ IsInt(variables[v].type)
           good == known => a.good
       IN  /\ variables' =
                IF Final /\ IsNone(t) THEN variables
                ELSE Set(variables, v, [type |-> stored, can_resize |-> resize,
                                        was_assigned |-> good \/ variables[v].was_assigned])
           /\ Unresolved(Count(UnknownRead(Stmt.e)) + Count(known /\ a.waits))
           /\ Leave([Stmt EXCEPT !.node = stored,
                                   !.e = IF both_ints /\ good THEN Fit(e, stored) ELSE e],
                      good /\ ReadGood(Stmt.e) /\ (Final => ~IsNone(t)))
    /\ UNCHANGED map_val

\* let $v; or let $v: type;
VarDecl ==
    /\ Enter("let")
    /\ LET v == Stmt.to
           known == Known(variables, v)
           new == [type |-> Stmt.type, can_resize |-> Stmt.type.size = 0, was_assigned |-> FALSE]
       IN  /\ variables' = IF known THEN variables ELSE Set(variables, v, new)
           /\ Leave([Stmt EXCEPT !.node = IF known /\ Final THEN variables[v].type ELSE Stmt.type],
                      ~(First /\ known))
    /\ UNCHANGED <<tracker, map_val>>

\* $v++ makes an integer that may grow the largest one.
IncrementVar ==
    /\ Enter("var++")
    /\ LET v == Stmt.to
           known == Known(variables, v)
           grows == known /\ IsInt(variables[v].type) /\ variables[v].can_resize
       IN  /\ variables' = IF grows THEN [variables EXCEPT ![v].type.size = MaxSize] ELSE variables
           /\ Leave([Stmt EXCEPT !.node = ReadType(v)],
                      known /\ (Final => IsInt(variables[v].type)))
    /\ UNCHANGED <<tracker, map_val>>

\* @m++ makes the map one of the largest signed integer, whatever integer it held.
IncrementMap ==
    /\ Enter("map++")
    /\ LET m == Stmt.to
           int64 == IntType(MaxSize, TRUE)
           mismatch == Known(map_val, m) /\ map_val[m].ty \notin {"none", "integer"}
           undefined == Known(map_val, m) /\ IsNone(map_val[m])
           stored == IF mismatch \/ (undefined /\ Final) THEN map_val[m] ELSE int64
       IN  /\ map_val' = Set(map_val, m, stored)
           /\ Unresolved(Count(undefined))
           /\ Leave([Stmt EXCEPT !.node = stored], ~mismatch /\ ~(undefined /\ Final))
    /\ UNCHANGED variables

\* An expression that is only read: print(@m), a condition, a key.
Use ==
    /\ Enter("use")
    /\ Unresolved(Count(UnknownRead(Stmt.e)))
    /\ Leave([Stmt EXCEPT !.e = ResolveRead(@)], ReadGood(Stmt.e))
    /\ UNCHANGED <<map_val, variables>>

\* The state of the tracker after a pass, and whether it made progress.
NextState(s, progress) ==
    IF progress THEN "Converging"
    ELSE IF s = "SecondChance" THEN "FinalPass" ELSE "SecondChance"

\* Mutant: every pass that leaves something unresolved is progress.
Progress_Any(n, last) == n > 0

Progress(n, last) == n > 0 /\ n < last

\* The end of a pass: analyse() returns after the final one or an error.
EndPass ==
    /\ ~done /\ pc > Len(stmts)
    /\ LET n == tracker.unresolved
           progress == Progress(n, tracker.last)
       IN  IF Final \/ ~ok
           THEN done' = TRUE /\ UNCHANGED <<tracker, pc>>
           ELSE /\ tracker' = [state |-> NextState(tracker.state, progress), unresolved |-> 0,
                               last |-> IF progress THEN n ELSE tracker.last,
                               first |-> FALSE]
                /\ pc' = 1
                /\ UNCHANGED done
    /\ UNCHANGED <<stmts, map_val, variables, ok>>

Terminated == done /\ UNCHANGED typeVars

TypesNext == AssignMap \/ AssignVar \/ VarDecl \/ IncrementVar \/ IncrementMap \/ Use
        \/ EndPass \/ Terminated

TypesSpec == TypesInit /\ [][TypesNext]_typeVars
TypesFairSpec == TypesSpec /\ WF_typeVars(TypesNext)

-----------------------------------------------------------------------------
(***************************************************************************)
(* Properties                                                              *)
(***************************************************************************)
Accepted == done /\ ok
Assignments == {i \in DOMAIN stmts : stmts[i].k \in {"map", "var"}}

\* Every value of integer type s is one of integer type t.
Holds(t, s) == IF s.signed = t.signed THEN s.size <= t.size ELSE ~s.signed /\ s.size < t.size

\* The value of literal e is one of integer type t.
HoldsValue(t, e) == IF t.signed THEN e.signed_size <= t.size ELSE e.own.size <= t.size

(***************************************************************************)
(* Invariant: in an accepted script a value whose type does not depend on  *)
(* the analysis, a literal or one with a type of its own, is not cut off:  *)
(* it fits every type it is given or cast to on its way to its target and  *)
(* the type the target has in the end, whatever else is assigned to that   *)
(* target, before it or after it, in whichever pass (update_int_type,      *)
(* get_promoted_int, create_int_cast).  What is read is not covered.       *)
(***************************************************************************)
NothingTruncated ==
    Accepted => \A i \in Assignments :
        LET e == stmts[i].e
            Way == {TypeOf(e), ReadType(stmts[i].to)} \cup {e.casts[j] : j \in DOMAIN e.casts}
        IN  CASE e.k = "literal" -> \A t \in Way : HoldsValue(t, e)
              [] e.k \in {"typed", "negative"} /\ IsInt(e.own) -> \A t \in Way : Holds(t, e.own)
              [] OTHER -> TRUE

(***************************************************************************)
(* Invariant: an accepted script leaves nothing without a type: every      *)
(* target, every value assigned, and every map that is read, also where it *)
(* is only read, before the statement that gives it its type (visit of     *)
(* MapAccess, assign_map_type, and the final pass of analyse).             *)
(***************************************************************************)
AcceptedIsTyped ==
    Accepted => \A i \in DOMAIN stmts :
        /\ i \in Assignments => ~IsNone(stmts[i].node) /\ ~IsNone(TypeOf(stmts[i].e))
        /\ (stmts[i].k = "use" /\ stmts[i].e.of \in Maps) => ~IsNone(stmts[i].e.type)

(***************************************************************************)
(* Liveness: the analysis of every script ends, also of those whose types  *)
(* wait for each other (the passes of analyse, PassTracker).               *)
(***************************************************************************)
Settles == <>done

(***************************************************************************)
(* Invariant: in an accepted script a variable keeps the type it was       *)
(* declared with.                                                          *)
(***************************************************************************)
DeclaredTypesKept ==
    Accepted => \A i \in DOMAIN stmts :
        (stmts[i].k = "let" /\ stmts[i].type.size # 0) =>
            variables[stmts[i].to].type = stmts[i].type

(***************************************************************************)
(* Invariant: in an accepted script all nodes of a map or variable that is *)
(* assigned carry one type, the one it has in the end.                     *)
(***************************************************************************)
NodesAgree ==
    Accepted => \A i \in Assignments : stmts[i].node = ReadType(stmts[i].to)
=============================================================================
