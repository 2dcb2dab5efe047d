--------------------------- MODULE AnalysisProofs ---------------------------
(***************************************************************************)
(* Three passes over a script, and the theorems about them, for any        *)
(* scripts.                                                                *)
(*                                                                         *)
(* TypeInference: what the analyser leaves in an accepted script: nothing  *)
(* without a type, and no literal or typed value that is cut off.          *)
(*                                                                         *)
(* MapSugar: scripts that no first use misleads compile exactly if their   *)
(* uses agree, whatever uses they have and in whatever order.              *)
(*                                                                         *)
(* Literals: folding with the operators on numbers is exact, for integers  *)
(* of any width.                                                           *)
(***************************************************************************)
EXTENDS TypeInference, MapSugar, Literals, SequenceTheorems, TLAPS

-----------------------------------------------------------------------------
(***************************************************************************)
(* Types: the inductive invariant.                                         *)
(***************************************************************************)
Variable == [type : Types, can_resize : BOOLEAN, was_assigned : BOOLEAN]
Trackers == [state : {"Converging", "SecondChance", "FinalPass"}, unresolved : Nat, last : Nat,
             first : BOOLEAN]

\* The state has its types, and analyse() only returns well after the final pass.
TypeInv ==
    /\ stmts \in Seq(Statements) /\ pc \in 1 .. Len(stmts) + 1
    /\ tracker \in Trackers
    /\ DOMAIN map_val \subseteq Maps /\ map_val \in [DOMAIN map_val -> Types]
    /\ DOMAIN variables \subseteq Vars /\ variables \in [DOMAIN variables -> Variable]
    /\ ok \in BOOLEAN /\ done \in BOOLEAN
    /\ Final => ~First
    /\ done /\ ok => Final /\ pc = Len(stmts) + 1

MapStatements == {"map", "map++"}

\* Statements keep the targets they were parsed with.
Shape ==
    /\ \A i \in DOMAIN stmts :
        /\ stmts[i].k \in {"map", "map++"} => stmts[i].to \in Maps
        /\ stmts[i].k \in {"var", "var++", "let"} => stmts[i].to \in Vars
        /\ stmts[i].e.k # "read" => stmts[i].e.of \notin Maps
    /\ \A m \in DOMAIN map_val :
          \E j \in DOMAIN stmts : stmts[j].k \in MapStatements /\ stmts[j].to = m

Visited == {i \in DOMAIN stmts : i < pc}

\* The types that the maps and variables have.
Reads == [x \in Names |-> ReadType(x)]

\* Nothing is without a type here, but for maps that have none yet.
Fine(i) ==
    /\ i \in Assignments => ~IsNone(stmts[i].node) /\ ~IsNone(TypeOf(stmts[i].e))
    /\ (stmts[i].k = "use" /\ stmts[i].e.of \in Maps) =>
          \/ ~IsNone(stmts[i].e.type)
          \/ stmts[i].e.of \in DOMAIN map_val /\ IsNone(map_val[stmts[i].e.of])

\* A statement that is still to be visited assigns m.
Awaited(m) ==
    \E j \in DOMAIN stmts : j >= pc /\ stmts[j].k \in MapStatements /\ stmts[j].to = m

\* In the final pass what has been visited is settled.
Resolved ==
    Final /\ ok =>
        /\ \A i \in Visited : Fine(i)
        /\ \A m \in DOMAIN map_val : IsNone(map_val[m]) => Awaited(m)

\* A value whose type does not depend on the analysis, and the types that hold it.
Valued(e) == e.k \in {"literal", "negative", "typed"} /\ IsInt(e.own)
HoldsExpr(t, e) == IsInt(t) /\ IF e.k = "literal" THEN HoldsValue(t, e) ELSE Holds(t, e.own)

\* An expression that nothing has cut off so far.
Whole(e) ==
    /\ e.k \in {"literal", "negative"} => e.casts = <<>> /\ IsInt(e.own)
    /\ e.k = "literal" => e.signed_size \in {e.own.size, 2 * e.own.size}
    /\ e.k = "typed" => e.type = e.own
    /\ Valued(e) => HoldsExpr(e.type, e) /\ \A j \in DOMAIN e.casts : HoldsExpr(e.casts[j], e)

Int64 == IntType(MaxSize, TRUE)

\* No pass cuts off a literal or a typed value; and in the final one every target holds
\* what was assigned to it so far, as no target shrinks.
Kept ==
    /\ \A i \in DOMAIN stmts : Whole(stmts[i].e)
    /\ ok => \A j \in DOMAIN stmts : (stmts[j].k = "map++" /\ (First => j < pc)) =>
            stmts[j].to \in DOMAIN map_val /\ map_val[stmts[j].to] = Int64
    /\ Final /\ ok => \A i \in Visited \cap Assignments :
            Valued(stmts[i].e) => HoldsExpr(Reads[stmts[i].to], stmts[i].e)

-----------------------------------------------------------------------------
(***************************************************************************)
(* Types and what they hold.                                               *)
(***************************************************************************)
\* A type has a size and a sign, and an integer one of the sizes there are.
LEMMA TypeFacts ==
    ASSUME NEW t \in Types
    PROVE  /\ t.size \in Nat /\ t.signed \in BOOLEAN
           /\ IsInt(t) => t.size \in {1, 2, 4, 8} /\ t.size <= MaxSize /\ ~IsNone(t)
  BY DEF Types, IsInt, IsNone, IntSizes

\* Integers of every size and sign are types.
LEMMA IntTypeFacts ==
    ASSUME NEW n \in IntSizes, n <= MaxSize, NEW b \in BOOLEAN
    PROVE  /\ IntType(n, b) \in Types /\ IsInt(IntType(n, b))
           /\ IntType(n, b).size = n /\ IntType(n, b).signed = b
<1>1. n \in Nat
  BY DEF IntSizes
<1> QED BY <1>1 DEF IntType, Sized, Types, TypeNames, IsInt

\* The missing type.
LEMMA NoneFacts == None \in Types /\ IsNone(None) /\ ~IsInt(None)
  BY DEF None, Sized, Types, TypeNames, IsNone, IsInt

\* Integers are told apart by size and sign.
LEMMA SameType ==
    ASSUME NEW t \in Types, NEW u \in Types, IsInt(t), IsInt(u),
           t.size = u.size, t.signed = u.signed
    PROVE  t = u
  BY DEF Types, IsInt

\* The largest signed integer, which an incremented map holds.
LEMMA LargestFacts == Int64 \in Types /\ IsInt(Int64) /\ Int64.size = MaxSize /\ Int64.signed = TRUE
<1>1. MaxSize \in IntSizes /\ MaxSize <= MaxSize
  BY MaxSizeAssumption DEF IntSizes
<1> QED BY <1>1, IntTypeFacts DEF Int64

\* A type holds a smaller one of its sign, and a signed one a smaller unsigned one.
LEMMA HoldsSame ==
    ASSUME NEW t \in Types, NEW s \in Types, s.signed = t.signed, s.size <= t.size
    PROVE  Holds(t, s)
  BY Zenon DEF Holds

\* A wider signed type holds an unsigned one.
LEMMA HoldsWider ==
    ASSUME NEW t \in Types, NEW s \in Types, s.signed = FALSE, t.signed = TRUE, s.size < t.size
    PROVE  Holds(t, s)
  BY Zenon DEF Holds

\* A type holds itself.
LEMMA HoldsItself == \A t \in Types : Holds(t, t)
<1> TAKE t \in Types
<1>1. t.size <= t.size
  BY DEF Types
<1> QED BY <1>1, HoldsSame, Zenon

\* What it means for a type of either sign to hold a literal.
LEMMA HoldsValueFacts ==
    ASSUME NEW t \in Types, NEW e
    PROVE  /\ t.signed = TRUE => (HoldsValue(t, e) <=> e.signed_size <= t.size)
           /\ t.signed = FALSE => (HoldsValue(t, e) <=> e.own.size <= t.size)
  BY Zenon DEF HoldsValue

\* get_promoted_int: the type two integers are brought to holds both.
LEMMA Promotion ==
    ASSUME NEW l \in Types, NEW r \in Types, IsInt(l), IsInt(r), l.signed # r.signed,
           NEW p, p = get_promoted_int(l, r)
    PROVE  p \in Types /\ (~IsNone(p) => IsInt(p) /\ Holds(p, l) /\ Holds(p, r))
<1> DEFINE n == 2 * Max2(l.size, r.size)
<1>1. /\ l.size \in {1, 2, 4, 8} /\ r.size \in {1, 2, 4, 8} /\ MaxSize \in {1, 2, 4, 8}
      /\ l.signed \in BOOLEAN /\ r.signed \in BOOLEAN
  BY TypeFacts, MaxSizeAssumption DEF IntSizes
<1>2. CASE l.signed /\ l.size > r.size
  <2>1. l.signed = TRUE /\ r.signed = FALSE /\ p = l
    BY <1>1, <1>2 DEF get_promoted_int
  <2>2. l.size <= l.size /\ r.size < l.size
    BY <1>1, <1>2
  <2>3. Holds(l, l) /\ Holds(l, r)
    BY <2>1, <2>2, HoldsSame, HoldsWider, Zenon
  <2> QED BY <2>1, <2>3
<1>3. CASE ~l.signed /\ l.size < r.size
  <2>1. l.signed = FALSE /\ r.signed = TRUE /\ p = r
    BY <1>1, <1>3 DEF get_promoted_int
  <2> QED BY <1>1, <1>3, <2>1 DEF Holds
<1>4. CASE ~(l.signed /\ l.size > r.size) /\ ~(~l.signed /\ l.size < r.size)
  <2>1. p = IF n > MaxSize THEN None ELSE IntType(n, TRUE)
    BY <1>4 DEF get_promoted_int
  <2>2. CASE n > MaxSize
    BY <2>1, <2>2, NoneFacts
  <2>3. CASE ~(n > MaxSize)
    <3>1. n \in IntSizes /\ n \in Nat /\ n <= MaxSize /\ n > l.size /\ n > r.size
      BY <1>1, <2>3 DEF Max2, IntSizes
    <3>2. IntType(n, TRUE) \in Types /\ IsInt(IntType(n, TRUE))
          /\ IntType(n, TRUE).size = n /\ IntType(n, TRUE).signed = TRUE
      BY <3>1, IntTypeFacts
    <3> HIDE DEF n
    <3> DEFINE q == IntType(n, TRUE)
    <3>3. q.size = n /\ q.signed = TRUE /\ p = q /\ q \in Types
      BY <2>1, <2>3, <3>2
    <3> HIDE DEF q
    <3>4. Holds(q, l) /\ Holds(q, r)
      <4>1. l.size <= q.size /\ l.size < q.size /\ r.size <= q.size /\ r.size < q.size /\ q \in Types
        BY <1>1, <3>1, <3>3
      <4>2. (l.signed = TRUE \/ l.signed = FALSE) /\ (r.signed = TRUE \/ r.signed = FALSE)
        BY <1>1
      <4> QED BY <3>3, <4>1, <4>2, HoldsSame, HoldsWider, Zenon
    <3> QED BY <2>1, <2>3, <3>2, <3>3, <3>4 DEF q
  <2> QED BY <2>2, <2>3
<1> QED BY <1>2, <1>3, <1>4

\* A type that holds all values of t holds the value that t holds.
LEMMA Widening ==
    ASSUME NEW e \in Exprs, Whole(e), Valued(e), NEW t \in Types, HoldsExpr(t, e),
           NEW u \in Types, IsInt(u), Holds(u, t)
    PROVE  HoldsExpr(u, e)
<1>1. e.own \in Types /\ IsInt(e.own) /\ e.signed_size \in Nat
  BY DEF Exprs, Valued
<1>2. CASE e.k = "literal"
  <2>1. e.signed_size \in {e.own.size, 2 * e.own.size}
    BY <1>2 DEF Whole
  <2> QED BY <1>1, <1>2, <2>1 DEF HoldsExpr, HoldsValue, Holds, Types, IsInt, IntSizes
<1>3. CASE e.k # "literal"
  BY <1>1, <1>3 DEF HoldsExpr, Holds, Types, IsInt
<1> QED BY <1>2, <1>3

\* update_int_type: the type a target takes holds what it held and what is assigned.
LEMMA Updates ==
    ASSUME NEW e \in Exprs, Whole(e), NEW s \in Types, IsInt(s), IsInt(TypeOf(e)),
           TypeOf(e) \in Types, NEW u, u = update_int_type(e, s)
    PROVE  /\ u \in Types
           /\ ~IsNone(u) => /\ IsInt(u) /\ Holds(u, s)
                            /\ Valued(e) => HoldsExpr(u, e)
                            /\ s = Int64 => u = Int64
<1> DEFINE t == TypeOf(e)
<1>1. Valued(e) => HoldsExpr(t, e)
  BY DEF Whole, TypeOf, Exprs
<1>2. CASE t.signed = s.signed
  <2>1. u = IF t.size < s.size THEN s ELSE t
    BY <1>2 DEF update_int_type
  <2>2. u \in Types /\ IsInt(u) /\ Holds(u, s) /\ Holds(u, t)
    BY <1>2, <2>1 DEF Holds, Types, IsInt
  <2>3. s = Int64 => u = Int64
    BY <1>2, <2>1, <2>2, TypeFacts, LargestFacts, SameType
  <2> QED BY <1>1, <2>2, <2>3, Widening
<1>3. CASE t.signed # s.signed /\ ~IsIntLiteral(e)
  <2>1. u = get_promoted_int(s, t)
    BY <1>3 DEF update_int_type
  <2>2. u \in Types /\ (~IsNone(u) => IsInt(u) /\ Holds(u, s) /\ Holds(u, t))
    BY <1>3, <2>1, Promotion
  <2>3. ASSUME s = Int64, ~IsNone(u) PROVE u = Int64
    <3>1. t.size \in {1, 2, 4, 8} /\ t.size <= MaxSize /\ MaxSize \in {1, 2, 4, 8}
      BY TypeFacts, MaxSizeAssumption DEF IntSizes
    <3>2. s.signed /\ s.size = MaxSize
      BY <2>3, LargestFacts
    <3>3. CASE t.size < MaxSize
      BY <2>1, <2>3, <3>1, <3>2, <3>3 DEF get_promoted_int
    <3>4. CASE t.size = MaxSize
      <4>1. u = None
        <5>1. ~(s.signed /\ s.size > t.size) /\ ~(~s.signed /\ s.size < t.size)
          BY <3>1, <3>2, <3>4
        <5>2. 2 * Max2(s.size, t.size) > MaxSize
          BY <3>1, <3>2, <3>4 DEF Max2
        <5> QED BY <2>1, <5>1, <5>2 DEF get_promoted_int
      <4> QED BY <4>1, <2>3, NoneFacts
    <3> QED BY <3>1, <3>3, <3>4
  <2> QED BY <1>1, <2>2, <2>3, Widening
<1>4. CASE t.signed # s.signed /\ IsIntLiteral(e)
  <2>1. e.k = "literal" /\ e.casts = <<>> /\ e.signed_size \in {e.own.size, 2 * e.own.size}
        /\ e.own \in Types /\ IsInt(e.own) /\ e.signed_size \in Nat
    BY <1>4 DEF IsIntLiteral, Whole, Exprs
  <2>2. u = IF e.signed_size > MaxSize THEN None
            ELSE IF e.signed_size <= s.size THEN s
            ELSE IntType(e.signed_size, TRUE)
    BY <1>4 DEF update_int_type
  <2>3. Valued(e) /\ HoldsValue(t, e)
    BY <1>1, <2>1 DEF Valued, HoldsExpr
  <2> DEFINE n == e.signed_size
  <2>4. /\ e.own.size \in {1, 2, 4, 8} /\ s.size \in {1, 2, 4, 8} /\ MaxSize \in {1, 2, 4, 8}
        /\ s.signed \in BOOLEAN /\ t.signed \in BOOLEAN /\ s.size <= MaxSize /\ n \in Nat
    BY <2>1, TypeFacts, MaxSizeAssumption DEF IntSizes
  <2>5. CASE n > MaxSize
    BY <2>2, <2>5, NoneFacts
  <2>6. CASE ~(n > MaxSize) /\ n <= s.size
    <3>1. u = s
      BY <2>2, <2>6
    <3>2. HoldsValue(s, e)
      BY <2>1, <2>4, <2>6 DEF HoldsValue
    <3> QED BY <3>1, <3>2, <2>1, <2>3, <2>4 DEF HoldsExpr, Holds
  <2>7. CASE ~(n > MaxSize) /\ ~(n <= s.size)
    <3>1. u = IntType(n, TRUE) /\ n \in IntSizes /\ n <= MaxSize
      <4>1. u = IntType(n, TRUE)
        BY <2>2, <2>7
      <4>2. n \in IntSizes
        BY <2>1, <2>4, <2>7 DEF IntSizes
      <4> QED BY <2>7, <4>1, <4>2, <2>4
    <3>2. u \in Types /\ IsInt(u) /\ u.size = n /\ u.signed = TRUE
      BY <3>1, IntTypeFacts
    <3>3. HoldsValue(u, e) /\ Holds(u, s)
      <4>1. HoldsValue(u, e)
        BY <2>4, <3>2 DEF HoldsValue
      <4>2. Holds(u, s)
        <5>1. s.size < u.size /\ s.size <= u.size /\ (s.signed = TRUE \/ s.signed = FALSE)
          BY <2>4, <2>7, <3>2
        <5> QED BY <5>1, <3>2, HoldsSame, HoldsWider, Zenon
      <4> QED BY <4>1, <4>2
    <3>4. s # Int64
      BY <2>4, <2>7, LargestFacts
    <3> QED BY <2>1, <3>2, <3>3, <3>4 DEF HoldsExpr
  <2> QED BY <2>5, <2>6, <2>7
<1> QED BY <1>2, <1>3, <1>4

\* What an expression holds depends on what it was parsed as.
Same(e, f) == e.k = f.k /\ e.of = f.of /\ e.own = f.own /\ e.signed_size = f.signed_size

\* Casts and types do not change what an expression was parsed as.
LEMMA SameHolds ==
    ASSUME NEW e, NEW f, Same(e, f)
    PROVE  (Valued(e) <=> Valued(f)) /\ \A t : HoldsExpr(t, e) <=> HoldsExpr(t, f)
  BY DEF Same, Valued, HoldsExpr, HoldsValue

\* What is assigned may be cast to a type that holds it.
LEMMA Fitting ==
    ASSUME NEW e \in Exprs, Whole(e), NEW t \in Types, IsInt(t), IsInt(TypeOf(e)),
           Valued(e) => HoldsExpr(t, e), NEW f, f = Fit(e, t)
    PROVE  f \in Exprs /\ Same(f, e) /\ Whole(f) /\ IsInt(TypeOf(f))
<1>1. CASE f = e
  BY <1>1 DEF Same
<1>2. CASE f # e
  <2>1. f = create_int_cast(e, t)
    BY <1>2 DEF Fit
  <2>2. CASE e.casts = <<>> /\ e.k \in {"literal", "negative"}
    <3>1. f = [e EXCEPT !.type = t]
      BY <2>1, <2>2 DEF create_int_cast
    <3>2. f \in Exprs /\ Same(f, e) /\ f.type = t /\ f.casts = <<>>
      BY <3>1, <2>2 DEF Exprs, Same
    <3>3. Whole(f)
      BY <3>2, <2>2, SameHolds DEF Whole, Same
    <3> QED BY <3>2, <3>3 DEF TypeOf
  <2>3. CASE ~(e.casts = <<>> /\ e.k \in {"literal", "negative"})
    <3>1. f = [e EXCEPT !.casts = Append(e.casts, t)]
      BY <2>1, <2>3 DEF create_int_cast
    <3>2. e.casts \in Seq(Types) /\ Append(e.casts, t) \in Seq(Types)
      BY DEF Exprs
    <3>3. f \in Exprs /\ Same(f, e) /\ f.type = e.type /\ f.casts = Append(e.casts, t)
      BY <3>1, <3>2 DEF Exprs, Same
    <3>4. TypeOf(f) = t
      BY <3>2, <3>3 DEF TypeOf
    <3>5. e.k \notin {"literal", "negative"}
      BY <2>3 DEF Whole
    <3>6. Whole(f)
      <4>1. ASSUME Valued(f) PROVE \A j \in DOMAIN f.casts : HoldsExpr(f.casts[j], f)
        <5>1. Valued(e) /\ HoldsExpr(t, e) /\ \A j \in DOMAIN e.casts : HoldsExpr(e.casts[j], e)
          BY <4>1, <3>3, SameHolds DEF Whole
        <5>2. \A j \in DOMAIN f.casts : f.casts[j] = t \/ (j \in DOMAIN e.casts /\ f.casts[j] = e.casts[j])
          BY <3>2, <3>3
        <5> QED BY <5>1, <5>2, <3>3, SameHolds
      <4>2. Valued(f) => HoldsExpr(f.type, f)
        BY <3>3, SameHolds DEF Whole
      <4>3. f.k \notin {"literal", "negative"} /\ (f.k = "typed" => f.type = f.own)
        BY <3>3, <3>5 DEF Same, Whole
      <4> QED BY <4>1, <4>2, <4>3 DEF Whole
    <3> QED BY <3>3, <3>4, <3>6
  <2> QED BY <2>2, <2>3
<1> QED BY <1>1, <1>2

-----------------------------------------------------------------------------
(***************************************************************************)
(* A visit of a statement.                                                 *)
(***************************************************************************)
\* The statement becomes node, which holds what it was parsed as.
Visits(node) ==
    /\ ~done /\ pc \in DOMAIN stmts /\ node \in Statements
    /\ stmts' = [stmts EXCEPT ![pc] = node] /\ pc' = pc + 1 /\ done' = done
    /\ tracker' \in Trackers /\ tracker'.state = tracker.state /\ tracker'.first = tracker.first
    /\ ok' \in BOOLEAN /\ (ok' => ok)
    /\ node.k = Stmt.k /\ node.to = Stmt.to /\ Same(node.e, Stmt.e) /\ Whole(node.e)

\* What is known of maps and variables stays known and well typed.
Learns ==
    /\ DOMAIN map_val' \subseteq Maps /\ map_val' \in [DOMAIN map_val' -> Types]
    /\ DOMAIN variables' \subseteq Vars /\ variables' \in [DOMAIN variables' -> Variable]
    /\ DOMAIN map_val \subseteq DOMAIN map_val'
    /\ \A m \in DOMAIN map_val' :
          m \in DOMAIN map_val \/ (Stmt.k \in MapStatements /\ m = Stmt.to)

\* A map that is incremented stays at the largest integer.
StaysLargest ==
    ok' => /\ \A m \in DOMAIN map_val : map_val[m] = Int64 => map_val'[m] = Int64
           /\ Stmt.k = "map++" => Stmt.to \in DOMAIN map_val' /\ map_val'[Stmt.to] = Int64

\* In the final pass every visit settles its statement.
Settled(node) ==
    Final /\ ok' =>
        /\ Stmt.k \in {"map", "var"} => ~IsNone(node.node) /\ ~IsNone(TypeOf(node.e))
        /\ (Stmt.k = "use" /\ node.e.of \in Maps) =>
              \/ ~IsNone(node.e.type)
              \/ node.e.of \in DOMAIN map_val' /\ IsNone(map_val'[node.e.of])
        /\ \A m \in DOMAIN map_val : IsNone(map_val'[m]) <=> IsNone(map_val[m])
        /\ Stmt.k \in MapStatements =>
              Stmt.to \in DOMAIN map_val' /\ ~IsNone(map_val'[Stmt.to])

\* In the final pass a target only grows.
Grows(node) ==
    Final /\ ok' =>
        /\ \A x \in Names : IsInt(Reads[x]) => IsInt(Reads'[x]) /\ Holds(Reads'[x], Reads[x])
        /\ (Stmt.k \in {"map", "var"} /\ Valued(node.e)) => HoldsExpr(Reads'[Stmt.to], node.e)

Lawful(node) == Visits(node) /\ Learns /\ StaysLargest /\ Settled(node) /\ Grows(node)

\* The types of maps and variables are types.
LEMMA ReadsTyped ==
    ASSUME TypeInv
    PROVE  Reads \in [Names -> Types] /\ (Learns => Reads' \in [Names -> Types])
<1>1. \A x \in Names : ReadType(x) \in Types
  BY NoneFacts DEF TypeInv, ReadType, Known, Variable
<1>2. ASSUME Learns, NEW x \in Names PROVE ReadType(x)' \in Types
  BY <1>2, NoneFacts DEF Learns, ReadType, Known, Variable
<1> QED BY <1>1, <1>2 DEF Reads

\* One statement is replaced, all others stay.
LEMMA Placed ==
    ASSUME TypeInv, NEW node, Visits(node)
    PROVE  /\ stmts' \in Seq(Statements) /\ DOMAIN stmts' = DOMAIN stmts /\ Len(stmts') = Len(stmts)
           /\ stmts'[pc] = node /\ pc \in 1 .. Len(stmts) /\ stmts[pc] \in Statements
           /\ \A i \in DOMAIN stmts : i # pc => stmts'[i] = stmts[i]
           /\ DOMAIN stmts = 1 .. Len(stmts) /\ Len(stmts) \in Nat /\ DOMAIN stmts \subseteq Nat
  BY DEF TypeInv, Visits

\* A lawful visit keeps the types,
LEMMA VisitTyped ==
    ASSUME TypeInv, NEW node, Visits(node), Learns
    PROVE  TypeInv'
<1>1. stmts' \in Seq(Statements) /\ pc' \in 1 .. Len(stmts') + 1
  <2>1. pc' = pc + 1
    BY DEF Visits
  <2> QED BY <2>1, Placed
<1>2. ok' \in BOOLEAN /\ done' \in BOOLEAN /\ ~done' /\ tracker' \in Trackers
  BY DEF Visits, TypeInv
<1>3. Final' => ~First'
  BY DEF Visits, TypeInv, Final, First
<1> QED BY <1>1, <1>2, <1>3 DEF TypeInv, Learns

\* ... the shape of the script,
LEMMA VisitShaped ==
    ASSUME TypeInv, Shape, NEW node, Visits(node), Learns
    PROVE  Shape'
<1>1. /\ stmts'[pc] = node /\ DOMAIN stmts' = DOMAIN stmts /\ pc \in DOMAIN stmts
      /\ \A i \in DOMAIN stmts : i # pc => stmts'[i] = stmts[i]
  BY Placed
<1>2. \A i \in DOMAIN stmts : /\ stmts'[i].k = stmts[i].k /\ stmts'[i].to = stmts[i].to
                              /\ stmts'[i].e.k = stmts[i].e.k /\ stmts'[i].e.of = stmts[i].e.of
  BY <1>1 DEF Visits, Same, Stmt
<1>3. \A m \in DOMAIN map_val' :
          \E j \in DOMAIN stmts : stmts[j].k \in MapStatements /\ stmts[j].to = m
  BY <1>1 DEF Learns, Shape, Stmt
<1> QED BY <1>1, <1>2, <1>3 DEF Shape

\* ... what is settled,
LEMMA VisitResolved ==
    ASSUME TypeInv, Shape, Resolved, NEW node, Lawful(node)
    PROVE  Resolved'
<1> SUFFICES ASSUME Final', ok'
             PROVE  /\ \A i \in Visited' : Fine(i)'
                    /\ \A m \in DOMAIN map_val' : IsNone(map_val'[m]) => Awaited(m)'
  BY DEF Resolved
<1>1. /\ stmts'[pc] = node /\ DOMAIN stmts' = DOMAIN stmts /\ pc \in DOMAIN stmts
      /\ \A i \in DOMAIN stmts : i # pc => stmts'[i] = stmts[i]
      /\ pc' = pc + 1 /\ pc \in Nat /\ DOMAIN stmts \subseteq Nat
  <2>1. Visits(node)
    BY DEF Lawful
  <2>2. pc' = pc + 1
    BY <2>1 DEF Visits
  <2> QED BY <2>1, <2>2, Placed
<1>2. Final /\ ok /\ node.k = Stmt.k /\ node.to = Stmt.to
  BY DEF Lawful, Visits, Final
<1>3. /\ \A i \in Visited : Fine(i)
      /\ \A m \in DOMAIN map_val : IsNone(map_val[m]) => Awaited(m)
  BY <1>2 DEF Resolved
<1>4. /\ \A m \in DOMAIN map_val : m \in DOMAIN map_val' /\ (IsNone(map_val'[m]) <=> IsNone(map_val[m]))
      /\ Stmt.k \in MapStatements => Stmt.to \in DOMAIN map_val' /\ ~IsNone(map_val'[Stmt.to])
  BY <1>2 DEF Lawful, Settled, Learns
<1>5. ASSUME NEW i \in Visited' PROVE Fine(i)'
  <2>1. CASE i = pc
    BY <1>1, <1>2, <2>1 DEF Fine, Lawful, Settled, Assignments
  <2>2. CASE i # pc
    <3>1. i \in Visited /\ stmts'[i] = stmts[i] /\ i \in DOMAIN stmts
      BY <1>1, <2>2 DEF Visited
    <3> QED BY <3>1, <1>1, <1>3, <1>4 DEF Fine, Assignments
  <2> QED BY <2>1, <2>2
<1>6. ASSUME NEW m \in DOMAIN map_val', IsNone(map_val'[m]) PROVE Awaited(m)'
  <2>1. m \in DOMAIN map_val /\ IsNone(map_val[m]) /\ ~(Stmt.k \in MapStatements /\ m = Stmt.to)
    BY <1>4, <1>6 DEF Lawful, Learns
  <2>2. PICK j \in DOMAIN stmts : j >= pc /\ stmts[j].k \in MapStatements /\ stmts[j].to = m
    BY <1>3, <2>1 DEF Awaited
  <2>3. j # pc
    BY <2>1, <2>2 DEF Stmt
  <2>4. j >= pc + 1 /\ stmts'[j] = stmts[j]
    BY <1>1, <2>2, <2>3
  <2> QED BY <1>1, <2>2, <2>4 DEF Awaited
<1> QED BY <1>5, <1>6

\* ... and what is kept.
LEMMA VisitKept ==
    ASSUME TypeInv, Shape, Kept, NEW node, Lawful(node)
    PROVE  Kept'
<1>1. /\ stmts'[pc] = node /\ DOMAIN stmts' = DOMAIN stmts /\ pc \in DOMAIN stmts
      /\ \A i \in DOMAIN stmts : i # pc => stmts'[i] = stmts[i]
      /\ pc' = pc + 1 /\ pc \in Nat /\ DOMAIN stmts \subseteq Nat
  <2>1. Visits(node)
    BY DEF Lawful
  <2>2. pc' = pc + 1
    BY <2>1 DEF Visits
  <2> QED BY <2>1, <2>2, Placed
<1>2. (ok' => ok) /\ (Final' <=> Final) /\ (First' <=> First) /\ node.k = Stmt.k /\ node.to = Stmt.to
  BY DEF Lawful, Visits, Final, First
<1>3. \A i \in DOMAIN stmts' : Whole(stmts'[i].e)
  BY <1>1 DEF Kept, Lawful, Visits
<1>4. ASSUME ok', NEW j \in DOMAIN stmts', stmts'[j].k = "map++", First' => j < pc'
      PROVE  stmts'[j].to \in DOMAIN map_val' /\ map_val'[stmts'[j].to] = Int64
  <2>1. CASE j = pc
    BY <1>1, <1>2, <1>4, <2>1 DEF Lawful, StaysLargest
  <2>2. CASE j # pc
    <3>1. stmts'[j] = stmts[j] /\ j \in DOMAIN stmts /\ (First => j < pc)
      BY <1>1, <1>2, <1>4, <2>2
    <3>2. stmts[j].to \in DOMAIN map_val /\ map_val[stmts[j].to] = Int64
      BY <1>2, <1>4, <3>1 DEF Kept
    <3> QED BY <1>4, <3>1, <3>2 DEF Lawful, StaysLargest, Learns
  <2> QED BY <2>1, <2>2
<1>5. ASSUME Final', ok', NEW i \in Visited' \cap Assignments', Valued(stmts'[i].e)
      PROVE  HoldsExpr(Reads'[stmts'[i].to], stmts'[i].e)
  <2>1. CASE i = pc
    <3>1. stmts'[i] = node /\ Stmt.k \in {"map", "var"} /\ Final /\ Valued(node.e)
      BY <1>1, <1>2, <1>5, <2>1 DEF Assignments
    <3>2. HoldsExpr(Reads'[Stmt.to], node.e)
      BY <1>5, <3>1 DEF Lawful, Grows
    <3> QED BY <1>2, <3>1, <3>2
  <2>2. CASE i # pc
    <3>1. i \in Visited \cap Assignments /\ stmts'[i] = stmts[i] /\ i \in DOMAIN stmts
      BY <1>1, <1>5, <2>2 DEF Visited, Assignments
    <3> DEFINE e == stmts[i].e
               x == stmts[i].to
    <3>2. HoldsExpr(Reads[x], e) /\ Whole(e) /\ Valued(e)
      BY <1>2, <1>5, <3>1 DEF Kept
    <3>3. e \in Exprs /\ x \in Names
      <4>1. stmts[i] \in Statements
        BY <3>1, <1>1 DEF TypeInv
      <4> QED BY <4>1 DEF Statements
    <3>4. IsInt(Reads[x])
      BY <3>2 DEF HoldsExpr
    <3>5. IsInt(Reads'[x]) /\ Holds(Reads'[x], Reads[x])
      BY <1>2, <1>5, <3>3, <3>4 DEF Lawful, Grows
    <3>6. Reads[x] \in Types /\ Reads'[x] \in Types
      BY <3>3, ReadsTyped DEF Lawful
    <3> HIDE DEF e, x
    <3>7. HoldsExpr(Reads'[x], e)
      BY <3>2, <3>3, <3>5, <3>6, Widening
    <3> QED BY <3>1, <3>7 DEF e, x
  <2> QED BY <2>1, <2>2
<1> QED BY <1>3, <1>4, <1>5 DEF Kept

-----------------------------------------------------------------------------
(***************************************************************************)
(* The statements of each kind.                                            *)
(***************************************************************************)
\* The statement that is visited.
LEMMA StmtFacts ==
    ASSUME TypeInv, Shape, Kept, NEW k, Enter(k)
    PROVE  /\ ~done /\ pc \in DOMAIN stmts /\ Stmt.k = k
           /\ Stmt \in Statements /\ Stmt.e \in Exprs /\ Stmt.to \in Names /\ Whole(Stmt.e)
           /\ k \in {"map", "map++"} => Stmt.to \in Maps
           /\ k \in {"var", "var++", "let"} => Stmt.to \in Vars
           /\ Stmt.e.k # "read" => Stmt.e.of \notin Maps
<1>1. pc \in DOMAIN stmts /\ Stmt.k = k /\ ~done /\ stmts[pc] = Stmt
  BY DEF Enter, TypeInv, Stmt
<1>2. Stmt \in Statements
  BY <1>1 DEF TypeInv
<1>3. Stmt.e \in Exprs /\ Stmt.to \in Names
  BY <1>2 DEF Statements
<1>4. Whole(Stmt.e)
  BY <1>1 DEF Kept
<1> QED BY <1>1, <1>2, <1>3, <1>4 DEF Shape

\* The type of an expression holds its value.
LEMMA TypeOfFacts ==
    ASSUME NEW e \in Exprs, Whole(e)
    PROVE  TypeOf(e) \in Types /\ (Valued(e) => HoldsExpr(TypeOf(e), e) /\ IsInt(TypeOf(e)))
<1>1. e.type \in Types /\ e.casts \in Seq(Types)
  BY DEF Exprs
<1>2. CASE e.casts = <<>>
  BY <1>1, <1>2 DEF TypeOf, Whole, HoldsExpr
<1>3. CASE e.casts # <<>>
  <2>1. Len(e.casts) \in DOMAIN e.casts /\ TypeOf(e) = e.casts[Len(e.casts)]
    BY <1>1, <1>3 DEF TypeOf
  <2> QED BY <1>1, <2>1 DEF Whole, HoldsExpr
<1> QED BY <1>2, <1>3

\* A read has the type of what it reads.
LEMMA ResolveFacts ==
    ASSUME TypeInv, NEW e \in Exprs, Whole(e), NEW f, f = ResolveRead(e)
    PROVE  /\ f \in Exprs /\ Same(f, e) /\ Whole(f)
           /\ e.k = "read" => f.type = ReadType(e.of)
           /\ e.k # "read" => f = e
<1>1. CASE e.k = "read"
  <2>1. f = [e EXCEPT !.type = ReadType(e.of)] /\ e.of \in Names
    BY <1>1 DEF ResolveRead, Exprs
  <2>2. ReadType(e.of) \in Types
    BY <2>1, ReadsTyped DEF Reads
  <2>3. f \in Exprs /\ Same(f, e) /\ f.type = ReadType(e.of)
    BY <2>1, <2>2 DEF Exprs, Same
  <2>4. Whole(f)
    BY <1>1, <2>3 DEF Whole, Same, Valued
  <2> QED BY <1>1, <2>3, <2>4
<1>2. CASE e.k # "read"
  BY <1>2 DEF ResolveRead, Same
<1> QED BY <1>1, <1>2

\* Visits only count what is unresolved.
LEMMA Tracking ==
    ASSUME TypeInv, tracker' = tracker \/ \E n \in Nat : Unresolved(n)
    PROVE  tracker' \in Trackers /\ tracker'.state = tracker.state /\ tracker'.first = tracker.first
  BY DEF TypeInv, Trackers, Unresolved

\* Counts are natural numbers.
LEMMA CountFacts == \A b : Count(b) \in Nat
  BY DEF Count

\* The outcome of assign_map_type.
LEMMA MapOutcome ==
    ASSUME TypeInv, NEW m \in Maps, NEW e \in Exprs, Whole(e),
           NEW a, a = assign_map_type(m, TypeOf(e), e)
    PROVE  /\ a.type \in Types
           /\ m \notin DOMAIN map_val => a.type = TypeOf(e)
           /\ (m \in DOMAIN map_val /\ a.good) =>
                 /\ Final => ~IsNone(map_val[m]) /\ ~IsNone(a.type)
                 /\ (Valued(e) /\ Final) => HoldsExpr(a.type, e)
                 /\ IsInt(map_val[m]) => /\ IsInt(TypeOf(e)) /\ IsInt(a.type)
                                         /\ Holds(a.type, map_val[m])
                                         /\ Valued(e) => HoldsExpr(a.type, e)
                                         /\ map_val[m] = Int64 => a.type = Int64
<1> DEFINE t == TypeOf(e)
           s == map_val[m]
           u == update_int_type(e, s)
<1>1. t \in Types /\ (Valued(e) => HoldsExpr(t, e) /\ IsInt(t))
  BY TypeOfFacts
<1>2. CASE m \notin DOMAIN map_val
  BY <1>1, <1>2 DEF assign_map_type, Known
<1>3. CASE m \in DOMAIN map_val
  <2>1. s \in Types
    BY <1>3 DEF TypeInv
  <2>2. CASE IsNone(s)
    BY <1>1, <1>3, <2>1, <2>2, NoneFacts DEF assign_map_type, Known, IsInt, IsNone
  <2>3. CASE ~IsNone(s) /\ s.ty # t.ty
    BY <1>3, <2>1, <2>3 DEF assign_map_type, Known
  <2>4. CASE ~IsNone(s) /\ s.ty = t.ty /\ ~IsInt(s)
    BY <1>1, <1>3, <2>1, <2>4 DEF assign_map_type, Known, IsInt
  <2>5. CASE ~IsNone(s) /\ s.ty = t.ty /\ IsInt(s)
    <3>1. IsInt(t)
      BY <2>5 DEF IsInt
    <3>2. a = IF IsNone(u) THEN [type |-> s, good |-> FALSE, waits |-> FALSE]
              ELSE [type |-> u, good |-> TRUE, waits |-> FALSE]
      BY <1>3, <2>5 DEF assign_map_type, Known
    <3>3. /\ u \in Types
          /\ ~IsNone(u) => /\ IsInt(u) /\ Holds(u, s)
                           /\ Valued(e) => HoldsExpr(u, e)
                           /\ s = Int64 => u = Int64
      BY <1>1, <2>1, <2>5, <3>1, Updates
    <3> HIDE DEF u, t
    <3> QED BY <1>3, <2>1, <2>5, <3>1, <3>2, <3>3 DEF t
  <2> QED BY <2>2, <2>3, <2>4, <2>5
<1> QED BY <1>2, <1>3

\* Each statement is visited lawfully: @m = e,
LEMMA AssignMapLawful ==
    ASSUME TypeInv, Shape, Kept, AssignMap
    PROVE  \E node : Lawful(node)
<1> DEFINE m == Stmt.to
           e == ResolveRead(Stmt.e)
           t == TypeOf(e)
           a == assign_map_type(m, t, e)
           both_ints == IsInt(t) /\ Known(map_val, m) /\ IsInt(map_val[m])
           f == IF both_ints /\ a.good THEN Fit(e, a.type) ELSE e
           node == [Stmt EXCEPT !.node = a.type, !.e = f]
           good == a.good /\ MapGood(m) /\ ReadGood(Stmt.e) /\ (Final => ~IsNone(t))
           n == Count(~Known(map_val, m)) + Count(UnknownRead(Stmt.e)) + Count(a.waits)
                + Count(IsNone(t))
<1>1. /\ Enter("map") /\ map_val' = Set(map_val, m, a.type) /\ Unresolved(n)
      /\ Leave(node, good) /\ variables' = variables
  BY DEF AssignMap
<1>2. /\ m \in Maps /\ m \in Names /\ Stmt.k = "map" /\ Stmt.e \in Exprs /\ Whole(Stmt.e)
  BY <1>1, StmtFacts
<1>3. e \in Exprs /\ Same(e, Stmt.e) /\ Whole(e) /\ n \in Nat
  BY <1>2, ResolveFacts, CountFacts
<1>4. t \in Types /\ (Valued(e) => HoldsExpr(t, e))
  BY <1>3, TypeOfFacts
<1>5. /\ a.type \in Types
      /\ m \notin DOMAIN map_val => a.type = t
      /\ (m \in DOMAIN map_val /\ a.good) =>
            /\ Final => ~IsNone(map_val[m]) /\ ~IsNone(a.type)
            /\ (Valued(e) /\ Final) => HoldsExpr(a.type, e)
            /\ IsInt(map_val[m]) => /\ IsInt(t) /\ IsInt(a.type) /\ Holds(a.type, map_val[m])
                                    /\ Valued(e) => HoldsExpr(a.type, e)
                                    /\ map_val[m] = Int64 => a.type = Int64
  BY <1>2, <1>3, MapOutcome
<1> HIDE DEF a, e, n
<1>6. f \in Exprs /\ Same(f, Stmt.e) /\ Whole(f) /\ (IsNone(TypeOf(f)) => IsNone(t))
  <2>1. CASE both_ints /\ a.good
    <3>1. f = Fit(e, a.type) /\ IsInt(t) /\ IsInt(a.type) /\ (Valued(e) => HoldsExpr(a.type, e))
      BY <1>5, <2>1 DEF Known
    <3> HIDE DEF f
    <3>2. f \in Exprs /\ Same(f, e) /\ Whole(f) /\ IsInt(TypeOf(f))
      BY <1>3, <1>5, <3>1, Fitting
    <3> QED BY <1>3, <3>2 DEF Same, IsInt, IsNone
  <2>2. CASE ~(both_ints /\ a.good)
    BY <1>3, <2>2
  <2> QED BY <2>1, <2>2
<1> HIDE DEF f, t, node, good
<1>7. Visits(node) /\ node.e = f /\ node.node = a.type /\ (ok' => ok /\ good)
  <2>1. node = [Stmt EXCEPT !.node = a.type, !.e = f]
    BY DEF node
  <2>2. /\ node \in Statements /\ node.k = Stmt.k /\ node.to = Stmt.to
        /\ node.e = f /\ node.node = a.type
    <3>1. Stmt \in Statements
      BY <1>1, StmtFacts
    <3> QED BY <1>5, <1>6, <2>1, <3>1 DEF Statements
  <2>3. tracker' \in Trackers /\ tracker'.state = tracker.state /\ tracker'.first = tracker.first
    BY <1>1, <1>3, Tracking
  <2>4. /\ stmts' = [stmts EXCEPT ![pc] = node] /\ pc' = pc + 1 /\ done' = done
        /\ ok' \in BOOLEAN /\ (ok' => ok /\ good)
    BY <1>1 DEF Leave
  <2>5. ~done /\ pc \in DOMAIN stmts
    BY <1>1, StmtFacts
  <2> QED BY <1>6, <2>2, <2>3, <2>4, <2>5 DEF Visits
<1> HIDE DEF m
<1>8. /\ DOMAIN map_val' = DOMAIN map_val \cup {m} /\ map_val'[m] = a.type
      /\ \A x \in DOMAIN map_val : x # m => map_val'[x] = map_val[x]
      /\ map_val' \in [DOMAIN map_val' -> Types]
  BY <1>1, <1>5 DEF Set, TypeInv
<1>9. Learns
  BY <1>1, <1>2, <1>8 DEF Learns, TypeInv, MapStatements, m
<1>10. StaysLargest
  BY <1>2, <1>5, <1>7, <1>8, LargestFacts DEF StaysLargest, good
<1>11. Settled(node)
  <2> SUFFICES ASSUME Final, ok'
               PROVE  /\ ~IsNone(a.type) /\ ~IsNone(TypeOf(f))
                      /\ \A x \in DOMAIN map_val : IsNone(map_val'[x]) <=> IsNone(map_val[x])
    BY <1>2, <1>7, <1>8 DEF Settled, m
  <2>1. a.good /\ ~IsNone(t)
    BY <1>7 DEF good
  <2>2. ~IsNone(a.type)
    BY <1>5, <2>1
  <2>3. \A x \in DOMAIN map_val : IsNone(map_val'[x]) <=> IsNone(map_val[x])
    BY <1>5, <1>8, <2>1, <2>2
  <2> QED BY <1>6, <2>1, <2>2, <2>3
<1>12. Grows(node)
  <2> SUFFICES ASSUME Final, ok'
               PROVE  /\ \A x \in Names : IsInt(Reads[x]) => IsInt(Reads'[x]) /\ Holds(Reads'[x], Reads[x])
                      /\ Valued(f) => HoldsExpr(Reads'[m], f)
    BY <1>7 DEF Grows, m
  <2>1. a.good /\ ~IsNone(t)
    BY <1>7 DEF good
  <2>2. Reads'[m] = a.type
    BY <1>2, <1>8 DEF Reads, ReadType, Known
  <2>3. \A x \in Names : x # m => Reads'[x] = Reads[x]
    BY <1>1, <1>8 DEF Reads, ReadType, Known
  <2>4. IsInt(Reads[m]) => IsInt(a.type) /\ Holds(a.type, Reads[m])
    BY <1>2, <1>5, <2>1, NoneFacts DEF Reads, ReadType, Known
  <2>5. ASSUME NEW x \in Names, x # m, IsInt(Reads[x]) PROVE Holds(Reads'[x], Reads[x])
    BY <2>3, <2>5, ReadsTyped, HoldsItself
  <2>6. Valued(e) => HoldsExpr(a.type, e)
    BY <1>4, <1>5, <2>1
  <2>7. Valued(f) => HoldsExpr(a.type, f)
    BY <1>3, <1>6, <2>6, SameHolds DEF Same
  <2> QED BY <2>2, <2>3, <2>4, <2>5, <2>7
<1> QED BY <1>7, <1>9, <1>10, <1>11, <1>12 DEF Lawful

\* The outcome of assign_variable.
LEMMA VarOutcome ==
    ASSUME TypeInv, NEW found \in Variable, NEW e \in Exprs, Whole(e),
           NEW a, a = assign_variable(found, e)
    PROVE  /\ a.type \in Types /\ a.good \in BOOLEAN /\ a.waits \in BOOLEAN
           /\ (Final /\ a.good) => ~a.waits
           /\ a.good /\ ~a.waits =>
                 /\ ~IsNone(TypeOf(e)) => ~IsNone(a.type)
                 /\ Valued(e) => HoldsExpr(a.type, e)
                 /\ IsInt(found.type) => /\ IsInt(TypeOf(e)) /\ IsInt(a.type)
                                         /\ Holds(a.type, found.type)
           /\ IsInt(TypeOf(e)) /\ IsInt(found.type) /\ a.good =>
                 ~a.waits /\ IsInt(a.type) /\ (Valued(e) => HoldsExpr(a.type, e))
<1> DEFINE t == TypeOf(e)
           s == found.type
           u == update_int_type(e, s)
<1>1. t \in Types /\ (Valued(e) => HoldsExpr(t, e) /\ IsInt(t)) /\ s \in Types
  BY TypeOfFacts DEF Variable
<1>2. CASE IsNone(s)
  <2>1. a = [type |-> t, good |-> TRUE, waits |-> FALSE] /\ ~IsInt(s)
    BY <1>2 DEF assign_variable, IsInt, IsNone
  <2> HIDE DEF t
  <2> QED BY <1>1, <1>2, <2>1 DEF t
<1>3. CASE ~IsNone(s) /\ s.ty # t.ty
  <2>1. a = [type |-> s, good |-> IsNone(t) /\ ~Final, waits |-> IsNone(t) /\ ~Final]
    BY <1>3 DEF assign_variable
  <2>2. a.type = s /\ a.good = (IsNone(t) /\ ~Final) /\ a.waits = (IsNone(t) /\ ~Final)
    BY <2>1
  <2>3. a.good \in BOOLEAN /\ a.waits \in BOOLEAN /\ (a.good <=> a.waits) /\ (a.good => ~Final)
    BY <2>2
  <2>4. ~(IsInt(t) /\ IsInt(s))
    BY <1>3 DEF IsInt
  <2> HIDE DEF t, s
  <2> QED BY <1>1, <2>2, <2>3, <2>4 DEF t, s
<1>4. CASE ~IsNone(s) /\ s.ty = t.ty /\ ~IsInt(t)
  <2>1. a = [type |-> s, good |-> TRUE, waits |-> FALSE] /\ ~IsInt(s)
    BY <1>4 DEF assign_variable, IsInt
  <2> HIDE DEF t, s
  <2> QED BY <1>1, <1>4, <2>1 DEF t, s
<1>5. CASE ~IsNone(s) /\ s.ty = t.ty /\ IsInt(t)
  <2>1. IsInt(s)
    BY <1>5 DEF IsInt
  <2>2. \/ a = [type |-> s, good |-> FALSE, waits |-> FALSE]
        \/ a = [type |-> u, good |-> TRUE, waits |-> FALSE] /\ ~IsNone(u)
    BY <1>5 DEF assign_variable
  <2>3. u \in Types /\ (~IsNone(u) => IsInt(u) /\ Holds(u, s) /\ (Valued(e) => HoldsExpr(u, e)))
    BY <1>1, <1>5, <2>1, Updates
  <2> HIDE DEF u, t, s
  <2>4. CASE a = [type |-> s, good |-> FALSE, waits |-> FALSE]
    BY <1>1, <2>4
  <2>5. CASE a = [type |-> u, good |-> TRUE, waits |-> FALSE] /\ ~IsNone(u)
    <3>1. /\ a.type = u /\ a.good = TRUE /\ a.waits = FALSE /\ a.type \in Types
          /\ ~IsNone(a.type) /\ IsInt(a.type) /\ Holds(a.type, s) /\ (Valued(e) => HoldsExpr(a.type, e))
      BY <2>3, <2>5
    <3> QED BY <1>5, <2>1, <3>1 DEF t, s
  <2> QED BY <2>2, <2>4, <2>5
<1> QED BY <1>2, <1>3, <1>4, <1>5

\* ... $v = e,
LEMMA AssignVarLawful ==
    ASSUME TypeInv, Shape, Kept, AssignVar
    PROVE  \E node : Lawful(node)
<1> DEFINE v == Stmt.to
           e == ResolveRead(Stmt.e)
           t == TypeOf(e)
           known == Known(variables, v)
           a == assign_variable(variables[v], e)
           stored == IF ~known \/ (a.waits /\ ~variables[v].was_assigned) THEN t ELSE a.type
           resize == IF known THEN variables[v].can_resize ELSE TRUE
           both_ints == IsInt(t) /\ known /\ IsInt(variables[v].type)
           good == known => a.good
           new == [type |-> stored, can_resize |-> resize,
                   was_assigned |-> good \/ variables[v].was_assigned]
           f == IF both_ints /\ good THEN Fit(e, stored) ELSE e
           node == [Stmt EXCEPT !.node = stored, !.e = f]
           n == Count(UnknownRead(Stmt.e)) + Count(known /\ a.waits)
<1>1. /\ Enter("var") /\ Unresolved(n) /\ map_val' = map_val
      /\ variables' = IF Final /\ IsNone(t) THEN variables ELSE Set(variables, v, new)
      /\ Leave(node, good /\ ReadGood(Stmt.e) /\ (Final => ~IsNone(t)))
  BY DEF AssignVar
<1>2. /\ v \in Vars /\ v \in Names /\ v \notin Maps /\ Stmt.k = "var" /\ Stmt.e \in Exprs
      /\ Whole(Stmt.e) /\ Stmt \in Statements
  BY <1>1, StmtFacts, NamesAssumption
<1>3. e \in Exprs /\ Same(e, Stmt.e) /\ Whole(e) /\ n \in Nat
  BY <1>2, ResolveFacts, CountFacts
<1>4. t \in Types /\ (Valued(e) => HoldsExpr(t, e))
  BY <1>3, TypeOfFacts
<1>5. known => variables[v] \in Variable
  BY DEF Known, TypeInv
<1>6. known =>
        /\ a.type \in Types /\ a.good \in BOOLEAN /\ a.waits \in BOOLEAN
        /\ (Final /\ a.good) => ~a.waits
        /\ a.good /\ ~a.waits =>
              /\ ~IsNone(t) => ~IsNone(a.type)
              /\ Valued(e) => HoldsExpr(a.type, e)
              /\ IsInt(variables[v].type) => /\ IsInt(t) /\ IsInt(a.type)
                                             /\ Holds(a.type, variables[v].type)
        /\ IsInt(t) /\ IsInt(variables[v].type) /\ a.good =>
              ~a.waits /\ IsInt(a.type) /\ (Valued(e) => HoldsExpr(a.type, e))
  BY <1>3, <1>5, VarOutcome
<1> HIDE DEF a, e, n, known
<1>7. stored \in Types
  BY <1>4, <1>6
<1>8. new \in Variable
  <2>1. good \in BOOLEAN /\ resize \in BOOLEAN
    BY <1>5, <1>6 DEF Variable
  <2>2. (good \/ variables[v].was_assigned) \in BOOLEAN
    OBVIOUS
  <2> HIDE DEF good, resize, stored
  <2> QED BY <1>7, <2>1, <2>2 DEF Variable
<1>9. f \in Exprs /\ Same(f, Stmt.e) /\ Whole(f) /\ (IsNone(TypeOf(f)) => IsNone(t))
  <2>1. CASE both_ints /\ good
    <3>1. IsInt(t) /\ stored = a.type /\ IsInt(a.type) /\ (Valued(e) => HoldsExpr(a.type, e))
      BY <1>6, <2>1
    <3>2. f = Fit(e, stored)
      BY <2>1
    <3> HIDE DEF f, stored
    <3>3. f \in Exprs /\ Same(f, e) /\ Whole(f) /\ IsInt(TypeOf(f))
      BY <1>3, <1>7, <3>1, <3>2, Fitting
    <3> QED BY <1>3, <3>3 DEF Same, IsInt, IsNone
  <2>2. CASE ~(both_ints /\ good)
    BY <1>3, <2>2
  <2> QED BY <2>1, <2>2
<1>10. /\ ok' \in BOOLEAN /\ (ok' => ok) /\ (ok' => good) /\ (ok' /\ Final => ~IsNone(t))
       /\ stmts' = [stmts EXCEPT ![pc] = node] /\ pc' = pc + 1 /\ done' = done
  BY <1>1 DEF Leave
<1>11. Final /\ ok' => IF known THEN a.good /\ ~a.waits /\ stored = a.type ELSE stored = t
  BY <1>6, <1>10
<1>12. Final /\ ok' => ~IsNone(stored) /\ (Valued(e) => HoldsExpr(stored, e))
  BY <1>4, <1>6, <1>10, <1>11
<1> HIDE DEF f, t, stored, good, new
<1>13. Visits(node) /\ node.e = f /\ node.node = stored
  <2>1. /\ node \in Statements /\ node.k = Stmt.k /\ node.to = Stmt.to
        /\ node.e = f /\ node.node = stored
    BY <1>2, <1>7, <1>9 DEF Statements
  <2>2. tracker' \in Trackers /\ tracker'.state = tracker.state /\ tracker'.first = tracker.first
    BY <1>1, <1>3, Tracking
  <2>3. ~done /\ pc \in DOMAIN stmts
    BY <1>1, StmtFacts
  <2> HIDE DEF node
  <2> QED BY <1>9, <1>10, <2>1, <2>2, <2>3 DEF Visits
<1> HIDE DEF node
<1>14. /\ DOMAIN variables' \subseteq Vars /\ variables' \in [DOMAIN variables' -> Variable]
       /\ \A x \in Names : x # v => (x \in DOMAIN variables' <=> x \in DOMAIN variables)
       /\ \A x \in DOMAIN variables : x # v => variables'[x] = variables[x]
       /\ ~(Final /\ IsNone(t)) => v \in DOMAIN variables' /\ variables'[v].type = stored
  <2>1. CASE Final /\ IsNone(t)
    BY <1>1, <2>1 DEF TypeInv
  <2>2. CASE ~(Final /\ IsNone(t))
    <3>1. variables' = Set(variables, v, new) /\ v \in Vars
      BY <1>1, <1>2, <2>2
    <3>2. new.type = stored
      BY DEF new
    <3> HIDE DEF v
    <3> QED BY <1>8, <3>1, <3>2 DEF Set, TypeInv
  <2> QED BY <2>1, <2>2
<1>15. Learns
  BY <1>1, <1>14 DEF Learns, TypeInv
<1>16. StaysLargest
  BY <1>1, <1>2 DEF StaysLargest
<1>17. Settled(node)
  BY <1>1, <1>2, <1>9, <1>10, <1>12, <1>13 DEF Settled, MapStatements
<1>18. Grows(node)
  <2> SUFFICES ASSUME Final, ok'
               PROVE  /\ \A x \in Names : IsInt(Reads[x]) => IsInt(Reads'[x]) /\ Holds(Reads'[x], Reads[x])
                      /\ Valued(f) => HoldsExpr(Reads'[v], f)
    BY <1>13 DEF Grows
  <2> HIDE DEF v
  <2>1. Reads'[v] = stored
    BY <1>2, <1>10, <1>14 DEF Reads, ReadType, Known
  <2>2. \A x \in Names : x # v => Reads'[x] = Reads[x]
    BY <1>1, <1>14 DEF Reads, ReadType, Known
  <2>3. IsInt(Reads[v]) => known /\ Reads[v] = variables[v].type
    BY <1>2, NoneFacts DEF Reads, ReadType, Known, known
  <2>4. IsInt(Reads[v]) => IsInt(stored) /\ Holds(stored, Reads[v])
    BY <1>6, <1>11, <2>3
  <2>5. ASSUME NEW x \in Names, x # v, IsInt(Reads[x]) PROVE Holds(Reads'[x], Reads[x])
    BY <2>2, <2>5, ReadsTyped, HoldsItself
  <2>6. Valued(f) => HoldsExpr(stored, f)
    BY <1>3, <1>9, <1>12, SameHolds DEF Same
  <2> QED BY <2>1, <2>2, <2>4, <2>5, <2>6
<1> QED BY <1>13, <1>15, <1>16, <1>17, <1>18 DEF Lawful

\* ... let $v,
LEMMA VarDeclLawful ==
    ASSUME TypeInv, Shape, Kept, VarDecl
    PROVE  \E node : Lawful(node)
<1> DEFINE v == Stmt.to
           known == Known(variables, v)
           new == [type |-> Stmt.type, can_resize |-> Stmt.type.size = 0, was_assigned |-> FALSE]
           x == IF known /\ Final THEN variables[v].type ELSE Stmt.type
           node == [Stmt EXCEPT !.node = x]
           good == ~(First /\ known)
<1>1. /\ Enter("let") /\ Leave(node, good) /\ tracker' = tracker /\ map_val' = map_val
      /\ variables' = IF known THEN variables ELSE Set(variables, v, new)
  BY DEF VarDecl
<1>2. /\ v \in Vars /\ v \in Names /\ v \notin Maps /\ Stmt.k = "let" /\ Stmt \in Statements
      /\ Whole(Stmt.e)
  BY <1>1, StmtFacts, NamesAssumption
<1>3. Stmt.type \in Types /\ new \in Variable /\ x \in Types
  <2>1. Stmt.type \in Types
    BY <1>2 DEF Statements
  <2>2. known => variables[v] \in Variable
    BY DEF Known, TypeInv
  <2> QED BY <2>1, <2>2 DEF Variable
<1>4. ok' \in BOOLEAN /\ (ok' => ok) /\ stmts' = [stmts EXCEPT ![pc] = node]
      /\ pc' = pc + 1 /\ done' = done
  BY <1>1 DEF Leave
<1>5. Visits(node)
  <2>1. /\ node \in Statements /\ node.k = Stmt.k /\ node.to = Stmt.to /\ node.e = Stmt.e
    BY <1>2, <1>3 DEF Statements
  <2>2. tracker' \in Trackers /\ tracker'.state = tracker.state /\ tracker'.first = tracker.first
    BY <1>1, Tracking
  <2>3. ~done /\ pc \in DOMAIN stmts
    BY <1>1, StmtFacts
  <2> HIDE DEF node
  <2> QED BY <1>2, <1>4, <2>1, <2>2, <2>3 DEF Visits, Same
<1> HIDE DEF new, node, x
<1>6. /\ DOMAIN variables' \subseteq Vars /\ variables' \in [DOMAIN variables' -> Variable]
      /\ \A y \in DOMAIN variables : y \in DOMAIN variables' /\ variables'[y] = variables[y]
      /\ \A y \in Names : y # v => (y \in DOMAIN variables' <=> y \in DOMAIN variables)
  BY <1>1, <1>2, <1>3 DEF Set, TypeInv, Known
<1>7. Learns /\ StaysLargest
  BY <1>1, <1>2, <1>6 DEF Learns, StaysLargest, TypeInv
<1>8. Settled(node)
  BY <1>1, <1>2 DEF Settled, MapStatements
<1>9. Grows(node)
  <2>1. \A y \in Names : IsInt(Reads[y]) => Reads'[y] = Reads[y]
    BY <1>1, <1>6, NoneFacts DEF Reads, ReadType, Known
  <2>2. ASSUME NEW y \in Names, IsInt(Reads[y]) PROVE IsInt(Reads'[y]) /\ Holds(Reads'[y], Reads[y])
    BY <2>1, <2>2, ReadsTyped, HoldsItself
  <2> QED BY <1>2, <2>2 DEF Grows
<1> QED BY <1>5, <1>7, <1>8, <1>9 DEF Lawful

\* ... $v++, which makes the variable only larger,
LEMMA IncrementVarLawful ==
    ASSUME TypeInv, Shape, Kept, IncrementVar
    PROVE  \E node : Lawful(node)
<1> DEFINE v == Stmt.to
           known == Known(variables, v)
           grows == known /\ IsInt(variables[v].type) /\ variables[v].can_resize
           x == ReadType(v)
           node == [Stmt EXCEPT !.node = x]
<1>1. /\ Enter("var++") /\ tracker' = tracker /\ map_val' = map_val
      /\ Leave(node, known /\ (Final => IsInt(variables[v].type)))
      /\ variables' = IF grows THEN [variables EXCEPT ![v].type.size = MaxSize] ELSE variables
  BY DEF IncrementVar
<1>2. /\ v \in Vars /\ v \in Names /\ v \notin Maps /\ Stmt.k = "var++" /\ Stmt \in Statements
      /\ Whole(Stmt.e)
  BY <1>1, StmtFacts, NamesAssumption
<1>3. x \in Types
  BY <1>2, ReadsTyped DEF Reads
<1>4. ok' \in BOOLEAN /\ (ok' => ok) /\ stmts' = [stmts EXCEPT ![pc] = node]
      /\ pc' = pc + 1 /\ done' = done
  BY <1>1 DEF Leave
<1>5. Visits(node)
  <2>1. /\ node \in Statements /\ node.k = Stmt.k /\ node.to = Stmt.to /\ node.e = Stmt.e
    BY <1>2, <1>3 DEF Statements
  <2>2. tracker' \in Trackers /\ tracker'.state = tracker.state /\ tracker'.first = tracker.first
    BY <1>1, Tracking
  <2>3. ~done /\ pc \in DOMAIN stmts
    BY <1>1, StmtFacts
  <2> HIDE DEF node
  <2> QED BY <1>2, <1>4, <2>1, <2>2, <2>3 DEF Visits, Same
<1> HIDE DEF node, x, v
<1>6. /\ DOMAIN variables' = DOMAIN variables /\ variables' \in [DOMAIN variables -> Variable]
      /\ \A y \in DOMAIN variables :
            \/ variables'[y] = variables[y]
            \/ /\ IsInt(variables[y].type) /\ IsInt(variables'[y].type)
               /\ variables'[y].type.signed = variables[y].type.signed
               /\ variables'[y].type.size = MaxSize
  <2>1. CASE grows
    <3> DEFINE w == [variables[v] EXCEPT !.type = [variables[v].type EXCEPT !.size = MaxSize]]
    <3>1. v \in DOMAIN variables /\ variables[v] \in Variable /\ IsInt(variables[v].type)
      BY <2>1 DEF Known, TypeInv
    <3>2. variables' = [variables EXCEPT ![v] = w]
      BY <1>1, <2>1
    <3>3. MaxSize \in Nat /\ MaxSize \in IntSizes /\ MaxSize <= MaxSize
      BY MaxSizeAssumption DEF IntSizes
    <3>4. /\ w.type.size = MaxSize /\ w.type.signed = variables[v].type.signed
          /\ w.type.ty = variables[v].type.ty /\ w.type \in Types /\ w \in Variable
      BY <3>1, <3>3 DEF Variable, Types, IsInt
    <3> HIDE DEF w
    <3> QED BY <3>1, <3>2, <3>4 DEF TypeInv, IsInt
  <2>2. CASE ~grows
    BY <1>1, <2>2 DEF TypeInv
  <2> QED BY <2>1, <2>2
<1>7. Learns /\ StaysLargest
  BY <1>1, <1>2, <1>6 DEF Learns, StaysLargest, TypeInv
<1>8. Settled(node)
  BY <1>1, <1>2 DEF Settled, MapStatements
<1>9. Grows(node)
  <2>1. ASSUME NEW y \in Names, IsInt(Reads[y]) PROVE IsInt(Reads'[y]) /\ Holds(Reads'[y], Reads[y])
    <3>1. Reads[y] \in Types /\ Reads'[y] \in Types
      BY <1>7, ReadsTyped
    <3>2. CASE Reads'[y] = Reads[y]
      BY <2>1, <3>1, <3>2, HoldsItself
    <3>3. CASE Reads'[y] # Reads[y]
      <4>1. y \notin Maps /\ y \in DOMAIN variables /\ y \in DOMAIN variables'
        BY <1>1, <1>6, <2>1, <3>3, NoneFacts DEF Reads, ReadType, Known
      <4>2. Reads[y] = variables[y].type /\ Reads'[y] = variables'[y].type
        BY <4>1 DEF Reads, ReadType, Known
      <4>3. IsInt(Reads'[y]) /\ Reads'[y].signed = Reads[y].signed /\ Reads'[y].size = MaxSize
        BY <1>6, <3>3, <4>1, <4>2
      <4>4. Reads[y].size <= Reads'[y].size
        BY <2>1, <3>1, <4>3, TypeFacts
      <4>5. Holds(Reads'[y], Reads[y])
        BY <3>1, <4>3, <4>4, HoldsSame, Zenon
      <4> QED BY <4>3, <4>5
    <3> QED BY <3>2, <3>3
  <2> QED BY <1>2, <2>1 DEF Grows
<1> QED BY <1>5, <1>7, <1>8, <1>9 DEF Lawful

\* ... a read,
LEMMA UseLawful ==
    ASSUME TypeInv, Shape, Kept, Use
    PROVE  \E node : Lawful(node)
<1> DEFINE e == Stmt.e
           f == ResolveRead(e)
           node == [Stmt EXCEPT !.e = f]
           n == Count(UnknownRead(e))
<1>1. /\ Enter("use") /\ Unresolved(n) /\ Leave(node, ReadGood(e))
      /\ map_val' = map_val /\ variables' = variables
  BY DEF Use
<1>2. /\ Stmt.k = "use" /\ Stmt \in Statements /\ e \in Exprs /\ Whole(e)
      /\ e.k # "read" => e.of \notin Maps
  BY <1>1, StmtFacts
<1>3. f \in Exprs /\ Same(f, e) /\ Whole(f) /\ (e.k = "read" => f.type = ReadType(e.of))
  BY <1>2, ResolveFacts
<1>4. ok' \in BOOLEAN /\ (ok' => ok) /\ stmts' = [stmts EXCEPT ![pc] = node]
      /\ pc' = pc + 1 /\ done' = done /\ (ok' => ReadGood(e)) /\ n \in Nat
  BY <1>1, CountFacts DEF Leave
<1> HIDE DEF f, n
<1>5. Visits(node) /\ node.e = f
  <2>1. /\ node \in Statements /\ node.k = Stmt.k /\ node.to = Stmt.to /\ node.e = f
    BY <1>2, <1>3 DEF Statements
  <2>2. tracker' \in Trackers /\ tracker'.state = tracker.state /\ tracker'.first = tracker.first
    BY <1>1, <1>4, Tracking
  <2>3. ~done /\ pc \in DOMAIN stmts
    BY <1>1, StmtFacts
  <2> HIDE DEF node
  <2> QED BY <1>3, <1>4, <2>1, <2>2, <2>3 DEF Visits, Same
<1> HIDE DEF node
<1>6. Learns /\ StaysLargest
  BY <1>1, <1>2 DEF Learns, StaysLargest, TypeInv
<1>7. Settled(node)
  <2> SUFFICES ASSUME Final, ok', node.e.of \in Maps
               PROVE  ~IsNone(f.type) \/ (f.of \in DOMAIN map_val /\ IsNone(map_val[f.of]))
    BY <1>1, <1>2, <1>5 DEF Settled, MapStatements
  <2>1. f.of = e.of /\ e.of \in Maps /\ e.k = "read"
    BY <1>2, <1>3, <1>5 DEF Same
  <2>2. Known(map_val, e.of)
    BY <1>4, <2>1 DEF ReadGood, MapGood, TypeInv
  <2>3. f.type = map_val[e.of]
    BY <1>3, <2>1, <2>2 DEF ReadType
  <2> QED BY <2>1, <2>2, <2>3 DEF Known
<1>8. Grows(node)
  <2>1. Reads' = Reads
    BY <1>1 DEF Reads, ReadType, Known
  <2>2. ASSUME NEW y \in Names, IsInt(Reads[y]) PROVE IsInt(Reads'[y]) /\ Holds(Reads'[y], Reads[y])
    BY <2>1, <2>2, ReadsTyped, HoldsItself
  <2> QED BY <1>2, <2>2 DEF Grows
<1> QED BY <1>5, <1>6, <1>7, <1>8 DEF Lawful

\* ... and @m++, which has nothing left to change in the final pass.
LEMMA IncrementMapLawful ==
    ASSUME TypeInv, Shape, Kept, IncrementMap
    PROVE  \E node : Lawful(node)
<1> DEFINE m == Stmt.to
           mismatch == Known(map_val, m) /\ map_val[m].ty \notin {"none", "integer"}
           undefined == Known(map_val, m) /\ IsNone(map_val[m])
           stored == IF mismatch \/ (undefined /\ Final) THEN map_val[m] ELSE Int64
           node == [Stmt EXCEPT !.node = stored]
           n == Count(undefined)
<1>1. /\ Enter("map++") /\ map_val' = Set(map_val, m, stored) /\ Unresolved(n)
      /\ Leave(node, ~mismatch /\ ~(undefined /\ Final)) /\ variables' = variables
  BY DEF IncrementMap, Int64
<1>2. /\ m \in Maps /\ m \in Names /\ Stmt.k = "map++" /\ Stmt \in Statements /\ Whole(Stmt.e)
      /\ pc \in DOMAIN stmts /\ stmts[pc] = Stmt
  BY <1>1, StmtFacts DEF Stmt
<1>3. stored \in Types
  BY LargestFacts DEF TypeInv, Known
<1>4. /\ ok' \in BOOLEAN /\ (ok' => ok) /\ stmts' = [stmts EXCEPT ![pc] = node]
      /\ pc' = pc + 1 /\ done' = done /\ n \in Nat
  BY <1>1, CountFacts DEF Leave
<1>5. ok' => stored = Int64
  BY <1>1 DEF Leave
<1>6. ok' /\ Final => m \in DOMAIN map_val /\ map_val[m] = Int64
  BY <1>2, <1>4 DEF Kept, TypeInv
<1> HIDE DEF n, stored
<1>7. Visits(node)
  <2>1. /\ node \in Statements /\ node.k = Stmt.k /\ node.to = Stmt.to /\ node.e = Stmt.e
    BY <1>2, <1>3 DEF Statements
  <2>2. tracker' \in Trackers /\ tracker'.state = tracker.state /\ tracker'.first = tracker.first
    BY <1>1, <1>4, Tracking
  <2>3. ~done /\ pc \in DOMAIN stmts
    BY <1>1, StmtFacts
  <2> HIDE DEF node
  <2> QED BY <1>2, <1>4, <2>1, <2>2, <2>3 DEF Visits, Same
<1> HIDE DEF node, m
<1>8. /\ DOMAIN map_val' = DOMAIN map_val \cup {m} /\ map_val'[m] = stored
      /\ \A x \in DOMAIN map_val : x # m => map_val'[x] = map_val[x]
      /\ map_val' \in [DOMAIN map_val' -> Types]
  BY <1>1, <1>3 DEF Set, TypeInv
<1>9. Learns
  BY <1>1, <1>2, <1>8 DEF Learns, TypeInv, MapStatements, m
<1>10. StaysLargest
  BY <1>2, <1>5, <1>8 DEF StaysLargest, m
<1>11. Final /\ ok' => map_val' = map_val
  <2>1. ASSUME Final, ok' PROVE map_val' = map_val
    <3>1. DOMAIN map_val' = DOMAIN map_val /\ \A x \in DOMAIN map_val : map_val'[x] = map_val[x]
      BY <1>5, <1>6, <1>8, <2>1
    <3> QED BY <1>8, <3>1 DEF TypeInv
  <2> QED BY <2>1
<1>12. Settled(node)
  BY <1>2, <1>6, <1>11, LargestFacts DEF Settled, MapStatements, m, IsInt, IsNone
<1>13. Grows(node)
  <2>1. Final /\ ok' => Reads' = Reads
    BY <1>1, <1>11 DEF Reads, ReadType, Known
  <2>2. ASSUME Final, ok', NEW y \in Names, IsInt(Reads[y])
        PROVE  IsInt(Reads'[y]) /\ Holds(Reads'[y], Reads[y])
    BY <2>1, <2>2, ReadsTyped, HoldsItself
  <2> QED BY <1>2, <2>2 DEF Grows
<1> QED BY <1>7, <1>9, <1>10, <1>12, <1>13 DEF Lawful

-----------------------------------------------------------------------------
(***************************************************************************)
(* The invariant, and the theorems.                                        *)
(***************************************************************************)
Inferred == TypeInv /\ Shape /\ Resolved /\ Kept

\* Expressions as parsed.
LEMMA LiteralWhole ==
    ASSUME NEW n, NEW ss, NEW e \in Exprs, e = Literal(n, ss), ss \in {n, 2 * n}
    PROVE  Whole(e) /\ e.of = ""
<1>1. /\ e.k = "literal" /\ e.casts = <<>> /\ e.signed_size = ss
      /\ e.type = IntType(n, FALSE) /\ e.own = IntType(n, FALSE)
  BY DEF Literal, Expr
<1>2. e.own \in Types
  BY DEF Exprs
<1>3. e.own.size = n /\ e.own.signed = FALSE /\ IsInt(e.own) /\ e.type = e.own
  BY <1>1 DEF IntType, Sized, IsInt
<1>4. e.own.size <= e.own.size
  BY <1>2 DEF Types
<1>5. HoldsValue(e.type, e)
  BY <1>2, <1>3, <1>4, HoldsValueFacts
<1>6. HoldsExpr(e.type, e)
  BY <1>1, <1>3, <1>5 DEF HoldsExpr
<1>7. \A j \in DOMAIN e.casts : FALSE
  BY <1>1
<1>8. Whole(e)
  BY <1>1, <1>3, <1>6, <1>7 DEF Whole
<1>9. e.of = ""
  BY Zenon DEF Literal, Expr
<1> QED BY <1>8, <1>9, Zenon

\* A negative literal has a type that holds it.
LEMMA NegativeWhole ==
    ASSUME NEW n, NEW e \in Exprs, e = Negative(n)
    PROVE  Whole(e) /\ e.of = ""
<1>1. /\ e.k = "negative" /\ e.casts = <<>>
      /\ e.type = IntType(n, TRUE) /\ e.own = IntType(n, TRUE)
  BY DEF Negative, Expr
<1>2. e.own \in Types
  BY DEF Exprs
<1>3. IsInt(e.own) /\ e.type = e.own
  BY <1>1 DEF IntType, Sized, IsInt
<1>4. HoldsExpr(e.type, e)
  BY <1>1, <1>2, <1>3, HoldsItself DEF HoldsExpr
<1>5. \A j \in DOMAIN e.casts : FALSE
  BY <1>1
<1>8. Whole(e)
  BY <1>1, <1>3, <1>4, <1>5 DEF Whole
<1>9. e.of = ""
  BY Zenon DEF Negative, Expr
<1> QED BY <1>8, <1>9, Zenon

\* What is read from a map or a variable has nothing to hold yet.
LEMMA ReadWhole ==
    ASSUME NEW x, NEW e \in Exprs, e = ValueOf(x)
    PROVE  Whole(e) /\ e.k = "read"
<1>1. e.k = "read"
  BY DEF ValueOf, Expr
<1> QED BY <1>1 DEF Whole, Valued

\* A value of a known type has that type.
LEMMA TypedWhole ==
    ASSUME NEW t, NEW e \in Exprs, e = Typed(t)
    PROVE  Whole(e) /\ e.of = ""
<1>1. e.k = "typed" /\ e.type = t /\ e.own = t /\ e.casts = <<>>
  BY DEF Typed, Expr
<1>2. e.own \in Types
  BY DEF Exprs
<1>3. IsInt(e.own) => HoldsExpr(e.type, e)
  BY <1>1, <1>2, HoldsItself DEF HoldsExpr
<1>4. \A j \in DOMAIN e.casts : FALSE
  BY <1>1
<1>8. Whole(e)
  BY <1>1, <1>3, <1>4 DEF Whole, Valued
<1>9. e.of = ""
  BY Zenon DEF Typed, Expr
<1> QED BY <1>8, <1>9, Zenon

\* Nothing is cut off in a statement as parsed.
LEMMA ParsedFacts ==
    ASSUME NEW s \in Statements, ParsedStatement(s)
    PROVE  /\ Whole(s.e)
           /\ s.k \in {"map", "map++"} => s.to \in Maps
           /\ s.k \in {"var", "var++", "let"} => s.to \in Vars
           /\ s.e.k # "read" => s.e.of \notin Maps
<1>1. s.e \in Exprs /\ ParsedExpr(s.e)
  BY DEF Statements, ParsedStatement
<1>2. Whole(s.e) /\ (s.e.k # "read" => s.e.of \notin Maps)
  <2> DEFINE e == s.e
             own == e.own
             ss == e.signed_size
             n == own.size
  <2>1. \/ e = Literal(n, ss) /\ ss \in {n, 2 * n}
        \/ e = Negative(n)
        \/ e = ValueOf(e.of)
        \/ e = Typed(own)
    BY <1>1 DEF ParsedExpr
  <2>2. e \in Exprs
    BY <1>1
  <2> HIDE DEF e, own, ss, n
  <2>3. Whole(e) /\ (e.of = "" \/ e.k = "read")
    BY <2>1, <2>2, LiteralWhole, NegativeWhole, ReadWhole, TypedWhole, Zenon
  <2> QED BY <2>3, NamesAssumption DEF e
<1> QED BY <1>2 DEF ParsedStatement

\* The scripts, as they are parsed, and the first state.
LEMMA InitInferred == TypesInit => Inferred
<1> SUFFICES ASSUME TypesInit PROVE Inferred
  OBVIOUS
<1>1. stmts \in Seq(Statements) /\ \A i \in DOMAIN stmts : stmts[i] \in Statements /\ ParsedStatement(stmts[i])
  BY ScriptsAssumption DEF TypesInit
<1>2. /\ pc = 1 /\ tracker \in Trackers /\ ~Final /\ First /\ ok = TRUE /\ done = FALSE
      /\ DOMAIN map_val = {} /\ DOMAIN variables = {}
  BY DEF TypesInit, Trackers, Final, First, Infinity
<1>3. map_val \in [DOMAIN map_val -> Types] /\ variables \in [DOMAIN variables -> Variable]
  BY DEF TypesInit
<1>4. TypeInv
  <2>1. pc \in 1 .. Len(stmts) + 1
    BY <1>1, <1>2
  <2> QED BY <1>1, <1>2, <1>3, <2>1 DEF TypeInv
<1>5. Shape
  BY <1>1, <1>2, ParsedFacts DEF Shape
<1>6. Resolved
  BY <1>2 DEF Resolved
<1>7. Kept
  <2>1. \A i \in DOMAIN stmts : Whole(stmts[i].e)
    BY <1>1, ParsedFacts
  <2>2. \A j \in DOMAIN stmts : ~(j < pc)
    BY <1>1, <1>2
  <2> QED BY <1>2, <2>1, <2>2 DEF Kept
<1> QED BY <1>4, <1>5, <1>6, <1>7 DEF Inferred

\* A pass that ends visits nothing; the next one begins with all statements ahead.
LEMMA EndPassInferred ==
    ASSUME Inferred, EndPass
    PROVE  Inferred'
<1>1. /\ stmts' = stmts /\ map_val' = map_val /\ variables' = variables /\ ok' = ok
      /\ ~done /\ pc > Len(stmts) /\ TypeInv /\ Shape /\ Resolved /\ Kept
  BY DEF EndPass, Inferred
<1>2. /\ pc = Len(stmts) + 1 /\ DOMAIN stmts = 1 .. Len(stmts) /\ Len(stmts) \in Nat
  BY <1>1 DEF TypeInv
<1>3. Shape'
  BY <1>1 DEF Shape
<1>4. CASE Final \/ ~ok
  <2>1. done' = TRUE /\ tracker' = tracker /\ pc' = pc
    BY <1>4 DEF EndPass
  <2>2. (Final' <=> Final) /\ (First' <=> First) /\ Reads' = Reads
    BY <1>1, <2>1 DEF Final, First, Reads, ReadType, Known
  <2>3. TypeInv'
    BY <1>1, <1>2, <1>4, <2>1, <2>2 DEF TypeInv
  <2>4. Resolved'
    BY <1>1, <2>1, <2>2 DEF Resolved, Visited, Fine, Awaited, Assignments
  <2>5. Kept'
    BY <1>1, <2>1, <2>2 DEF Kept, Visited, Assignments
  <2> QED BY <1>3, <2>3, <2>4, <2>5 DEF Inferred
<1>5. CASE ~(Final \/ ~ok)
  <2>1. /\ pc' = 1 /\ done' = done /\ tracker' \in Trackers /\ ~First'
    <3>1. tracker.unresolved \in Nat /\ tracker.last \in Nat
      BY <1>1 DEF TypeInv, Trackers
    <3> DEFINE progress == Progress(tracker.unresolved, tracker.last)
               state == NextState(tracker.state, progress)
               last == IF progress THEN tracker.unresolved ELSE tracker.last
    <3>2. state \in {"Converging", "SecondChance", "FinalPass"} /\ last \in Nat
      BY <3>1 DEF NextState
    <3>3. /\ pc' = 1 /\ done' = done
          /\ tracker' = [state |-> state, unresolved |-> 0, last |-> last, first |-> FALSE]
      BY <1>5 DEF EndPass
    <3> HIDE DEF state, last
    <3> QED BY <3>2, <3>3 DEF Trackers, First
  <2>2. TypeInv'
    <3>1. pc' \in 1 .. Len(stmts') + 1
      BY <1>1, <1>2, <2>1
    <3> QED BY <1>1, <2>1, <3>1 DEF TypeInv
  <2>3. Visited' = {}
    BY <1>1, <1>2, <2>1 DEF Visited
  <2>4. \A m \in DOMAIN map_val' : Awaited(m)'
    BY <1>1, <1>2, <2>1 DEF Shape, Awaited
  <2>5. Resolved'
    BY <2>3, <2>4 DEF Resolved
  <2>6. Kept'
    <3>1. \A i \in DOMAIN stmts' : Whole(stmts'[i].e)
      BY <1>1 DEF Kept
    <3>2. \A j \in DOMAIN stmts' : stmts'[j].k = "map++" =>
              stmts'[j].to \in DOMAIN map_val' /\ map_val'[stmts'[j].to] = Int64
      BY <1>1, <1>2, <1>5 DEF Kept
    <3> QED BY <2>3, <3>1, <3>2 DEF Kept
  <2> QED BY <1>3, <2>2, <2>5, <2>6 DEF Inferred
<1> QED BY <1>4, <1>5

\* Every step keeps the invariant.
LEMMA NextInferred == Inferred /\ [TypesNext]_typeVars => Inferred'
<1> SUFFICES ASSUME Inferred, [TypesNext]_typeVars PROVE Inferred'
  OBVIOUS
<1>1. TypeInv /\ Shape /\ Resolved /\ Kept
  BY DEF Inferred
<1>2. ASSUME NEW node, Lawful(node) PROVE Inferred'
  <2>1. Visits(node) /\ Learns
    BY <1>2 DEF Lawful
  <2> QED BY <1>1, <1>2, <2>1, VisitTyped, VisitShaped, VisitResolved, VisitKept DEF Inferred
<1>3. CASE AssignMap
  BY <1>1, <1>2, <1>3, AssignMapLawful
<1>4. CASE AssignVar
  BY <1>1, <1>2, <1>4, AssignVarLawful
<1>5. CASE VarDecl
  BY <1>1, <1>2, <1>5, VarDeclLawful
<1>6. CASE IncrementVar
  BY <1>1, <1>2, <1>6, IncrementVarLawful
<1>7. CASE IncrementMap
  BY <1>1, <1>2, <1>7, IncrementMapLawful
<1>8. CASE Use
  BY <1>1, <1>2, <1>8, UseLawful
<1>9. CASE EndPass
  BY <1>9, EndPassInferred
<1>10. CASE UNCHANGED typeVars
  <2>1. /\ stmts' = stmts /\ pc' = pc /\ tracker' = tracker /\ map_val' = map_val
        /\ variables' = variables /\ ok' = ok /\ done' = done
    BY <1>10 DEF typeVars
  <2>2. (Final' <=> Final) /\ (First' <=> First) /\ Reads' = Reads
    BY <2>1 DEF Final, First, Reads, ReadType, Known
  <2>3. TypeInv' /\ Shape'
    BY <1>1, <2>1, <2>2 DEF TypeInv, Shape
  <2>4. Resolved'
    BY <1>1, <2>1, <2>2 DEF Resolved, Visited, Fine, Awaited, Assignments
  <2>5. Kept'
    BY <1>1, <2>1, <2>2 DEF Kept, Visited, Assignments
  <2> QED BY <2>3, <2>4, <2>5 DEF Inferred
<1> QED BY <1>3, <1>4, <1>5, <1>6, <1>7, <1>8, <1>9, <1>10 DEF TypesNext, Terminated

(* The analyser's state has its types, its script keeps its shape, the     *)
(* final pass settles every statement it visits and nothing is ever cut    *)
(* off, in each of the passes (analyse(), PassTracker).                    *)
THEOREM TypesInferred == TypesSpec => []Inferred
<1> QED BY InitInferred, NextInferred, PTL DEF TypesSpec

\* Where analyse() has returned without an error every statement has been visited.
LEMMA AcceptedFacts ==
    ASSUME Inferred, Accepted
    PROVE  Final /\ ok /\ Visited = DOMAIN stmts /\ \A m \in DOMAIN map_val : ~IsNone(map_val[m])
<1>1. Final /\ ok /\ pc = Len(stmts) + 1 /\ DOMAIN stmts = 1 .. Len(stmts) /\ Len(stmts) \in Nat
  BY DEF Inferred, Accepted, TypeInv
<1>2. Visited = DOMAIN stmts
  BY <1>1 DEF Visited
<1>3. \A m \in DOMAIN map_val : ~Awaited(m)
  BY <1>1 DEF Awaited
<1> QED BY <1>1, <1>2, <1>3 DEF Inferred, Resolved

(* An accepted script leaves nothing without a type: no target, no value   *)
(* assigned, no map that is read (assign_map_type, visit(MapAccess), the   *)
(* final pass of analyse).                                                 *)
THEOREM TypedAtTheEnd == TypesSpec => []AcceptedIsTyped
<1>1. Inferred => AcceptedIsTyped
  <2> SUFFICES ASSUME Inferred, Accepted, NEW i \in DOMAIN stmts
               PROVE  /\ i \in Assignments => ~IsNone(stmts[i].node) /\ ~IsNone(TypeOf(stmts[i].e))
                      /\ (stmts[i].k = "use" /\ stmts[i].e.of \in Maps) => ~IsNone(stmts[i].e.type)
    BY DEF AcceptedIsTyped
  <2>1. Fine(i)
    BY AcceptedFacts DEF Inferred, Resolved
  <2> QED BY <2>1, AcceptedFacts DEF Fine
<1> QED BY <1>1, TypesInferred, PTL

(* No literal and no value with a type of its own is cut off in an         *)
(* accepted script, on its way to its target or in it, whatever else is    *)
(* assigned there (update_int_type, get_promoted_int, create_int_cast).    *)
THEOREM ValuesKept == TypesSpec => []NothingTruncated
<1>1. Inferred => NothingTruncated
  <2> SUFFICES ASSUME Inferred, Accepted, NEW i \in Assignments
               PROVE  LET e == stmts[i].e
                          Way == {TypeOf(e), ReadType(stmts[i].to)} \cup {e.casts[j] : j \in DOMAIN e.casts}
                      IN  CASE e.k = "literal" -> \A t \in Way : HoldsValue(t, e)
                            [] e.k \in {"typed", "negative"} /\ IsInt(e.own) -> \A t \in Way : Holds(t, e.own)
                            [] OTHER -> TRUE
    BY DEF NothingTruncated
  <2> DEFINE e == stmts[i].e
             x == stmts[i].to
             Way == {TypeOf(e), ReadType(x)} \cup {e.casts[j] : j \in DOMAIN e.casts}
  <2>1. i \in DOMAIN stmts /\ stmts[i] \in Statements
    BY DEF Inferred, TypeInv, Assignments
  <2>2. e \in Exprs /\ x \in Names /\ Whole(e)
    BY <2>1 DEF Statements, Inferred, Kept
  <2>3. Valued(e) => HoldsExpr(Reads[x], e)
    BY <2>1, AcceptedFacts DEF Inferred, Kept
  <2>4. Reads[x] = ReadType(x)
    BY <2>2 DEF Reads
  <2>5. Valued(e) => HoldsExpr(TypeOf(e), e)
    BY <2>2, TypeOfFacts
  <2> HIDE DEF e, x
  <2>6. Valued(e) => \A t \in Way : HoldsExpr(t, e)
    BY <2>2, <2>3, <2>4, <2>5 DEF Whole
  <2>7. CASE e.k = "literal"
    <3>1. Valued(e)
      BY <2>2, <2>7 DEF Whole, Valued
    <3> QED BY <2>6, <2>7, <3>1 DEF HoldsExpr, e, x
  <2>8. CASE e.k # "literal" /\ e.k \in {"typed", "negative"} /\ IsInt(e.own)
    <3>1. Valued(e)
      BY <2>8 DEF Valued
    <3> QED BY <2>6, <2>8, <3>1 DEF HoldsExpr, e, x
  <2>9. CASE e.k # "literal" /\ ~(e.k \in {"typed", "negative"} /\ IsInt(e.own))
    BY <2>9 DEF e, x
  <2> QED BY <2>7, <2>8, <2>9
<1> QED BY <1>1, TypesInferred, PTL

-----------------------------------------------------------------------------
(***************************************************************************)
(* Maps: the inductive invariant.                                          *)
(***************************************************************************)
Passes == {"default", "assign", "scalar", "check", "done"}
Forms == {"access", "call", "iterable", "map"}

\* What a use is once delete() has one form.
Accesses ==
    {u \in [k : {"access", "aggregate", "delete", "has_key", "for"} \cup PlainKinds,
            keyed : BOOLEAN, when : Whens, form : Forms, key : {"own", "none", "default"}] :
        /\ u.k \in {"has_key", "for"} => u.keyed = TRUE
        /\ u.k \in PlainKinds => u.keyed = FALSE}

MapTypeInv ==
    /\ accesses \in Seq(Accesses)
    /\ mapPass \in Passes
    /\ visiting \in 1 .. Len(accesses) + 1
    /\ scalar \in {{}, {TRUE}, {FALSE}}

\* The uses are those of a script that nothing misleads.
Plain == ~WronglyDecided(accesses) /\ ~Hidden(accesses)

\* The uses that MapDefaultKey has come to.
Passed == {i \in DOMAIN accesses : mapPass = "default" => i < visiting}

\* The first of them that says what the map is has decided it.
Decided ==
    /\ scalar = {} => \A i \in Passed : ~Decides(accesses[i])
    /\ scalar # {} => \E f \in Passed :
            /\ f \in FirstOf(accesses, Decides)
            /\ scalar = {~Keyed(accesses[f])}

\* The uses that are for a map of the other kind.
Unfit == {i \in Passed : accesses[i].k \notin PlainKinds /\ scalar = {accesses[i].keyed}}

\* Where such a use is marked.
MarkOf(u) ==
    CASE u.k \in {"access", "aggregate"} ->
            IF u.keyed THEN "bad_scalar_access" ELSE "bad_indexed_access"
      [] u.k \in {"delete", "has_key"} ->
            IF u.keyed THEN "bad_scalar_call" ELSE "bad_indexed_call"
      [] OTHER -> "bad_iterator"

\* They are marked, and no others are.
Marked == bad = {[set |-> MarkOf(accesses[i]), use |-> i] : i \in Unfit}

\* What a use has become by now.
FormOf(k, pass) ==
    CASE k = "access" -> {"access"}
      [] k = "aggregate" -> IF pass \in {"default", "assign"} THEN {"access"} ELSE {"call"}
      [] k \in {"delete", "has_key"} -> {"call"}
      [] k = "for" -> {"iterable"}
      [] OTHER -> Forms

KeyOf(u) == IF u.keyed THEN "own" ELSE "default"

Rewritten ==
    /\ \A i \in Passed : accesses[i].form \in FormOf(accesses[i].k, mapPass)
    /\ \A i \in DOMAIN accesses : accesses[i].k \in {"access", "aggregate", "delete", "has_key"} =>
            accesses[i].key = IF i \in Passed THEN KeyOf(accesses[i])
                              ELSE IF accesses[i].keyed THEN "own" ELSE "none"

\* What is reported are the unfit uses that are compiled.
Reported ==
    /\ mapPass \in {"default", "assign", "scalar"} => mapErrors = {}
    /\ mapPass = "check" => mapErrors = {i \in Unfit \cap Live : i < visiting}
    /\ mapPass = "done" /\ scalar # {} => mapErrors = Unfit \cap Live

SugarInv ==
    /\ MapTypeInv /\ Plain
    /\ Decided /\ Marked
    /\ Rewritten /\ Reported

-----------------------------------------------------------------------------
(***************************************************************************)
(* Uses and what they want.                                                *)
(***************************************************************************)
\* What a use wants, from its fields.
LEMMA WantsFacts ==
    ASSUME NEW u \in Accesses
    PROVE  /\ u.k \in PlainKinds <=> Wants(u) = {}
           /\ u.k \notin PlainKinds => Wants(u) = {u.keyed}
           /\ Decides(u) <=> u.k # "print"
           /\ Keyed(u) <=> u.keyed = TRUE
<1>1. u.keyed \in BOOLEAN
  BY DEF Accesses
<1>2. u.k \in PlainKinds <=> Wants(u) = {}
  BY DEF Accesses, Wants, PlainKinds
<1>3. u.k \notin PlainKinds => Wants(u) = {u.keyed}
  BY DEF Accesses, Wants, PlainKinds
<1>4. Decides(u) <=> u.k # "print"
  BY <1>2 DEF Decides, PlainKinds
<1>5. CASE u.k \in PlainKinds
  <2>1. u.keyed = FALSE
    BY <1>5 DEF Accesses
  <2>2. Wants(u) # {TRUE}
    BY <1>2, <1>5
  <2> QED BY <2>1, <2>2, <1>2, <1>3, <1>4, <1>5 DEF Keyed
<1>6. CASE u.k \notin PlainKinds
  <2>1. {u.keyed} = {TRUE} <=> u.keyed = TRUE
    OBVIOUS
  <2> QED BY <2>1, <1>1, <1>2, <1>3, <1>4, <1>6 DEF Keyed
<1> QED BY <1>5, <1>6

\* The uses of a script, once delete() has one form.
LEMMA AliasedFacts ==
    ASSUME NEW u \in MapUses
    PROVE  /\ Aliased(u).k \in {"access", "aggregate", "delete", "has_key", "for"} \cup PlainKinds
           /\ Aliased(u).keyed \in BOOLEAN /\ Aliased(u).when = u.when /\ u.when \in Whens
           /\ Aliased(u).k \in {"has_key", "for"} => Aliased(u).keyed = TRUE
           /\ Aliased(u).k \in PlainKinds => Aliased(u).keyed = FALSE
           /\ Wants(Aliased(u)) = Wants(u)
           /\ Aliased(u).k = "typeof" <=> u.k = "typeof"
           /\ Aliased(u).k = "aggregate" <=> u.k = "aggregate"
<1>1. CASE u.k = "delete_old"
  <2>1. u = [k |-> "delete_old", keyed |-> TRUE, when |-> u.when] /\ u.when \in Whens
    BY <1>1 DEF MapUses, UseOf, KeyedKinds, PlainKinds
  <2>2. Aliased(u) = [u EXCEPT !.k = "delete", !.keyed = TRUE]
    BY <1>1 DEF Aliased
  <2>3. Aliased(u).k = "delete" /\ Aliased(u).when = u.when
    BY <2>1, <2>2
  <2>4. Aliased(u).keyed = TRUE
    BY <2>1, <2>2
  <2>5. Wants(u) = {TRUE}
    BY <1>1 DEF Wants
  <2>6. Wants(Aliased(u)) = {TRUE}
    BY <2>3, <2>4 DEF Wants
  <2> QED BY <1>1, <2>1, <2>3, <2>4, <2>5, <2>6 DEF PlainKinds
<1>2. CASE u.k # "delete_old"
  <2>1. Aliased(u) = u
    BY <1>2 DEF Aliased
  <2>2. u.keyed \in BOOLEAN
    <3>1. CASE u.k \in KeyedKinds \cup PlainKinds
      <4>1. u.keyed = TRUE \/ u.keyed = FALSE
        BY <3>1 DEF MapUses, UseOf, KeyedKinds, PlainKinds
      <4> QED BY <4>1
    <3>2. CASE u.k \notin KeyedKinds \cup PlainKinds
      <4>1. PICK k \in {"access", "aggregate", "delete"}, keyed \in BOOLEAN, w \in Whens :
              u = [k |-> k, keyed |-> keyed, when |-> w]
        BY <3>2 DEF MapUses, UseOf
      <4> QED BY <4>1
    <3> QED BY <3>1, <3>2
  <2>6. u.when \in Whens
    BY DEF MapUses, UseOf
  <2>3. u.k \in {"access", "aggregate", "delete", "has_key", "for"} \cup PlainKinds
    BY <1>2 DEF MapUses, UseOf, KeyedKinds, PlainKinds
  <2>4. u.k \in {"has_key", "for"} => u.keyed = TRUE
    BY DEF MapUses, UseOf, KeyedKinds, PlainKinds
  <2>5. u.k \in PlainKinds => u.keyed = FALSE
    BY DEF MapUses, UseOf, KeyedKinds, PlainKinds
  <2> QED BY <2>1, <2>2, <2>3, <2>4, <2>5, <2>6
<1> QED BY <1>1, <1>2

\* What a script decides and hides depends on what its uses want.
LEMMA SameUses ==
    ASSUME NEW s, NEW t, NEW n \in Nat, DOMAIN s = 1 .. n, DOMAIN t = DOMAIN s,
           \A i \in DOMAIN s : /\ Wants(t[i]) = Wants(s[i]) /\ t[i].when = s[i].when
                               /\ t[i].k = "typeof" <=> s[i].k = "typeof"
                               /\ t[i].k = "aggregate" <=> s[i].k = "aggregate"
    PROVE  /\ FirstOf(t, Decides) = FirstOf(s, Decides)
           /\ ~WronglyDecided(s) => ~WronglyDecided(t)
           /\ ~Hidden(s) => ~Hidden(t)
<1>1. \A i \in DOMAIN s : (Decides(t[i]) <=> Decides(s[i])) /\ (Keyed(t[i]) <=> Keyed(s[i]))
  BY DEF Decides, Keyed
<1>2. FirstOf(t, Decides) = FirstOf(s, Decides)
  <2>1. ASSUME NEW i \in DOMAIN s
        PROVE  (\A j \in 1 .. i - 1 : ~Decides(t[j])) <=> \A j \in 1 .. i - 1 : ~Decides(s[j])
    <3>1. \A j \in 1 .. i - 1 : j \in DOMAIN s
      OBVIOUS
    <3> QED BY <3>1, <1>1
  <2> QED BY <2>1, <1>1 DEF FirstOf
<1>3. FirstOf(s, Decides) \subseteq DOMAIN s
  BY DEF FirstOf
<1>4. ASSUME Hidden(t) PROVE Hidden(s)
  <2>1. PICK i \in FirstOf(s, Decides), j \in DOMAIN s :
          ~Keyed(t[i]) /\ t[j].k = "aggregate" /\ Keyed(t[j])
    BY <1>2, <1>4 DEF Hidden
  <2>2. ~Keyed(s[i]) /\ s[j].k = "aggregate" /\ Keyed(s[j])
    BY <2>1, <1>1, <1>3
  <2> QED BY <2>2 DEF Hidden
<1>5. ASSUME WronglyDecided(t) PROVE WronglyDecided(s)
  <2>1. PICK i \in FirstOf(s, Decides) :
          /\ t[i].k = "typeof" \/ t[i].when # "always"
          /\ \E j \in DOMAIN t : Decides(t[j]) /\ Keyed(t[j]) # Keyed(t[i])
    BY <1>2, <1>5 DEF WronglyDecided
  <2>2. PICK j \in DOMAIN s : Decides(t[j]) /\ Keyed(t[j]) # Keyed(t[i])
    BY <2>1
  <2>3. s[i].k = "typeof" \/ s[i].when # "always"
    BY <2>1, <1>3
  <2>4. Decides(s[j])
    BY <2>2, <1>1
  <2>5. Wants(t[i]) = Wants(s[i]) /\ Wants(t[j]) = Wants(s[j])
    BY <1>3
  <2>6. Keyed(s[j]) # Keyed(s[i])
    BY <2>2, <2>5, Zenon DEF Keyed
  <2> QED BY <2>3, <2>4, <2>6 DEF WronglyDecided
<1> QED BY <1>2, <1>4, <1>5

-----------------------------------------------------------------------------
(***************************************************************************)
(* The passes preserve the invariant.                                      *)
(***************************************************************************)
\* The uses are a sequence, and the pass is somewhere in it.
LEMMA UsesTyped ==
    ASSUME SugarInv
    PROVE  /\ accesses \in Seq(Accesses) /\ DOMAIN accesses = 1 .. Len(accesses) /\ Len(accesses) \in Nat
           /\ visiting \in 1 .. Len(accesses) + 1 /\ scalar \in {{}, {TRUE}, {FALSE}}
<1>1. accesses \in Seq(Accesses) /\ visiting \in 1 .. Len(accesses) + 1 /\ scalar \in {{}, {TRUE}, {FALSE}}
  BY DEF SugarInv, MapTypeInv
<1>2. DOMAIN accesses = 1 .. Len(accesses) /\ Len(accesses) \in Nat
  <2>1. accesses \in Seq(Accesses)
    BY <1>1
  <2> QED BY <2>1
<1> QED BY <1>1, <1>2

\* What MapDefaultKey starts from.
LEMMA InitSugared ==
    ASSUME \A s \in MapScripts : ~WronglyDecided(s) /\ ~Hidden(s),
           MapInit
    PROVE  SugarInv
<1> DEFINE Start(u) == [k |-> u.k, keyed |-> u.keyed, when |-> u.when,
                        form |-> "access", key |-> IF u.keyed THEN "own" ELSE "none"]
<1>1. PICK s \in MapScripts : accesses = [i \in DOMAIN s |-> Start(Aliased(s[i]))]
  BY DEF MapInit
<1>2. s \in Seq(MapUses) /\ ~WronglyDecided(s) /\ ~Hidden(s)
  BY UsesAssumption
<1>3. DOMAIN accesses = DOMAIN s /\ DOMAIN s = 1 .. Len(s) /\ Len(s) \in Nat
  BY <1>1, <1>2
<1>4. ASSUME NEW i \in DOMAIN s
      PROVE  /\ accesses[i] \in Accesses
             /\ accesses[i].when = s[i].when
             /\ Wants(accesses[i]) = Wants(s[i])
             /\ accesses[i].k = "typeof" <=> s[i].k = "typeof"
             /\ accesses[i].k = "aggregate" <=> s[i].k = "aggregate"
             /\ accesses[i].key = IF accesses[i].keyed THEN "own" ELSE "none"
  <2>1. s[i] \in MapUses
    BY <1>2, <1>4, ElementOfSeq
  <2>2. accesses[i] = Start(Aliased(s[i]))
    BY <1>1
  <2> DEFINE u == Aliased(s[i])
  <2>3. /\ u.k \in {"access", "aggregate", "delete", "has_key", "for"} \cup PlainKinds
        /\ u.keyed \in BOOLEAN /\ u.when = s[i].when /\ s[i].when \in Whens
        /\ u.k \in {"has_key", "for"} => u.keyed = TRUE
        /\ u.k \in PlainKinds => u.keyed = FALSE
        /\ Wants(u) = Wants(s[i])
        /\ u.k = "typeof" <=> s[i].k = "typeof"
        /\ u.k = "aggregate" <=> s[i].k = "aggregate"
    BY <2>1, AliasedFacts
  <2> HIDE DEF u
  <2>4. accesses[i] = [k |-> u.k, keyed |-> u.keyed, when |-> u.when,
                       form |-> "access", key |-> IF u.keyed THEN "own" ELSE "none"]
    BY <2>2 DEF u
  <2>5. Wants(accesses[i]) = Wants(u)
    BY <2>4 DEF Wants
  <2>6. accesses[i] \in Accesses
    BY <2>3, <2>4 DEF Accesses, Forms
  <2> QED BY <2>3, <2>4, <2>5, <2>6
<1>5. accesses \in Seq(Accesses)
  <2> HIDE DEF Start
  <2>1. \A i \in 1 .. Len(s) : accesses[i] \in Accesses
    BY <1>3, <1>4
  <2>2. accesses = [i \in 1 .. Len(s) |-> accesses[i]]
    BY <1>1, <1>3
  <2> QED BY <1>3, <2>1, <2>2, IsASeq
<1>6. Len(accesses) = Len(s)
  BY <1>3, <1>5
<1> HIDE DEF Start
<1>7. ASSUME NEW i \in DOMAIN s
      PROVE  /\ Wants(accesses[i]) = Wants(s[i]) /\ accesses[i].when = s[i].when
             /\ accesses[i].k = "typeof" <=> s[i].k = "typeof"
             /\ accesses[i].k = "aggregate" <=> s[i].k = "aggregate"
  BY <1>4
<1>8. ~WronglyDecided(accesses) /\ ~Hidden(accesses)
  <2> DEFINE n == Len(s)
  <2>1. n \in Nat /\ DOMAIN s = 1 .. n
    BY <1>3
  <2> HIDE DEF n
  <2> QED BY <1>2, <1>3, <1>7, <2>1, SameUses
<1>10. Plain
  BY <1>8 DEF Plain
<1>11. Passed = {}
  <2>1. mapPass = "default" /\ visiting = 1
    BY DEF MapInit
  <2> QED BY <2>1, <1>3 DEF Passed
<1>12. MapTypeInv
  <2>1. mapPass = "default" /\ visiting = 1 /\ scalar = {}
    BY DEF MapInit
  <2> QED BY <2>1, <1>3, <1>5, <1>6 DEF MapTypeInv, Passes
<1>13. Decided
  <2>1. scalar = {}
    BY DEF MapInit
  <2> QED BY <2>1, <1>11 DEF Decided
<1>14. Marked
  <2>1. Unfit = {}
    BY <1>11 DEF Unfit
  <2> QED BY <2>1 DEF Marked, MapInit
<1>15. Rewritten
  BY <1>3, <1>4, <1>11 DEF Rewritten
<1>16. Reported
  <2>1. mapPass = "default" /\ mapErrors = {}
    BY DEF MapInit
  <2> QED BY <2>1 DEF Reported
<1> QED BY <1>10, <1>12, <1>13, <1>14, <1>15, <1>16 DEF SugarInv

\* MapDefaultKey comes to a use: it decides if it is the first to say what the map is,
\* and is marked if the map is of the other kind.
LEMMA VisitSugars ==
    ASSUME SugarInv, MapDefaultKey
    PROVE  SugarInv'
<1> DEFINE v == visiting
           u == accesses[v]
<1>1. /\ accesses \in Seq(Accesses) /\ DOMAIN accesses = 1 .. Len(accesses) /\ Len(accesses) \in Nat
      /\ v \in DOMAIN accesses /\ u \in Accesses
      /\ mapPass = "default" /\ mapPass' = "default" /\ visiting' = v + 1
      /\ mapErrors' = mapErrors
      /\ scalar \in {{}, {TRUE}, {FALSE}}
  <2>1. accesses \in Seq(Accesses) /\ scalar \in {{}, {TRUE}, {FALSE}} /\ visiting \in 1 .. Len(accesses) + 1
    BY DEF SugarInv, MapTypeInv
  <2>2. /\ mapPass = "default" /\ mapPass' = "default" /\ visiting' = v + 1 /\ mapErrors' = mapErrors
        /\ visiting <= Len(accesses)
    BY DEF MapDefaultKey
  <2>3. DOMAIN accesses = 1 .. Len(accesses) /\ Len(accesses) \in Nat
    BY <2>1
  <2>4. v \in DOMAIN accesses
    BY <2>1, <2>2, <2>3
  <2>5. u \in Accesses
    BY <2>1, <2>3, <2>4, ElementOfSeq
  <2> QED BY <2>1, <2>2, <2>3, <2>4, <2>5
<1>2. /\ u.keyed \in BOOLEAN
      /\ u.k \in {"has_key", "for"} => u.keyed = TRUE
      /\ u.k \in PlainKinds => u.keyed = FALSE
  BY <1>1 DEF Accesses
<1>3. u.k \in {"access", "aggregate", "delete", "has_key"} =>
          u.key = IF u.keyed THEN "own" ELSE "none"
  BY <1>1 DEF SugarInv, Rewritten, Passed
<1>4. PICK form \in Forms, key \in {"own", "none", "default"} :
        /\ accesses' = [accesses EXCEPT ![v].form = form, ![v].key = key]
        /\ form \in FormOf(u.k, mapPass)
        /\ u.k \in {"access", "aggregate", "delete", "has_key"} => key = KeyOf(u)
        /\ scalar' = IF scalar = {} /\ Decides(u) THEN {~u.keyed} ELSE scalar
        /\ bad' = IF u.k \notin PlainKinds /\ scalar = {u.keyed}
                  THEN bad \cup {[set |-> MarkOf(u), use |-> v]} ELSE bad
  <2>0. Decides(u) <=> u.k # "print"
    BY <1>1, WantsFacts
  <2> HIDE DEF u
  <2>1. CASE u.k \in {"access", "aggregate"} /\ checkAccess(u.keyed) /\ Sugared("access", WithDefault(u))
    <3>1. accesses' = [accesses EXCEPT ![v].form = "access", ![v].key = WithDefault(u)]
      BY <2>1 DEF Sugared
    <3>2. WithDefault(u) = KeyOf(u) /\ WithDefault(u) \in {"own", "none", "default"}
      BY <2>1, <1>2, <1>3 DEF WithDefault, KeyOf
    <3>3. "access" \in FormOf(u.k, mapPass) /\ "access" \in Forms
      BY <2>1, <1>1 DEF FormOf, Forms
    <3>4. /\ scalar' = IF scalar = {} /\ Decides(u) THEN {~u.keyed} ELSE scalar
          /\ bad' = IF u.k \notin PlainKinds /\ scalar = {u.keyed}
                    THEN bad \cup {[set |-> MarkOf(u), use |-> v]} ELSE bad
      BY <2>1, <2>0 DEF checkAccess, check, MarkOf, PlainKinds
    <3> QED BY <3>1, <3>2, <3>3, <3>4
  <2>2. CASE u.k = "delete" /\ checkCall(u.keyed) /\ Sugared("call", WithDefault(u))
    <3>1. accesses' = [accesses EXCEPT ![v].form = "call", ![v].key = WithDefault(u)]
      BY <2>2 DEF Sugared
    <3>2. WithDefault(u) = KeyOf(u) /\ WithDefault(u) \in {"own", "none", "default"}
      BY <2>2, <1>2, <1>3 DEF WithDefault, KeyOf
    <3>3. "call" \in FormOf(u.k, mapPass) /\ "call" \in Forms
      BY <2>2 DEF FormOf, Forms
    <3>4. /\ scalar' = IF scalar = {} /\ Decides(u) THEN {~u.keyed} ELSE scalar
          /\ bad' = IF u.k \notin PlainKinds /\ scalar = {u.keyed}
                    THEN bad \cup {[set |-> MarkOf(u), use |-> v]} ELSE bad
      BY <2>2, <2>0 DEF checkCall, check, MarkOf, PlainKinds
    <3> QED BY <3>1, <3>2, <3>3, <3>4
  <2>3. CASE u.k = "has_key" /\ checkCall(TRUE) /\ Sugared("call", "own")
    <3>0. u.keyed = TRUE
      BY <2>3, <1>2
    <3>1. accesses' = [accesses EXCEPT ![v].form = "call", ![v].key = "own"]
      BY <2>3 DEF Sugared
    <3>2. "own" = KeyOf(u)
      BY <3>0 DEF KeyOf
    <3>3. "call" \in FormOf(u.k, mapPass) /\ "call" \in Forms
      BY <2>3 DEF FormOf, Forms
    <3>4. /\ scalar' = IF scalar = {} /\ Decides(u) THEN {~u.keyed} ELSE scalar
          /\ bad' = IF u.k \notin PlainKinds /\ scalar = {u.keyed}
                    THEN bad \cup {[set |-> MarkOf(u), use |-> v]} ELSE bad
      BY <2>3, <2>0, <3>0 DEF checkCall, check, MarkOf, PlainKinds
    <3> QED BY <3>1, <3>2, <3>3, <3>4
  <2>4. CASE u.k = "for" /\ check(TRUE, "bad_iterator") /\ Sugared("iterable", "none")
    <3>0. u.keyed = TRUE
      BY <2>4, <1>2
    <3>1. accesses' = [accesses EXCEPT ![v].form = "iterable", ![v].key = "none"]
      BY <2>4 DEF Sugared
    <3>3. "iterable" \in FormOf(u.k, mapPass) /\ "iterable" \in Forms
      BY <2>4 DEF FormOf, Forms
    <3>4. /\ scalar' = IF scalar = {} /\ Decides(u) THEN {~u.keyed} ELSE scalar
          /\ bad' = IF u.k \notin PlainKinds /\ scalar = {u.keyed}
                    THEN bad \cup {[set |-> MarkOf(u), use |-> v]} ELSE bad
      BY <2>4, <2>0, <3>0 DEF check, MarkOf, PlainKinds
    <3> QED BY <2>4, <3>1, <3>3, <3>4
  <2>5. CASE /\ u.k = "print" \/ (u.k = "typeof" /\ scalar = {FALSE})
             /\ Sugared("map", "none") /\ UNCHANGED <<scalar, bad>>
    <3>1. accesses' = [accesses EXCEPT ![v].form = "map", ![v].key = "none"]
      BY <2>5 DEF Sugared
    <3>3. "map" \in FormOf(u.k, mapPass) /\ "map" \in Forms
      BY <2>5 DEF FormOf, Forms
    <3>4. scalar' = IF scalar = {} /\ Decides(u) THEN {~u.keyed} ELSE scalar
      BY <2>5, <2>0
    <3>5. bad' = bad /\ u.k \in PlainKinds
      BY <2>5 DEF PlainKinds
    <3> QED BY <2>5, <3>1, <3>3, <3>4, <3>5
  <2>6. CASE u.k = "typeof" /\ scalar # {FALSE} /\ checkAccess(FALSE) /\ Sugared("access", "default")
    <3>0. u.keyed = FALSE /\ u.k \in PlainKinds
      BY <2>6, <1>2 DEF PlainKinds
    <3>1. accesses' = [accesses EXCEPT ![v].form = "access", ![v].key = "default"]
      BY <2>6 DEF Sugared
    <3>3. "access" \in FormOf(u.k, mapPass) /\ "access" \in Forms
      BY <2>6 DEF FormOf, Forms
    <3>4. scalar' = IF scalar = {} /\ Decides(u) THEN {~u.keyed} ELSE scalar
      BY <2>6, <2>0, <3>0 DEF checkAccess, check
    <3>5. bad' = bad
      BY <2>6 DEF checkAccess, check
    <3> QED BY <2>6, <3>0, <3>1, <3>3, <3>4, <3>5
  <2> QED BY <2>1, <2>2, <2>3, <2>4, <2>5, <2>6 DEF MapDefaultKey, u
<1> HIDE DEF u
<1>5. ASSUME NEW i \in DOMAIN accesses
      PROVE  /\ accesses'[i] \in Accesses /\ accesses[i] \in Accesses
             /\ accesses'[i].k = accesses[i].k /\ accesses'[i].keyed = accesses[i].keyed
             /\ accesses'[i].when = accesses[i].when
             /\ i # v => accesses'[i] = accesses[i]
             /\ i = v => accesses'[i].form = form /\ accesses'[i].key = key
  <2>1. accesses[i] \in Accesses
    BY <1>1, ElementOfSeq
  <2>2. CASE i # v
    BY <2>1, <2>2, <1>4
  <2>3. CASE i = v
    <3>1. accesses'[i] = [accesses[i] EXCEPT !.form = form, !.key = key]
      BY <2>3, <1>4
    <3>2. accesses[i] = [k |-> accesses[i].k, keyed |-> accesses[i].keyed, when |-> accesses[i].when,
                         form |-> accesses[i].form, key |-> accesses[i].key]
      BY <2>1 DEF Accesses
    <3>3. accesses'[i] = [k |-> accesses[i].k, keyed |-> accesses[i].keyed, when |-> accesses[i].when,
                          form |-> form, key |-> key]
      BY <3>1, <3>2
    <3>4. accesses'[i] \in Accesses
      BY <2>1, <3>3 DEF Accesses
    <3> QED BY <2>1, <2>3, <3>3, <3>4
  <2> QED BY <2>2, <2>3
<1>6. accesses' \in Seq(Accesses) /\ DOMAIN accesses' = DOMAIN accesses /\ Len(accesses') = Len(accesses)
  <2>1. DOMAIN accesses' = DOMAIN accesses
    BY <1>4
  <2>2. accesses' = [i \in 1 .. Len(accesses) |-> accesses'[i]]
    BY <2>1, <1>1, <1>4
  <2>3. \A i \in 1 .. Len(accesses) : accesses'[i] \in Accesses
    BY <1>1, <1>5
  <2>4. accesses' \in Seq(Accesses)
    BY <1>1, <2>2, <2>3, IsASeq
  <2> QED BY <1>1, <2>1, <2>4
<1>7. ASSUME NEW i \in DOMAIN accesses
      PROVE  /\ Wants(accesses'[i]) = Wants(accesses[i])
             /\ Decides(accesses'[i]) <=> Decides(accesses[i])
             /\ Keyed(accesses'[i]) <=> Keyed(accesses[i])
             /\ Keyed(accesses[i]) <=> accesses[i].keyed = TRUE
             /\ MarkOf(accesses'[i]) = MarkOf(accesses[i])
             /\ KeyOf(accesses'[i]) = KeyOf(accesses[i])
  <2>1. Wants(accesses'[i]) = Wants(accesses[i])
    BY <1>5 DEF Wants
  <2>2. Keyed(accesses[i]) <=> accesses[i].keyed = TRUE
    BY <1>5, WantsFacts
  <2> QED BY <1>5, <2>1, <2>2 DEF Decides, Keyed, MarkOf, KeyOf
<1>8. /\ FirstOf(accesses', Decides) = FirstOf(accesses, Decides)
      /\ ~WronglyDecided(accesses') /\ ~Hidden(accesses')
  <2> DEFINE n == Len(accesses)
             t == accesses'
  <2>1. n \in Nat /\ DOMAIN accesses = 1 .. n /\ DOMAIN t = DOMAIN accesses
    BY <1>1, <1>6
  <2>2. \A i \in DOMAIN accesses :
          /\ Wants(t[i]) = Wants(accesses[i]) /\ t[i].when = accesses[i].when
          /\ t[i].k = "typeof" <=> accesses[i].k = "typeof"
          /\ t[i].k = "aggregate" <=> accesses[i].k = "aggregate"
    BY <1>5, <1>7
  <2>3. ~WronglyDecided(accesses) /\ ~Hidden(accesses)
    BY DEF SugarInv, Plain
  <2> HIDE DEF n, t
  <2>4. /\ FirstOf(t, Decides) = FirstOf(accesses, Decides)
        /\ ~WronglyDecided(t) /\ ~Hidden(t)
    BY <2>1, <2>2, <2>3, SameUses
  <2> QED BY <2>4 DEF t
<1>9. Plain'
  BY <1>8 DEF Plain
<1>10. Passed = {i \in DOMAIN accesses : i < v} /\ Passed' = Passed \cup {v}
  BY <1>1, <1>6 DEF Passed
<1>11. scalar' \in {{}, {TRUE}, {FALSE}}
  <2>1. (~u.keyed) \in BOOLEAN
    BY <1>2
  <2> QED BY <1>1, <1>4, <2>1
<1>12. MapTypeInv'
  <2>1. v + 1 \in 1 .. Len(accesses) + 1
    BY <1>1
  <2> QED BY <1>1, <1>6, <1>11, <2>1 DEF MapTypeInv, Passes
<1>13. Decided'
  <2>1. Decided
    BY DEF SugarInv
  <2>2. CASE scalar = {} /\ Decides(u)
    <3>1. \A j \in 1 .. v - 1 : ~Decides(accesses[j])
      BY <1>1, <1>10, <2>1, <2>2 DEF Decided
    <3>2. v \in FirstOf(accesses, Decides)
      BY <3>1, <2>2, <1>1 DEF FirstOf, u
    <3>3. scalar' = {~u.keyed} /\ scalar' # {}
      BY <1>4, <2>2
    <3>4. {~u.keyed} = {~Keyed(accesses'[v])}
      <4>1. Keyed(accesses'[v]) <=> u.keyed = TRUE
        BY <1>1, <1>7 DEF u
      <4>2. CASE u.keyed = TRUE
        <5>1. Keyed(accesses'[v]) = TRUE
          BY <4>1, <4>2 DEF Keyed
        <5> QED BY <4>2, <5>1
      <4>3. CASE u.keyed = FALSE
        <5>1. Keyed(accesses'[v]) = FALSE
          BY <4>1, <4>3 DEF Keyed
        <5> QED BY <4>3, <5>1
      <4> QED BY <4>2, <4>3, <1>2
    <3> QED BY <3>2, <3>3, <3>4, <1>8, <1>10 DEF Decided
  <2>3. CASE scalar = {} /\ ~Decides(u)
    <3>1. scalar' = {}
      BY <1>4, <2>3
    <3>2. \A i \in Passed' : ~Decides(accesses'[i])
      <4>1. Passed \subseteq DOMAIN accesses
        BY <1>10
      <4>2. \A i \in Passed : ~Decides(accesses[i])
        BY <2>1, <2>3 DEF Decided
      <4>3. \A i \in Passed \cup {v} : i \in DOMAIN accesses /\ ~Decides(accesses[i])
        BY <4>1, <4>2, <2>3, <1>1 DEF u
      <4> QED BY <4>3, <1>7, <1>10
    <3> QED BY <3>1, <3>2 DEF Decided
  <2>4. CASE scalar # {}
    <3>1. scalar' = scalar
      BY <1>4, <2>4
    <3>2. PICK f \in Passed : f \in FirstOf(accesses, Decides) /\ scalar = {~Keyed(accesses[f])}
      BY <2>1, <2>4 DEF Decided
    <3>3. Keyed(accesses'[f]) = Keyed(accesses[f])
      <4>1. Wants(accesses'[f]) = Wants(accesses[f])
        BY <1>7, <1>10
      <4> QED BY <4>1 DEF Keyed
    <3> QED BY <3>1, <3>2, <3>3, <2>4, <1>8, <1>10 DEF Decided
  <2> QED BY <2>2, <2>3, <2>4
<1>14. Unfit' = IF u.k \notin PlainKinds /\ scalar = {u.keyed} THEN Unfit \cup {v} ELSE Unfit
  <2>1. Unfit' = {i \in Passed \cup {v} : accesses[i].k \notin PlainKinds /\ scalar' = {accesses[i].keyed}}
    <3>1. Unfit' = {i \in Passed' : accesses'[i].k \notin PlainKinds /\ scalar' = {accesses'[i].keyed}}
      BY DEF Unfit
    <3>2. \A i \in Passed \cup {v} : i \in DOMAIN accesses
      BY <1>1, <1>10
    <3> QED BY <3>1, <3>2, <1>5, <1>10
  <2>2. CASE scalar = {} /\ Decides(u)
    <3>1. \A i \in Passed : ~Decides(accesses[i])
      BY <2>2 DEF SugarInv, Decided
    <3>2. \A i \in Passed : accesses[i].k \in PlainKinds
      <4>1. \A i \in Passed : accesses[i] \in Accesses
        BY <1>5, <1>10
      <4> QED BY <3>1, <4>1, WantsFacts DEF PlainKinds
    <3>3. scalar' # {accesses[v].keyed}
      BY <1>2, <1>4, <2>2 DEF u
    <3>4. Unfit' = {}
      BY <2>1, <3>2, <3>3
    <3>5. Unfit = {} /\ scalar # {u.keyed}
      BY <2>2 DEF Unfit
    <3> QED BY <3>4, <3>5
  <2>3. CASE ~(scalar = {} /\ Decides(u))
    <3>1. scalar' = scalar
      BY <1>4, <2>3
    <3> QED BY <2>1, <3>1 DEF Unfit, u
  <2> QED BY <2>2, <2>3
<1>15. Marked'
  <2>1. bad = {[set |-> MarkOf(accesses[i]), use |-> i] : i \in Unfit}
    BY DEF SugarInv, Marked
  <2>2. \A i \in Unfit' : MarkOf(accesses'[i]) = MarkOf(accesses[i])
    <3>1. \A i \in Unfit' : i \in DOMAIN accesses
      BY <1>1, <1>10 DEF Unfit
    <3> QED BY <3>1, <1>7
  <2>3. bad' = {[set |-> MarkOf(accesses[i]), use |-> i] : i \in Unfit'}
    <3>1. CASE u.k \notin PlainKinds /\ scalar = {u.keyed}
      <4>1. Unfit' = Unfit \cup {v} /\ bad' = bad \cup {[set |-> MarkOf(accesses[v]), use |-> v]}
        BY <3>1, <1>4, <1>14 DEF u
      <4> QED BY <2>1, <4>1
    <3>2. CASE ~(u.k \notin PlainKinds /\ scalar = {u.keyed})
      <4>1. Unfit' = Unfit /\ bad' = bad
        BY <3>2, <1>4, <1>14
      <4> QED BY <2>1, <4>1
    <3> QED BY <3>1, <3>2
  <2> QED BY <2>2, <2>3 DEF Marked
<1>16. Rewritten'
  <2>1. Rewritten
    BY DEF SugarInv
  <2>2. ASSUME NEW i \in DOMAIN accesses, i \in Passed'
        PROVE  accesses'[i].form \in FormOf(accesses'[i].k, mapPass')
    <3>1. CASE i = v
      BY <3>1, <1>1, <1>4, <1>5 DEF u
    <3>2. CASE i # v
      BY <3>2, <2>1, <2>2, <1>1, <1>5, <1>10 DEF Rewritten
    <3> QED BY <3>1, <3>2
  <2>3. ASSUME NEW i \in DOMAIN accesses,
               accesses'[i].k \in {"access", "aggregate", "delete", "has_key"}
        PROVE  accesses'[i].key = IF i \in Passed' THEN KeyOf(accesses'[i])
                                  ELSE IF accesses'[i].keyed THEN "own" ELSE "none"
    <3>1. CASE i = v
      <4>1. accesses'[i].key = key /\ u.k \in {"access", "aggregate", "delete", "has_key"}
        BY <3>1, <2>3, <1>5 DEF u
      <4>2. KeyOf(accesses'[i]) = KeyOf(u) /\ i \in Passed'
        BY <3>1, <1>7, <1>10 DEF u
      <4> QED BY <4>1, <4>2, <1>4
    <3>2. CASE i # v
      BY <3>2, <2>1, <2>3, <1>5, <1>10 DEF Rewritten
    <3> QED BY <3>1, <3>2
  <2>4. Passed' \subseteq DOMAIN accesses
    BY <1>1, <1>10
  <2> QED BY <2>2, <2>3, <2>4, <1>6 DEF Rewritten
<1>17. Reported'
  BY <1>1 DEF SugarInv, Reported
<1> QED BY <1>9, <1>12, <1>13, <1>15, <1>16, <1>17 DEF SugarInv

\* What the other passes keep: the uses, what they want and what decided.
LEMMA DecidedKept ==
    ASSUME SugarInv, UNCHANGED <<scalar, bad>>, Passed = DOMAIN accesses, Passed' = DOMAIN accesses,
           DOMAIN accesses' = DOMAIN accesses,
           \A i \in DOMAIN accesses : accesses'[i].k = accesses[i].k
               /\ accesses'[i].keyed = accesses[i].keyed /\ accesses'[i].when = accesses[i].when
    PROVE  Plain' /\ Decided' /\ Marked' /\ Unfit' = Unfit
<1> DEFINE t == accesses'
           n == Len(accesses)
<1>1. n \in Nat /\ DOMAIN accesses = 1 .. n /\ DOMAIN t = DOMAIN accesses
  BY DEF SugarInv, MapTypeInv
<1>2. \A i \in DOMAIN accesses :
        /\ Wants(t[i]) = Wants(accesses[i]) /\ t[i].when = accesses[i].when
        /\ t[i].k = "typeof" <=> accesses[i].k = "typeof"
        /\ t[i].k = "aggregate" <=> accesses[i].k = "aggregate"
        /\ MarkOf(t[i]) = MarkOf(accesses[i])
  BY DEF Wants, MarkOf
<1>3. ~WronglyDecided(accesses) /\ ~Hidden(accesses)
  BY DEF SugarInv, Plain
<1> HIDE DEF n, t
<1>4. FirstOf(t, Decides) = FirstOf(accesses, Decides) /\ ~WronglyDecided(t) /\ ~Hidden(t)
  BY <1>1, <1>2, <1>3, SameUses
<1>5. Plain'
  BY <1>4 DEF Plain, t
<1>6. Unfit' = Unfit
  BY DEF Unfit
<1>7. \A i \in DOMAIN accesses : (Decides(t[i]) <=> Decides(accesses[i])) /\ Keyed(t[i]) = Keyed(accesses[i])
  BY <1>2 DEF Decides, Keyed
<1>8. Decided'
  <2>1. Decided
    BY DEF SugarInv
  <2> QED BY <2>1, <1>4, <1>7 DEF Decided, t
<1>9. Marked'
  <2>1. bad = {[set |-> MarkOf(accesses[i]), use |-> i] : i \in Unfit}
    BY DEF SugarInv, Marked
  <2>2. \A i \in Unfit : i \in DOMAIN accesses
    BY DEF Unfit
  <2> QED BY <2>1, <2>2, <1>2, <1>6 DEF Marked, t
<1> QED BY <1>5, <1>6, <1>8, <1>9

\* After the first pass every use has been come to, and has its final form once map
\* functions are given their map.
LEMMA EndDefaultKeySugars ==
    ASSUME SugarInv, EndDefaultKey
    PROVE  SugarInv'
<1>1. /\ mapPass = "default" /\ mapPass' = "assign" /\ visiting > Len(accesses)
      /\ accesses' = accesses /\ visiting' = visiting /\ scalar' = scalar /\ bad' = bad
      /\ mapErrors' = mapErrors
  BY DEF EndDefaultKey
<1>2. /\ accesses \in Seq(Accesses) /\ DOMAIN accesses = 1 .. Len(accesses) /\ Len(accesses) \in Nat
      /\ visiting \in 1 .. Len(accesses) + 1 /\ scalar \in {{}, {TRUE}, {FALSE}}
  BY UsesTyped
<1>3. Passed = DOMAIN accesses /\ Passed' = DOMAIN accesses
  BY <1>1, <1>2 DEF Passed
<1>4. Plain' /\ Decided' /\ Marked'
  BY <1>1, <1>3, DecidedKept
<1>5. MapTypeInv'
  BY <1>1, <1>2 DEF MapTypeInv, Passes
<1>6. Rewritten'
  <2>1. Rewritten
    BY DEF SugarInv
  <2>2. \A k : FormOf(k, mapPass') = FormOf(k, mapPass)
    BY <1>1 DEF FormOf
  <2> QED BY <2>1, <2>2, <1>1, <1>3 DEF Rewritten
<1>7. Reported'
  BY <1>1 DEF SugarInv, Reported
<1> QED BY <1>4, <1>5, <1>6, <1>7 DEF SugarInv

\* Map functions are given their map.
LEMMA AssignSugars ==
    ASSUME SugarInv, MapAssignmentCall
    PROVE  SugarInv'
<1>1. /\ mapPass = "assign" /\ mapPass' = "scalar"
      /\ visiting' = visiting /\ scalar' = scalar /\ bad' = bad /\ mapErrors' = mapErrors
  BY DEF MapAssignmentCall
<1>2. /\ accesses \in Seq(Accesses) /\ DOMAIN accesses = 1 .. Len(accesses) /\ Len(accesses) \in Nat
      /\ visiting \in 1 .. Len(accesses) + 1 /\ scalar \in {{}, {TRUE}, {FALSE}}
  BY UsesTyped
<1>3. accesses' = [i \in DOMAIN accesses |->
           IF accesses[i].k = "aggregate" THEN [accesses[i] EXCEPT !.form = "call"] ELSE accesses[i]]
  BY DEF MapAssignmentCall
<1>4. ASSUME NEW i \in DOMAIN accesses
      PROVE  /\ accesses'[i] \in Accesses
             /\ accesses'[i].k = accesses[i].k /\ accesses'[i].keyed = accesses[i].keyed
             /\ accesses'[i].when = accesses[i].when /\ accesses'[i].key = accesses[i].key
             /\ accesses'[i].form = IF accesses[i].k = "aggregate" THEN "call" ELSE accesses[i].form
  <2>1. accesses[i] \in Accesses
    BY <1>2, ElementOfSeq
  <2>2. CASE accesses[i].k # "aggregate"
    <3>1. accesses'[i] = accesses[i]
      BY <1>3, <2>2
    <3> QED BY <2>1, <2>2, <3>1
  <2>3. CASE accesses[i].k = "aggregate"
    <3>1. accesses'[i] = [accesses[i] EXCEPT !.form = "call"]
      BY <1>3, <2>3
    <3>2. accesses[i] = [k |-> accesses[i].k, keyed |-> accesses[i].keyed, when |-> accesses[i].when,
                         form |-> accesses[i].form, key |-> accesses[i].key]
      BY <2>1 DEF Accesses
    <3>3. accesses'[i] = [k |-> accesses[i].k, keyed |-> accesses[i].keyed, when |-> accesses[i].when,
                          form |-> "call", key |-> accesses[i].key]
      BY <3>1, <3>2
    <3>4. accesses'[i] \in Accesses
      BY <2>1, <3>3 DEF Accesses, Forms
    <3> QED BY <2>3, <3>3, <3>4
  <2> QED BY <2>2, <2>3
<1>5. DOMAIN accesses' = DOMAIN accesses
  BY <1>3
<1>6. accesses' \in Seq(Accesses) /\ Len(accesses') = Len(accesses)
  <2>1. accesses' = [i \in 1 .. Len(accesses) |-> accesses'[i]]
    BY <1>2, <1>3
  <2>2. \A i \in 1 .. Len(accesses) : accesses'[i] \in Accesses
    BY <1>2, <1>4
  <2>3. accesses' \in Seq(Accesses)
    BY <1>2, <2>1, <2>2, IsASeq
  <2> QED BY <1>2, <1>5, <2>3
<1>7. Passed = DOMAIN accesses /\ Passed' = DOMAIN accesses
  BY <1>1, <1>5 DEF Passed
<1>8. Plain' /\ Decided' /\ Marked'
  BY <1>1, <1>4, <1>5, <1>7, DecidedKept
<1>9. MapTypeInv'
  BY <1>1, <1>2, <1>6 DEF MapTypeInv, Passes
<1>10. Rewritten'
  <2>1. Rewritten
    BY DEF SugarInv
  <2>2. ASSUME NEW i \in DOMAIN accesses
        PROVE  accesses'[i].form \in FormOf(accesses'[i].k, mapPass')
    <3>1. accesses[i].form \in FormOf(accesses[i].k, mapPass)
      BY <2>1, <1>7 DEF Rewritten
    <3> QED BY <3>1, <1>1, <1>4 DEF FormOf
  <2>3. ASSUME NEW i \in DOMAIN accesses,
               accesses'[i].k \in {"access", "aggregate", "delete", "has_key"}
        PROVE  accesses'[i].key = KeyOf(accesses'[i])
    <3>1. accesses[i].key = KeyOf(accesses[i])
      BY <2>1, <2>3, <1>4, <1>7 DEF Rewritten
    <3> QED BY <3>1, <1>4 DEF KeyOf
  <2> QED BY <2>2, <2>3, <1>5, <1>7 DEF Rewritten
<1>11. Reported'
  BY <1>1 DEF SugarInv, Reported
<1> QED BY <1>8, <1>9, <1>10, <1>11 DEF SugarInv

\* is_scalar() is answered; of a map that nothing else uses it is an error.
LEMMA ScalarSugars ==
    ASSUME SugarInv, MapScalarCheck
    PROVE  SugarInv'
<1>1. /\ mapPass = "scalar" /\ mapPass' = IF mapErrors' = {} THEN "check" ELSE "done"
      /\ visiting' = 1 /\ accesses' = accesses /\ scalar' = scalar /\ bad' = bad
      /\ scalar # {} => mapErrors' = {}
  BY DEF MapScalarCheck
<1>2. /\ accesses \in Seq(Accesses) /\ DOMAIN accesses = 1 .. Len(accesses) /\ Len(accesses) \in Nat
      /\ visiting \in 1 .. Len(accesses) + 1 /\ scalar \in {{}, {TRUE}, {FALSE}}
  BY UsesTyped
<1>3. Passed = DOMAIN accesses /\ Passed' = DOMAIN accesses
  BY <1>1 DEF Passed
<1>4. Plain' /\ Decided' /\ Marked'
  BY <1>1, <1>3, DecidedKept
<1>5. MapTypeInv'
  <2>1. mapPass' \in Passes
    BY <1>1 DEF Passes
  <2>2. 1 \in 1 .. Len(accesses) + 1
    BY <1>2
  <2> QED BY <1>1, <1>2, <2>1, <2>2 DEF MapTypeInv
<1>6. Rewritten'
  <2>1. Rewritten
    BY DEF SugarInv
  <2>2. \A k : FormOf(k, mapPass') = FormOf(k, mapPass)
    BY <1>1 DEF FormOf
  <2> QED BY <2>1, <2>2, <1>1, <1>3 DEF Rewritten
<1>7. Reported'
  <2>1. {i \in (Unfit \cap Live)' : i < visiting'} = {}
    <3>1. Unfit' \subseteq 1 .. Len(accesses)
      BY <1>1, <1>2, <1>3 DEF Unfit
    <3>2. \A i \in Unfit' : ~(i < visiting')
      BY <3>1, <1>1, <1>2
    <3> QED BY <3>2
  <2> QED BY <2>1, <1>1 DEF Reported
<1> QED BY <1>4, <1>5, <1>6, <1>7 DEF SugarInv

\* The semantic analyser looks where an unfit use was marked: a map function, whose key
\* has gone to its arguments, is only unfit without one.
LEMMA MarkSeen ==
    ASSUME SugarInv, mapPass = "check", NEW v \in DOMAIN accesses
    PROVE  (\E set \in Looked(accesses[v]) : [set |-> set, use |-> v] \in bad) <=> v \in Unfit
<1> DEFINE u == accesses[v]
<1>1. u \in Accesses
  BY UsesTyped, ElementOfSeq
<1>2. bad = {[set |-> MarkOf(accesses[i]), use |-> i] : i \in Unfit}
  BY DEF SugarInv, Marked
<1>3. ASSUME NEW set, [set |-> set, use |-> v] \in bad
      PROVE  v \in Unfit
  <2>1. PICK i \in Unfit : [set |-> set, use |-> v] = [set |-> MarkOf(accesses[i]), use |-> i]
    BY <1>2, <1>3
  <2> QED BY <2>1
<1>4. ASSUME v \in Unfit
      PROVE  MarkOf(u) \in Looked(u)
  <2>1. u.k \notin PlainKinds /\ scalar = {u.keyed}
    BY <1>4 DEF Unfit
  <2>2. u.form \in FormOf(u.k, "check")
    BY DEF SugarInv, Rewritten, Passed
  <2>3. CASE u.k = "aggregate"
    <3>1. PICK f \in FirstOf(accesses, Decides) : scalar = {~Keyed(accesses[f])}
      BY <2>1 DEF SugarInv, Decided
    <3>2. u.keyed = FALSE
      <4>1. SUFFICES ASSUME u.keyed = TRUE PROVE FALSE
        BY <1>1 DEF Accesses
      <4>2. Keyed(u)
        BY <4>1, <1>1, WantsFacts
      <4>3. ~Keyed(accesses[f])
        BY <2>1, <3>1, <4>1
      <4> QED BY <2>3, <4>2, <4>3 DEF SugarInv, Plain, Hidden
    <3>3. u.form = "call"
      BY <2>2, <2>3 DEF FormOf
    <3> QED BY <2>3, <3>2, <3>3 DEF MarkOf, Looked
  <2>4. CASE u.k = "access"
    BY <2>2, <2>4, <1>1 DEF FormOf, MarkOf, Looked, Accesses
  <2>5. CASE u.k \in {"delete", "has_key"}
    BY <2>2, <2>5, <1>1 DEF FormOf, MarkOf, Looked, Accesses
  <2>6. CASE u.k = "for"
    BY <2>2, <2>6 DEF FormOf, MarkOf, Looked
  <2> QED BY <2>1, <2>3, <2>4, <2>5, <2>6, <1>1 DEF Accesses
<1> QED BY <1>2, <1>3, <1>4

\* The unfit uses that are compiled are reported one after the other.
LEMMA SemanticSugars ==
    ASSUME SugarInv, SemanticCheck
    PROVE  SugarInv'
<1> DEFINE v == visiting
<1>1. /\ mapPass = "check" /\ mapPass' = "check" /\ visiting <= Len(accesses) /\ visiting' = v + 1
      /\ accesses' = accesses /\ scalar' = scalar /\ bad' = bad
  BY DEF SemanticCheck
<1>2. /\ accesses \in Seq(Accesses) /\ DOMAIN accesses = 1 .. Len(accesses) /\ Len(accesses) \in Nat
      /\ visiting \in 1 .. Len(accesses) + 1 /\ scalar \in {{}, {TRUE}, {FALSE}}
  BY UsesTyped
<1>3. Passed = DOMAIN accesses /\ Passed' = DOMAIN accesses
  BY <1>1 DEF Passed
<1>4. Plain' /\ Decided' /\ Marked' /\ Unfit' = Unfit
  BY <1>1, <1>3, DecidedKept
<1>5. v \in DOMAIN accesses
  BY <1>1, <1>2
<1>6. MapTypeInv'
  <2>1. v + 1 \in 1 .. Len(accesses) + 1
    BY <1>1, <1>2
  <2> QED BY <1>1, <1>2, <2>1 DEF MapTypeInv, Passes
<1>7. Rewritten'
  BY <1>1, <1>3 DEF SugarInv, Rewritten, KeyOf
<1>8. Live' = Live
  BY <1>1 DEF Live, Compiled, IsScalar
<1>9. mapErrors' = IF v \in Unfit \cap Live THEN mapErrors \cup {v} ELSE mapErrors
  <2>1. (\E set \in Looked(accesses[v]) : [set |-> set, use |-> v] \in bad) <=> v \in Unfit
    BY <1>1, <1>5, MarkSeen
  <2>2. Compiled(accesses[v]) <=> v \in Live
    BY <1>5 DEF Live
  <2> QED BY <2>1, <2>2 DEF SemanticCheck
<1>10. mapErrors' = {i \in Unfit \cap Live : i < v + 1}
  <2>1. mapErrors = {i \in Unfit \cap Live : i < v}
    BY <1>1 DEF SugarInv, Reported
  <2>2. \A i \in Unfit \cap Live : i < v + 1 <=> i < v \/ i = v
    <3>1. \A i \in Unfit \cap Live : i \in 1 .. Len(accesses)
      BY <1>2 DEF Live
    <3> QED BY <3>1, <1>2
  <2> QED BY <2>1, <2>2, <1>9
<1>11. Reported'
  BY <1>1, <1>4, <1>8, <1>10 DEF Reported
<1> QED BY <1>4, <1>6, <1>7, <1>11 DEF SugarInv

\* Then all of them have been.
LEMMA EndCheckSugars ==
    ASSUME SugarInv, EndCheck
    PROVE  SugarInv'
<1>1. /\ mapPass = "check" /\ mapPass' = "done" /\ visiting > Len(accesses) /\ visiting' = visiting
      /\ accesses' = accesses /\ scalar' = scalar /\ bad' = bad /\ mapErrors' = mapErrors
  BY DEF EndCheck
<1>2. /\ accesses \in Seq(Accesses) /\ DOMAIN accesses = 1 .. Len(accesses) /\ Len(accesses) \in Nat
      /\ visiting \in 1 .. Len(accesses) + 1 /\ scalar \in {{}, {TRUE}, {FALSE}}
  BY UsesTyped
<1>3. Passed = DOMAIN accesses /\ Passed' = DOMAIN accesses
  BY <1>1 DEF Passed
<1>4. Plain' /\ Decided' /\ Marked' /\ Unfit' = Unfit
  BY <1>1, <1>3, DecidedKept
<1>5. MapTypeInv'
  BY <1>1, <1>2 DEF MapTypeInv, Passes
<1>6. Rewritten'
  <2>1. Rewritten
    BY DEF SugarInv
  <2>2. \A k : FormOf(k, mapPass') = FormOf(k, mapPass)
    BY <1>1 DEF FormOf
  <2> QED BY <2>1, <2>2, <1>1, <1>3 DEF Rewritten
<1>7. Live' = Live
  BY <1>1 DEF Live, Compiled, IsScalar
<1>8. Reported'
  <2>1. mapErrors = {i \in Unfit \cap Live : i < visiting}
    BY <1>1 DEF SugarInv, Reported
  <2>2. \A i \in Unfit \cap Live : i < visiting
    <3>1. \A i \in Unfit \cap Live : i \in 1 .. Len(accesses)
      BY <1>2 DEF Live
    <3> QED BY <3>1, <1>1, <1>2
  <2> QED BY <2>1, <2>2, <1>1, <1>4, <1>7 DEF Reported
<1> QED BY <1>4, <1>5, <1>6, <1>8 DEF SugarInv

-----------------------------------------------------------------------------
(***************************************************************************)
(* The theorems.                                                           *)
(***************************************************************************)
\* When the invariant holds at the end, the script compiled exactly if its uses agree.
LEMMA SugarInvImplies ==
    ASSUME SugarInv
    PROVE  MapsAsWritten
<1> SUFFICES ASSUME mapPass = "done"
             PROVE  /\ mapErrors = {} => Agree
                    /\ mapErrors # {} => ~Agree \/ scalar = {}
                    /\ mapErrors = {} =>
                          \A i \in Live :
                             /\ Wants(accesses[i]) # {} => scalar = {~keyed : keyed \in Wants(accesses[i])}
                             /\ accesses[i].k \in {"access", "aggregate", "delete", "has_key"} =>
                                   accesses[i].key = IF accesses[i].keyed THEN "own" ELSE "default"
  BY DEF MapsAsWritten
<1>1. Passed = DOMAIN accesses
  BY DEF Passed
<1>2. ASSUME NEW i \in DOMAIN accesses
      PROVE  /\ accesses[i] \in Accesses /\ accesses[i].keyed \in BOOLEAN
             /\ accesses[i].k \in PlainKinds <=> Wants(accesses[i]) = {}
             /\ accesses[i].k \notin PlainKinds => Wants(accesses[i]) = {accesses[i].keyed}
             /\ Decides(accesses[i]) <=> accesses[i].k # "print"
             /\ Keyed(accesses[i]) <=> accesses[i].keyed = TRUE
  <2>1. accesses[i] \in Accesses
    BY UsesTyped, ElementOfSeq
  <2>2. accesses[i].keyed \in BOOLEAN
    BY <2>1 DEF Accesses
  <2> QED BY <2>1, <2>2, WantsFacts
<1>3. scalar = {} => \A i \in DOMAIN accesses : Wants(accesses[i]) = {}
  <2>1. scalar = {} => \A i \in DOMAIN accesses : ~Decides(accesses[i])
    BY <1>1 DEF SugarInv, Decided
  <2> QED BY <2>1, <1>2 DEF PlainKinds
<1>4. scalar # {} => mapErrors = Unfit \cap Live
  BY DEF SugarInv, Reported
<1>5. Live \subseteq DOMAIN accesses
  BY DEF Live
\* Without an error what is compiled fits.
<1>6. ASSUME mapErrors = {}, NEW i \in Live, Wants(accesses[i]) # {}
      PROVE  Wants(accesses[i]) = {accesses[i].keyed} /\ scalar = {~accesses[i].keyed}
  <2>1. scalar \in {{TRUE}, {FALSE}}
    BY <1>3, <1>5, <1>6, UsesTyped
  <2>2. Wants(accesses[i]) = {accesses[i].keyed} /\ accesses[i].k \notin PlainKinds
    BY <1>2, <1>5, <1>6
  <2>3. scalar # {accesses[i].keyed}
    BY <2>1, <2>2, <1>1, <1>4, <1>5, <1>6 DEF Unfit
  <2>4. CASE accesses[i].keyed = TRUE
    BY <2>1, <2>2, <2>3, <2>4
  <2>5. CASE accesses[i].keyed = FALSE
    BY <2>1, <2>2, <2>3, <2>5
  <2> QED BY <2>4, <2>5, <1>2, <1>5
<1>7. ASSUME mapErrors = {} PROVE Agree
  <2>1. SUFFICES ASSUME NEW i \in Live, NEW j \in Live, Wants(accesses[i]) \cup Wants(accesses[j]) = BOOLEAN
                 PROVE  FALSE
    BY DEF Agree
  <2>2. \A w \in Live : Wants(accesses[w]) = {} \/ Wants(accesses[w]) = {accesses[w].keyed}
    BY <1>6, <1>7
  <2>3. ASSUME NEW x PROVE {x} # BOOLEAN
    <3>1. SUFFICES ASSUME {x} = BOOLEAN PROVE FALSE
      OBVIOUS
    <3>2. TRUE \in {x} /\ FALSE \in {x}
      BY <3>1
    <3>3. TRUE = x /\ FALSE = x
      BY <3>2
    <3> QED BY <3>3
  <2>4. Wants(accesses[i]) # {} /\ Wants(accesses[j]) # {}
    BY <2>1, <2>2, <2>3
  <2>5. {~accesses[i].keyed} = {~accesses[j].keyed}
    BY <2>4, <1>6, <1>7
  <2>6. accesses[i].keyed = accesses[j].keyed
    BY <2>5, <1>2, <1>5
  <2> QED BY <2>1, <2>2, <2>3, <2>4, <2>6
\* An error is of a use that is compiled, as is the one that decided.
<1>8. ASSUME mapErrors # {}, scalar # {} PROVE ~Agree
  <2>1. PICK i \in Unfit : i \in Live
    BY <1>4, <1>8
  <2>2. accesses[i].k \notin PlainKinds /\ scalar = {accesses[i].keyed} /\ i \in DOMAIN accesses
    BY <2>1, <1>5 DEF Unfit
  <2>3. PICK f \in DOMAIN accesses : f \in FirstOf(accesses, Decides) /\ scalar = {~Keyed(accesses[f])}
    BY <1>1, <1>8 DEF SugarInv, Decided
  <2>4. Decides(accesses[f]) /\ Decides(accesses[i])
    BY <2>2, <2>3, <1>2 DEF FirstOf, PlainKinds
  <2>5. Keyed(accesses[i]) # Keyed(accesses[f])
    <3>1. (~Keyed(accesses[f])) = accesses[i].keyed
      BY <2>2, <2>3
    <3> QED BY <3>1, <2>2, <1>2
  <2>6. accesses[f].k # "typeof" /\ accesses[f].when = "always"
    BY <2>2, <2>3, <2>4, <2>5 DEF SugarInv, Plain, WronglyDecided
  <2>7. f \in Live
    BY <2>6 DEF Live, Compiled
  <2>8. Wants(accesses[f]) \cup Wants(accesses[i]) = BOOLEAN
    <3>1. accesses[f].k \notin PlainKinds
      BY <2>4, <2>6, <1>2 DEF PlainKinds
    <3>2. Wants(accesses[f]) = {accesses[f].keyed} /\ Wants(accesses[i]) = {accesses[i].keyed}
      BY <2>2, <3>1, <1>2
    <3>3. accesses[f].keyed # accesses[i].keyed
      <4>1. ~(Keyed(accesses[i]) <=> Keyed(accesses[f]))
        BY <2>5 DEF Keyed
      <4> QED BY <2>2, <4>1, <1>2
    <3> QED BY <2>2, <3>2, <3>3, <1>2
  <2> QED BY <2>1, <2>7, <2>8 DEF Agree
<1>9. ASSUME mapErrors = {}, NEW i \in Live
      PROVE  /\ Wants(accesses[i]) # {} => scalar = {~keyed : keyed \in Wants(accesses[i])}
             /\ accesses[i].k \in {"access", "aggregate", "delete", "has_key"} =>
                   accesses[i].key = IF accesses[i].keyed THEN "own" ELSE "default"
  <2>1. Wants(accesses[i]) # {} => scalar = {~keyed : keyed \in Wants(accesses[i])}
    BY <1>6, <1>9
  <2> QED BY <2>1, <1>1, <1>5 DEF SugarInv, Rewritten, KeyOf
<1> QED BY <1>7, <1>8, <1>9

\* A map is taken for what the compiled uses of it are for, and a script is only refused if
\* they differ (or is_scalar() asks about a map that nothing uses): for scripts in which the
\* first use that says what the map is is compiled and no typeof, and no map function with a
\* key follows a use without one.
THEOREM SugarKeepsUses ==
    ASSUME \A s \in MapScripts : ~WronglyDecided(s) /\ ~Hidden(s)
    PROVE  MapSpec => []MapsAsWritten
<1>1. MapInit => SugarInv
  BY InitSugared
<1>2. SugarInv /\ [MapNext]_mapVars => SugarInv'
  <2>1. ASSUME SugarInv, UNCHANGED mapVars PROVE SugarInv'
    <3>1. /\ accesses' = accesses /\ mapPass' = mapPass /\ visiting' = visiting /\ scalar' = scalar
          /\ bad' = bad /\ mapErrors' = mapErrors
      BY <2>1 DEF mapVars
    <3>2. MapTypeInv' /\ Plain' /\ Passed' = Passed
      BY <2>1, <3>1 DEF SugarInv, MapTypeInv, Plain, Passed
    <3>3. Decided' /\ Unfit' = Unfit
      BY <2>1, <3>1, <3>2 DEF SugarInv, Decided, Unfit
    <3>4. Marked' /\ Live' = Live
      BY <2>1, <3>1, <3>3 DEF SugarInv, Marked, Live, Compiled, IsScalar
    <3>5. Rewritten' /\ Reported'
      BY <2>1, <3>1, <3>2, <3>3, <3>4 DEF SugarInv, Rewritten, Reported
    <3> QED BY <3>2, <3>3, <3>4, <3>5 DEF SugarInv
  <2> QED BY <2>1, VisitSugars, EndDefaultKeySugars, AssignSugars, ScalarSugars, SemanticSugars,
             EndCheckSugars DEF MapNext
<1>3. SugarInv => MapsAsWritten
  BY SugarInvImplies
<1> QED BY <1>1, <1>2, <1>3, PTL DEF MapSpec

-----------------------------------------------------------------------------
(***************************************************************************)
(* Folding of literals, for any width.                                     *)
(***************************************************************************)
\* The integers of a literal, and those that eval_binop works on.
InLiteral(v) == v \in IntMin .. UIntMax
InType(T, v) ==
    \/ T = "uint" /\ v \in 0 .. UIntMax
    \/ T = "int" /\ v \in IntMin .. IntMax

\* A literal is v, in the one form there is for it.
Is(x, v) == (v >= 0 /\ v <= UIntMax /\ x = UInt(v)) \/ (v < 0 /\ v >= IntMin /\ x = NegInt(v))

\* The two operands have one sign, or are both unsigned.
Alike(T, l, r) == T = "uint" \/ (l < 0 /\ r < 0)

\* What folding to x instead of v may come to.
Folds(T, l, r, x, v) ==
    \/ Is(x, v)
    \/ x = Undefined
    \/ x = Error /\ (Alike(T, l, r) => ~InLiteral(v))

\* The width is only known by its half.
LEMMA Halves ==
    /\ Half \in Nat /\ Half >= 1 /\ UIntMax = 2 * Half - 1 /\ IntMax = Half - 1 /\ IntMin = -Half
    /\ UIntMax \in Nat /\ IntMax \in Nat /\ IntMin \in Int
BY WidthAssumption DEF UIntMax, IntMax, IntMin

\* clamp finds the form.
LEMMA Clamped ==
    ASSUME NEW v \in Int, InLiteral(v)
    PROVE  Is(clamp(v), v)
BY Halves DEF InLiteral, Is, clamp

\* A result in int64_t.
LEMMA SignedFolds ==
    ASSUME NEW v \in Int
    PROVE  Is(Signed(v), v) \/ Signed(v) = Undefined
<1>1. CASE v < IntMin \/ v > IntMax
  BY <1>1 DEF Signed
<1>2. CASE ~(v < IntMin \/ v > IntMax)
  <2>1. InLiteral(v)
    BY <1>2, Halves DEF InLiteral
  <2> QED BY <1>2, <2>1, Clamped DEF Signed
<1> QED BY <1>1, <1>2

\* Sums of two words.
LEMMA ToUFacts ==
    ASSUME NEW x \in Nat
    PROVE  /\ ToU(x) \in 0 .. UIntMax
           /\ x <= UIntMax => ToU(x) = x
           /\ (x > UIntMax /\ x <= 2 * UIntMax) => ToU(x) = x - 2 * Half
<1>1. PICK d : d = 2 * Half
  OBVIOUS
<1>2. d \in Nat /\ d > 0 /\ UIntMax = d - 1
  BY <1>1, Halves
<1>3. x % d \in 0 .. d - 1
  BY <1>2
<1>4. x < d => x % d = x
  BY <1>2
<1>5. (x >= d /\ x < 2 * d) => x % d = x - d
  BY <1>2
<1> QED BY <1>1, <1>2, <1>3, <1>4, <1>5 DEF ToU

\* PLUS.
LEMMA PlusFolds ==
    ASSUME NEW T, NEW l \in Int, NEW r \in Int, InType(T, l), InType(T, r)
    PROVE  Folds(T, l, r, plus(T, l, r), l + r)
<1> USE Halves
<1>1. CASE l = 0 \/ r = 0
  <2>1. InLiteral(l + r)
    BY <1>1 DEF InType, InLiteral
  <2> QED BY <1>1, <2>1, Clamped DEF plus, Folds
<1>2. CASE l > 0 /\ r > 0
  <2>1. l + r \in Nat /\ l + r <= 2 * UIntMax /\ l + r > l /\ l + r > r
    BY <1>2 DEF InType
  <2>2. PICK res : res = ToU(l + r)
    OBVIOUS
  <2>3. plus(T, l, r) = IF res > l /\ res > r THEN UInt(res) ELSE Error
    BY <1>2, <2>2 DEF plus
  <2>4. CASE l + r <= UIntMax
    <3>1. res = l + r
      BY <2>1, <2>2, <2>4, ToUFacts
    <3> QED BY <2>1, <2>3, <2>4, <3>1 DEF Folds, Is
  <2>5. CASE l + r > UIntMax
    <3>1. res = l + r - 2 * Half
      BY <2>1, <2>2, <2>5, ToUFacts
    <3>2. ~(res > l)
      BY <1>2, <3>1 DEF InType
    <3> QED BY <2>3, <2>5, <3>2 DEF Folds, InLiteral
  <2> QED BY <2>1, <2>4, <2>5
<1>3. CASE l < 0 /\ r < 0
  BY <1>3 DEF plus, Folds, InType, InLiteral, Is
<1>4. CASE (l < 0 /\ r > 0) \/ (l > 0 /\ r < 0)
  <2>1. InLiteral(l + r)
    BY <1>4 DEF InType, InLiteral
  <2>2. plus(T, l, r) = clamp(l + r)
    BY <1>4 DEF plus
  <2> QED BY <2>1, <2>2, Clamped DEF Folds
<1> QED BY <1>1, <1>2, <1>3, <1>4

\* MINUS.
LEMMA MinusFolds ==
    ASSUME NEW T, NEW l \in Int, NEW r \in Int, InType(T, l), InType(T, r)
    PROVE  Folds(T, l, r, minus(T, l, r), l - r)
<1> USE Halves
<1>1. CASE T = "uint"
  BY <1>1 DEF minus, Folds, InType, InLiteral, Is
<1>2. CASE T # "uint" /\ r = 0
  <2>1. InLiteral(l)
    BY <1>2 DEF InType, InLiteral
  <2>2. minus(T, l, r) = clamp(l)
    BY <1>2 DEF minus
  <2> QED BY <1>2, <2>1, <2>2, Clamped DEF Folds
<1>3. CASE T # "uint" /\ r # 0
  <2>1. minus(T, l, r) \in {Undefined, Error, Signed(l - r)}
    BY <1>3 DEF minus
  <2>2. minus(T, l, r) = Error => ~Alike(T, l, r)
    <3>1. ASSUME l < 0, r < 0 PROVE minus(T, l, r) = Signed(l - r)
      BY <1>3, <3>1 DEF minus
    <3>2. Signed(l - r) # Error
      BY DEF Signed, clamp, UInt, NegInt, Error, Undefined
    <3> QED BY <1>3, <3>1, <3>2 DEF Alike
  <2>3. Is(Signed(l - r), l - r) \/ Signed(l - r) = Undefined
    BY SignedFolds
  <2> QED BY <2>1, <2>2, <2>3 DEF Folds
<1> QED BY <1>1, <1>2, <1>3

\* A quotient of natural numbers, and what is left.
LEMMA Divides ==
    ASSUME NEW a \in Nat, NEW b \in Nat \ {0}
    PROVE  /\ a \div b \in Nat /\ a \div b <= a /\ a % b \in 0 .. b - 1
           /\ a = b * (a \div b) + (a % b)
<1>1. a = b * (a \div b) + (a % b) /\ a % b \in 0 .. b - 1 /\ a \div b \in Nat
  OBVIOUS
<1>2. a \div b <= a
  OBVIOUS
<1> QED BY <1>1, <1>2

\* The signs of a product.
LEMMA Products ==
    ASSUME NEW a \in Int, NEW b \in Int
    PROVE  /\ (-a) * b = -(a * b) /\ a * (-b) = -(a * b) /\ (-a) * (-b) = a * b /\ a * b = b * a
           /\ a * b \in Int
OBVIOUS

\* The unsigned product, and the check that comes after it.
Product(a, b) == LET res == ToU(a * b) IN IF res \div a # b THEN Error ELSE UInt(res)

\* A product of two words is refused exactly when no word has it.
LEMMA ProductFolds ==
    ASSUME NEW a \in Nat \ {0}, NEW b \in Nat \ {0}
    PROVE  Is(Product(a, b), a * b) \/ (Product(a, b) = Error /\ ~InLiteral(a * b))
<1> USE Halves
<1>1. PICK p, res : p = a * b /\ res = ToU(p)
  OBVIOUS
<1>2. p \in Nat /\ res \in Nat
  BY <1>1, ToUFacts
<1>3. Product(a, b) = IF res \div a # b THEN Error ELSE UInt(res)
  BY <1>1 DEF Product
<1>4. CASE p <= UIntMax
  <2>1. res = p
    BY <1>1, <1>2, <1>4, ToUFacts
  <2>2. p \div a = b
    BY <1>1
  <2> QED BY <1>1, <1>2, <1>3, <1>4, <2>1, <2>2 DEF Is
<1>5. CASE p > UIntMax
  <2>1. res < p
    BY <1>1, <1>2, <1>5, ToUFacts
  <2>2. res \div a # b
    <3>1. res = a * (res \div a) + (res % a) /\ res % a >= 0 /\ res % a \in Nat
      BY <1>2, Divides
    <3>2. res \div a = b => res = p + (res % a)
      BY <1>1, <3>1
    <3> QED BY <1>2, <2>1, <3>1, <3>2
  <2> QED BY <1>1, <1>2, <1>3, <1>5, <2>2 DEF InLiteral
<1> QED BY <1>2, <1>4, <1>5

\* MUL.
LEMMA MulFolds ==
    ASSUME NEW T, NEW l \in Int, NEW r \in Int, InType(T, l), InType(T, r)
    PROVE  Folds(T, l, r, mul(T, l, r), l * r)
<1> USE Halves
<1>1. CASE l = 0 \/ r = 0
  <2>1. l * r = 0
    BY <1>1
  <2>2. mul(T, l, r) = UInt(0)
    BY <1>1 DEF mul
  <2> QED BY <2>1, <2>2 DEF Folds, Is
<1>2. CASE l # 0 /\ r # 0 /\ T = "uint"
  <2>1. mul(T, l, r) = Product(l, r)
    BY <1>2 DEF mul, Product
  <2>2. l \in Nat \ {0} /\ r \in Nat \ {0}
    BY <1>2 DEF InType
  <2> QED BY <2>1, <2>2, ProductFolds DEF Folds
<1>3. CASE l < 0 /\ r < 0 /\ T # "uint"
  <2>1. mul(T, l, r) = Product(-l, -r)
    BY <1>3 DEF mul, Product
  <2>2. -l \in Nat \ {0} /\ -r \in Nat \ {0} /\ (-l) * (-r) = l * r
    BY <1>3, Products
  <2> QED BY <2>1, <2>2, ProductFolds DEF Folds
<1>4. CASE l # 0 /\ r # 0 /\ T # "uint" /\ ~(l < 0 /\ r < 0)
  <2>1. mul(T, l, r) = Signed(l * r)
    BY <1>4 DEF mul
  <2>2. l * r \in Int
    BY Products
  <2> QED BY <2>1, <2>2, SignedFolds DEF Folds
<1> QED BY <1>1, <1>2, <1>3, <1>4

\* The quotient of C++: rounded towards zero, the rest with the sign of l.
LEMMA CDivFacts ==
    ASSUME NEW l \in Int, NEW r \in Int, r # 0
    PROVE  /\ CDiv(l, r) \in Int /\ Quotient(CDiv(l, r), l, r)
           /\ CMod(l, r) \in Int /\ l = CDiv(l, r) * r + CMod(l, r)
           /\ -Abs(r) < CMod(l, r) /\ CMod(l, r) < Abs(r)
           /\ CMod(l, r) = 0 \/ (CMod(l, r) < 0) = (l < 0)
           /\ -Abs(l) <= CDiv(l, r) /\ CDiv(l, r) <= Abs(l)
           /\ (l >= 0 /\ r > 0) => CDiv(l, r) >= 0
           /\ (l >= 0 => CMod(l, r) >= 0) /\ (l < 0 => CMod(l, r) <= 0 /\ CMod(l, r) >= l)
<1>1. PICK a, b, k, m, q, c : /\ a = Abs(l) /\ b = Abs(r) /\ k = a \div b /\ m = a % b
                              /\ q = CDiv(l, r) /\ c = CMod(l, r)
  OBVIOUS
<1>2. /\ a \in Nat /\ b \in Nat \ {0} /\ (l < 0 => l = -a) /\ (l >= 0 => l = a)
      /\ (r < 0 => r = -b) /\ (r >= 0 => r = b)
  BY <1>1 DEF Abs
<1>3. k \in Nat /\ k <= a /\ m \in 0 .. b - 1 /\ a = b * k + m
  BY <1>1, <1>2, Divides
<1>4. q = IF (l < 0) = (r < 0) THEN k ELSE -k
  BY <1>1 DEF CDiv
<1>5. b * k \in Nat /\ m <= a
  BY <1>2, <1>3
<1>6. q * r = IF l < 0 THEN -(b * k) ELSE b * k
  <2>1. /\ (-k) * b = -(b * k) /\ k * (-b) = -(b * k) /\ (-k) * (-b) = b * k /\ k * b = b * k
    BY <1>2, <1>3, Products
  <2> QED BY <1>2, <1>4, <2>1
<1>7. r * q = q * r
  BY <1>2, <1>3, <1>4, Products
<1>8. c = IF l < 0 THEN -m ELSE m
  <2>1. c = l - r * q
    BY <1>1 DEF CMod
  <2> QED BY <1>2, <1>3, <1>5, <1>6, <1>7, <2>1
<1>9. q \in Int /\ c \in Int /\ l = q * r + c
  BY <1>2, <1>3, <1>4, <1>5, <1>6, <1>8
<1>10. -b < c /\ c < b /\ (c = 0 \/ (c < 0) = (l < 0))
  BY <1>2, <1>3, <1>8
<1>11. Quotient(q, l, r)
  <2>1. c \in -b + 1 .. b - 1
    BY <1>2, <1>9, <1>10
  <2> QED BY <1>1, <1>9, <1>10, <2>1 DEF Quotient
<1>12. -a <= q /\ q <= a /\ ((l >= 0 /\ r > 0) => q >= 0)
  BY <1>2, <1>3, <1>4
<1>13. (l >= 0 => c >= 0) /\ (l < 0 => c <= 0 /\ c >= l)
  BY <1>2, <1>3, <1>5, <1>8
<1> QED BY <1>1, <1>9, <1>10, <1>11, <1>12, <1>13

\* Sums, products and quotients: the operators on numbers as such.
Numeric == {"PLUS", "MINUS", "MUL", "DIV", "MOD"}

\* eval_binop: it finds the literal that the operator gives on the integers, leaves it
\* undefined, or refuses it; two operands of one kind only if no literal has it.
LEMMA Evaluates ==
    ASSUME NEW T, NEW l \in Int, NEW r \in Int, InType(T, l), InType(T, r), NEW op \in Numeric,
           NEW x, x = eval_binop(T, l, op, r)
    PROVE  \/ \E v \in Int : Is(x, v) /\ ExactInteger(v, op, l, r)
           \/ x = Undefined
           \/ /\ x = Error
              /\ Alike(T, l, r) =>
                    IF op \in {"DIV", "MOD"} THEN r = 0
                    ELSE \A v \in IntMin .. UIntMax : ~ExactInteger(v, op, l, r)
<1>1. ASSUME NEW v \in Int, Folds(T, l, r, x, v), op \notin {"DIV", "MOD"},
             \A u : ExactInteger(u, op, l, r) <=> u = v
      PROVE  \/ \E u \in Int : Is(x, u) /\ ExactInteger(u, op, l, r)
             \/ x = Undefined
             \/ /\ x = Error
                /\ Alike(T, l, r) => \A u \in IntMin .. UIntMax : ~ExactInteger(u, op, l, r)
  BY <1>1 DEF Folds, InLiteral
<1>2. CASE op = "PLUS"
  <2>1. x = plus(T, l, r) /\ \A u : ExactInteger(u, op, l, r) <=> u = l + r
    BY <1>2 DEF eval_binop, ExactInteger
  <2>2. l + r \in Int /\ Folds(T, l, r, x, l + r)
    BY <2>1, PlusFolds
  <2> QED BY <1>1, <1>2, <2>1, <2>2
<1>3. CASE op = "MINUS"
  <2>1. x = minus(T, l, r) /\ \A u : ExactInteger(u, op, l, r) <=> u = l - r
    BY <1>3 DEF eval_binop, ExactInteger
  <2>2. l - r \in Int /\ Folds(T, l, r, x, l - r)
    BY <2>1, MinusFolds
  <2> QED BY <1>1, <1>3, <2>1, <2>2
<1>4. CASE op = "MUL"
  <2>1. x = mul(T, l, r) /\ \A u : ExactInteger(u, op, l, r) <=> u = l * r
    BY <1>4 DEF eval_binop, ExactInteger
  <2>2. l * r \in Int /\ Folds(T, l, r, x, l * r)
    BY <2>1, MulFolds, Products
  <2> QED BY <1>1, <1>4, <2>1, <2>2
<1>5. CASE op \in {"DIV", "MOD"} /\ r = 0
  <2>1. x = Error
    BY <1>5 DEF eval_binop
  <2> QED BY <1>5, <2>1
<1>6. CASE op = "DIV" /\ r # 0
  <2>1. PICK q : q = CDiv(l, r)
    OBVIOUS
  <2>2. q \in Int /\ ExactInteger(q, op, l, r) /\ ((l >= 0 /\ r > 0) => q >= 0)
        /\ -Abs(l) <= q /\ q <= Abs(l)
    BY <1>6, <2>1, CDivFacts DEF ExactInteger
  <2>3. Is(x, q) \/ x = Undefined
    <3>1. CASE T = "int"
      <4>1. x = Signed(q)
        BY <1>6, <2>1, <3>1 DEF eval_binop
      <4> QED BY <2>2, <4>1, SignedFolds
    <3>2. CASE T = "uint"
      <4>1. l >= 0 /\ r > 0 /\ l <= UIntMax
        BY <1>6, <3>2, Halves DEF InType
      <4>2. x = UInt(l \div r)
        BY <1>6, <3>2 DEF eval_binop
      <4>3. q = l \div r
        BY <2>1, <4>1 DEF CDiv, Abs
      <4> QED BY <2>2, <4>1, <4>2, <4>3, Halves DEF Is, Abs
    <3> QED BY <3>1, <3>2 DEF InType
  <2> QED BY <2>2, <2>3
<1>7. CASE op = "MOD" /\ r # 0
  <2>1. PICK q, c : q = CDiv(l, r) /\ c = CMod(l, r)
    OBVIOUS
  <2>2. /\ q \in Int /\ Quotient(q, l, r) /\ c \in Int /\ l = q * r + c
        /\ -Abs(l) <= q /\ q <= Abs(l)
        /\ -Abs(r) < c /\ c < Abs(r) /\ (l >= 0 => c >= 0) /\ (l < 0 => c <= 0 /\ c >= l)
    BY <1>7, <2>1, CDivFacts
  <2>3. q \in -UIntMax .. UIntMax /\ InLiteral(c)
    BY <2>2, Halves DEF InType, Abs, InLiteral
  <2>4. ExactInteger(c, op, l, r)
    BY <1>7, <2>2, <2>3 DEF ExactInteger
  <2>5. x = Undefined \/ x = clamp(c)
    BY <1>7, <2>1 DEF eval_binop
  <2> QED BY <2>2, <2>3, <2>4, <2>5, Clamped
<1> QED BY <1>2, <1>3, <1>4, <1>5, <1>6, <1>7 DEF Numeric

-----------------------------------------------------------------------------
\* What a binary operator may be folded to.
FoldedWell(x, op, l, r) ==
    /\ x.t = "uint" => x.v \in 0 .. UIntMax
    /\ x.t = "int" => x.v \in IntMin .. -1
    /\ IsLiteral(x) =>
          /\ op \in Comparisons => x = Bool(ExactTruth(op, l, r))
          /\ (op \in Numeric /\ IsInteger(l)) =>
                IsInteger(x) /\ ExactInteger(x.v, op, l.v, r.v)
          /\ (op \in Numeric /\ ~IsInteger(l)) => x.t = "bool"
    /\ (x = Error /\ op \in Numeric /\ IsInteger(l) /\ l.t = r.t) =>
          IF op \in {"DIV", "MOD"} THEN r.v = 0
          ELSE \A v \in IntMin .. UIntMax : ~ExactInteger(v, op, l.v, r.v)

\* The literals there are.
LEMMA OperandFacts ==
    ASSUME NEW x \in Operands
    PROVE  /\ x.t \in {"uint", "int", "bool"} /\ x.v \in Int
           /\ x.t = "uint" => x.v \in 0 .. UIntMax
           /\ x.t = "int" => x.v \in IntMin .. -1
           /\ x.t = "bool" => x.v \in {0, 1}
BY Halves DEF Operands, UInt, NegInt, Bool, AsBit

\* Of two integers.
LEMMA IntegersFold ==
    ASSUME NEW l \in Operands, NEW r \in Operands, IsInteger(l), IsInteger(r),
           NEW op \in Comparisons \cup Numeric
    PROVE  FoldedWell(Integers2(op, l, r), op, l, r)
<1>1. PICK T, x : /\ T = IF l.t = "uint" /\ r.t = "uint" THEN "uint" ELSE "int"
                  /\ x = Integers2(op, l, r)
  OBVIOUS
<1>2. /\ l.t \in {"uint", "int"} /\ r.t \in {"uint", "int"} /\ l.v \in Int /\ r.v \in Int
      /\ (l.t = "uint" => l.v \in 0 .. UIntMax) /\ (r.t = "uint" => r.v \in 0 .. UIntMax)
      /\ (l.t = "int" => l.v \in IntMin .. -1) /\ (r.t = "int" => r.v \in IntMin .. -1)
  BY OperandFacts DEF IsInteger
<1>3. CASE T = "int" /\ ~(l.v <= IntMax /\ r.v <= IntMax)
  <2>1. x = Error
    BY <1>1, <1>3 DEF Integers2
  <2>2. l.t # r.t
    BY <1>1, <1>2, <1>3, Halves
  <2> QED BY <1>1, <2>1, <2>2 DEF FoldedWell, Error, IsLiteral, IsInteger
<1>4. CASE T = "uint" \/ (l.v <= IntMax /\ r.v <= IntMax)
  <2>1. InType(T, l.v) /\ InType(T, r.v)
    BY <1>1, <1>2, <1>4, Halves DEF InType
  <2>2. l.t = r.t => Alike(T, l.v, r.v)
    BY <1>1, <1>2 DEF Alike
  <2>3. CASE op \in Comparisons
    <3>1. x = Bool(Compare(op, l.v, r.v))
      BY <1>1, <1>4, <2>3 DEF Integers2
    <3>2. Compare(op, l.v, r.v) = ExactTruth(op, l, r)
      BY <2>3 DEF Compare, ExactTruth, TruthOf, Comparisons
    <3>3. op \notin Numeric
      BY <2>3 DEF Comparisons, Numeric
    <3> QED BY <1>1, <3>1, <3>2, <3>3 DEF FoldedWell, Bool
  <2>4. CASE op \in Numeric
    <3>1. op \notin Comparisons
      BY <2>4 DEF Comparisons, Numeric
    <3>2. x = eval_binop(T, l.v, op, r.v)
      BY <1>1, <1>4, <3>1 DEF Integers2
    <3>3. \/ \E v \in Int : Is(x, v) /\ ExactInteger(v, op, l.v, r.v)
          \/ x = Undefined
          \/ /\ x = Error
             /\ Alike(T, l.v, r.v) =>
                   IF op \in {"DIV", "MOD"} THEN r.v = 0
                   ELSE \A v \in IntMin .. UIntMax : ~ExactInteger(v, op, l.v, r.v)
      BY <1>2, <2>1, <2>4, <3>2, Evaluates
    <3>4. CASE \E v \in Int : Is(x, v) /\ ExactInteger(v, op, l.v, r.v)
      <4>1. PICK v \in Int : Is(x, v) /\ ExactInteger(v, op, l.v, r.v)
        BY <3>4
      <4>2. /\ x.v = v /\ x.t \in {"uint", "int"} /\ x # Error
            /\ (x.t = "uint" => v \in 0 .. UIntMax) /\ (x.t = "int" => v \in IntMin .. -1)
        BY <4>1, Halves DEF Is, UInt, NegInt, Error
      <4> QED BY <1>1, <3>1, <4>1, <4>2 DEF FoldedWell, IsInteger
    <3>5. CASE x = Undefined
      BY <1>1, <3>5 DEF FoldedWell, Undefined, Error, IsLiteral, IsInteger
    <3>6. CASE /\ x = Error
               /\ Alike(T, l.v, r.v) =>
                   IF op \in {"DIV", "MOD"} THEN r.v = 0
                   ELSE \A v \in IntMin .. UIntMax : ~ExactInteger(v, op, l.v, r.v)
      BY <1>1, <2>2, <3>6 DEF FoldedWell, Error, IsLiteral, IsInteger
    <3> QED BY <3>3, <3>4, <3>5, <3>6
  <2> QED BY <2>3, <2>4
<1> QED BY <1>1, <1>3, <1>4

\* Of any two literals.
LEMMA BinopFolds ==
    ASSUME NEW l \in Operands, NEW r \in Operands, NEW op \in Comparisons \cup Numeric
    PROVE  FoldedWell(Binop(op, l, r), op, l, r)
<1>1. PICK x : x = Binop(op, l, r)
  OBVIOUS
<1>2. CASE l.t # "bool" /\ r.t # "bool"
  <2>1. IsInteger(l) /\ IsInteger(r) /\ x = Integers2(op, l, r)
    BY <1>1, <1>2, OperandFacts DEF IsInteger, Binop
  <2> QED BY <1>1, <2>1, IntegersFold
<1>3. ASSUME NEW b, x = Bool(b), l.t = "bool" \/ op \in Comparisons,
             op \in Comparisons => b = ExactTruth(op, l, r)
      PROVE  FoldedWell(x, op, l, r)
  <2>1. x.t = "bool" /\ x # Error
    BY <1>3 DEF Bool, Error
  <2>2. op \in Comparisons => op \notin Numeric
    BY DEF Comparisons, Numeric
  <2> QED BY <1>3, <2>1, <2>2 DEF FoldedWell, IsInteger
<1>4. CASE l.t = "bool" /\ r.t = "bool"
  <2>1. x = make_boolean(op, l.v, r.v)
    BY <1>1, <1>4 DEF Binop
  <2>2. CASE op \in Comparisons
    <3>1. x = Bool(Compare(op, l.v, r.v))
      BY <2>1, <2>2 DEF make_boolean, Comparisons
    <3>2. Compare(op, l.v, r.v) = ExactTruth(op, l, r)
      BY <2>2 DEF Compare, ExactTruth, TruthOf, Comparisons
    <3> QED BY <1>1, <1>3, <2>2, <3>1, <3>2
  <2>3. CASE op \notin Comparisons
    <3>1. (\E b : x = Bool(b)) \/ x = Error
      BY <2>1, <2>3 DEF make_boolean, Numeric
    <3>2. CASE x = Error
      BY <1>1, <1>4, <3>2 DEF FoldedWell, Error, IsLiteral, IsInteger
    <3> QED BY <1>1, <1>3, <1>4, <2>3, <3>1, <3>2
  <2> QED BY <2>2, <2>3
<1>5. CASE (l.t = "bool") # (r.t = "bool")
  <2>1. CASE op \in {"LAND", "LOR"}
    <3>1. x = make_boolean(op, AsBit(eval_bool(l)), AsBit(eval_bool(r)))
      BY <1>1, <1>5, <2>1 DEF Binop
    <3>2. op \in Comparisons
      BY <2>1 DEF Comparisons
    <3>3. x = Bool(Compare(op, AsBit(eval_bool(l)), AsBit(eval_bool(r))))
      BY <3>1, <3>2 DEF make_boolean, Comparisons
    <3>4. (eval_bool(l) <=> TruthOf(l)) /\ (eval_bool(r) <=> TruthOf(r))
      BY OperandFacts DEF eval_bool, TruthOf
    <3>5. Compare(op, AsBit(eval_bool(l)), AsBit(eval_bool(r))) = ExactTruth(op, l, r)
      BY <2>1, <3>4 DEF Compare, ExactTruth, AsBit
    <3> QED BY <1>1, <1>3, <3>2, <3>3, <3>5
  <2>2. CASE op \notin {"LAND", "LOR"}
    <3>1. x = Unfolded
      BY <1>1, <1>5, <2>2 DEF Binop
    <3> QED BY <1>1, <3>1 DEF FoldedWell, Unfolded, Error, IsLiteral, IsInteger
  <2> QED BY <2>1, <2>2
<1> QED BY <1>2, <1>4, <1>5

\* Of one literal: the sign, the bits and the truth of it.
LEMMA UnopFolds ==
    ASSUME NEW l \in Operands, NEW op \in {"LNOT", "BNOT", "NEG"}, NEW x, x = Unop(op, l)
    PROVE  /\ x.t = "uint" => x.v \in 0 .. UIntMax
           /\ x.t = "int" => x.v \in IntMin .. -1
           /\ IsLiteral(x) =>
                 /\ op = "LNOT" => x = Bool(~TruthOf(l))
                 /\ op = "NEG" => x.v = -l.v
                 /\ op = "BNOT" => x.v + ToU(l.v) = UIntMax
<1>1. /\ l.t \in {"uint", "int", "bool"} /\ l.v \in Int
      /\ (l.t = "uint" => l.v \in 0 .. UIntMax) /\ (l.t = "int" => l.v \in IntMin .. -1)
  BY OperandFacts
<1>2. CASE op = "LNOT"
  <2>1. x = Bool(~eval_bool(l))
    BY <1>2 DEF Unop
  <2>2. eval_bool(l) <=> TruthOf(l)
    BY OperandFacts DEF eval_bool, TruthOf
  <2>3. x = Bool(~TruthOf(l)) /\ x.t = "bool"
    BY <2>1, <2>2 DEF Bool, AsBit
  <2> QED BY <1>2, <2>3
<1>3. CASE op = "NEG"
  <2>1. CASE l.t = "uint"
    <3>1. x = IF l.v > IntMax + 1 THEN Error ELSE IF l.v = 0 THEN l ELSE NegInt(-l.v)
      BY <1>3, <2>1 DEF Unop
    <3> QED BY <1>1, <1>3, <2>1, <3>1, Halves DEF Error, NegInt, IsLiteral, IsInteger
  <2>2. CASE l.t = "int"
    <3>1. x = UInt(-l.v)
      BY <1>3, <2>2 DEF Unop
    <3> QED BY <1>1, <1>3, <2>2, <3>1, Halves DEF UInt
  <2>3. CASE l.t = "bool"
    <3>1. x = Unfolded
      BY <1>3, <2>3 DEF Unop
    <3> QED BY <3>1 DEF Unfolded, IsLiteral, IsInteger
  <2> QED BY <1>1, <2>1, <2>2, <2>3
<1>4. CASE op = "BNOT"
  <2>1. CASE IsInteger(l)
    <3>1. x = UInt(ToU(-l.v - 1))
      BY <1>4, <2>1 DEF Unop
    <3>2. ToU(-l.v - 1) \in 0 .. UIntMax /\ ToU(-l.v - 1) + ToU(l.v) = UIntMax
      <4>1. PICK d : d = 2 * Half
        OBVIOUS
      <4>2. d \in Nat /\ d > 0 /\ UIntMax = d - 1 /\ IntMin >= -d
        BY <4>1, Halves
      <4>3. CASE l.v >= 0
        <5>1. l.v < d /\ l.v % d = l.v
          BY <1>1, <2>1, <4>2, <4>3, Halves DEF IsInteger
        <5>2. (-l.v - 1) % d = d - 1 - l.v
          <6>1. -l.v - 1 = (-1) * d + (d - 1 - l.v) /\ d - 1 - l.v \in 0 .. d - 1
            BY <1>1, <4>2, <4>3, <5>1
          <6> QED BY <1>1, <4>2, <6>1
        <5> QED BY <1>1, <4>1, <4>2, <4>3, <5>1, <5>2 DEF ToU
      <4>4. CASE l.v < 0
        <5>1. -l.v - 1 \in Nat /\ -l.v - 1 < d /\ (-l.v - 1) % d = -l.v - 1
          BY <1>1, <2>1, <4>2, <4>4, Halves DEF IsInteger
        <5>2. l.v % d = d + l.v
          <6>1. l.v = (-1) * d + (d + l.v) /\ d + l.v \in 0 .. d - 1
            BY <1>1, <4>2, <4>4, <5>1
          <6> QED BY <1>1, <4>2, <6>1
        <5> QED BY <1>1, <4>1, <4>2, <4>4, <5>1, <5>2 DEF ToU
      <4> QED BY <1>1, <4>3, <4>4
    <3> QED BY <1>4, <3>1, <3>2 DEF UInt
  <2>2. CASE ~IsInteger(l)
    <3>1. x = Unfolded
      BY <1>4, <2>2 DEF Unop
    <3> QED BY <3>1 DEF Unfolded, IsLiteral, IsInteger
  <2> QED BY <2>1, <2>2
<1> QED BY <1>2, <1>3, <1>4

\* The operators this section covers: all but those on bits, shifts and the tokens.
OnNumbers == Comparisons \cup Numeric \cup {"LNOT", "BNOT", "NEG", "BOOL"}

\* Folding a literal with an operator on numbers gives a literal of the width, worth what
\* the operator gives on the integers themselves, and refuses two operands of one kind
\* only when no literal is worth that (LiteralFolder, eval_binop).
THEOREM FoldedAsWritten ==
    ASSUME lit \in Operands, LitNext, from'.op \in OnNumbers
    PROVE  FoldExact'
<1> USE DEF OnNumbers
<1>1. ASSUME NEW op, NEW l, NEW r, from' = [op |-> op, l |-> l, r |-> r],
             op \in Comparisons \cup Numeric, FoldedWell(lit', op, l, r)
      PROVE  FoldExact'
  <2>1. from'.op = op /\ from'.l = l /\ from'.r = r
    BY <1>1
  <2>2. Canonical'
    BY <1>1 DEF FoldedWell, Canonical
  <2>3. Folded(lit)' => IsLiteral(lit')
    BY DEF Folded
  <2>4. ASSUME IsLiteral(lit') PROVE Exact'
    <3>1. CASE op \in Comparisons
      <4>1. lit' = Bool(ExactTruth(op, l, r)) /\ op # "token"
        BY <1>1, <2>4, <3>1 DEF FoldedWell, Comparisons
      <4>2. op \notin Arithmetic /\ op \notin {"LNOT", "BOOL", "NEG", "BNOT"}
        BY <3>1 DEF Comparisons, Arithmetic
      <4> QED BY <2>1, <3>1, <4>1, <4>2 DEF Exact
    <3>2. CASE op \in Numeric
      <4>1. /\ op \notin Comparisons /\ op # "token" /\ op \in Arithmetic
            /\ op \notin {"LNOT", "BOOL", "NEG", "BNOT"}
        BY <3>2 DEF Comparisons, Numeric, Arithmetic
      <4>2. CASE IsInteger(l)
        <5>1. IsInteger(lit') /\ ExactInteger(lit'.v, op, l.v, r.v)
          BY <1>1, <2>4, <3>2, <4>2 DEF FoldedWell
        <5> QED BY <2>1, <4>1, <4>2, <5>1 DEF Exact
      <4>3. CASE ~IsInteger(l)
        <5>1. lit'.t = "bool"
          BY <1>1, <2>4, <3>2, <4>3 DEF FoldedWell
        <5> QED BY <2>1, <4>1, <4>3, <5>1 DEF Exact
      <4> QED BY <4>2, <4>3
    <3> QED BY <1>1, <3>1, <3>2
  <2>5. ASSUME lit' = Error, op \in Arithmetic, IsInteger(l), l.t = r.t
        PROVE  Unrepresentable'
    <3>1. op \in Numeric /\ op \notin {"LEFT", "RIGHT"}
      BY <1>1, <2>5 DEF Comparisons, Numeric, Arithmetic
    <3>2. IF op \in {"DIV", "MOD"} THEN r.v = 0
          ELSE \A v \in IntMin .. UIntMax : ~ExactInteger(v, op, l.v, r.v)
      BY <1>1, <2>5, <3>1 DEF FoldedWell
    <3> QED BY <2>1, <3>1, <3>2 DEF Unrepresentable
  <2>6. Error' = Error
    BY DEF Error
  <2> QED BY <2>1, <2>2, <2>3, <2>4, <2>5, <2>6 DEF FoldExact
<1>2. CASE FoldBinop
  <2>1. PICK op \in Comparisons \cup Arithmetic, x \in Operands :
           \/ lit' = Binop(op, lit, x) /\ from' = [op |-> op, l |-> lit, r |-> x]
           \/ lit' = Binop(op, x, lit) /\ from' = [op |-> op, l |-> x, r |-> lit]
    BY <1>2 DEF FoldBinop
  <2>2. op \in Comparisons \cup Numeric
    <3>1. from'.op = op
      BY <2>1
    <3> QED BY <2>1, <3>1 DEF Comparisons, Arithmetic
  <2>3. FoldedWell(Binop(op, lit, x), op, lit, x) /\ FoldedWell(Binop(op, x, lit), op, x, lit)
    BY <2>2, BinopFolds
  <2> QED BY <1>1, <2>1, <2>2, <2>3
<1>3. ASSUME NEW op \in {"LNOT", "BNOT", "NEG", "BOOL"}, from' = [op |-> op, l |-> lit, r |-> lit],
             lit'.t = "uint" => lit'.v \in 0 .. UIntMax,
             lit'.t = "int" => lit'.v \in IntMin .. -1,
             IsLiteral(lit') =>
                /\ op = "LNOT" => lit' = Bool(~TruthOf(lit))
                /\ op = "BOOL" => lit' = Bool(TruthOf(lit))
                /\ op = "NEG" => lit'.v = -lit.v
                /\ op = "BNOT" => lit'.v + ToU(lit.v) = UIntMax
      PROVE  FoldExact'
  <2>1. from'.op = op /\ from'.l = lit /\ from'.r = lit
    BY <1>3
  <2>2. op \notin Comparisons /\ op \notin Arithmetic /\ op # "token"
    BY DEF Comparisons, Arithmetic
  <2>3. Canonical'
    BY <1>3 DEF Canonical
  <2>4. Folded(lit)' => Exact'
    BY <1>3, <2>1, <2>2 DEF Folded, Exact
  <2> QED BY <2>1, <2>2, <2>3, <2>4 DEF FoldExact
<1>4. CASE FoldUnop
  <2>1. PICK op \in {"LNOT", "BNOT", "NEG"} :
           lit' = Unop(op, lit) /\ from' = [op |-> op, l |-> lit, r |-> lit]
    BY <1>4 DEF FoldUnop
  <2>2. /\ lit'.t = "uint" => lit'.v \in 0 .. UIntMax
        /\ lit'.t = "int" => lit'.v \in IntMin .. -1
        /\ IsLiteral(lit') =>
              /\ op = "LNOT" => lit' = Bool(~TruthOf(lit))
              /\ op = "NEG" => lit'.v = -lit.v
              /\ op = "BNOT" => lit'.v + ToU(lit.v) = UIntMax
    BY <2>1, UnopFolds
  <2> QED BY <1>3, <2>1, <2>2
<1>5. CASE FoldCond
  <2>1. eval_bool(lit) <=> TruthOf(lit)
    BY OperandFacts DEF eval_bool, TruthOf
  <2>2. lit' = Bool(TruthOf(lit)) /\ lit'.t = "bool" /\ from' = [op |-> "BOOL", l |-> lit, r |-> lit]
    BY <1>5, <2>1 DEF FoldCond, Bool, AsBit
  <2> QED BY <1>3, <2>2
<1>6. CASE Operand
  <2>1. from'.op = "source"
    BY <1>6 DEF Operand, Source
  <2> QED BY <2>1 DEF Comparisons, Numeric
<1> QED BY <1>2, <1>4, <1>5, <1>6 DEF LitNext
=============================================================================
