----------------------------- MODULE Operators -----------------------------
(***************************************************************************)
(* Integer operators of a script in the running program: the casts the     *)
(* semantic analyser puts around their operands in its final pass          *)
(* (ast/passes/semantic_analyser.cpp, binop_int) and the instructions code *)
(* generation makes of them (ast/passes/codegen_llvm.cpp).                 *)
(*                                                                         *)
(* A value is an expression, with the type the analyser gives it, and a    *)
(* pattern of bits in a register.  The register of a result is as wide as  *)
(* the operands were, while its type is always one of the largest size:    *)
(* whoever uses the value has to widen it.                                 *)
(***************************************************************************)
EXTENDS Literals, TypeInference

CONSTANTS
    ByteBits,   \* bits of a byte: 8
    Leaves      \* the operands scripts have: values

ASSUME ByteAssumption == ByteBits \in Nat \ {0}

VARIABLES
    acc,        \* the value the program has computed so far
    meant,      \* the number it stands for in the script, Unspecified after a warning
    surprises   \* why the program may have computed something else

opVars == <<acc, meant, surprises>>


-----------------------------------------------------------------------------
(***************************************************************************)
(* Values                                                                  *)
(***************************************************************************)
Bits(t) == ByteBits * t.size
Unspecified == 2 ^ (ByteBits * MaxSize)    \* no integer of the language
Pattern(x, bits) == x % 2 ^ bits
Negated(v, bits) == v >= 2 ^ (bits - 1)
Number(v, bits, signed) == IF signed /\ Negated(v, bits) THEN v - 2 ^ bits ELSE v

\* x as a number of type t.
Wrap(x, t) == Number(Pattern(x, Bits(t)), Bits(t), t.signed)

\* n is the number of an operand as it is written in the script.
Value(e, bits, x) == [e |-> e, bits |-> bits, v |-> Pattern(x, bits), n |-> 0]
LeafValue(e, x) == [Value(e, Bits(e.type), x) EXCEPT !.n = x]
BoolType == Sized("bool", 1, FALSE)
BoolValue(b) == Value(Typed(BoolType), 1, AsBit(b))

ValueType(c) == TypeOf(c.e)
IsBool(c) == ValueType(c).ty = "bool"
NumberOf(c) == Number(c.v, c.bits, ValueType(c).signed)

\* Mutant: a narrow value is widened with zeroes.
CreateIntCast_Zero(c, bits, signed) == Pattern(c.v, bits)

\* The pattern of c in a register of another width.
CreateIntCast(c, bits, signed) == Pattern(Number(c.v, c.bits, signed), bits)

\* A literal takes the type; around anything else goes a cast, which widens by the
\* sign of the type it makes.
Cast(c, t) ==
    IF c.e.k \in {"literal", "negative"} THEN LeafValue(create_int_cast(c.e, t), c.n)
    ELSE Value(Typed(t), Bits(t), CreateIntCast(c, Bits(t), t.signed))

\* The number of c becomes another one in type t: a cast widens it by the wrong sign.
SignLost(c, t) ==
    /\ c.bits < Bits(t)
    /\ ValueType(c).signed # t.signed
    /\ Negated(c.v, c.bits)

-----------------------------------------------------------------------------
(***************************************************************************)
(* binop_int of the analyser                                               *)
(***************************************************************************)
\* The type both operands are brought to, None when there is none.
CommonType(l, r) ==
    IF IsIntLiteral(l.e) THEN update_int_type(l.e, ValueType(r)) ELSE update_int_type(r.e, ValueType(l))

Promote(c, t) == IF IsNone(t) \/ ValueType(c) = t THEN c ELSE Cast(c, t)

Divisions == {"DIV", "MOD"}
Shifts == {"LEFT", "RIGHT"}
Logical == {"LAND", "LOR"}
Relations == Comparisons \ Logical

\* A warning: no common type, or a division of signed integers of two types.
Warned(op, l, r) ==
    /\ ValueType(l) # ValueType(r)
    /\ \/ IsNone(CommonType(l, r)) /\ op \in Relations \cup {"PLUS", "MINUS", "MUL"} \cup Divisions
       \/ op \in Divisions /\ (ValueType(l).signed \/ ValueType(r).signed)

\* The type of a result that is no truth value.
ResultType(op, l, r) ==
    IntType(MaxSize, ValueType(l).signed \/ (op \notin Shifts /\ ValueType(r).signed))

-----------------------------------------------------------------------------
(***************************************************************************)
(* binop_int of code generation, on the operands as they are in the script *)
(* now.  l and r are patterns of the same width.                           *)
(***************************************************************************)
Relate(op, l, r, bits, signed) ==
    Compare(op, Number(l, bits, signed), Number(r, bits, signed))

\* Division is unsigned, and by zero gives one.
CreateCheckedBinop(op, l, r) == IF r = 0 THEN 1 ELSE IF op = "DIV" THEN l \div r ELSE l % r

\* A shift to the right fills with zeroes.
Compute(op, l, r) ==
    CASE op = "PLUS"  -> l + r
      [] op = "MINUS" -> l - r
      [] op = "MUL"   -> l * r
      [] op \in Divisions -> CreateCheckedBinop(op, l, r)
      [] op = "BAND"  -> Bitwise(And, l, r)
      [] op = "BOR"   -> Bitwise(Or, l, r)
      [] op = "BXOR"  -> Bitwise(Xor, l, r)
      [] op = "LEFT"  -> l * 2 ^ r
      [] op = "RIGHT" -> l \div 2 ^ r

\* The right operand is computed only when the left one does not decide.
Connect(op, l, r) == IF (l # 0) = (op = "LAND") THEN r # 0 ELSE l # 0

\* Operator op on l and r, of the type t.
Operate(op, l, r, t) ==
    LET bits == ByteBits * Max2(ValueType(l).size, ValueType(r).size)
        lhs == CreateIntCast(l, bits, ValueType(l).signed)
        rhs == CreateIntCast(r, bits, ValueType(r).signed)
        do_signed == ValueType(l).signed /\ ValueType(r).signed
    IN  IF op \in Logical THEN BoolValue(Connect(op, lhs, rhs))
        ELSE IF op \in Relations THEN BoolValue(Relate(op, lhs, rhs, bits, do_signed))
        ELSE Value(Typed(t), bits, Compute(op, lhs, rhs))

-----------------------------------------------------------------------------
(***************************************************************************)
(* What the script says                                                    *)
(***************************************************************************)
\* The number a binary operator has in a script, in integers of type t.
Meaning(op, l, r, t) ==
    CASE op = "LAND" -> AsBit(l # 0 /\ r # 0)
      [] op = "LOR"  -> AsBit(l # 0 \/ r # 0)
      [] op \in Relations -> AsBit(Compare(op, l, r))
      [] op \in Divisions -> IF r = 0 THEN 1 ELSE Wrap(IF op = "DIV" THEN CDiv(l, r) ELSE CMod(l, r), t)
      [] op \in {"BAND", "BOR", "BXOR"} ->
            Wrap(Compute(op, Pattern(l, Bits(t)), Pattern(r, Bits(t))), t)
      [] OTHER -> Wrap(Compute(op, l, r), t)

\* The integers an operator works in: as wide as its wider operand, once that has
\* grown to hold both, and signed like the result.
Working(l, r, t) == IntType(Max2(ValueType(l).size, ValueType(r).size), t.signed)

Surprise(name, b) == IF b THEN {name} ELSE {}

-----------------------------------------------------------------------------
(***************************************************************************)
(* Steps                                                                   *)
(***************************************************************************)
OpsInit ==
    /\ acc \in Leaves
    /\ meant = acc.n
    /\ surprises = {}

\* Nothing has gone wrong yet, and the script still says what the value is.
Usable == meant # Unspecified /\ surprises = {} /\ ~IsBool(acc)

\* l op r for the numbers m and n, one of which is what the program has computed so
\* far.  Left out are shifts by the width or more, which have no defined result, and
\* divisions below the largest width, whose code compares integers of two widths.
Operator(op, l, r, m, n) ==
    LET t == CommonType(l, r)
        left == Promote(l, t)
        right == Promote(r, t)
        bits == ByteBits * Max2(ValueType(left).size, ValueType(right).size)
        result == ResultType(op, l, r)
    IN  /\ ~(IsIntLiteral(l.e) /\ IsIntLiteral(r.e))
        /\ op \in Shifts => n \in 0 .. bits - 1
        /\ op \in Divisions => bits = ByteBits * MaxSize
        /\ acc' = Operate(op, left, right, result)
        /\ meant' = IF Warned(op, l, r) THEN Unspecified
                    ELSE Meaning(op, m, n, Working(left, right, result))
        /\ surprises' = surprises
              \cup Surprise("sign", ~IsNone(t) /\ op \notin Logical /\ (SignLost(l, t) \/ SignLost(r, t)))
              \cup Surprise("division", op \in Divisions /\ (m < 0 \/ n < 0))
              \cup Surprise("shift", op = "RIGHT" /\ m < 0)

Apply(op, c) == Usable /\ (Operator(op, acc, c, meant, c.n) \/ Operator(op, c, acc, c.n, meant))

\* The number an operator makes of one operand.
Of(op, x) ==
    CASE op = "NEG" -> -x
      [] op = "BNOT" -> -x - 1
      [] op = "INCREMENT" -> x + 1
      [] op = "DECREMENT" -> x - 1
      [] op = "KEEP" -> x

\* The result of a unary operator stays in the register of its operand.
Unary(op) ==
    LET t == IntType(MaxSize, ValueType(acc).signed) IN
    /\ acc' = Value(Typed(t), acc.bits, Of(op, acc.v))
    /\ meant' = Number(Pattern(Of(op, meant), acc.bits), acc.bits, t.signed)
    /\ UNCHANGED surprises

\* -x and ~x; of literals they are literals.
Negate(op) ==
    /\ Usable /\ acc.e.k \notin {"literal", "negative"}
    /\ Unary(op)

\* ++ and -- of a variable or a map, before it (the value is the new one) or behind.
createIncDec(op, is_post) ==
    /\ Usable /\ acc.e.k = "typed" /\ acc.bits = Bits(ValueType(acc))
    /\ Unary(IF is_post THEN "KEEP" ELSE op)

\* !x, also of a truth value.
Not ==
    /\ meant # Unspecified /\ surprises = {}
    /\ acc' = BoolValue(acc.v = 0)
    /\ meant' = AsBit(meant = 0)
    /\ UNCHANGED surprises

\* (t) x as it is written in a script; a truth value is widened with zeroes.
Convert(t) ==
    /\ meant # Unspecified /\ surprises = {}
    /\ acc' = Value(Typed(t), Bits(t), CreateIntCast(acc, Bits(t), t.signed /\ ~IsBool(acc)))
    /\ meant' = Wrap(meant, t)
    /\ surprises' = surprises \cup Surprise("sign", ~IsBool(acc) /\ SignLost(acc, t))

\* cond ? x : y, which takes the common type; the branch taken is the value so far.
IfExpr(c) ==
    /\ Usable
    /\ LET t == CommonType(acc, c)
           e == Promote(acc, t)
       IN  /\ ~IsNone(t)
           /\ acc' = Value(Typed(t), Bits(t), CreateIntCast(e, Bits(t), t.signed))
           /\ surprises' = surprises \cup Surprise("sign", SignLost(acc, t))
    /\ UNCHANGED meant

\* The value is stored in a variable or a map of its type, and read again.  Only the
\* register is written: the rest of the place keeps what it held, old.
Store(old) ==
    /\ Usable
    /\ LET bits == Bits(ValueType(acc)) IN
       /\ acc.bits < bits
       /\ acc' = Value(Typed(ValueType(acc)), bits, acc.v + Pattern(old, bits - acc.bits) * 2 ^ acc.bits)
       /\ surprises' = surprises \cup Surprise("narrow", ValueType(acc).signed \/ old # 0)
    /\ UNCHANGED meant

Olds == {0, 1, -1}

OpsNext ==
    \/ \E op \in Comparisons \cup Arithmetic, c \in Leaves : Apply(op, c)
    \/ \E op \in {"NEG", "BNOT"} : Negate(op)
    \/ \E op \in {"INCREMENT", "DECREMENT"}, is_post \in BOOLEAN : createIncDec(op, is_post)
    \/ Not
    \/ \E c \in Leaves : Convert(c.e.type)
    \/ \E c \in Leaves : IfExpr(c)
    \/ \E old \in Olds : Store(old)

-----------------------------------------------------------------------------
(***************************************************************************)
(* Properties                                                              *)
(***************************************************************************)
ExactBut(names) ==
    (surprises \subseteq names /\ meant # Unspecified) => NumberOf(acc) = meant

(***************************************************************************)
(* Invariant: the program computes the number the script says, through     *)
(* promotions of either operand, negations, conversions, branches and      *)
(* stores, in registers of any width, as long as there was no warning and  *)
(* no promotion lost a sign, no narrow result was stored in a wider place, *)
(* nothing negative was divided or shifted to the right (binop_int of the  *)
(* analyser and of code generation, update_int_type, visit(Cast)).         *)
(***************************************************************************)
OperatorsExact == ExactBut({})

(***************************************************************************)
(* Invariant: without a warning a promotion does not change the number it  *)
(* promotes (binop_int, update_int_type, create_int_cast, visit(Cast)).    *)
(***************************************************************************)
PromotionsSafe == ExactBut({"sign"})

(***************************************************************************)
(* Invariant: what is read from a variable or a map is what was stored     *)
(* there (visit(AssignMapStatement), visit(AssignVarStatement)).           *)
(***************************************************************************)
StoresExact == ExactBut({"narrow"})

(***************************************************************************)
(* Invariant: a signed division warns or is exact (binop_int).             *)
(***************************************************************************)
DivisionsWarned == ExactBut({"division"})

(***************************************************************************)
(* Invariant: a shift to the right keeps the sign, as it does when it is   *)
(* folded (binop_int, ConstantFolder).                                     *)
(***************************************************************************)
ShiftsSigned == ExactBut({"shift"})
=============================================================================
