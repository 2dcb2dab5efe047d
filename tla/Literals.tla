------------------------------ MODULE Literals ------------------------------
(***************************************************************************)
(* Parsing of integers (util/int_parser.cpp) and folding of literals       *)
(* (ast/passes/fold_literals.cpp) in machine arithmetic of a given width.  *)
(*                                                                         *)
(* A literal is a record [t, v]: an Integer ("uint", uint64_t), a          *)
(* NegativeInteger ("int", int64_t) or a Boolean ("bool").  Folding an     *)
(* expression gives a literal, or Unfolded when the expression is left     *)
(* alone, Error when a diagnostic is added, or Undefined when the C++      *)
(* expression that computes it has no defined value.                       *)
(***************************************************************************)
EXTENDS Integers, FiniteSetsExt

CONSTANTS
    Width,      \* bits of an integer: 64
    Half,       \* 2^(Width - 1)
    IntConfig,   \* suffix of an integer -> [max, mult]: int_config
    Tokens      \* integers of the source: records [num, exp, suffix]

ASSUME WidthAssumption == Width \in Nat \ {0} /\ Half \in Nat \ {0}
ASSUME HalfAssumption == Half = 2 ^ (Width - 1)
ASSUME SuffixAssumption ==
    \A s \in DOMAIN IntConfig : IntConfig[s].max \in Nat /\ IntConfig[s].mult \in Nat \ {0}
ASSUME TokenAssumption ==
    \A k \in Tokens : k.num \in Nat /\ k.exp \in Nat /\ k.suffix \in DOMAIN IntConfig

VARIABLES
    lit,        \* the literal the expression is folded to so far
    from        \* the expression folded last: [op, l, r]

litVars == <<lit, from>>

UIntMax == 2 * Half - 1
IntMax == Half - 1
IntMin == -Half

ToU(x) == x % (2 * Half)
ToS(x) == ((x + Half) % (2 * Half)) - Half

UInt(v) == [t |-> "uint", v |-> v]
NegInt(v) == [t |-> "int", v |-> v]
AsBit(b) == IF b THEN 1 ELSE 0
Bool(b) == [t |-> "bool", v |-> AsBit(b)]

Unfolded == [t |-> "unfolded", v |-> 0]
Error == [t |-> "error", v |-> 0]
Undefined == [t |-> "undefined", v |-> 0]

IsInteger(x) == x.t \in {"uint", "int"}
IsLiteral(x) == IsInteger(x) \/ x.t = "bool"

Comparisons == {"EQ", "NE", "LE", "GE", "LT", "GT", "LAND", "LOR"}
Arithmetic == {"PLUS", "MINUS", "MUL", "DIV", "MOD", "BAND", "BOR", "BXOR", "LEFT", "RIGHT"}

-----------------------------------------------------------------------------
(***************************************************************************)
(* Integers: eval_binop on two uint64_t (T = "uint") or int64_t ("int")    *)
(***************************************************************************)
clamp(v) == IF v >= 0 THEN UInt(v) ELSE NegInt(v)

\* A result computed in int64_t: undefined when it does not fit.
Signed(v) == IF v < IntMin \/ v > IntMax THEN Undefined ELSE clamp(v)

Abs(x) == IF x < 0 THEN -x ELSE x
CDiv(l, r) == IF (l < 0) = (r < 0) THEN Abs(l) \div Abs(r) ELSE -(Abs(l) \div Abs(r))
CMod(l, r) == l - r * CDiv(l, r)

\* Mutant: the sum is only compared with one operand, and the wrong way round.
plus_Unchecked(T, l, r) ==
    IF l > 0 /\ r > 0 THEN UInt(ToU(l + r)) ELSE clamp(l + r)

plus(T, l, r) ==
    IF l = 0 \/ r = 0 THEN clamp(l + r)
    ELSE IF l > 0 /\ r > 0
         THEN LET res == ToU(l + r) IN
              IF res > l /\ res > r THEN UInt(res) ELSE Error
    ELSE IF l < 0 /\ r < 0
         THEN IF IntMin - l > r THEN Error ELSE NegInt(l + r)
    ELSE clamp(l + r)

minus(T, l, r) ==
    IF T = "uint"
    THEN IF l >= r THEN UInt(l - r)
         ELSE IF r - l - 1 > IntMax THEN Error ELSE NegInt(-(r - l - 1) - 1)
    ELSE IF r = 0 THEN clamp(l)
    ELSE IF l > 0 /\ r = IntMin THEN Undefined
    ELSE IF l > 0 /\ r < 0 /\ IntMax - l < -r THEN Error
    ELSE IF l < 0 /\ r > 0 /\ IntMin - l > -r THEN Error
    ELSE Signed(l - r)

\* The overflow check of a signed product comes after the product.
mul(T, l, r) ==
    LET Product(a, b) == LET res == ToU(a * b) IN
                         IF res \div a # b THEN Error ELSE UInt(res)
    IN  IF l = 0 \/ r = 0 THEN UInt(0)
        ELSE IF T = "uint" THEN Product(l, r)
        ELSE IF l < 0 /\ r < 0 THEN Product(-l, -r)
        ELSE Signed(l * r)

Bit(x, i) == (x \div 2 ^ i) % 2
Bitwise(Op(_, _), l, r) ==
    MapThenSumSet(LAMBDA i : IF Op(Bit(ToU(l), i) = 1, Bit(ToU(r), i) = 1) THEN 2 ^ i ELSE 0,
                  0 .. Width - 1)

And(a, b) == a /\ b
Or(a, b) == a \/ b
Xor(a, b) == a # b

\* A pattern of bits read in type T.
Read(T, u) == IF T = "uint" THEN UInt(u) ELSE clamp(ToS(u))

eval_binop(T, l, op, r) ==
    CASE op = "PLUS"  -> plus(T, l, r)
      [] op = "MINUS" -> minus(T, l, r)
      [] op = "MUL"   -> mul(T, l, r)
      [] op = "DIV"   -> IF r = 0 THEN Error
                         ELSE IF T = "int" THEN Signed(CDiv(l, r)) ELSE UInt(l \div r)
      [] op = "MOD"   -> IF r = 0 THEN Error
                         ELSE IF l = IntMin /\ r = -1 THEN Undefined ELSE clamp(CMod(l, r))
      [] op = "BAND"  -> Read(T, Bitwise(And, l, r))
      [] op = "BOR"   -> Read(T, Bitwise(Or, l, r))
      [] op = "BXOR"  -> Read(T, Bitwise(Xor, l, r))
      [] op = "LEFT"  -> IF r < 0 \/ r >= Width THEN Error ELSE Read(T, ToU(l * 2 ^ r))
      [] op = "RIGHT" -> IF r < 0 \/ r >= Width THEN Error ELSE clamp(l \div 2 ^ r)

-----------------------------------------------------------------------------
(***************************************************************************)
(* Expressions                                                             *)
(***************************************************************************)
eval_bool(x) == x.t = "int" \/ x.v # 0

Compare(op, l, r) ==
    CASE op = "EQ" -> l = r
      [] op = "NE" -> l # r
      [] op = "LE" -> l <= r
      [] op = "GE" -> l >= r
      [] op = "LT" -> l < r
      [] op = "GT" -> l > r
      [] op = "LAND" -> l # 0 /\ r # 0
      [] op = "LOR" -> l # 0 \/ r # 0

\* make_boolean on two Booleans, whose operators work on 0 and 1.  A zero
\* divisor is an error.
make_boolean(op, l, r) ==
    CASE op \in Comparisons -> Bool(Compare(op, l, r))
      [] op \in {"PLUS", "BOR"} -> Bool(l + r # 0)
      [] op \in {"MINUS", "BXOR"} -> Bool(l # r)
      [] op \in {"MUL", "BAND"} -> Bool(l * r # 0)
      [] op = "DIV" -> IF r = 0 THEN Error ELSE Bool(l # 0)
      [] op = "MOD" -> IF r = 0 THEN Error ELSE Bool(FALSE)
      [] op = "LEFT" -> Bool(l < r)
      [] op = "RIGHT" -> Bool(l > r)

\* Both operands as T, or an error when an unsigned one does not fit.
Integers2(op, l, r) ==
    LET T == IF l.t = "uint" /\ r.t = "uint" THEN "uint" ELSE "int"
        Fits(x) == T = "uint" \/ x.v <= IntMax
    IN  IF ~(Fits(l) /\ Fits(r)) THEN Error
        ELSE IF op \in Comparisons THEN Bool(Compare(op, l.v, r.v))
        ELSE eval_binop(T, l.v, op, r.v)

Binop(op, l, r) ==
    IF l.t = "bool" /\ r.t = "bool" THEN make_boolean(op, l.v, r.v)
    ELSE IF l.t = "bool" \/ r.t = "bool"
         THEN IF op \in {"LAND", "LOR"}
              THEN make_boolean(op, AsBit(eval_bool(l)), AsBit(eval_bool(r))) ELSE Unfolded
    ELSE Integers2(op, l, r)

Unop(op, x) ==
    CASE op = "LNOT" -> Bool(~eval_bool(x))
      [] op = "BNOT" /\ IsInteger(x) -> UInt(ToU(-x.v - 1))
      [] op = "NEG" /\ x.t = "uint" ->
            IF x.v > IntMax + 1 THEN Error ELSE IF x.v = 0 THEN x ELSE NegInt(-x.v)
      [] op = "NEG" /\ x.t = "int" -> UInt(-x.v)
      [] OTHER -> Unfolded

-----------------------------------------------------------------------------
(***************************************************************************)
(* Integers of the source                                                  *)
(***************************************************************************)
\* base * 10^exp, or -1 when it does not fit.
safe_exp(base, exp) ==
    LET f[n \in 0 .. exp] ==
            IF n = 0 THEN base
            ELSE IF f[n - 1] = -1 \/ f[n - 1] > UIntMax \div 10 THEN -1 ELSE 10 * f[n - 1]
    IN  f[exp]

to_uint(k) ==
    LET scientific == k.exp > 0
        value == IF scientific THEN safe_exp(k.num, k.exp) ELSE k.num
        cfg == IntConfig[k.suffix]
    IN  IF \/ k.num > UIntMax
           \/ scientific /\ k.num \notin 1 .. 9
           \/ value = -1
           \/ value > cfg.max \div cfg.mult
        THEN Error
        ELSE UInt(value * cfg.mult)

-----------------------------------------------------------------------------
(***************************************************************************)
(* An expression is folded from its leaves: the literal reached is the     *)
(* operand of the next operator.                                           *)
(***************************************************************************)
Source == [op |-> "source", l |-> Unfolded, r |-> Unfolded]

LitInit == \E k \in Tokens : lit = to_uint(k) /\ from = [op |-> "token", l |-> k, r |-> k]

\* The literals a folded operand can be.
Operands == {UInt(v) : v \in 0 .. UIntMax} \cup {NegInt(v) : v \in IntMin .. -1}
            \cup {Bool(b) : b \in BOOLEAN}

FoldBinop ==
    /\ from = Source
    /\ \E op \in Comparisons \cup Arithmetic, x \in Operands :
          \/ lit' = Binop(op, lit, x) /\ from' = [op |-> op, l |-> lit, r |-> x]
          \/ lit' = Binop(op, x, lit) /\ from' = [op |-> op, l |-> x, r |-> lit]

FoldUnop ==
    /\ from = Source
    /\ \E op \in {"LNOT", "BNOT", "NEG"} :
          lit' = Unop(op, lit) /\ from' = [op |-> op, l |-> lit, r |-> lit]

\* A cast to bool; the condition of an if expression of two literals.
FoldCond ==
    /\ from = Source
    /\ lit' = Bool(eval_bool(lit))
    /\ from' = [op |-> "BOOL", l |-> lit, r |-> lit]

\* The result is an operand of the expression around it.
Operand ==
    /\ from # Source
    /\ IsLiteral(lit)
    /\ from' = Source
    /\ UNCHANGED lit

LitNext == FoldBinop \/ FoldUnop \/ FoldCond \/ Operand

-----------------------------------------------------------------------------
(***************************************************************************)
(* Properties                                                              *)
(***************************************************************************)
(* Reference: the value an operator has on the integers themselves, where  *)
(* a negative number has infinitely many leading ones.                     *)
TruthOf(x) == x.v # 0

\* res has the bits Op gives, far beyond the width of both operands.
BitsOf(res, Op(_, _), l, r) ==
    \A i \in 0 .. Width + 1 : (Bit(res, i) = 1) <=> Op(Bit(l, i) = 1, Bit(r, i) = 1)

\* The quotient is rounded towards zero and the rest has the sign of l.
Quotient(q, l, r) ==
    \E m \in -Abs(r) + 1 .. Abs(r) - 1 : l = q * r + m /\ (m = 0 \/ (m < 0) = (l < 0))

ExactInteger(res, op, l, r) ==
    CASE op = "PLUS"  -> res = l + r
      [] op = "MINUS" -> res = l - r
      [] op = "MUL"   -> res = l * r
      [] op = "DIV"   -> Quotient(res, l, r)
      [] op = "MOD"   -> \E q \in -UIntMax .. UIntMax : l = q * r + res /\ Quotient(q, l, r)
      [] op = "BAND"  -> BitsOf(res, And, l, r)
      [] op = "BOR"   -> BitsOf(res, Or, l, r)
      [] op = "BXOR"  -> BitsOf(res, Xor, l, r)
      [] op = "LEFT"  -> ToU(res) = ToU(l * 2 ^ r)
      [] op = "RIGHT" -> res * 2 ^ r <= l /\ l < (res + 1) * 2 ^ r

ExactTruth(op, l, r) ==
    CASE op = "LAND" -> TruthOf(l) /\ TruthOf(r)
      [] op = "LOR"  -> TruthOf(l) \/ TruthOf(r)
      [] OTHER       -> Compare(op, l.v, r.v)

Folded(x) == IsLiteral(x) /\ from # Source

Exact ==
    LET op == from.op
        l == from.l
        r == from.r
    IN  CASE op = "token" -> lit.v = l.num * 10 ^ l.exp * IntConfig[l.suffix].mult
          [] op \in Comparisons -> lit = Bool(ExactTruth(op, l, r))
          [] op \in Arithmetic /\ IsInteger(l) -> IsInteger(lit) /\ ExactInteger(lit.v, op, l.v, r.v)
          [] op = "LNOT" -> lit = Bool(~TruthOf(l))
          [] op = "BOOL" -> lit = Bool(TruthOf(l))
          [] op = "NEG" -> lit.v = -l.v
          [] op = "BNOT" -> lit.v + ToU(l.v) = UIntMax
          [] OTHER -> lit.t = "bool"

\* A literal of one kind only: below zero a NegativeInteger, else an Integer.
Canonical ==
    /\ lit.t = "uint" => lit.v \in 0 .. UIntMax
    /\ lit.t = "int" => lit.v \in IntMin .. -1

\* Operands of one kind are refused only for a result no literal has.
Unrepresentable ==
    LET l == from.l.v
        r == from.r.v
    IN  CASE from.op \in {"DIV", "MOD"} -> r = 0
          [] from.op \in {"LEFT", "RIGHT"} -> r \notin 0 .. Width - 1
          [] OTHER -> \A v \in IntMin .. UIntMax : ~ExactInteger(v, from.op, l, r)

(* A literal that replaces an expression is what the expression is worth:  *)
(* the sum, product, truth or pattern of bits of its operands, at every    *)
(* edge of the width, of the kind its sign asks for, through any chain of  *)
(* operators; and two operands of one kind that do have a result are not   *)
(* refused (LiteralFolder, eval_binop, to_uint).                           *)
FoldExact ==
    /\ Canonical
    /\ Folded(lit) => Exact
    /\ (/\ lit = Error
        /\ from.op \in Arithmetic
        /\ IsInteger(from.l)
        /\ from.l.t = from.r.t) => Unrepresentable

(* "Then `eval_binop` effectively handles all overflow/underflow           *)
(* calculations" (fold_literals.cpp:541): nothing it computes is undefined.*)
NoUndefined == lit # Undefined
=============================================================================
