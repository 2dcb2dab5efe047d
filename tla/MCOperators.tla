---------------------------- MODULE MCOperators ----------------------------
(***************************************************************************)
(* Operands of every type and number, for bytes of one bit; and, side by   *)
(* side with them, the scripts of MCTypes.                                 *)
(***************************************************************************)
EXTENDS Operators, MCTypes

Sizes == {1, 2, 4}
Smallest(Fits(_)) == CHOOSE s \in Sizes \cup {8} :
    Fits(s) /\ \A z \in Sizes : z < s => ~Fits(z)
LiteralOf(x) ==
    LeafValue(Literal(Smallest(LAMBDA s : x < 2 ^ (ByteBits * s)),
                      Smallest(LAMBDA s : x < 2 ^ (ByteBits * s - 1))), x)
NegativeOf(x) == LeafValue(Negative(Smallest(LAMBDA s : x >= -2 ^ (ByteBits * s - 1))), x)

Numbers(t) == {Wrap(x, t) : x \in 0 .. 2 ^ Bits(t) - 1}
IntTypes == {IntType(s, b) : s \in Sizes, b \in BOOLEAN}
NoConfig == [s \in {} |-> 0]
Largest == IntType(MaxSize, FALSE)

AllLeaves ==
    UNION {{LeafValue(Typed(t), x) : x \in Numbers(t)} : t \in IntTypes}
    \cup {LiteralOf(x) : x \in Numbers(Largest)}
    \cup {NegativeOf(x) : x \in {y \in Numbers(IntType(MaxSize, TRUE)) : y < 0}}

-----------------------------------------------------------------------------
NoTypes ==
    /\ stmts = <<>> /\ pc = 1 /\ ok = TRUE /\ done = TRUE
    /\ tracker = [state |-> "none", unresolved |-> 0, last |-> 0, first |-> FALSE]
    /\ map_val = [m \in {} |-> None] /\ variables = [v \in {} |-> None]
NoOperators == acc = BoolValue(FALSE) /\ meant = Unspecified /\ surprises = {}
NoLiteral == lit = Unfolded /\ from = Unfolded

Init == ((TypesInit /\ NoOperators) \/ (OpsInit /\ NoTypes)) /\ NoLiteral
Next ==
    /\ \/ TypesNext /\ UNCHANGED opVars
       \/ stmts = <<>> /\ OpsNext /\ UNCHANGED typeVars
    /\ UNCHANGED litVars

Spec == Init /\ [][Next]_<<typeVars, opVars, litVars>>
FairSpec == Spec /\ WF_typeVars(TypesNext)
=============================================================================
