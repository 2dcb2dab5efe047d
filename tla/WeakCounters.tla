---------------------------- MODULE WeakCounters ----------------------------
(***************************************************************************)
(* What print(@) promises of a map of count() values while programs go on  *)
(* counting: no snapshot, but for every key shown a number between what    *)
(* the key had when the print began and what it has when it is shown.  The *)
(* promise ends for a key that loses counts during the print (delete, or a *)
(* zero or clear served earlier and overtaken): it may be shown with       *)
(* anything, or not at all.                                                *)
(***************************************************************************)
EXTENDS Naturals, Sequences

CONSTANT Keys

VARIABLES
    total,     \* counts of each key, over all CPUs
    reading,   \* a print is being served
    low,       \* total when it began
    lost,      \* keys that lost counts since
    shown      \* what it has collected, in order

avars == <<total, reading, low, lost, shown>>

Init ==
    /\ total = [k \in Keys |-> 0]
    /\ reading = FALSE
    /\ low = [k \in Keys |-> 0]
    /\ lost = {}
    /\ shown = <<>>

Grow(k) ==
    /\ total'[k] \in Nat /\ total'[k] > total[k]
    /\ total' = [total EXCEPT ![k] = total'[k]]
    /\ UNCHANGED <<reading, low, lost, shown>>

Lose(k) ==
    /\ total'[k] \in 0 .. total[k]
    /\ total' = [total EXCEPT ![k] = total'[k]]
    /\ lost' = IF reading THEN lost \cup {k} ELSE lost
    /\ UNCHANGED <<reading, low, shown>>

BeginPrint ==
    /\ ~reading /\ reading' = TRUE
    /\ low' = total /\ lost' = {} /\ shown' = <<>>
    /\ UNCHANGED total

Show(k) ==
    LET v == shown'[Len(shown) + 1].val IN
    /\ reading
    /\ Len(shown') = Len(shown) + 1
    /\ shown' = Append(shown, [key |-> k, val |-> v])
    /\ v \in Nat
    /\ k \in lost \/ (low[k] <= v /\ v <= total[k])
    /\ UNCHANGED <<total, reading, low, lost>>

EndPrint ==
    /\ reading /\ reading' = FALSE
    /\ low' = [k \in Keys |-> 0] /\ lost' = {} /\ shown' = <<>>
    /\ UNCHANGED total

Next ==
    \/ \E k \in Keys : Grow(k) \/ Lose(k) \/ Show(k)
    \/ BeginPrint
    \/ EndPrint

Spec == Init /\ [][Next]_avars
=============================================================================
