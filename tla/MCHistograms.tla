--------------------------- MODULE MCHistograms ---------------------------
(***************************************************************************)
(* Histograms of numbers of eight bits, with an int of six.                *)
(***************************************************************************)
EXTENDS Histograms

Hist(k, div) == [f |-> "hist", k |-> k, div |-> div]
LHist(min, max, step) == [f |-> "lhist", min |-> min, max |-> max, step |-> step, div |-> 1]

IntMax == 2 ^ (IntBits - 1) - 1
Steps == {1, 2, 3, 5}

\* The ends of each interval of the finest histogram, and what lies outside.
MCNumbers ==
    {-128, -2, -1} \cup 0 .. 18 \cup {27, 28, 31, 32, 39, 40, 63, 64, 79, 80, 95, 96, 111, 112, 127}
Once == {1}

Hists == {Hist(k, div) : k \in 0 .. LogWidth - 1, div \in {1, 2}}

\* Bounds and the label after the last are ints.
NarrowLHists ==
    {h \in {LHist(min, max, step) : min \in {0, 1, 4}, max \in 0 .. 16, step \in Steps} :
        h.max + h.step <= IntMax}
AllHistograms == Hists \cup NarrowLHists

\* docs/stdlib.md:1574 gives lhist() bounds of int64; a bucket may be hit more often
\* than an int can tell; and a script may hand hist() a uint64.
WideLHists == {LHist(0, 100, 10), LHist(20, 60, 20)}
Often == {1, IntMax + 1}
UnsignedNumbers == 0 .. Unsigned(-1)
=============================================================================
