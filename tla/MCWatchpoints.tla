--------------------------- MODULE MCWatchpoints ---------------------------
(***************************************************************************)
(* Small instances of Watchpoints: the arguments of the probed functions.  *)
(***************************************************************************)
EXTENDS Watchpoints

\* Three functions that share two addresses; only p1 is called with both.
MCArgs     == [p \in {"p1", "p2", "p3"} |->
                  CASE p = "p1" -> {1, 2} [] p = "p2" -> {1} [] p = "p3" -> {2}]
\* One function, one address.
MCArgsOne  == [p \in {"p1"} |-> {1}]
\* One function, two addresses.
MCArgsBoth == [p \in {"p1"} |-> {1, 2}]
=============================================================================
