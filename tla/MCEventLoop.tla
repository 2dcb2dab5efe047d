----------------------------- MODULE MCEventLoop -----------------------------
(***************************************************************************)
(* Instances of EventLoop for TLC.                                         *)
(***************************************************************************)
EXTENDS EventLoop

Fwd(as) == [reverse |-> FALSE, acts |-> as]
Rev(as) == [reverse |-> TRUE, acts |-> as]

Base == [begin |-> {}, end |-> {}, signal |-> {}, probes |-> <<>>,
         using_skboutput |-> FALSE, has_iter |-> FALSE, dry_run |-> FALSE,
         missing_error |-> FALSE, traced |-> "none"]

\* begin and end around one probe of each attach pass, tracing a child.
Traced == [Base EXCEPT !.begin = {"print", "exit"}, !.end = {"print"},
                       !.probes = <<Fwd({"print", "exit"}), Rev({"print"})>>,
                       !.traced = "child", !.missing_error = TRUE]
\* A script with skboutput(), tracing a pid.
Skb == [Base EXCEPT !.end = {"print", "skb"}, !.probes = <<Rev({"print", "skb"})>>,
                    !.using_skboutput = TRUE, !.traced = "pid"]
\* A signal probe.
Signal == [Base EXCEPT !.begin = {"print"}, !.end = {"print"}, !.signal = {"print", "exit"},
                       !.probes = <<Fwd({"print"})>>]
SkbSignal == [Base EXCEPT !.end = {"print", "skb"}, !.signal = {"print", "skb"},
                          !.using_skboutput = TRUE]
BeginEnd == [Base EXCEPT !.begin = {"print"}, !.end = {"print", "exit"}]
Iter == [Base EXCEPT !.probes = <<Rev({"print"})>>, !.has_iter = TRUE, !.end = {"print"}]
Dry  == [Traced EXCEPT !.dry_run = TRUE]

AllScripts   == {Traced, Skb, Signal, SkbSignal, BeginEnd, Iter, Dry}
PlainScripts == {[Traced EXCEPT !.traced = "pid"]}
==============================================================================
