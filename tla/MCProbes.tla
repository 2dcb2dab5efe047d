------------------------------ MODULE MCProbes ------------------------------
(***************************************************************************)
(* Two functions in the kernel and one in a module, two binaries with two  *)
(* functions each, and two tracepoints.  Scripts of two probes of one or   *)
(* two attach points, and of three kprobes and kretprobes.                 *)
(***************************************************************************)
EXTENDS ProbeExpansion

Symbol(t, f) == [target |-> t, func |-> f]
MCSymbols == [s \in {"kernel", "user", "events"} |->
    CASE s = "kernel" -> {Symbol("vmlinux", "f1"), Symbol("vmlinux", "f2"), Symbol("mod", "g1")}
      [] s = "user" -> {Symbol("a", "h1"), Symbol("a", "h2"), Symbol("b", "h1")}
      [] s = "events" -> {Symbol("sched", "s1"), Symbol("sched", "s2")}]

Wild(names) == [wild |-> TRUE, of |-> names]
Kernels == [wild |-> FALSE, of |-> {"vmlinux", "mod"}]
Ap(type, target, func) ==
    [type |-> type, target |-> target, func |-> func, lang |-> "", exp |-> "none", funcs |-> {}]

FWild == Wild({"f1", "f2"})
EntryAp == Ap("kprobe", Kernels, FWild)
ReturnAp == Ap("kretprobe", Kernels, FWild)
MCAps ==
    {EntryAp, ReturnAp,
     Ap("kprobe", Kernels, Exactly("f1")), Ap("kretprobe", Kernels, Exactly("f1")),
     Ap("kretprobe", Kernels, Wild({})), Ap("kprobe", Exactly("mod"), Wild({"g1"})),
     Ap("uprobe", Exactly("a"), Wild({"h1", "h2"})), Ap("uretprobe", Wild({"a", "b"}), Exactly("h1")),
     [Ap("uprobe", Exactly("a"), [wild |-> FALSE, of |-> {"h1", "h2"}]) EXCEPT !.lang = "cpp"],
     Ap("uprobe", Wild({}), Exactly("h1")), Ap("tracepoint", Exactly("sched"), Wild({"s1", "s2"}))}

ApLists ==
    {<<ap>> : ap \in MCAps}
    \cup {<<EntryAp, ReturnAp>>, <<EntryAp, Ap("uprobe", Wild({"a", "b"}), Exactly("h1"))>>,
          <<ReturnAp, Ap("uretprobe", Exactly("b"), Exactly("h1"))>>}
Asks == {"", "probe", "retval"}
ProbeOf(id, aps, uses) ==
    [aps |-> aps, block |-> <<[id |-> id, uses |-> uses]>>, filtered |-> FALSE]

Two == {<<ProbeOf(1, a, u), ProbeOf(2, b, v)>> : a, b \in ApLists, u, v \in Asks}
Kprobes == {EntryAp, ReturnAp, Ap("kretprobe", Kernels, Exactly("f1"))}
Three == {<<ProbeOf(1, <<a>>, ""), ProbeOf(2, <<b>>, ""), ProbeOf(3, <<c>>, "")>> : a, b, c \in Kprobes}

(* Known to come out otherwise than written when the kernel has sessions:  *)
(* an entry probe that asks for its name and a return probe that asks for  *)
(* the return value.  And a return value in a probe without a match is an  *)
(* error before the probe is removed.                                      *)
Surprising(s) ==
    \E p \in ToSet(s) :
        \/ p.block[1].uses = "probe" /\ p.aps = <<EntryAp>>
        \/ p.block[1].uses = "retval" /\ (p.aps = <<ReturnAp>> \/ Matchless(p))

PlainProbeScripts == {s \in Two \cup Three : ~Surprising(s)}
SessionScripts ==
    {<<ProbeOf(1, <<EntryAp>>, u), ProbeOf(2, <<ReturnAp>>, v)>> : u \in {"", "probe"}, v \in {"", "retval"}}
MissingScripts ==
    {<<ProbeOf(1, <<EntryAp>>, ""), ProbeOf(2, <<Ap("kretprobe", Kernels, Wild({}))>>, v)>> :
        v \in {"", "retval"}}

NoProbes ==
    /\ written = <<>> /\ probes = <<>> /\ probesOk = TRUE /\ probePass = "idle"
    /\ system = [multi |-> FALSE, session |-> FALSE, pid |-> FALSE, missing |-> "warn"]

ProbeSpec == ProbeInit /\ [][ProbeNext]_probeVars
=============================================================================
