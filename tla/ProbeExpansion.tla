--------------------------- MODULE ProbeExpansion ---------------------------
(***************************************************************************)
(* From the probes of a script to BPF programs and what they are attached  *)
(* to (ast/passes/ap_probe_expansion.cpp, pid_filter_pass.cpp,             *)
(* probe_prune.cpp, and AttachedProbe::make).                              *)
(*                                                                         *)
(* An attach point with a wildcard becomes one program for each match, one *)
(* program attached to all of them, or one program for the entries and the *)
(* returns of all of them, by what the kernel can and what the block asks. *)
(*                                                                         *)
(* A pattern is [wild, of]: whether it has a wildcard and the names it     *)
(* matches.  An attach point is [type, target, func, lang, exp, funcs],    *)
(* where exp and funcs are its entries in ExpansionResult.  A block is     *)
(* [id, uses]; a probe is [aps, block, filtered], its block a sequence:    *)
(* two for an if on __session_is_return.                                   *)
(***************************************************************************)
EXTENDS Integers, Sequences, FiniteSets, SequencesExt

CONSTANTS
    Symbols,        \* what can be attached to: sets of [target, func] by space
    ProbeScripts,   \* sequences of probes
    MaxBpfProgs     \* config max_bpf_progs

VARIABLES
    written,    \* the probes as parsed
    system,     \* [multi, session, pid, missing]: features, -p, missing_probes
    probes,
    probesOk,   \* no diagnostics
    probePass   \* the pass that comes next

probeVars == <<written, system, probes, probesOk, probePass>>

Systems == [multi : BOOLEAN, session : BOOLEAN, pid : BOOLEAN, missing : {"error", "warn"}]

Exactly(name) == [wild |-> FALSE, of |-> {name}]
Modules == {s.target : s \in Symbols["kernel"]}
NoTarget == [wild |-> FALSE, of |-> Modules]    \* kernel functions have one name each

Kernel == {"kprobe", "kretprobe", "tracepoint"}
Space(type) ==
    CASE type \in {"kprobe", "kretprobe"} -> "kernel"
      [] type \in {"uprobe", "uretprobe"} -> "user"
      [] type = "tracepoint" -> "events"

\* ProbeMatcher::get_matches_for_ap
Matched(ap) ==
    {s \in Symbols[Space(ap.type)] : s.target \in ap.target.of /\ s.func \in ap.func.of}

-----------------------------------------------------------------------------
(***************************************************************************)
(* ExpansionAnalyser                                                       *)
(***************************************************************************)
Expansion(ap) ==
    CASE ap.type \in {"kprobe", "kretprobe"} ->
            IF ap.target.wild THEN "full"
            ELSE IF ~ap.func.wild THEN "none"
            ELSE IF ap.target = NoTarget /\ system.multi THEN "multi"
            ELSE "full"
      [] ap.type \in {"uprobe", "uretprobe"} ->
            IF ~(ap.func.wild \/ ap.target.wild \/ ap.lang = "cpp") THEN "none"
            ELSE IF system.multi THEN "multi"
            ELSE "full"
      [] ap.type = "tracepoint" ->
            IF ap.target.wild \/ ap.func.wild THEN "full" ELSE "none"

\* The name of the probe is known at compile time, so each needs its own program.
ExpansionAnalyser(probe) ==
    LET named == \E b \in ToSet(probe.block) : b.uses = "probe"
    IN  [probe EXCEPT !.aps = [i \in DOMAIN @ |->
            [@[i] EXCEPT !.exp = IF named THEN "full" ELSE Expansion(probe.aps[i])]]]

-----------------------------------------------------------------------------
(***************************************************************************)
(* SessionExpander.  It visits the vector of probes, of which heap holds   *)
(* the objects, and erases from it meanwhile: the visit goes on at the     *)
(* next place up to where the end was, and finds the last one there.       *)
(***************************************************************************)
IsSingle(probe, type) == Len(probe.aps) = 1 /\ probe.aps[1].type = type

\* Mutant: any kretprobe on the same function will do.
MatchesEntry_AnyExpansion(other, ap) ==
    /\ IsSingle(other, "kretprobe")
    /\ other.aps[1].target = ap.target /\ other.aps[1].func = ap.func

MatchesEntry(other, ap) ==
    /\ IsSingle(other, "kretprobe")
    /\ other.aps[1].exp = "multi"
    /\ other.aps[1].target = ap.target /\ other.aps[1].func = ap.func

find_matching_retprobe(s, ap) ==
    {s.order[k] : k \in {j \in 1 .. s.size : MatchesEntry(s.heap[s.order[j]], ap)}}

Erase(s, id) ==
    LET at == CHOOSE k \in 1 .. s.size : s.order[k] = id
    IN  [s EXCEPT !.size = @ - 1,
                  !.order = [k \in DOMAIN @ |-> IF k \in at .. s.size - 1 THEN @[k + 1] ELSE @[k]]]

VisitForSession(s, i) ==
    LET id == s.order[i]
        probe == s.heap[id]
        ret == IF IsSingle(probe, "kprobe") THEN find_matching_retprobe(s, probe.aps[1]) ELSE {}
        r == CHOOSE x \in ret : TRUE
    IN  IF Cardinality(ret) # 1 \/ ~system.session THEN s
        ELSE Erase([s EXCEPT !.heap[id].block = s.heap[r].block \o probe.block,
                             !.heap[id].aps[1].exp = "session"], r)

SessionExpander(ps) ==
    LET n == Len(ps)
        s == FoldLeft(VisitForSession,
                      [heap |-> ps, order |-> [k \in 1 .. n |-> k], size |-> n],
                      [k \in 1 .. n |-> k])
    IN  [k \in 1 .. s.size |-> s.heap[s.order[k]]]

-----------------------------------------------------------------------------
(***************************************************************************)
(* ProbeAndApExpander                                                      *)
(***************************************************************************)
create_expansion_copy(ap, s) ==
    [ap EXCEPT !.func = Exactly(s.func), !.exp = "none",
               !.target = IF ap.target = NoTarget THEN @ ELSE Exactly(s.target)]

\* A wildcard in the target: one attach point for each target, with its functions.
PerTarget(ap) ==
    LET targets == {s.target : s \in Matched(ap)}
    IN  {[ap EXCEPT !.target = Exactly(t), !.exp = "none",
                    !.funcs = {s \in Matched(ap) : s.target = t}] : t \in targets}

ExpandedAp(ap) ==
    CASE ap.exp = "none" -> <<ap>>
      [] ap.exp = "full" -> SetToSeq({create_expansion_copy(ap, s) : s \in Matched(ap)})
      [] ap.exp \in {"multi", "session"} /\ ap.target.wild -> SetToSeq(PerTarget(ap))
      [] ap.exp \in {"multi", "session"} /\ ~ap.target.wild ->
            IF Matched(ap) = {} THEN <<>> ELSE <<[ap EXCEPT !.funcs = Matched(ap)]>>

\* A program for each attach point; a probe without one stays.
Split(probe) ==
    IF Len(probe.aps) < 2 THEN <<probe>>
    ELSE [i \in DOMAIN probe.aps |-> [probe EXCEPT !.aps = <<probe.aps[i]>>]]

ProbeAndApExpander(ps) ==
    LET WithAps(p) == [p EXCEPT !.aps = FlattenSeq([i \in DOMAIN @ |-> ExpandedAp(@[i])])]
    IN  FlattenSeq([k \in DOMAIN ps |-> Split(WithAps(ps[k]))])

\* What probe_count_ comes to.
FullMatches(ps) ==
    LET aps == FlattenSeq([k \in DOMAIN ps |-> ps[k].aps])
        Count(n, ap) == IF ap.exp = "full" THEN n + Cardinality(Matched(ap)) ELSE n
    IN  FoldLeft(Count, 0, aps)

\* CreateProbeAndApExpansionPass
ProbeAndApExpansion ==
    LET analysed == SessionExpander([k \in DOMAIN probes |-> ExpansionAnalyser(probes[k])])
    IN  /\ probePass = "expansion"
        /\ IF FullMatches(analysed) > MaxBpfProgs
           THEN probesOk' = FALSE /\ probePass' = "none" /\ UNCHANGED probes
           ELSE /\ probes' = ProbeAndApExpander(analysed)
                /\ probePass' = "pid_filter" /\ UNCHANGED probesOk
        /\ UNCHANGED <<written, system>>

\* PidFilterPass: attached to the kernel, a program has to look at the pid itself.
PidFilterPass ==
    /\ probePass = "pid_filter" /\ probePass' = "semantic"
    /\ probes' = [k \in DOMAIN probes |->
            [probes[k] EXCEPT !.filtered =
                system.pid /\ \E ap \in ToSet(probes[k].aps) : ap.type \in Kernel]]
    /\ UNCHANGED <<written, system, probesOk>>

\* SemanticAnalyser::visit(Builtin): the return value, in probes on returns.
RetvalAllowed(probe) ==
    (\E b \in ToSet(probe.block) : b.uses = "retval")
        => probe.aps # <<>> /\ probe.aps[1].type \in {"kretprobe", "uretprobe"}

CheckRetval ==
    /\ probePass = "semantic"
    /\ probesOk' = \A p \in ToSet(probes) : RetvalAllowed(p)
    /\ probePass' = IF probesOk' THEN "prune" ELSE "none"
    /\ UNCHANGED <<written, system, probes>>

ProbePrune ==
    /\ probePass = "prune" /\ probePass' = "none"
    /\ probesOk' = (system.missing = "error" => \A p \in ToSet(probes) : p.aps # <<>>)
    /\ probes' = IF system.missing = "error" THEN probes
                 ELSE SelectSeq(probes, LAMBDA p : p.aps # <<>>)
    /\ UNCHANGED <<written, system>>

ProbeInit ==
    /\ written \in ProbeScripts
    /\ system \in Systems
    /\ probes = written
    /\ probesOk = TRUE
    /\ probePass = "expansion"

ProbeNext == ProbeAndApExpansion \/ PidFilterPass \/ CheckRetval \/ ProbePrune

-----------------------------------------------------------------------------
(***************************************************************************)
(* What happens when an event does: an event is [type, symbol, mine], mine *)
(* when it is of the process that -p names.                                *)
(***************************************************************************)
Events ==
    UNION {[type : {t}, symbol : Symbols[Space(t)], mine : BOOLEAN] :
            t \in {"kprobe", "kretprobe", "uprobe", "uretprobe", "tracepoint"}}

\* AttachedProbe::make: the functions of the list, or the one that is named.
Reaches(ap, e) ==
    /\ e.symbol \in IF ap.funcs # {} THEN ap.funcs
                    ELSE IF ap.func.wild \/ ap.target.wild THEN {} ELSE Matched(ap)
    /\ \/ e.type = ap.type
       \/ ap.exp = "session" /\ e.type = "kretprobe"
    /\ (system.pid /\ ap.type \notin Kernel) => e.mine

BlockFor(probe, e) ==
    IF Len(probe.block) = 2 /\ e.type = "kretprobe" THEN probe.block[1] ELSE Last(probe.block)

\* The programs that run the block on the event.
Running(e, b) ==
    {k \in DOMAIN probes :
        /\ \E ap \in ToSet(probes[k].aps) : Reaches(ap, e)
        /\ probes[k].filtered => e.mine
        /\ BlockFor(probes[k], e) = b}

\* The attach points of the script that ask for it.
Asking(e, b) ==
    {<<k, i>> \in (DOMAIN written) \X (1 .. 2) :
        /\ written[k].block = <<b>>
        /\ i \in DOMAIN written[k].aps
        /\ written[k].aps[i].type = e.type /\ e.symbol \in Matched(written[k].aps[i])
        /\ system.pid => e.mine}

Matchless(probe) == \A ap \in ToSet(probe.aps) : (ap.func.wild \/ ap.target.wild) /\ Matched(ap) = {}

\* The reasons there are to refuse a script.
Refusable ==
    \/ FullMatches([k \in DOMAIN written |-> ExpansionAnalyser(written[k])]) > MaxBpfProgs
    \/ \E p \in ToSet(written) : ~RetvalAllowed(p)
    \/ system.missing = "error" /\ \E p \in ToSet(written) : Matchless(p)

(***************************************************************************)
(* Invariant: whatever the kernel supports, an event runs a block as often *)
(* as the script says and only for the process it says; a block that asks  *)
(* for the name of its probe is in programs that have one; and a script is *)
(* refused only for a reason in the script (SessionExpander's merge of an  *)
(* entry and a return, the lists of functions, the copies by target, and   *)
(* the filter that is put into the block).                                 *)
(***************************************************************************)
ProbesAsWritten ==
    probePass = "none" =>
        IF probesOk
        THEN /\ \A e \in Events, p \in ToSet(written) :
                    Cardinality(Running(e, p.block[1])) = Cardinality(Asking(e, p.block[1]))
             /\ \A p \in ToSet(probes) :
                    (\E b \in ToSet(p.block) : b.uses = "probe") => p.aps[1].funcs = {}
        ELSE Refusable
=============================================================================
