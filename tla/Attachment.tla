----------------------------- MODULE Attachment -----------------------------
(***************************************************************************)
(* Attaching the probes of a script (BPFtrace::run, bpftrace.cpp, and the  *)
(* make functions of attached_probe.cpp).                                  *)
(*                                                                         *)
(* Probes are attached in two passes over the script, first those the      *)
(* kernel runs in the order they were attached, then, backwards, those it  *)
(* runs in reverse.  A profile, software, hardware or watchpoint probe is  *)
(* one perf event and one link for each CPU; when one of them fails those  *)
(* already made are undone.  A probe that cannot be attached ends the run  *)
(* or is skipped, as missing_probes says.  SIGINT may arrive at any time.  *)
(***************************************************************************)
EXTENDS Integers, Sequences, FiniteSets, Functions

CONSTANTS
    ProbeLists, \* sequences of probe types
    NCpus,      \* online CPUs
    MaxFails    \* system calls that fail

ASSUME CpuAssumption == NCpus \in Nat \ {0}
ASSUME FailAssumption == MaxFails \in Nat

Policies == {"error", "warn", "ignore"}
PerCpu == {"profile", "software", "hardware", "watchpoint"}
PerfEvents == PerCpu \cup {"interval"}
Singles == {"tracepoint", "kretprobe", "kprobe", "uprobe", "fentry"}
Types == PerfEvents \cup Singles

ASSUME ScriptAssumption == \A s \in ProbeLists : s \in Seq(Types)

attach_reverse(type) == type \in {"kprobe", "uprobe", "fentry"}

VARIABLES
    to_attach,      \* resources.probes, by type
    pid,            \* a process is traced (-p or -c)
    missing_probes, \* config_->missing_probes
    others,         \* begin, end and self probes: no links of their own
    dry_run,
    pc,             \* forward, reverse, count: run(); open, link, undo: make()
    at,             \* the probe the pass is at
    direction,      \* the pass an attachment belongs to
    todo,           \* CPUs to attach the probe to
    event,          \* CPU of perf_event_fd, the event opened last, or NoCpu
    links,          \* links, as <<probe, CPU>>
    events,         \* perf events without a link, as <<probe, CPU>>
    attached_probes_,
    failed,         \* history: probes whose attachment failed
    fails,          \* system calls that failed
    exitsig_recv,
    rval            \* result of run(): "none" until it returns

attachVars == <<to_attach, pid, missing_probes, others, dry_run, pc, at, direction, todo, event,
                links, events, attached_probes_, failed, fails, exitsig_recv, rval>>
setting == <<to_attach, pid, missing_probes, others, dry_run>>

NoCpu == -2
AnyCpu == -1

get_online_cpus == [c \in 1 .. NCpus |-> c - 1]

\* The CPUs a probe is attached to, in order; a process has no CPU, but only
\* watchpoints make one event for it: the others make one per CPU.
Cpus(p) ==
    CASE to_attach[p] = "watchpoint" /\ pid -> <<AnyCpu>>
      [] to_attach[p] = "interval"          -> <<0>>
      [] to_attach[p] \in PerCpu            -> get_online_cpus
      [] OTHER                           -> <<AnyCpu>>

LinksOf(p) == {<<p, Cpus(p)[k]>> : k \in DOMAIN Cpus(p)}

AttachInit ==
    /\ to_attach \in ProbeLists
    /\ pid \in BOOLEAN
    /\ missing_probes \in Policies
    /\ others \in BOOLEAN
    /\ dry_run \in BOOLEAN
    /\ pc = "forward"
    /\ at = 1
    /\ direction = "forward"
    /\ todo = <<>>
    /\ event = NoCpu
    /\ links = {}
    /\ events = {}
    /\ attached_probes_ = <<>>
    /\ failed = {}
    /\ fails = 0
    /\ exitsig_recv = FALSE
    /\ rval = "none"

-----------------------------------------------------------------------------
(***************************************************************************)
(* AttachedProbe::make                                                     *)
(***************************************************************************)
MayFail == fails < MaxFails

\* perf_event_open, on the next CPU.
Open ==
    /\ pc = "open"
    /\ todo # <<>>
    /\ \/ /\ event' = Head(todo)
          /\ pc' = "link"
          /\ UNCHANGED fails
       \/ /\ MayFail
          /\ fails' = fails + 1
          /\ pc' = "undo"
          /\ UNCHANGED event
    /\ UNCHANGED <<setting, at, direction, todo, links, events, attached_probes_, failed, exitsig_recv, rval>>

\* bpf_program__attach_perf_event.  When it fails the event is closed, but not
\* that of a watchpoint.
Link ==
    /\ pc = "link"
    /\ todo' = Tail(todo)
    /\ event' = NoCpu
    /\ \/ /\ links' = links \cup {<<at, event>>}
          /\ pc' = "open"
          /\ UNCHANGED <<events, fails>>
       \/ /\ MayFail
          /\ fails' = fails + 1
          /\ pc' = "undo"
          /\ events' = IF to_attach[at] = "watchpoint" THEN events \cup {<<at, event>>} ELSE events
          /\ UNCHANGED links
    /\ UNCHANGED <<setting, at, direction, attached_probes_, failed, exitsig_recv, rval>>

\* The other types: one call of libbpf makes the link or fails.
LinkSingle ==
    /\ pc = "single"
    /\ todo' = <<>>
    /\ \/ /\ links' = links \cup LinksOf(at)
          /\ pc' = "open"
          /\ UNCHANGED fails
       \/ /\ MayFail
          /\ fails' = fails + 1
          /\ pc' = "undo"
          /\ UNCHANGED links
    /\ UNCHANGED <<setting, at, direction, event, events, attached_probes_, failed, exitsig_recv, rval>>

\* Mutant: the links made before the failure are forgotten.
Undone_Kept == links

\* The links of a failed attachment are destroyed.
Undone == links \ LinksOf(at)

-----------------------------------------------------------------------------
(***************************************************************************)
(* BPFtrace::run                                                           *)
(***************************************************************************)
step(p) == IF direction = "forward" THEN p + 1 ELSE p - 1

\* attach_probe, and what the passes do with its result.
Attached ==
    /\ pc = "open"
    /\ todo = <<>>
    /\ attached_probes_' = Append(attached_probes_, at)
    /\ pc' = direction
    /\ at' = step(at)
    /\ UNCHANGED <<setting, direction, todo, event, links, events, failed, fails, exitsig_recv, rval>>

\* Mutant: a missing probe ends the run only when nothing is attached yet.
Tolerated_Some == missing_probes # "error" \/ attached_probes_ # <<>>

Tolerated == missing_probes # "error"

Failed ==
    /\ pc = "undo"
    /\ links' = Undone
    /\ failed' = failed \cup {at}
    /\ todo' = <<>>
    /\ event' = NoCpu
    /\ IF Tolerated
       THEN /\ pc' = direction
            /\ at' = step(at)
            /\ UNCHANGED rval
       ELSE /\ pc' = "returned"
            /\ rval' = "failure"
            /\ UNCHANGED at
    /\ UNCHANGED <<setting, direction, events, attached_probes_, fails, exitsig_recv>>

\* attached_probes_.clear(), in request_finalize too: the probes attached so far are detached.
attached_probes_clear ==
    /\ links' = links \ UNION {LinksOf(p) : p \in Range(attached_probes_)}
    /\ attached_probes_' = <<>>

\* The head of the loop of a pass.
Interrupted ==
    /\ pc \in {"forward", "reverse"}
    /\ at \in DOMAIN to_attach
    /\ exitsig_recv
    /\ attached_probes_clear
    /\ pc' = "returned"
    /\ rval' = "failure"
    /\ UNCHANGED <<setting, at, direction, todo, event, events, failed, fails, exitsig_recv>>

\* Mutant: the passes attach the same kinds of probes, the other way round.
InPass_Swapped == attach_reverse(to_attach[at]) = (pc = "forward")

InPass == attach_reverse(to_attach[at]) = (pc = "reverse")

NextProbe ==
    /\ pc \in {"forward", "reverse"}
    /\ at \in DOMAIN to_attach
    /\ ~exitsig_recv
    /\ direction' = pc
    /\ IF InPass
       THEN /\ pc' = (IF to_attach[at] \in PerfEvents THEN "open" ELSE "single")
            /\ todo' = Cpus(at)
            /\ UNCHANGED at
       ELSE /\ at' = step(at)
            /\ UNCHANGED <<pc, todo>>
    /\ UNCHANGED <<setting, event, links, events, attached_probes_, failed, fails, exitsig_recv, rval>>

EndOfPass ==
    /\ pc \in {"forward", "reverse"}
    /\ at \notin DOMAIN to_attach
    /\ IF pc = "forward"
       THEN /\ pc' = "reverse"
            /\ direction' = "reverse"
            /\ at' = Len(to_attach)
       ELSE /\ pc' = "count"
            /\ UNCHANGED <<direction, at>>
    /\ UNCHANGED <<setting, todo, event, links, events, attached_probes_, failed, fails, exitsig_recv, rval>>

DryRun ==
    /\ pc = "count"
    /\ dry_run
    /\ attached_probes_clear
    /\ pc' = "returned"
    /\ rval' = "success"
    /\ UNCHANGED <<setting, at, direction, todo, event, events, failed, fails, exitsig_recv>>

\* total_attached counts the programs that need no link as well.
Count ==
    /\ pc = "count"
    /\ ~dry_run
    /\ IF attached_probes_ = <<>> /\ ~others
       THEN pc' = "returned" /\ rval' = "failure"
       ELSE pc' = "running" /\ UNCHANGED rval
    /\ UNCHANGED <<setting, at, direction, todo, event, links, events, attached_probes_, failed, fails,
                   exitsig_recv>>

\* Polling is the subject of EventLoop; here the run ends when it will.
Finish ==
    /\ pc = "running"
    /\ attached_probes_clear
    /\ pc' = "returned"
    /\ rval' = "success"
    /\ UNCHANGED <<setting, at, direction, todo, event, events, failed, fails, exitsig_recv>>

\* The BPFtrace object goes out of scope, and its attached probes with it.
Destroy ==
    /\ pc = "returned"
    /\ attached_probes_clear
    /\ pc' = "gone"
    /\ UNCHANGED <<setting, at, direction, todo, event, events, failed, fails, exitsig_recv, rval>>

Signal ==
    /\ ~exitsig_recv
    /\ pc \notin {"returned", "gone"}
    /\ exitsig_recv' = TRUE
    /\ UNCHANGED <<setting, pc, at, direction, todo, event, links, events, attached_probes_, failed, fails, rval>>

AttachNext ==
    \/ Open \/ Link \/ LinkSingle \/ Attached \/ Failed
    \/ Interrupted \/ NextProbe \/ EndOfPass \/ DryRun \/ Count
    \/ Finish \/ Destroy \/ Signal

AttachSpec == AttachInit /\ [][AttachNext]_attachVars

-----------------------------------------------------------------------------
(***************************************************************************)
(* Properties                                                              *)
(***************************************************************************)
TypeOK ==
    /\ to_attach \in ProbeLists
    /\ missing_probes \in Policies
    /\ pc \in {"forward", "reverse", "open", "link", "single", "undo", "count", "running",
               "returned", "gone"}
    /\ direction \in {"forward", "reverse"}
    /\ at \in 0 .. Len(to_attach) + 1
    /\ failed \subseteq DOMAIN to_attach
    /\ attached_probes_ \in Seq(DOMAIN to_attach)
    /\ fails \in 0 .. MaxFails
    /\ rval \in {"none", "success", "failure"}

AllLinksOf(P) == UNION {LinksOf(p) : p \in P}
Making == pc \in {"open", "link", "single", "undo"}

(* A probe is attached to all of its CPUs or to none: the links there are  *)
(* those of the attached probes and, during an attachment, those made for  *)
(* the CPUs it has done; whatever fails, and after the end none is left    *)
(* (the rollback of AttachedProfileProbe::make and its likes).             *)
WholeProbes ==
    /\ ~Making => links = AllLinksOf(Range(attached_probes_))
    /\ Making => links = AllLinksOf(Range(attached_probes_)) \cup {l \in links : l[1] = at}
    /\ Making => at \notin Range(attached_probes_)
    /\ pc = "gone" => links = {}
    /\ \A e \in events : to_attach[e[1]] = "watchpoint"

(* "In order to make sure that blocks are executed in the same order they  *)
(* were declared" (bpftrace.cpp:721): of two attached probes of one type,  *)
(* which fire on the same event, the one declared first is run first,      *)
(* whichever probes are skipped.                                           *)
Fires(a, b) == IF attach_reverse(to_attach[attached_probes_[a]]) THEN a > b ELSE a < b
DeclaredOrder ==
    \A a, b \in DOMAIN attached_probes_ :
        (/\ to_attach[attached_probes_[a]] = to_attach[attached_probes_[b]]
         /\ Fires(a, b)) => attached_probes_[a] < attached_probes_[b]

(* The run starts with every probe of the script attached, or with those   *)
(* missing_probes lets be missing, and not with nothing; and it is given   *)
(* up only for a reason: a signal, a missing probe, nothing to wait for.   *)
StartsAsAsked ==
    /\ pc = "running" =>
          /\ Range(attached_probes_) \cup failed = DOMAIN to_attach
          /\ Range(attached_probes_) \cap failed = {}
          /\ missing_probes = "error" => failed = {}
          /\ attached_probes_ # <<>> \/ others
    /\ rval = "failure" =>
          \/ exitsig_recv
          \/ missing_probes = "error" /\ failed # {}
          \/ failed = DOMAIN to_attach /\ ~others

(* Attachment gives the script what it asks for, in the order it asks for. *)
AttachedAsAsked == DeclaredOrder /\ StartsAsAsked

(* No perf event outlives the attachment it was opened for; the code keeps *)
(* that of a watchpoint whose link could not be made.                      *)
EventsClosed == events = {}
=============================================================================
