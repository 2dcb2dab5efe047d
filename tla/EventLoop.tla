------------------------------ MODULE EventLoop ------------------------------
(***************************************************************************)
(* The life of one bpftrace run: BPFtrace::run() runs the begin probe,     *)
(* attaches the other probes, polls the kernel's buffers for the events    *)
(* the probes emit (poll_output, event_printer), detaches the probes, runs *)
(* the end probe and drains what is left.                                  *)
(*                                                                         *)
(* One thread executes run().  It is interleaved with three actors it does *)
(* not control: the kernel, in which attached probes fire on any CPU at    *)
(* any time; the signals of the user, whose handlers only set a flag but   *)
(* also interrupt a blocked epoll_wait; and the traced process (-p or -c), *)
(* which may exit at any time.                                             *)
(***************************************************************************)
EXTENDS Integers, Sequences, FiniteSets

CONSTANTS
    Scripts,     \* the scripts (RequiredResources and configuration) to run
    NCpus,       \* number of possible CPUs
    RingCap,     \* events the BPF ring buffer holds
    SkbCap,      \* events the perf buffer of skboutput() holds
    MaxLoss,     \* bound on each CPU's event loss counter
    MaxExitSig,  \* bound on the number of SIGINT/SIGTERM sent
    MaxUsr1      \* bound on the number of SIGUSR1 sent

\* What a handler of async_action.cpp may do: "print" stands for every handler
\* that only produces output, "skb" is the one fed by the perf buffer.
Acts    == {"print", "exit", "skb"}
Origins == {"begin", "probe", "signal", "end"}
Events  == [from : Origins, act : Acts]

\* A probe: attached in the reverse pass or not, and the events it may emit.
ProbeType == [reverse : BOOLEAN, acts : SUBSET Acts]

\* A script: its special programs (the acts each may emit; {} when the program
\* is absent), its probes in declaration order, and the options of the run.
ScriptType ==
    [begin  : SUBSET Acts, end : SUBSET Acts, signal : SUBSET Acts,
     probes : Seq(ProbeType),
     using_skboutput : BOOLEAN,          \* resources.using_skboutput
     has_iter        : BOOLEAN,          \* has_iter_
     dry_run         : BOOLEAN,
     missing_error   : BOOLEAN,          \* missing_probes == error
     traced          : {"none", "pid", "child"}]

Cpus == 0 .. NCpus - 1

\* util::round_up_to_next_power_of_two and util::get_max_cpu_id.
RoundUpPow2(n) ==
    CHOOSE m \in n .. 2 * n : /\ \E k \in 0 .. n : m = 2 ^ k
                              /\ \A k \in 0 .. n : 2 ^ k >= n => 2 ^ k >= m
max_cpu_id == RoundUpPow2(NCpus) - 1

\* What the programs of a script may emit.
Emits(s) == s.begin \cup s.end \cup s.signal
                \cup UNION {s.probes[i].acts : i \in 1 .. Len(s.probes)}

ASSUME ScriptsAssumption == Scripts \subseteq ScriptType
\* The resource analyser sets using_skboutput when it meets a call of skboutput().
ASSUME SkbAssumption == \A s \in Scripts : "skb" \in Emits(s) => s.using_skboutput
ASSUME BoundsAssumption ==
    /\ NCpus \in Nat \ {0}
    /\ RingCap \in Nat \ {0} /\ SkbCap \in Nat \ {0}
    /\ MaxLoss \in Nat /\ MaxExitSig \in Nat /\ MaxUsr1 \in Nat
ASSUME MaxCpuIdAssumption == max_cpu_id \in Nat /\ NCpus - 1 <= max_cpu_id

VARIABLES
    script,            \* the script that runs
    pc,                \* where run() is
    phase,             \* the poll_output call: "main" or the last one, "end"
    next,              \* loop index of the two attach passes
    attached,          \* attached_probes_, as indices of script.probes
    ring,              \* the BPF ring buffer
    skb, skb_left,     \* the perf buffer; records below the head libbpf read
    drain, do_skb, do_ring, ready,  \* locals of poll_output
    finalize_, exitsig_recv, sigusr1_recv, exit_code,
    alive,             \* the traced process is alive
    loss,              \* __bt__event_loss_counter, per CPU
    event_loss_count_, out_lost,    \* losses seen, and told to the output
    total_lost,        \* the total logged at the end of run()
    rval,              \* what run() returned
    nexit, nusr1,      \* signals sent so far
    \* History: what became of the begin and end events, and what happened
    \* after the reset of the flags: an exit signal, a SIGUSR1 program, exit().
    fate, late

locals  == <<drain, do_skb, do_ring, ready>>
flags   == <<finalize_, exitsig_recv, sigusr1_recv>>
losses  == <<event_loss_count_, out_lost, total_lost>>
signals == <<nexit, nusr1>>
history == <<fate, late>>
vars == <<script, pc, phase, next, attached, ring, skb, skb_left, locals, flags,
          exit_code, alive, loss, losses, rval, signals, history>>

PCs == {"prepare", "begin", "setup", "attach_fwd", "attach_rev", "start", "iter",
        "skb", "skb_consume", "skb_ret", "loss", "ring", "ring_consume",
        "ring_ret", "check", "clear", "reset", "end", "total", "done"}
Fates == {"none", "pending", "handled", "ignored", "lost"}

ControlOK ==
    /\ script \in Scripts
    /\ pc \in PCs /\ phase \in {"main", "end"}
    /\ next \in 0 .. Len(script.probes) + 1
    /\ attached \subseteq 1 .. Len(script.probes)
    /\ rval \in {-1, 0, 1}
BuffersOK ==
    /\ ring \in Seq(Events) /\ Len(ring) <= RingCap
    /\ skb \in Seq(Events) /\ Len(skb) <= SkbCap
    /\ skb_left \in 0 .. Len(skb)
LocalsOK ==
    /\ drain \in BOOLEAN /\ do_skb \in BOOLEAN /\ do_ring \in BOOLEAN
    /\ ready \in {-1, 0, 1}
FlagsOK ==
    /\ finalize_ \in BOOLEAN /\ exitsig_recv \in BOOLEAN /\ sigusr1_recv \in BOOLEAN
    /\ exit_code \in {0, 1} /\ alive \in BOOLEAN
LossOK ==
    /\ loss \in [Cpus -> 0 .. MaxLoss]
    /\ event_loss_count_ \in Nat /\ out_lost \in Nat /\ total_lost \in Nat
HistoryOK ==
    /\ nexit \in 0 .. MaxExitSig /\ nusr1 \in 0 .. MaxUsr1
    /\ fate \in [{"begin", "end"} -> Fates]
    /\ late \subseteq {"signal", "usr1", "exit"}

\* Type correctness of the whole state.
TypeOK == ControlOK /\ BuffersOK /\ LocalsOK /\ FlagsOK /\ LossOK /\ HistoryOK

Init ==
    /\ script \in Scripts
    /\ pc = "prepare" /\ phase = "main" /\ next = 1 /\ attached = {}
    /\ ring = <<>> /\ skb = <<>> /\ skb_left = 0
    /\ drain = FALSE /\ do_skb = FALSE /\ do_ring = FALSE /\ ready = 0
    /\ finalize_ = FALSE /\ exitsig_recv = FALSE /\ sigusr1_recv = FALSE
    /\ exit_code = 0 /\ alive = TRUE
    /\ loss = [c \in Cpus |-> 0]
    /\ event_loss_count_ = 0 /\ out_lost = 0 /\ total_lost = 0
    /\ rval = 0 /\ nexit = 0 /\ nusr1 = 0
    /\ fate = [o \in {"begin", "end"} |-> "none"]
    /\ late = {}
-----------------------------------------------------------------------------
(***************************************************************************)
(* The kernel side of an event.                                            *)
(***************************************************************************)
\* x happens: remembered when the flags have been reset.
Late(x) == late' = IF phase = "end" THEN late \cup {x} ELSE late

\* What becomes of event e, recorded for the begin and end events only.
Fate(e, f) == IF e.from \in {"begin", "end"} THEN fate' = [fate EXCEPT ![e.from] = f]
                                             ELSE UNCHANGED fate

\* The sum of counters[0 .. n - 1], as the size of a set of pairs.
Sum(counters, n) ==
    Cardinality({p \in Cpus \X (1 .. MaxLoss) : p[1] < n /\ p[2] <= counters[p[1]]})

\* BpfBytecode::get_event_loss_counter: the loop stops before max_cpu_id.
get_event_loss_counter_Short(counters) == Sum(counters, max_cpu_id - 1)
get_event_loss_counter(counters) == Sum(counters, max_cpu_id)

\* IRBuilderBPF::CreateRingbufOutput: bpf_ringbuf_output fails when the buffer
\* is full, and the program then increments its CPU's loss counter.
RingbufOutput(e) ==
    /\ \/ /\ Len(ring) < RingCap
          /\ ring' = Append(ring, e) /\ UNCHANGED loss
          /\ Fate(e, "pending")
       \/ /\ Len(ring) >= RingCap
          /\ \E c \in Cpus :
                loss' = [loss EXCEPT ![c] = IF @ < MaxLoss THEN @ + 1 ELSE @]
          /\ Fate(e, "lost") /\ UNCHANGED ring
    /\ UNCHANGED skb

\* IRBuilderBPF::CreateSkbOutput: the perf buffer of skboutput().  The program
\* ignores a failure, so nothing counts it on this side.
SkbOutput(e) ==
    /\ \/ /\ Len(skb) < SkbCap
          /\ skb' = Append(skb, e) /\ Fate(e, "pending")
       \/ /\ Len(skb) >= SkbCap
          /\ Fate(e, "lost") /\ UNCHANGED skb
    /\ UNCHANGED <<ring, loss>>

Output(e) == IF e.act = "skb" THEN SkbOutput(e) ELSE RingbufOutput(e)

\* An attached probe fires on some CPU.
ProbeFires ==
    /\ pc # "done"
    /\ \E i \in attached : \E a \in script.probes[i].acts :
          Output([from |-> "probe", act |-> a])
    /\ UNCHANGED <<script, pc, phase, next, attached, skb_left, locals, flags,
                   exit_code, alive, losses, rval, signals, late>>

\* The process given with -p, or the child of -c, exits.
TracedExits ==
    /\ script.traced # "none" /\ alive /\ pc # "done"
    /\ alive' = FALSE
    /\ UNCHANGED <<script, pc, phase, next, attached, ring, skb, skb_left, locals,
                   flags, exit_code, loss, losses, rval, signals, history>>
-----------------------------------------------------------------------------
(***************************************************************************)
(* Signals.  The handlers of run_bpftrace() set a flag.  A signal that      *)
(* arrives while epoll_wait blocks (nothing to read) also makes it return   *)
(* EINTR; one that arrives just before the call does not.                   *)
(***************************************************************************)
Interrupt ==
    \/ UNCHANGED <<pc, ready>>
    \/ pc = "skb"  /\ do_skb /\ skb = <<>> /\ pc' = "skb_ret" /\ ready' = -1
    \/ pc = "ring" /\ ring = <<>> /\ pc' = "ring_ret" /\ ready' = -1

\* SIGINT or SIGTERM.
ExitSignal ==
    /\ pc # "done" /\ nexit < MaxExitSig
    /\ nexit' = nexit + 1
    /\ exitsig_recv' = TRUE
    /\ Late("signal")
    /\ Interrupt
    /\ UNCHANGED <<script, phase, next, attached, ring, skb, skb_left, drain, do_skb,
                   do_ring, finalize_, sigusr1_recv, exit_code, alive, loss,
                   losses, rval, nusr1, fate>>

Usr1Signal ==
    /\ pc # "done" /\ nusr1 < MaxUsr1
    /\ nusr1' = nusr1 + 1
    /\ sigusr1_recv' = TRUE
    /\ Interrupt
    /\ UNCHANGED <<script, phase, next, attached, ring, skb, skb_left, drain, do_skb,
                   do_ring, finalize_, exitsig_recv, exit_code, alive, loss,
                   losses, rval, nexit, history>>
-----------------------------------------------------------------------------
(***************************************************************************)
(* run(): the begin probe and the two attach passes.                       *)
(***************************************************************************)
Return(v) == pc' = "done" /\ rval' = v

\* BPFtrace::request_finalize: detaches every probe and terminates the child.
request_finalize_KeepsProbes ==
    /\ finalize_' = TRUE
    /\ alive' = (alive /\ script.traced # "child")
    /\ UNCHANGED attached
request_finalize ==
    /\ finalize_' = TRUE
    /\ attached' = {}
    /\ alive' = (alive /\ script.traced # "child")

\* prerun, loading the programs, setup_output, create_pcaps and the elapsed map;
\* each may fail and end the run.
Prepare ==
    /\ pc = "prepare"
    /\ \/ pc' = "begin" /\ UNCHANGED rval
       \/ Return(-1)
    /\ UNCHANGED <<script, phase, next, attached, ring, skb, skb_left, locals, flags,
                   exit_code, alive, loss, losses, signals, history>>

RunBegin ==
    /\ pc = "begin"
    /\ \/ /\ script.begin # {}
          /\ \E a \in script.begin : Output([from |-> "begin", act |-> a])
          /\ pc' = "setup" /\ UNCHANGED rval
       \/ /\ script.begin = {}
          /\ pc' = "setup" /\ UNCHANGED <<rval, ring, skb, loss, fate>>
       \/ /\ script.begin # {}        \* bpf_prog_test_run_opts failed
          /\ Return(-1) /\ UNCHANGED <<ring, skb, loss, fate>>
    /\ UNCHANGED <<script, phase, next, attached, skb_left, locals, flags, exit_code,
                   alive, losses, signals, late>>

\* child_->run(true), when the script has USDT probes: starting the child fails.
SetupChild ==
    /\ pc = "setup"
    /\ \/ pc' = "attach_fwd" /\ UNCHANGED rval
       \/ script.traced = "child" /\ Return(-1)
    /\ UNCHANGED <<script, phase, next, attached, ring, skb, skb_left, locals, flags,
                   exit_code, alive, loss, losses, signals, history>>

\* attach_probe for probe i: it may fail, which ends the run only when the
\* configuration says that a missing probe is an error.
AttachProbe(i) ==
    \/ attached' = attached \cup {i} /\ UNCHANGED rval
    \/ ~script.missing_error /\ UNCHANGED <<attached, rval>>
    \/ script.missing_error /\ rval' = -1 /\ UNCHANGED attached

\* One iteration of a pass; a pass attaches the probes with reverse = rev.
AttachStep(here, rev, last, after, step) ==
    /\ pc = here
    /\ \/ /\ next # last /\ exitsig_recv
          /\ request_finalize
          /\ Return(-1) /\ UNCHANGED next
       \/ /\ next # last /\ ~exitsig_recv
          /\ IF script.probes[next].reverse = rev
             THEN AttachProbe(next)
             ELSE UNCHANGED <<attached, rval>>
          /\ next' = next + step
          /\ pc' = IF rval' = -1 THEN "done" ELSE pc
          /\ UNCHANGED <<finalize_, alive>>
       \/ /\ next = last
          /\ pc' = after
          /\ next' = Len(script.probes)
          /\ UNCHANGED <<attached, rval, finalize_, alive>>
    /\ UNCHANGED <<script, phase, ring, skb, skb_left, locals, exitsig_recv,
                   sigusr1_recv, exit_code, loss, losses, signals, history>>

AttachForward ==
    AttachStep("attach_fwd", FALSE, Len(script.probes) + 1, "attach_rev", 1)
AttachReverse == AttachStep("attach_rev", TRUE, 0, "start", -1)

PollsSkb_AtEnd == script.using_skboutput /\ phase = "end"
PollsSkb_StaysOff == IF phase = "end" THEN do_skb ELSE script.using_skboutput
PollsSkb == script.using_skboutput

\* The entry of poll_output.
PollOutput(ph, dr) ==
    /\ pc' = "skb" /\ phase' = ph /\ drain' = dr
    /\ do_skb' = PollsSkb /\ do_ring' = TRUE
    /\ UNCHANGED ready

\* The end of a dry run, the start of the child, the count of what is attached
\* and the choice between run_iter and poll_output.
Start ==
    /\ pc = "start"
    /\ \/ /\ script.dry_run
          /\ request_finalize
          /\ Return(0) /\ UNCHANGED <<phase, locals>>
       \/ /\ ~script.dry_run /\ script.traced = "child"  \* Failed to run child
          /\ Return(-1)
          /\ UNCHANGED <<phase, locals, finalize_, attached, alive>>
       \/ /\ ~script.dry_run
          /\ attached = {} /\ script.begin = {} /\ script.end = {}
          /\ script.signal = {}
          /\ Return(-1)
          /\ UNCHANGED <<phase, locals, finalize_, attached, alive>>
       \/ /\ ~script.dry_run
          /\ attached # {} \/ script.begin # {} \/ script.end # {}
                           \/ script.signal # {}
          /\ IF script.has_iter
             THEN pc' = "iter" /\ UNCHANGED <<phase, locals>>
             ELSE PollOutput("main", /\ script.begin # {} \/ script.end # {}
                                     /\ script.signal = {} /\ attached = {})
          /\ UNCHANGED <<rval, finalize_, attached, alive>>
    /\ UNCHANGED <<script, next, ring, skb, skb_left, exitsig_recv, sigusr1_recv,
                   exit_code, loss, losses, signals, history>>

\* BPFtrace::run_iter: reads the iterator to its end, or fails.
RunIter ==
    /\ pc = "iter"
    /\ \/ attached # {} /\ pc' = "clear" /\ UNCHANGED rval
       \/ Return(1)
    /\ UNCHANGED <<script, phase, next, attached, ring, skb, skb_left, locals, flags,
                   exit_code, alive, loss, losses, signals, history>>
-----------------------------------------------------------------------------
(***************************************************************************)
(* event_printer: the handler of one event of either buffer.               *)
(***************************************************************************)
event_printer(e) ==
    \/ /\ finalize_
       /\ Fate(e, "ignored")
       /\ UNCHANGED <<finalize_, attached, alive, exit_code, late>>
    \/ /\ ~finalize_ /\ exitsig_recv
       /\ Fate(e, "ignored")
       /\ request_finalize /\ UNCHANGED <<exit_code, late>>
    \/ /\ ~finalize_ /\ ~exitsig_recv
       /\ Fate(e, "handled")
       /\ IF e.act = "exit"
          THEN request_finalize /\ exit_code' = 1   \* AsyncHandlers::exit
               /\ Late("exit")
          ELSE UNCHANGED <<finalize_, attached, alive, exit_code, late>>
-----------------------------------------------------------------------------
(***************************************************************************)
(* poll_output.                                                            *)
(***************************************************************************)
should_retry == ready < 0 /\ ~exitsig_recv
should_stop  == exitsig_recv \/ ready < 0 \/ (ready = 0 /\ (drain \/ finalize_))

\* The records that perf_buffer__poll hands out: those below the head it reads.
SkbHead_PastEnd == Len(skb) + 1
SkbHead == Len(skb)

\* perf_buffer__poll: nothing to do, a timeout, or records up to the head.
SkbPoll ==
    /\ pc = "skb"
    /\ \/ ~do_skb /\ pc' = "loss" /\ UNCHANGED <<ready, skb_left>>
       \/ do_skb /\ skb = <<>> /\ pc' = "skb_ret" /\ ready' = 0 /\ UNCHANGED skb_left
       \/ do_skb /\ skb # <<>> /\ pc' = "skb_consume" /\ ready' = 1
          /\ skb_left' = SkbHead
    /\ UNCHANGED <<script, phase, next, attached, ring, skb, drain, do_skb, do_ring,
                   flags, exit_code, alive, loss, losses, rval, signals, history>>

SkbConsume ==
    /\ pc = "skb_consume"
    /\ \/ /\ skb_left > 0
          /\ event_printer(Head(skb))
          /\ skb' = Tail(skb) /\ skb_left' = skb_left - 1 /\ UNCHANGED pc
       \/ /\ skb_left = 0 /\ pc' = "skb_ret"
          /\ UNCHANGED <<skb, skb_left, finalize_, attached, alive, exit_code, history>>
    /\ UNCHANGED <<script, phase, next, ring, locals, exitsig_recv, sigusr1_recv,
                   loss, losses, rval, signals>>

\* A retryable result retries only when the ring buffer is not polled any more;
\* otherwise the stop test follows.
SkbReturn ==
    /\ pc = "skb_ret"
    /\ \/ should_retry /\ ~do_ring /\ pc' = "skb" /\ UNCHANGED do_skb
       \/ ~(should_retry /\ ~do_ring) /\ pc' = "loss" /\ do_skb' = ~should_stop
    /\ UNCHANGED <<script, phase, next, attached, ring, skb, skb_left, drain, do_ring,
                   ready, flags, exit_code, alive, loss, losses, rval, signals, history>>

\* BPFtrace::poll_event_loss.
poll_event_loss_NotSaved ==
    /\ out_lost' = IF get_event_loss_counter(loss) > event_loss_count_
                   THEN out_lost + (get_event_loss_counter(loss) - event_loss_count_)
                   ELSE out_lost
    /\ UNCHANGED event_loss_count_
poll_event_loss ==
    LET current == get_event_loss_counter(loss) IN
       IF current > event_loss_count_
       THEN /\ out_lost' = out_lost + (current - event_loss_count_)
            /\ event_loss_count_' = current
       ELSE UNCHANGED <<out_lost, event_loss_count_>>

PollEventLoss ==
    /\ pc = "loss"
    /\ poll_event_loss
    /\ pc' = IF do_ring THEN "ring" ELSE "check"
    /\ UNCHANGED <<script, phase, next, attached, ring, skb, skb_left, locals, flags,
                   exit_code, alive, loss, total_lost, rval, signals, history>>

\* ring_buffer__poll: a timeout, or records until the buffer is empty.
RingPoll ==
    /\ pc = "ring"
    /\ \/ ring = <<>> /\ pc' = "ring_ret" /\ ready' = 0
       \/ ring # <<>> /\ pc' = "ring_consume" /\ ready' = 1
    /\ UNCHANGED <<script, phase, next, attached, ring, skb, skb_left, drain, do_skb,
                   do_ring, flags, exit_code, alive, loss, losses, rval, signals,
                   history>>

\* libbpf goes on while there is data and the callback returns 0, which
\* ringbuf_printer always does.
MoreInRing == ring # <<>>

RingConsume ==
    /\ pc = "ring_consume"
    /\ \/ /\ MoreInRing
          /\ event_printer(Head(ring))
          /\ ring' = Tail(ring) /\ UNCHANGED pc
       \/ /\ ~MoreInRing /\ pc' = "ring_ret"
          /\ UNCHANGED <<ring, finalize_, attached, alive, exit_code, history>>
    /\ UNCHANGED <<script, phase, next, skb, skb_left, locals, exitsig_recv,
                   sigusr1_recv, loss, losses, rval, signals>>

RingReturn ==
    /\ pc = "ring_ret"
    /\ \/ should_retry /\ pc' = "skb" /\ UNCHANGED do_ring
       \/ ~should_retry /\ pc' = "check" /\ do_ring' = ~should_stop
    /\ UNCHANGED <<script, phase, next, attached, ring, skb, skb_left, drain, do_skb,
                   ready, flags, exit_code, alive, loss, losses, rval, signals, history>>

\* procmon_ or child_ is there and not alive.
TracedGone_ChildOnly == script.traced = "child" /\ ~alive
TracedGone == script.traced # "none" /\ ~alive

AfterPoll == IF phase = "main" THEN "clear" ELSE "total"

\* The end of an iteration: leave when both buffers are done or the traced
\* process is gone, else run the SIGUSR1 programs and go round again.
Check ==
    /\ pc = "check"
    /\ \/ /\ (~do_skb /\ ~do_ring) \/ TracedGone
          /\ pc' = AfterPoll
          /\ UNCHANGED <<ring, skb, loss, fate, sigusr1_recv, late>>
       \/ /\ (do_skb \/ do_ring) /\ ~TracedGone
          /\ IF sigusr1_recv /\ script.signal # {}
             THEN \/ /\ \E a \in script.signal : Output([from |-> "signal", act |-> a])
                     /\ pc' = "skb"
                     /\ Late("usr1")
                  \/ pc' = AfterPoll       \* Failed to run signal probe
                     /\ UNCHANGED <<ring, skb, loss, fate, late>>
             ELSE pc' = "skb" /\ UNCHANGED <<ring, skb, loss, fate, late>>
          /\ sigusr1_recv' = FALSE
    /\ UNCHANGED <<script, phase, next, attached, skb_left, locals, finalize_,
                   exitsig_recv, exit_code, alive, losses, rval, signals>>
-----------------------------------------------------------------------------
(***************************************************************************)
(* run(): after the main poll_output.                                      *)
(***************************************************************************)
DetachAll_Not == UNCHANGED attached
DetachAll     == attached' = {}

ClearProbes ==
    /\ pc = "clear" /\ pc' = "reset"
    /\ DetachAll
    /\ UNCHANGED <<script, phase, next, ring, skb, skb_left, locals, flags, exit_code,
                   alive, loss, losses, rval, signals, history>>

ClearFlags_NotFinalize == exitsig_recv' = FALSE /\ UNCHANGED finalize_
ClearFlags == finalize_' = FALSE /\ exitsig_recv' = FALSE

ResetFlags ==
    /\ pc = "reset" /\ pc' = "end"
    /\ phase' = "end"
    /\ ClearFlags
    /\ UNCHANGED <<script, next, attached, ring, skb, skb_left, locals, sigusr1_recv,
                   exit_code, alive, loss, losses, rval, signals, history>>

RunEnd ==
    /\ pc = "end"
    /\ \/ /\ script.end # {}
          /\ \E a \in script.end : Output([from |-> "end", act |-> a])
          /\ PollOutput("end", TRUE) /\ UNCHANGED rval
       \/ /\ script.end = {}
          /\ PollOutput("end", TRUE) /\ UNCHANGED <<rval, ring, skb, loss, fate>>
       \/ /\ script.end # {}          \* bpf_prog_test_run_opts failed
          /\ Return(-1) /\ UNCHANGED <<phase, locals, ring, skb, loss, fate>>
    /\ UNCHANGED <<script, next, attached, skb_left, flags, exit_code, alive, losses,
                   signals, late>>

TotalLost ==
    /\ pc = "total"
    /\ total_lost' = get_event_loss_counter(loss)
    /\ Return(0)
    /\ UNCHANGED <<script, phase, next, attached, ring, skb, skb_left, locals, flags,
                   exit_code, alive, loss, event_loss_count_, out_lost, signals,
                   history>>

\* run() has returned; run_bpftrace() restores the default handlers and exits.
Done == pc = "done" /\ UNCHANGED vars

Main ==
    \/ Prepare \/ RunBegin \/ SetupChild \/ AttachForward \/ AttachReverse \/ Start \/ RunIter
    \/ SkbPoll \/ SkbConsume \/ SkbReturn \/ PollEventLoss
    \/ RingPoll \/ RingConsume \/ RingReturn \/ Check
    \/ ClearProbes \/ ResetFlags \/ RunEnd \/ TotalLost
Environment == ProbeFires \/ TracedExits \/ ExitSignal \/ Usr1Signal

Next == Main \/ Environment \/ Done

Spec     == Init /\ [][Next]_vars
\* The thread of run() is scheduled; nothing is assumed of the other actors.
FairSpec == Spec /\ WF_vars(Main)
-----------------------------------------------------------------------------
(***************************************************************************)
(* Properties.                                                             *)
(***************************************************************************)
\* run() went to its end: no error, no dry run.
Finished == pc = "done" /\ rval = 0 /\ ~script.dry_run

\* A finished run in whose last drain no SIGUSR1 program ran has left nothing unread
\* in the two buffers: all that was emitted, by the end probe too, went through
\* event_printer, whatever signals interrupted.
BuffersDrained == (Finished /\ "usr1" \notin late) => ring = <<>> /\ skb = <<>>

\* The end probe's event is heard however the run came to its end (exit(), an
\* exit signal, death of the traced process), unless a further request to stop,
\* by signal or by a leftover exit(), is seen after the reset of the flags.
EndEventHeard ==
    late \cap {"signal", "exit"} = {} =>
       /\ fate["end"] # "ignored"
       /\ (Finished /\ script.end # {}) => fate["end"] \in {"handled", "lost"}

\* In a buffer the begin event is the first one and no event of an attached probe
\* is behind the end event.
Ordered(q) ==
    \A i \in DOMAIN q :
       /\ q[i].from = "begin" => i = 1
       /\ q[i].from = "end" => \A j \in i .. Len(q) : q[j].from # "probe"

\* `begin` comes before all other probes are attached and `end` after all other
\* probes are detached.
BeginFirstEndLast == /\ Ordered(ring) /\ Ordered(skb)
                     /\ fate["end"] # "none" => attached = {}

\* Once finalization is requested nothing is attached any more, so the ring
\* buffer cannot be refilled while event_printer discards it.
FinalizeDetaches == finalize_ => attached = {}

\* Every loss told to the output happened, and none is told twice.
LossNotOverstated == /\ out_lost = event_loss_count_
                     /\ out_lost <= Sum(loss, NCpus)

\* At the end of the run every lost event has been told to the output and is in
\* the total, unless a SIGUSR1 program ran in the last drain.
LossAllReported ==
    (Finished /\ "usr1" \notin late)
       => out_lost = Sum(loss, NCpus) /\ total_lost = Sum(loss, NCpus)

\* exit(), SIGINT and SIGTERM end the run, even when the probes never stop firing:
\* the first event read after the request detaches them.  The run of a script with
\* nothing to wait for ends by itself.  The death of the traced process ends the
\* run too, provided that the reader catches up with the probes again and again.
RunEnds ==
    /\ (finalize_ \/ exitsig_recv) ~> (pc = "done")
    /\ (script.probes = <<>> /\ script.signal = {}) ~> (pc = "done")
    /\ ([]<>(pc # "ring_consume") /\ <>(~alive)) => <>(pc = "done")

\* What skboutput() sends is read although nothing else happens, provided that the
\* reader catches up with the ring buffer again and again.  (An interruption of the
\* poll by SIGUSR1 ends the reading of the perf buffer until the end of the run.)
SkbHeard ==
    ([]<>(pc # "ring_consume") /\ [](nusr1 = 0))
       => ((skb # <<>>) ~> ((pc = "skb_consume" /\ skb_left > 0) \/ skb = <<>> \/ pc = "done"))

\* "The END probe will still trigger (if specified)" when the script calls exit(),
\* and the flags are reset because "otherwise event_printer() can ignore the `end`
\* events": the end event is never ignored.
EndNeverIgnored == fate["end"] # "ignored"
==============================================================================
