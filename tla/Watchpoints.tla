----------------------------- MODULE Watchpoints -----------------------------
(***************************************************************************)
(* Watchpoints on the argument of a function (watchpoint:f+argN).          *)
(*                                                                         *)
(* A setup probe at the entry of f stops the tracee with SIGSTOP, unless   *)
(* the watchpoint is asynchronous, and sends the address through the ring  *)
(* buffer.  AsyncHandlers::watchpoint_attach attaches the real watchpoint  *)
(* and lets the tracee continue; watchpoint_detach serves unwatch().       *)
(* Every attachment of one watchpoint refers to the same Probe object,     *)
(* whose address the next attachment overwrites.                           *)
(***************************************************************************)
EXTENDS Integers, Sequences, SequencesExt, FiniteSets

CONSTANTS
    Probes,        \* the watchpoint probes of the script, by watchpoint_idx
    AsyncProbes,   \* those of them written asyncwatchpoint
    Args,          \* what a probed function may be called with, per probe
    Threads,       \* of the tracee
    UnwatchArgs,   \* what the script gives to unwatch()
    HwRegisters,   \* debug registers
    RingSize,      \* events the ring buffer holds
    MissingError,  \* missing_probes = error
    HasChild,      \* the tracee is the command of -c, not the process of -p
    MayFinalize,   \* exit() or an exit signal may end the run
    MaxCalls,      \* bound on the calls of probed functions
    MaxUnwatch     \* bound on the calls of unwatch()

Addrs == (UNION {Args[p] : p \in Probes}) \cup UnwatchArgs \cup {0}

ASSUME WatchAssumption ==
    /\ IsFiniteSet(Probes) /\ AsyncProbes \subseteq Probes
    /\ Args \in [Probes -> SUBSET Nat] /\ \A p \in Probes : IsFiniteSet(Args[p])
    /\ UnwatchArgs \subseteq Nat
    /\ HwRegisters \in Nat /\ RingSize \in Nat /\ MaxCalls \in Nat /\ MaxUnwatch \in Nat
    /\ MissingError \in BOOLEAN /\ HasChild \in BOOLEAN /\ MayFinalize \in BOOLEAN

VARIABLES
    address,           \* Probe::address of each watchpoint probe, shared by its attachments
    attached_probes_,  \* the attached setup probes and watchpoints; bp is bp_addr
    ring,              \* events not yet handled
    phase,             \* of bpftrace: which events event_printer handles
    tracee,            \* "stopping": a SIGSTOP is pending
    call,              \* the call of a probed function each thread is in
    next_call, next_unwatch,  \* counters of the environment
    lost               \* history: an event did not fit in the ring buffer

vars == <<address, attached_probes_, ring, phase, tracee, call, next_call,
          next_unwatch, lost>>

Phases   == {"run", "finalizing", "drain", "done", "fatal"}
Idle     == [probe |-> "none", arg |-> 0]
Calls    == {[probe |-> p, arg |-> a] : p \in Probes, a \in Addrs}
Events   == [act : {"attach"}, probe : Probes, addr : Addrs]
                \cup [act : {"detach"}, addr : Addrs]
Attached == [kind : {"setup", "watch"}, probe : Probes, bp : Addrs]

TypeOK ==
    /\ address \in [Probes -> Addrs]
    /\ attached_probes_ \in Seq(Attached)
    /\ ring \in Seq(Events) /\ Len(ring) <= RingSize
    /\ phase \in Phases /\ tracee \in {"running", "stopping", "stopped", "dead"}
    /\ call \in [Threads -> Calls \cup {Idle}]
    /\ next_call \in 0 .. MaxCalls /\ next_unwatch \in 0 .. MaxUnwatch
    /\ lost \in BOOLEAN

Setup(p) == [kind |-> "setup", probe |-> p, bp |-> 0]
Watch(p, a) == [kind |-> "watch", probe |-> p, bp |-> a]

Init ==
    /\ address = [p \in Probes |-> 0]
    /\ attached_probes_ = SetToSeq({Setup(p) : p \in Probes})
    /\ ring = <<>> /\ phase = "run" /\ tracee = "running"
    /\ call = [t \in Threads |-> Idle]
    /\ next_call = 0 /\ next_unwatch = 0 /\ lost = FALSE
-----------------------------------------------------------------------------
IsAttached(a) == \E i \in DOMAIN attached_probes_ : attached_probes_[i] = a

CreateOutput(e) ==
    IF Len(ring) < RingSize THEN ring' = Append(ring, e) /\ UNCHANGED lost
                            ELSE lost' = TRUE /\ UNCHANGED ring

\* The setup probe: SIGSTOP first, then the event.  The signal is delivered
\* before the calling thread goes on; other threads run until the group stop.
Enter(t, p, a) ==
    /\ tracee \in {"running", "stopping"} /\ call[t] = Idle
    /\ next_call < MaxCalls
    /\ IsAttached(Setup(p))
    /\ call' = [call EXCEPT ![t] = [probe |-> p, arg |-> a]]
    /\ next_call' = next_call + 1
    /\ tracee' = IF p \in AsyncProbes THEN tracee ELSE "stopping"
    /\ CreateOutput([act |-> "attach", probe |-> p, addr |-> a])
    /\ UNCHANGED <<address, attached_probes_, phase, next_unwatch>>

Leave(t) ==
    /\ tracee = "running" /\ call[t] # Idle
    /\ call' = [call EXCEPT ![t] = Idle]
    /\ UNCHANGED <<address, attached_probes_, ring, phase, tracee, next_call,
                   next_unwatch, lost>>

GroupStop ==
    /\ tracee = "stopping" /\ tracee' = "stopped"
    /\ UNCHANGED <<address, attached_probes_, ring, phase, call, next_call,
                   next_unwatch, lost>>

\* A program of the script calls unwatch().
Unwatch(a) ==
    /\ phase = "run" /\ next_unwatch < MaxUnwatch
    /\ next_unwatch' = next_unwatch + 1
    /\ CreateOutput([act |-> "detach", addr |-> a])
    /\ UNCHANGED <<address, attached_probes_, phase, tracee, call, next_call>>
-----------------------------------------------------------------------------
Handling(act) == phase \in {"run", "drain"} /\ ring # <<>> /\ Head(ring).act = act

Watches == {i \in DOMAIN attached_probes_ : attached_probes_[i].kind = "watch"}

\* AttachedWatchpointProbe::make: a debug register for the address, or an error.
CanAttach == Cardinality(Watches) < HwRegisters

\* Duplicate watchpoints: "this check works b/c we set Probe::addr below".
Duplicate_AnyProbe(p, a) == \E q \in Probes : address[q] = a
Duplicate_Never(p, a) == FALSE
Duplicate(p, a) == address[p] = a

\* SIGCONT also discards a SIGSTOP that is pending.  Asynchronous watchpoints are
\* not stopped.
resume_tracee_Async(p) ==
    tracee' = IF p \in AsyncProbes /\ tracee \in {"stopping", "stopped"} THEN "running" ELSE tracee
resume_tracee(p) ==
    tracee' = IF p \notin AsyncProbes /\ tracee \in {"stopping", "stopped"}
              THEN "running" ELSE tracee

\* The exception for a watchpoint that cannot be attached ends bpftrace.
watchpoint_attach ==
    /\ Handling("attach")
    /\ LET p == Head(ring).probe
           a == Head(ring).addr
       IN  \/ /\ Duplicate(p, a)
              /\ resume_tracee(p)
              /\ UNCHANGED <<address, attached_probes_, phase>>
           \/ /\ ~Duplicate(p, a) /\ (CanAttach \/ ~MissingError)
              /\ address' = [address EXCEPT ![p] = a]
              /\ attached_probes_' = IF CanAttach THEN Append(attached_probes_, Watch(p, a))
                                                  ELSE attached_probes_
              /\ resume_tracee(p)
              /\ UNCHANGED phase
           \/ /\ ~Duplicate(p, a) /\ ~CanAttach /\ MissingError
              /\ address' = [address EXCEPT ![p] = a]
              /\ phase' = "fatal"
              /\ UNCHANGED <<attached_probes_, tracee>>
    /\ ring' = Tail(ring)
    /\ UNCHANGED <<call, next_call, next_unwatch, lost>>

\* ap->probe().address: that of the shared Probe object.
ProbeAddress(ap) == IF ap.kind = "setup" THEN 0 ELSE address[ap.probe]

watchpoint_detach_First ==
    /\ Handling("detach")
    /\ LET Gone == {i \in DOMAIN attached_probes_ :
                        ProbeAddress(attached_probes_[i]) = Head(ring).addr}
       IN  attached_probes_' =
               IF Gone = {} THEN attached_probes_
               ELSE RemoveAt(attached_probes_, CHOOSE i \in Gone : \A j \in Gone : i <= j)
    /\ ring' = Tail(ring)
    /\ UNCHANGED <<address, phase, tracee, call, next_call, next_unwatch, lost>>

\* The place in S that k - 1 others are before, and what a sequence has at the
\* places in S: SelectSeq, without recursion.
Place(S, k) == CHOOSE i \in S : Cardinality({j \in S : j <= i}) = k
Only(s, S) == [k \in 1 .. Cardinality(S) |-> s[Place(S, k)]]

watchpoint_detach ==
    /\ Handling("detach")
    /\ attached_probes_' =
           Only(attached_probes_, {i \in DOMAIN attached_probes_ :
                                       ProbeAddress(attached_probes_[i]) # Head(ring).addr})
    /\ ring' = Tail(ring)
    /\ UNCHANGED <<address, phase, tracee, call, next_call, next_unwatch, lost>>

\* finalize_ is set: event_printer drops what it reads.
Ignore ==
    /\ phase = "finalizing" /\ ring # <<>>
    /\ ring' = Tail(ring)
    /\ UNCHANGED <<address, attached_probes_, phase, tracee, call, next_call,
                   next_unwatch, lost>>

\* exit(), or an exit signal seen by event_printer.
request_finalize ==
    /\ MayFinalize /\ phase = "run" /\ phase' = "finalizing"
    /\ attached_probes_' = <<>>
    /\ UNCHANGED <<address, ring, tracee, call, next_call, next_unwatch, lost>>

\* The main loop is left; the flags are reset and what is left is handled.
LeaveLoop ==
    /\ \/ phase = "finalizing"
       \/ phase = "run" /\ MayFinalize      \* a poll was interrupted by an exit signal
    /\ phase' = "drain" /\ attached_probes_' = <<>>
    /\ UNCHANGED <<address, ring, tracee, call, next_call, next_unwatch, lost>>

\* ~ChildProc kills the command.
Return ==
    /\ phase = "drain" /\ ring = <<>>
    /\ phase' = "done" /\ attached_probes_' = <<>>
    /\ tracee' = IF HasChild THEN "dead" ELSE tracee
    /\ UNCHANGED <<address, ring, call, next_call, next_unwatch, lost>>

Waiting == phase \in {"run", "done", "fatal"} /\ UNCHANGED vars

bpftrace == watchpoint_attach \/ watchpoint_detach \/ Ignore \/ Return
                \/ (phase = "finalizing" /\ LeaveLoop)

Next == \/ \E t \in Threads : \/ \E p \in Probes : \E a \in Args[p] : Enter(t, p, a)
                              \/ Leave(t)
        \/ GroupStop \/ \E a \in UnwatchArgs : Unwatch(a)
        \/ watchpoint_attach \/ watchpoint_detach \/ Ignore
        \/ request_finalize \/ LeaveLoop \/ Return \/ Waiting

Spec == Init /\ [][Next]_vars
\* bpftrace goes on reading its ring buffer.
FairSpec == Spec /\ WF_vars(bpftrace)
-----------------------------------------------------------------------------
(***************************************************************************)
(* Properties.                                                             *)
(***************************************************************************)
InCall(t, p) == call[t] # Idle /\ call[t].probe = p

\* The function of p is always called with the same address.
OneAddress(p) == Cardinality(Args[p]) = 1

\* "The tracee will be SIGCONTed after the watchpoint is attached.  This is to
\* ensure events are not missed": while a tracee of one thread runs inside a call of
\* a synchronous probe, the address of the call is watched, unless unwatch() was used.
NoEventMissed ==
    (phase = "run" /\ tracee = "running" /\ next_unwatch = 0) =>
        \A t \in Threads, p \in Probes \ AsyncProbes :
            InCall(t, p) => IsAttached(Watch(p, call[t].arg))

\* "The tracee will be SIGCONTed after the watchpoint is attached": it is not left
\* stopped, unless its event was lost or bpftrace ended by an exception.
TraceeContinues ==
    (tracee = "stopped") ~> (tracee \in {"running", "dead"} \/ lost \/ phase = "fatal")

\* "Ignore duplicate watchpoints (idx && addr same)": an address is watched twice for
\* one probe only when another address of that probe came in between.
RepeatedOnlyAfterAnother ==
    \A i, j \in Watches : (i < j /\ attached_probes_[i] = attached_probes_[j]) =>
        \E k \in Watches : /\ i < k /\ k < j
                           /\ attached_probes_[k].probe = attached_probes_[i].probe
                           /\ attached_probes_[k].bp # attached_probes_[i].bp

\* The watchpoints of a function with one address go exactly when unwatch() of that
\* address is handled, and no setup probe ever goes by unwatch() of an address.
DetachesOne ==
    watchpoint_detach =>
        \A i \in DOMAIN attached_probes_ :
            LET ap == attached_probes_[i]
                Stays == \E j \in DOMAIN attached_probes_' : attached_probes_'[j] = ap
            IN  /\ ap.kind = "setup" => Stays
                /\ (ap.kind = "watch" /\ OneAddress(ap.probe)) => (Stays <=> ap.bp # Head(ring).addr)
UnwatchOne == [][DetachesOne]_vars

\* "Remove all probes watching `addr`": when unwatch(addr) is handled, exactly the
\* watchpoints of that address go; every other probe stays.
UnwatchExact ==
    [][watchpoint_detach =>
          attached_probes_' = SelectSeq(attached_probes_,
              LAMBDA ap : ~(ap.kind = "watch" /\ ap.bp = Head(ring).addr))]_vars
=============================================================================
