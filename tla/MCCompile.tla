----------------------------- MODULE MCCompile -----------------------------
(***************************************************************************)
(* The stages a script goes through before it runs, the passes of the      *)
(* compiler and the attachment of its probes, each on its own inputs: one  *)
(* of them runs and the others have nothing to do.                         *)
(***************************************************************************)
EXTENDS Literals, AsyncIds, MCFlow, MCMacros, MCProbes, MCMapSugar, MCScratch, Attachment

MCIntConfig == [s \in {"", "l", "us"} |->
    CASE s = ""   -> [max |-> 31, mult |-> 1]
      [] s = "l"  -> [max |-> 15, mult |-> 1]
      [] s = "us" -> [max |-> 31, mult |-> 3]]
MCTokens == [num : 0 .. 33, exp : 0 .. 2, suffix : DOMAIN MCIntConfig]

\* Scripts of three probes for the attachment: two kinds of every way to attach, and
\* pairs of one type around another.
MCProbeLists ==
    {<<a, b, a>> : a, b \in {"profile", "watchpoint", "interval", "tracepoint", "kprobe"}}
    \cup {<<"software", "fentry">>, <<"hardware", "uprobe", "kretprobe">>, <<"kprobe">>}

-----------------------------------------------------------------------------
(* Scripts.  A site is the path of a node, so that no two are the same. *)
Call0(k, l) == Node(k, l, <<Leaf>>)
Simple(l) == {Leaf, Call0("strftime", l), Call0("cgroup_path", l), Call0("str", l)}
Pairs(k, l) == {Node(k, l, <<a, b>>) : a \in Simple(l \o <<1>>), b \in Simple(l \o <<2>>)}

Exprs(l) ==
    Simple(l) \cup Pairs("binop", l) \cup Pairs("index", l)
    \cup {Node("str_if", l, <<Call0("str", l \o <<1>>), a, b>>) :
            a \in Simple(l \o <<2>>), b \in Simple(l \o <<3>>)}

Plain(l) ==
    {Node(k, l, <<e>>) : k \in {"printf", "print"}, e \in Exprs(l \o <<1>>)}
    \cup {Node("let", l, <<Node("typeof", l, <<t>>), e>>) :
            t \in Simple(l \o <<1>>), e \in Simple(l \o <<2>>)}
    \cup Pairs("assign", l) \cup Pairs("hist", l) \cup Pairs("while", l)

Unrolled(l) ==
    {[Node("unroll", l, <<a, b>>) EXCEPT !.n = n] :
        n \in 1 .. 3, a \in Pairs("printf", l \o <<1>>), b \in Pairs("print", l \o <<2>>)}

AllScripts ==
    {<<s, t>> : s \in Plain(<<1>>), t \in {Node("printf", <<2>>, <<e>>) : e \in Simple(<<3>>)}}
    \cup {<<s, Node("printf", <<2>>, <<e>>)>> : s \in Unrolled(<<1>>), e \in Simple(<<3>>)}

(* Codegen is known to walk the two parts of an assignment, of a histogram *)
(* and of an array access the other way round, and to leave out a typeof.  *)
RECURSIVE Takes(_)
Takes(node) == UNION {Takes(node.kids[i]) : i \in DOMAIN node.kids} \cup ({node.k} \ {"str"})

RECURSIVE Ordered(_)
Ordered(node) ==
    /\ \A i \in DOMAIN node.kids : Ordered(node.kids[i])
    /\ node.k \in {"assign", "hist", "index"} =>
          (Takes(node.kids[1]) \cap Takes(node.kids[2])) \cap Kinds = {}
    /\ node.k = "typeof" => Takes(node) \cap Kinds = {}

OrderedScripts == {s \in AllScripts : \A i \in DOMAIN s : Ordered(s[i])}

\* Assignments to a map, with and without ids in the key.
AssignScripts == {<<s>> : s \in Pairs("assign", <<1>>)}

-----------------------------------------------------------------------------
NoScript == /\ script = <<>> /\ pass = "none" /\ table = NoEntries /\ uses = {}
NoLiteral == lit = Unfolded /\ from = [op |-> "none", l |-> Unfolded, r |-> Unfolded]

NoAttachment ==
    /\ to_attach = <<>> /\ pid = FALSE /\ missing_probes = "error"
    /\ others = FALSE /\ dry_run = TRUE
    /\ pc = "gone" /\ at = 0 /\ direction = "forward" /\ todo = <<>> /\ event = NoCpu
    /\ links = {} /\ events = {} /\ attached_probes_ = <<>> /\ failed = {} /\ fails = 0
    /\ exitsig_recv = FALSE /\ rval = "none"

Init ==
    \/ LitInit /\ NoScript /\ NoFlow /\ NoMacros /\ NoProbes /\ NoMaps /\ NoBufferScript /\ NoAttachment
    \/ IdsInit /\ NoLiteral /\ NoFlow /\ NoMacros /\ NoProbes /\ NoMaps /\ NoBufferScript /\ NoAttachment
    \/ FlowInit /\ NoLiteral /\ NoScript /\ NoMacros /\ NoProbes /\ NoMaps /\ NoBufferScript /\ NoAttachment
    \/ MacroInit /\ NoLiteral /\ NoScript /\ NoFlow /\ NoProbes /\ NoMaps /\ NoBufferScript /\ NoAttachment
    \/ ProbeInit /\ NoLiteral /\ NoScript /\ NoFlow /\ NoMacros /\ NoMaps /\ NoBufferScript /\ NoAttachment
    \/ MapInit /\ NoLiteral /\ NoScript /\ NoFlow /\ NoMacros /\ NoProbes /\ NoBufferScript /\ NoAttachment
    \/ BufferInit /\ NoLiteral /\ NoScript /\ NoFlow /\ NoMacros /\ NoProbes /\ NoMaps /\ NoAttachment
    \/ AttachInit /\ NoLiteral /\ NoScript /\ NoFlow /\ NoMacros /\ NoProbes /\ NoMaps /\ NoBufferScript

Next ==
    \/ LitNext /\ UNCHANGED <<idVars, flowVars, macroVars, probeVars, mapVars, bufferVars, attachVars>>
    \/ IdsNext /\ UNCHANGED <<litVars, flowVars, macroVars, probeVars, mapVars, bufferVars, attachVars>>
    \/ FlowNext /\ UNCHANGED <<litVars, idVars, macroVars, probeVars, mapVars, bufferVars, attachVars>>
    \/ MacroNext /\ UNCHANGED <<litVars, idVars, flowVars, probeVars, mapVars, bufferVars, attachVars>>
    \/ ProbeNext /\ UNCHANGED <<litVars, idVars, flowVars, macroVars, mapVars, bufferVars, attachVars>>
    \/ MapNext /\ UNCHANGED <<litVars, idVars, flowVars, macroVars, probeVars, bufferVars, attachVars>>
    \/ BufferNext /\ UNCHANGED <<litVars, idVars, flowVars, macroVars, probeVars, mapVars, attachVars>>
    \/ AttachNext /\ UNCHANGED <<litVars, idVars, flowVars, macroVars, probeVars, mapVars, bufferVars>>

vars == <<litVars, idVars, flowVars, macroVars, probeVars, mapVars, bufferVars, attachVars>>

Spec == Init /\ [][Next]_vars
=============================================================================
