------------------------------- MODULE Macros -------------------------------
(***************************************************************************)
(* Macro expansion (ast/passes/macro_expansion.cpp).                       *)
(*                                                                         *)
(* A call of a macro is replaced by a copy of its body.  Scratch variables *)
(* of the body get new names, $$macro_depth_name, so that they are not     *)
(* mistaken for variables of the caller; variables and maps that are       *)
(* arguments get the names the caller has for them; other arguments take   *)
(* the places of their parameters and keep the variables they have.        *)
(* Nothing but these names tells later passes which variable is meant.     *)
(*                                                                         *)
(* A name is a sequence of the parts that underscores separate.  A node is *)
(* [k, name, own, site, kids].  own is not in the code: of a variable it   *)
(* says which one is meant, <<expansion, name>>, an expansion being the    *)
(* sites of the calls that led to it.                                      *)
(***************************************************************************)
EXTENDS Integers, Sequences, SequencesExt

CONSTANTS
    Definitions,    \* sequences of macros
    Blocks          \* of probes

VARIABLES
    program,    \* [macros, block]
    registry,   \* MacroRegistry: the definitions that were not refused
    expanded,   \* the block after the pass
    macroOk,    \* no diagnostics
    stage       \* "parsed", "registered" or "expanded"

macroVars == <<program, registry, expanded, macroOk, stage>>

MNode(k, name, kids) == [k |-> k, name |-> name, own |-> <<>>, site |-> 0, kids |-> kids]
VarNode(name) == MNode("var", name, <<>>)
MBlock(stmts, value) == MNode("block", <<>>, Append(stmts, value))

-----------------------------------------------------------------------------
(***************************************************************************)
(* MacroRegistry: a definition is [name, params, block], a parameter a     *)
(* node "var", "map" or "ident".                                           *)
(***************************************************************************)
\* distance() is 0: as many arguments, and a variable or a map where one is wanted.
Matches(macro, args) ==
    /\ Len(macro.params) = Len(args)
    /\ \A i \in DOMAIN args :
          macro.params[i].k \in {"var", "map"} => args[i].k = macro.params[i].k

Named(reg, name) == SelectSeq(reg, LAMBDA m : m.name = name)
Found(reg, name, args) == SelectSeq(Named(reg, name), LAMBDA m : Matches(m, args))

validate(macro) ==
    \A i, j \in DOMAIN macro.params :
        (i # j /\ macro.params[i].k \in {"var", "map"} /\ macro.params[i].k = macro.params[j].k)
            => macro.params[i].name # macro.params[j].name

\* MacroRegistry::create: a definition that an earlier one would serve is refused.
Register ==
    LET Add(reg, m) == IF Found(reg, m.name, m.params) = <<>> /\ validate(m) THEN Append(reg, m) ELSE reg
        all == FoldLeft(Add, <<>>, program.macros)
    IN  /\ stage = "parsed"
        /\ stage' = "registered"
        /\ registry' = all
        /\ macroOk' = (Len(all) = Len(program.macros))
        /\ UNCHANGED <<program, expanded>>

-----------------------------------------------------------------------------
(***************************************************************************)
(* MacroExpander.  Its members that do not change are env: the stack of    *)
(* macros, should_rename, vars_, maps_ and passed_exprs_ by parameter, and *)
(* the expansion (for own).  renamed_vars_ and the diagnostics are         *)
(* threaded through the visit: [node, renamed, ok].                        *)
(***************************************************************************)
NoParams == [n \in {} |-> <<>>]
Expander(stack, rename, expansion) ==
    [stack |-> stack, rename |-> rename, vars |-> NoParams, maps |-> NoParams,
     exprs |-> NoParams, expansion |-> expansion]

rename_ok(env) == env.stack # <<>> /\ env.rename

\* Mutant: the name does not say how deep the call is.
get_new_var_ident_Flat(env, name) == <<"$$">> \o Last(env.stack).name \o name

get_new_var_ident(env, name) ==
    <<"$$">> \o Last(env.stack).name
    \o (IF Len(env.stack) = 1 THEN <<>> ELSE <<ToString(Len(env.stack))>>) \o name

Visit(node, renamed, ok) == [node |-> node, renamed |-> renamed, ok |-> ok]

\* The arguments of kind k by the names of their parameters.
Bound(macro, args, k) ==
    LET is == {i \in DOMAIN args : macro.params[i].k = k}
    IN  [n \in {macro.params[i].name : i \in is} |->
            args[CHOOSE i \in is : macro.params[i].name = n]]

\* Variables and maps are wrapped, so that the body can not assign to them.
Wrapped(arg) == IF arg.k \in {"var", "map"} THEN MBlock(<<>>, arg) ELSE arg

VisitVariable(n, env, renamed, ok) ==
    IF ~rename_ok(env) THEN Visit(n, renamed, ok)
    ELSE LET own == <<env.expansion, n.name>>
             to == CASE n.name \in DOMAIN env.vars ->
                            [n EXCEPT !.name = env.vars[n.name].name, !.own = env.vars[n.name].own]
                     [] n.name \notin DOMAIN env.vars /\ n.name \in renamed ->
                            [n EXCEPT !.name = get_new_var_ident(env, n.name), !.own = own]
                     [] OTHER -> [n EXCEPT !.own = own]
         IN  Visit(to, renamed, ok)

VisitMap(n, env, renamed, ok) ==
    IF ~rename_ok(env) THEN Visit(n, renamed, ok)
    ELSE IF n.name \in DOMAIN env.maps
         THEN Visit([n EXCEPT !.name = env.maps[n.name].name], renamed, ok)
         ELSE Visit(n, renamed, FALSE)

VisitDecl(n, env, renamed, ok) ==
    LET var == n.kids[1] IN
    CASE ~rename_ok(env) -> Visit(n, renamed, ok)
      [] rename_ok(env) /\ var.name \in DOMAIN env.vars -> Visit(n, renamed, FALSE)
      [] OTHER -> LET r == renamed \cup {var.name}
                  IN  Visit([n EXCEPT !.kids[1] = VisitVariable(var, env, r, ok).node], r, ok)

RECURSIVE VisitExpr(_, _, _, _)
RECURSIVE VisitAll(_, _, _, _, _)

VisitAll(kids, i, env, renamed, ok) ==
    IF i > Len(kids) THEN Visit(kids, renamed, ok)
    ELSE LET v == VisitExpr(kids[i], env, renamed, ok)
         IN  VisitAll([kids EXCEPT ![i] = v.node], i + 1, env, v.renamed, v.ok)

VisitDefault(n, env, renamed, ok) ==
    LET v == VisitAll(n.kids, 1, env, renamed, ok)
    IN  Visit([n EXCEPT !.kids = v.node], v.renamed, v.ok)

VisitAssign(n, env, renamed, ok) ==
    IF ~rename_ok(env)
    THEN LET e == VisitExpr(n.kids[2], env, renamed, ok)
         IN  Visit([n EXCEPT !.kids[2] = e.node], e.renamed, e.ok)
    ELSE LET target == IF n.kids[1].k = "decl" THEN n.kids[1].kids[1].name ELSE n.kids[1].name
         IN  VisitDefault(n, env, IF target \in DOMAIN env.vars THEN renamed ELSE renamed \cup {target}, ok)

\* expand(): a copy of the body, visited by an expander of its own.
Expand(macro, n, args, env, renamed) ==
    LET exprs == Bound(macro, args, "ident")
        inner == [Expander(Append(env.stack, macro), TRUE, Append(env.expansion, n.site)) EXCEPT
                    !.vars = Bound(macro, args, "var"),
                    !.maps = Bound(macro, args, "map"),
                    !.exprs = [p \in DOMAIN exprs |-> Wrapped(exprs[p])]]
        v == VisitExpr(macro.block, inner, {}, TRUE)
    IN  Visit(v.node, renamed, v.ok)

\* An identifier that is a parameter, a call of a macro, or another call.
VisitCall(n, env, renamed, ok) ==
    IF n.k = "ident" /\ n.name \in DOMAIN env.exprs
    THEN LET e == VisitExpr(env.exprs[n.name], Expander(env.stack, FALSE, env.expansion), {}, ok)
         IN  Visit(e.node, renamed, e.ok)
    ELSE LET v == VisitDefault(n, env, renamed, ok)
             found == Found(registry, n.name, v.node.kids)
         IN  CASE Named(registry, n.name) = <<>> -> v
               [] Named(registry, n.name) # <<>> /\ found = <<>> -> [v EXCEPT !.ok = FALSE]
               [] found # <<>> /\ found[1] \in ToSet(env.stack) -> [v EXCEPT !.ok = FALSE]
               [] OTHER -> LET x == Expand(found[1], n, v.node.kids, env, v.renamed)
                           IN  [x EXCEPT !.ok = @ /\ v.ok]

VisitExpr(n, env, renamed, ok) ==
    CASE n.k = "var" -> VisitVariable(n, env, renamed, ok)
      [] n.k = "map" -> VisitMap(n, env, renamed, ok)
      [] n.k = "decl" -> VisitDecl(n, env, renamed, ok)
      [] n.k = "assign" -> VisitAssign(n, env, renamed, ok)
      [] n.k \in {"ident", "call"} -> VisitCall(n, env, renamed, ok)
      [] OTHER -> VisitDefault(n, env, renamed, ok)

\* Nothing is expanded when a definition was refused.
MacroExpansion ==
    LET v == VisitExpr(program.block, Expander(<<>>, TRUE, <<>>), {}, TRUE)
    IN  /\ stage = "registered"
        /\ stage' = "expanded"
        /\ expanded' = IF macroOk THEN v.node ELSE program.block
        /\ macroOk' = (macroOk /\ v.ok)
        /\ UNCHANGED <<program, registry>>

MacroInit ==
    /\ program \in [macros : Definitions, block : Blocks]
    /\ registry = <<>>
    /\ expanded = program.block
    /\ macroOk = TRUE
    /\ stage = "parsed"

MacroNext == Register \/ MacroExpansion

-----------------------------------------------------------------------------
(***************************************************************************)
(* SemanticAnalyser: which definition each occurrence of a variable is     *)
(* bound to.  The state is the open scopes, the inner first, each a        *)
(* function from variables to definitions, the number of definitions, the  *)
(* bindings in order, and whether all variables were found.  Variables are *)
(* told apart by their names, as in the code, or by what they mean.        *)
(***************************************************************************)
Key(v, by) == IF by = "name" THEN v.name ELSE v.own
Visible(s, key) == SelectSeq(s.scopes, LAMBDA scope : key \in DOMAIN scope)

Bind(s, key) == [s EXCEPT !.bound = Append(@, Visible(s, key)[1][key])]
Define(s, key) ==
    [s EXCEPT !.scopes[1] = (key :> s.defs) @@ @, !.defs = @ + 1, !.bound = Append(@, s.defs)]

\* An assignment defines what is not visible; a declaration must not find it.
Target(s, n, by) ==
    LET key == Key(IF n.k = "decl" THEN n.kids[1] ELSE n, by)
    IN  CASE Visible(s, key) = <<>> -> Define(s, key)
          [] n.k = "decl" /\ Visible(s, key) # <<>> -> [s EXCEPT !.ok = FALSE]
          [] n.k # "decl" /\ Visible(s, key) # <<>> -> Bind(s, key)

RECURSIVE Resolve(_, _, _)
Resolve(s, n, by) ==
    LET InTurn(kids, t) == FoldLeft(LAMBDA u, kid : Resolve(u, kid, by), t, kids)
    IN  CASE ~s.ok -> s
          [] s.ok /\ n.k = "var" ->
                IF Visible(s, Key(n, by)) # <<>> THEN Bind(s, Key(n, by)) ELSE [s EXCEPT !.ok = FALSE]
          [] s.ok /\ n.k = "assign" -> Target(Resolve(s, n.kids[2], by), n.kids[1], by)
          [] s.ok /\ n.k = "decl" -> Target(s, n, by)
          [] s.ok /\ n.k = "block" ->
                [InTurn(n.kids, [s EXCEPT !.scopes = <<NoParams>> \o @]) EXCEPT !.scopes = Tail(@)]
          [] OTHER -> InTurn(n.kids, s)

Bindings(block, by) ==
    LET s == Resolve([scopes |-> <<>>, defs |-> 1, bound |-> <<>>, ok |-> TRUE], block, by)
    IN  IF s.ok THEN s.bound ELSE <<0>>

RECURSIVE Calls(_)
Calls(n) ==
    UNION {Calls(n.kids[i]) : i \in DOMAIN n.kids}
    \cup (IF n.k \in {"call", "ident"} THEN {n.name} ELSE {})

(***************************************************************************)
(* Invariant: in what accepted macros expand to, every occurrence of a     *)
(* variable is bound to the definition it would be bound to if variables   *)
(* could not be mistaken for one another by their names: one of the macro  *)
(* to one of the same call, one of an argument or a parameter to one of    *)
(* the caller; the script is rejected for a variable only when it would be *)
(* then.  And no call of a macro is left (get_new_var_ident, passed_exprs_ *)
(* and the expander that does not rename).                                 *)
(***************************************************************************)
Hygienic ==
    (stage = "expanded" /\ macroOk) =>
        /\ Bindings(expanded, "name") = Bindings(expanded, "own")
        /\ \A c \in Calls(expanded) : Named(registry, c) = <<>>
=============================================================================
