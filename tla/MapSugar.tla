------------------------------ MODULE MapSugar ------------------------------
(***************************************************************************)
(* Maps with and without keys (ast/passes/map_sugar.cpp): the first use of *)
(* a map in the script says whether it is a scalar, uses without a key are *)
(* given the key 0, map functions are given the map they are assigned to,  *)
(* and is_scalar() becomes a constant that decides which branches are      *)
(* compiled.  Uses that do not fit are only marked, and reported by the    *)
(* semantic analyser when it comes to them: the branch may be gone by then.*)
(*                                                                         *)
(* Maps do not meet each other in this, so a script is the uses of one.    *)
(***************************************************************************)
EXTENDS Naturals, Sequences

\* the scripts: sequences of uses, [k, keyed, when]
CONSTANT MapScripts

VARIABLES
    accesses,  \* the uses of the map: [k, keyed, when, form, key]
    mapPass,   \* what runs: "default", "assign", "scalar", "check" or "done"
    visiting,  \* the use it comes to
    scalar,    \* MapMetadata::scalar: {} while the map is unknown
    bad,       \* the marks, [set, use]
    mapErrors  \* the uses that were reported

mapVars == <<accesses, mapPass, visiting, scalar, bad, mapErrors>>

(* A use is                                                                *)
(*   "access"     @a or @a[k], read or assigned                            *)
(*   "aggregate"  @a = count(), @a[k] = count() and the like               *)
(*   "delete"     delete(@a), delete(@a, k); "delete_old" is delete(@a[k]) *)
(*   "has_key"    has_key(@a, k)                                           *)
(*   "for"        for ($kv : @a) { }                                       *)
(*   "print"      print(@a), clear(@a), zero(@a): of a map of either kind  *)
(*   "typeof"     typeof(@a)                                               *)
(* and it is reached "always", in a branch that is never compiled, or if   *)
(* the map is_scalar(), or if not.                                         *)
UseOf(k, keyed, when) == [k |-> k, keyed |-> keyed, when |-> when]
Whens == {"always", "never", "scalar", "keyed"}
KeyedKinds == {"delete_old", "has_key", "for"}
PlainKinds == {"print", "typeof"}
MapUses ==
    {UseOf(k, keyed, w) : k \in {"access", "aggregate", "delete"}, keyed \in BOOLEAN, w \in Whens}
    \cup {UseOf(k, TRUE, w) : k \in KeyedKinds, w \in Whens}
    \cup {UseOf(k, FALSE, w) : k \in PlainKinds, w \in Whens}

ASSUME UsesAssumption == MapScripts \subseteq Seq(MapUses)

\* What kind of map a use is for; none of them for both.
Wants(u) ==
    CASE u.k \in {"access", "aggregate", "delete"} -> {u.keyed}
      [] u.k \in {"has_key", "for", "delete_old"} -> {TRUE}
      [] OTHER -> {}

\* The uses that decide about the map when they come first.
FirstOf(s, u(_)) == {i \in DOMAIN s : u(s[i]) /\ \A j \in 1 .. i - 1 : ~u(s[j])}
Decides(u) == Wants(u) # {} \/ u.k = "typeof"
Keyed(u) == Wants(u) = {TRUE}

\* The first use decides although it is not compiled, or is only a typeof.
WronglyDecided(s) ==
    \E i \in FirstOf(s, Decides) :
        /\ s[i].k = "typeof" \/ s[i].when # "always"
        /\ \E j \in DOMAIN s : Decides(s[j]) /\ Keyed(s[j]) # Keyed(s[i])

\* A map function with a key, after a use without one.
Hidden(s) ==
    \E i \in FirstOf(s, Decides), j \in DOMAIN s :
        ~Keyed(s[i]) /\ s[j].k = "aggregate" /\ Keyed(s[j])

-----------------------------------------------------------------------------
\* MapFunctionAliases: the old form of delete() becomes the other.
Aliased(u) == IF u.k = "delete_old" THEN [u EXCEPT !.k = "delete", !.keyed = TRUE] ELSE u

MapInit ==
    /\ \E s \in MapScripts :
          accesses = [i \in DOMAIN s |->
                     LET u == Aliased(s[i]) IN
                     [k |-> u.k, keyed |-> u.keyed, when |-> u.when,
                      form |-> "access", key |-> IF u.keyed THEN "own" ELSE "none"]]
    /\ mapPass = "default" /\ visiting = 1
    /\ scalar = {} /\ bad = {} /\ mapErrors = {}

\* Mutant: a map stays what it was first, and nothing is marked.
check_Lenient(keyed, set) ==
    scalar' = (IF scalar = {} THEN {~keyed} ELSE scalar) /\ UNCHANGED bad

\* The first use decides; a later one that differs is marked.
check(keyed, set) ==
    /\ scalar' = (IF scalar = {} THEN {~keyed} ELSE scalar)
    /\ bad' = IF scalar = {keyed} THEN bad \cup {[set |-> set, use |-> visiting]} ELSE bad

checkAccess(keyed) == check(keyed, IF keyed THEN "bad_scalar_access" ELSE "bad_indexed_access")
checkCall(keyed) == check(keyed, IF keyed THEN "bad_scalar_call" ELSE "bad_indexed_call")

Sugared(form, key) == accesses' = [accesses EXCEPT ![visiting].form = form, ![visiting].key = key]
WithDefault(u) == IF u.key = "none" THEN "default" ELSE u.key

\* MapDefaultKey comes to the next use.
MapDefaultKey ==
    /\ mapPass = "default" /\ visiting <= Len(accesses)
    /\ LET u == accesses[visiting] IN
       \/ /\ u.k \in {"access", "aggregate"}
          /\ checkAccess(u.keyed)
          /\ Sugared("access", WithDefault(u))
       \/ /\ u.k = "delete"
          /\ checkCall(u.keyed)
          /\ Sugared("call", WithDefault(u))
       \/ /\ u.k = "has_key"
          /\ checkCall(TRUE)
          /\ Sugared("call", "own")
       \/ /\ u.k = "for"
          /\ check(TRUE, "bad_iterator")
          /\ Sugared("iterable", "none")
       \/ /\ u.k = "print" \/ (u.k = "typeof" /\ scalar = {FALSE})
          /\ Sugared("map", "none")
          /\ UNCHANGED <<scalar, bad>>
       \/ /\ u.k = "typeof" /\ scalar # {FALSE}
          /\ checkAccess(FALSE)
          /\ Sugared("access", "default")
    /\ visiting' = visiting + 1
    /\ UNCHANGED <<mapPass, mapErrors>>

EndDefaultKey ==
    /\ mapPass = "default" /\ visiting > Len(accesses)
    /\ mapPass' = "assign"
    /\ UNCHANGED <<accesses, visiting, scalar, bad, mapErrors>>

\* A map function takes the map and the key as arguments, and the access is gone.
MapAssignmentCall ==
    /\ mapPass = "assign"
    /\ accesses' = [i \in DOMAIN accesses |->
                   IF accesses[i].k = "aggregate" THEN [accesses[i] EXCEPT !.form = "call"] ELSE accesses[i]]
    /\ mapPass' = "scalar"
    /\ UNCHANGED <<visiting, scalar, bad, mapErrors>>

\* What is_scalar() said becomes the condition of a branch.
IsScalar == scalar = {TRUE}
Compiled(u) ==
    CASE u.when = "always" -> TRUE
      [] u.when = "never" -> FALSE
      [] u.when = "scalar" -> IsScalar
      [] u.when = "keyed" -> ~IsScalar

\* is_scalar() of a map that nothing else uses is an error.
MapScalarCheck ==
    /\ mapPass = "scalar"
    /\ LET asks == {i \in DOMAIN accesses : accesses[i].when \in {"scalar", "keyed"}} IN
       mapErrors' = IF scalar = {} THEN asks ELSE {}
    /\ mapPass' = IF mapErrors' = {} THEN "check" ELSE "done"
    /\ visiting' = 1
    /\ UNCHANGED <<accesses, scalar, bad>>

\* The marks the semantic analyser looks at for a node.
Looked(u) ==
    CASE u.form = "access" -> {"bad_scalar_access", "bad_indexed_access"}
      [] u.form = "call" -> {"bad_indexed_access"} \cup
            (IF u.k \in {"delete", "has_key"} THEN {"bad_scalar_call", "bad_indexed_call"} ELSE {})
      [] u.form = "iterable" -> {"bad_iterator"}
      [] u.form = "map" -> {"bad_indexed_access"}

\* The semantic analyser visits the uses in the branches that are left.
SemanticCheck ==
    /\ mapPass = "check" /\ visiting <= Len(accesses)
    /\ mapErrors' = IF /\ Compiled(accesses[visiting])
                       /\ \E set \in Looked(accesses[visiting]) : [set |-> set, use |-> visiting] \in bad
                    THEN mapErrors \cup {visiting} ELSE mapErrors
    /\ visiting' = visiting + 1
    /\ UNCHANGED <<accesses, mapPass, scalar, bad>>

EndCheck ==
    /\ mapPass = "check" /\ visiting > Len(accesses)
    /\ mapPass' = "done"
    /\ UNCHANGED <<accesses, visiting, scalar, bad, mapErrors>>

MapNext ==
    \/ MapDefaultKey \/ EndDefaultKey
    \/ MapAssignmentCall \/ MapScalarCheck
    \/ SemanticCheck \/ EndCheck

MapSpec == MapInit /\ [][MapNext]_mapVars

-----------------------------------------------------------------------------
Live == {i \in DOMAIN accesses : Compiled(accesses[i])}
Agree == \A i, j \in Live : Wants(accesses[i]) \cup Wants(accesses[j]) # BOOLEAN

(* A script compiles exactly if the uses of a map that are compiled are    *)
(* all for a scalar or all for a map with keys (docs/language.md, Maps     *)
(* without Explicit Keys; tests/semantic_analyser.cpp:361 and 5619), in    *)
(* whatever order they stand; then the map is taken for what they are for, *)
(* and each of them has its own key or the default one.                    *)
MapsAsWritten ==
    mapPass = "done" =>
        /\ mapErrors = {} => Agree
        /\ mapErrors # {} => ~Agree \/ scalar = {}
        /\ mapErrors = {} =>
              \A i \in Live :
                  /\ Wants(accesses[i]) # {} => scalar = {~keyed : keyed \in Wants(accesses[i])}
                  /\ accesses[i].k \in {"access", "aggregate", "delete", "has_key"} =>
                        accesses[i].key = IF accesses[i].keyed THEN "own" ELSE "default"
=============================================================================
