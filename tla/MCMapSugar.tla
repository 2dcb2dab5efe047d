----------------------------- MODULE MCMapSugar -----------------------------
(* Two uses of every kind in every branch, and three in fewer.             *)
EXTENDS MapSugar

Unconditional == {u \in MapUses : u.when = "always"}
Third == Unconditional \cup {UseOf("access", keyed, w) : keyed \in BOOLEAN, w \in Whens}

AllMapScripts == MapUses \X MapUses \cup Third \X Third \X Third

PlainMapScripts == {s \in AllMapScripts : ~WronglyDecided(s) /\ ~Hidden(s)}
HiddenScripts == {s \in AllMapScripts : Hidden(s) /\ ~WronglyDecided(s)}
DecidedScripts == {s \in AllMapScripts : WronglyDecided(s) /\ ~Hidden(s)}

NoMaps ==
    /\ accesses = <<>> /\ mapPass = "done" /\ visiting = 1
    /\ scalar = {} /\ bad = {} /\ mapErrors = {}

=============================================================================
