------------------------------- MODULE MCFlame -------------------------------
(* An instance of FlameNetwork for TLC. *)
EXTENDS FlameNetwork, TLC

Both(pairs) == pairs \cup {<<p[2], p[1]>> : p \in pairs}

\* a, b and c hear each other; d hears only c.
Kite == Both({<<"a", "b">>, <<"b", "c">>, <<"a", "c">>, <<"c", "d">>})

\* a has two packets for d; the updates of d go to everybody.
Talk_source == "m1" :> "a" @@ "m2" :> "a"
Talk_target == "m1" :> "d" @@ "m2" :> "d"
=============================================================================
