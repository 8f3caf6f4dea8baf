------------------------------- MODULE MCHwmp -------------------------------
(* Instances of HwmpNetwork for TLC: meshes, and messages that cross them. *)
EXTENDS HwmpNetwork, TLC

Both(pairs) == pairs \cup {<<p[2], p[1]>> : p \in pairs}

Line3 == Both({<<"a", "b">>, <<"b", "c">>})
\* a, b and c hear each other; d hears only c.
Kite == Both({<<"a", "b">>, <<"b", "c">>, <<"a", "c">>, <<"c", "d">>})
Line4 == Both({<<"a", "b">>, <<"b", "c">>, <<"c", "d">>})

AtoC_source == "m1" :> "a"
AtoC_target == "m1" :> "c"

\* d has two packets for a, and b, next to a, searches for d meanwhile: what is said
\* about d on the way to b gets there before the request of d does.
Crossing_source == "m1" :> "d" @@ "m2" :> "b" @@ "m3" :> "d"
Crossing_target == "m1" :> "a" @@ "m2" :> "d" @@ "m3" :> "a"
\* Searches over Line4 that overlap at b and c.
Overlap_source == "m1" :> "a" @@ "m2" :> "d"
Overlap_target == "m1" :> "c" @@ "m2" :> "b"
=============================================================================
