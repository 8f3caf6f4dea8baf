------------------------------- MODULE MCAodv -------------------------------
(* Instances of AodvNetwork for TLC: networks, and messages that cross them. *)
EXTENDS AodvNetwork, TLC

Both(pairs) == pairs \cup {<<p[2], p[1]>> : p \in pairs}

Line4 == Both({<<"a", "b">>, <<"b", "c">>, <<"c", "d">>})
\* a, b and c hear each other; d hears only c.
Kite == Both({<<"a", "b">>, <<"b", "c">>, <<"a", "c">>, <<"c", "d">>})

\* The two ends of Line4 are searched for at the same time.
Crossing_source == "m1" :> "a" @@ "m2" :> "c"
Crossing_target == "m1" :> "d" @@ "m2" :> "a"

\* And c has a packet for e, which hears nobody.
CrossingAndE_source == Crossing_source @@ "m3" :> "c"
CrossingAndE_target == Crossing_target @@ "m3" :> "e"

BothToD_source == "m1" :> "a" @@ "m2" :> "c"
BothToD_target == "m1" :> "d" @@ "m2" :> "d"
=============================================================================
