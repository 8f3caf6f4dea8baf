--------------------------- MODULE MCSpatialReuse ---------------------------
(* An instance of SpatialReuse for TLC. *)
EXTENDS SpatialReuse

\* Three pairs: a has two frames and c has one; d waits for access until the end, and
\* e only listens.
Talk == {<<"a", "b", 0, 3>>, <<"c", "d", 1, 7>>}
Frames == [s \in Station |-> CASE s = "a" -> 2 [] s \in {"c", "d"} -> 1 [] OTHER -> 0]

\* b and f have no route, and e may lose its own.
Hops == [s \in Station |->
  CASE s = "a" -> {"b"} [] s = "c" -> {"d"} [] s = "d" -> {"c"} [] s = "e" -> {"f", "none"}
    [] OTHER -> {"none"}]

\* Only d has not heard of a yet.
Losses == (Station \X Station) \ ({<<s, s>> : s \in Station} \cup {<<"d", "a">>})

\* The two of a pair hear each other well; b and c hear each other better than the rest.
Near == {{"a", "b"}, {"c", "d"}, {"e", "f"}}
Gains == [r \in Station |-> [s \in Station |->
  CASE {r, s} \in Near -> 16 [] {r, s} = {"b", "c"} -> 2 [] OTHER -> 1]]

\* Two levels, and what GetPowerDbm makes of the level after them.
Powers == <<1, 4, 16>>
PowerOf == [l \in 0..2 |-> Powers[l + 1]]
SnrOf == [m \in 0..1 |-> IF m = 0 THEN 2 ELSE 8]
=============================================================================
