------------------------------ MODULE Delivery ------------------------------
(***************************************************************************)
(* What a routing protocol promises to those who hand it packets, whatever *)
(* the radio loses and however the routes lead: a packet is in one place   *)
(* at a time, passes from a node only to one in its range, at most MaxHops *)
(* times, and arrives at its own target at most once. A packet that is     *)
(* lost does not come back.                                                *)
(*                                                                         *)
(* Nothing says that routes are free of loops, and they are not: it is the *)
(* number of hops that keeps a packet from going round for ever.           *)
(***************************************************************************)
EXTENDS Naturals

CONSTANTS Node, Links, Message, source, target,
          MaxHops   \* how often a packet may be transmitted

VARIABLES
  phase,   \* phase[m]: "unsent", "moving", "delivered" or "lost"
  at,      \* at[m]: the node that has the moving packet m
  left     \* left[m]: how often it may still be transmitted

vars == <<phase, at, left>>

Init ==
  /\ phase = [m \in Message |-> "unsent"]
  /\ at = [m \in Message |-> source[m]]
  /\ left = [m \in Message |-> MaxHops]

-----------------------------------------------------------------------------
Moves(m, new) == phase[m] = "moving" /\ phase'[m] = new

Stays(m) == at'[m] = at[m] /\ left'[m] = left[m]

\* The packet is taken, or refused at once.
Send(m) ==
  /\ phase[m] = "unsent"
  /\ phase'[m] \in {"moving", "lost"}
  /\ phase'[m] = "moving" => Stays(m)

\* One hop, to a node in range.
Forward(m) ==
  /\ Moves(m, "moving")
  /\ left[m] > 1 /\ left'[m] = left[m] - 1
  /\ at'[m] \in Node /\ <<at[m], at'[m]>> \in Links

\* The last hop.
Deliver(m) == Moves(m, "delivered") /\ <<at[m], target[m]>> \in Links

Lose(m) == Moves(m, "lost")

Rests(m) == phase'[m] = phase[m] /\ Stays(m)

\* One event may move many packets: a reply releases all that wait for it.
Next == \A m \in Message : Send(m) \/ Forward(m) \/ Deliver(m) \/ Lose(m) \/ Rests(m)

Spec == Init /\ [][Next]_vars
=============================================================================
