------------------------------ MODULE PeerLink ------------------------------
(***************************************************************************)
(* One end of an 802.11s peer link: the finite state machine of the class  *)
(* PeerLink (src/src/mesh/model/dot11s/peer-link.cc).                      *)
(*                                                                         *)
(* A link is a record; each public method of the class is an operator that *)
(* takes the link and the fields of the received frame and returns the     *)
(* link after the call, what the call tells m_linkStatusCallback, and the  *)
(* frames it hands to the MAC, in order.                                   *)
(* The reason codes, the mesh configuration and the association ids ride   *)
(* along in the code without steering it, and are left out.                *)
(***************************************************************************)
EXTENDS Integers, Sequences

CONSTANTS MaxRetries,        \* attribute MaxRetries (4)
          MaxPacketFailure   \* attribute MaxPacketFailure (2)

ASSUME MaxRetriesAssumption == MaxRetries \in Nat
ASSUME MaxPacketFailureAssumption == MaxPacketFailure \in Nat \ {0}

States == {"IDLE", "OPN_SNT", "CNF_RCVD", "OPN_RCVD", "ESTAB", "HOLDING"}

Events == {"CNCL", "ACTOPN", "CLS_ACPT", "OPN_ACPT", "OPN_RJCT", "REQ_RJCT",
           "CNF_ACPT", "CNF_RJCT", "TOR1", "TOR2", "TOC", "TOH"}

Timers == {"retry", "confirm", "holding", "beacon"}

\* Link ids are 16-bit; 0 stands for "the peer's id is not known yet".
Unknown == 0

Link == [state: States, localId: Nat, peerId: Nat,
         retries: 0..MaxRetries, fails: 0..(MaxPacketFailure - 1),
         timers: SUBSET Timers]

Frame == [type: {"Open", "Confirm", "Close"}, local: Nat, peer: Nat]

NewLink(id) == [state |-> "IDLE", localId |-> id, peerId |-> Unknown,
                retries |-> 0, fails |-> 0, timers |-> {}]

-----------------------------------------------------------------------------
(* The frames a link sends, and the shapes its transitions have.           *)

OpenFrame(l)    == [type |-> "Open",    local |-> l.localId, peer |-> Unknown]
ConfirmFrame(l) == [type |-> "Confirm", local |-> l.localId, peer |-> l.peerId]
CloseFrame(l)   == [type |-> "Close",   local |-> l.localId, peer |-> l.peerId]

\* told is the pair <<ostate, nstate>> that m_linkStatusCallback gets. Each case
\* of the switch writes the pair out by hand, beside its assignment to m_state.
Result(l, told, frames) == [link |-> l, told |-> told, sent |-> frames]

\* m_linkStatusCallback is not called.
Silence == <<"", "">>

Ignore(l) == Result(l, Silence, << >>)

\* Enter state s, report told, cancel the timers in off, start those in on, send.
Go(l, s, told, off, on, frames) ==
  Result([l EXCEPT !.state = s, !.timers = (@ \ off) \cup on], told, frames)

\* Mutant of Hold: SetHoldingTimer is forgotten.
HoldForEver(l, ostate, off) ==
  Go(l, "HOLDING", <<ostate, "HOLDING">>, off, {}, <<CloseFrame(l)>>)

\* Every way of giving up a link: send a Close and start the holding timer.
Hold(l, ostate, off) ==
  Go(l, "HOLDING", <<ostate, "HOLDING">>, off, {"holding"}, <<CloseFrame(l)>>)

\* Mutant of Retry: the retry counter is not incremented.
RetryForever(l) == Go(l, l.state, Silence, {}, {"retry"}, <<OpenFrame(l)>>)

\* TOR1: send the Open again.
Retry(l) ==
  Go([l EXCEPT !.retries = @ + 1], l.state, Silence, {}, {"retry"}, <<OpenFrame(l)>>)

Ending == {"CLS_ACPT", "OPN_RJCT", "CNF_RJCT", "CNCL"}

-----------------------------------------------------------------------------
(* StateMachine, one operator per case of its outer switch. Events that a  *)
(* state does not name are ignored in it.                                  *)

InIdle(l, e) ==
  CASE e \in {"CNCL", "CLS_ACPT"} -> Result(l, <<"IDLE", "IDLE">>, << >>)
    [] e = "REQ_RJCT" -> Result(l, Silence, <<CloseFrame(l)>>)
    [] e = "ACTOPN"   -> Go(l, "OPN_SNT", <<"IDLE", "OPN_SNT">>, {}, {"retry"},
                            <<OpenFrame(l)>>)
    [] e = "OPN_ACPT" -> Go(l, "OPN_RCVD", <<"IDLE", "OPN_RCVD">>, {}, {"retry"},
                            <<ConfirmFrame(l), OpenFrame(l)>>)
    [] OTHER          -> Ignore(l)

InOpnSnt(l, e) ==
  CASE e = "TOR1"     -> Retry(l)
    [] e = "CNF_ACPT" -> Go(l, "CNF_RCVD", <<"OPN_SNT", "CNF_RCVD">>, {"retry"},
                            {"confirm"}, << >>)
    [] e = "OPN_ACPT" -> Go(l, "OPN_RCVD", <<"OPN_SNT", "OPN_RCVD">>, {}, {},
                            <<ConfirmFrame(l)>>)
    [] e \in Ending \cup {"TOR2"} -> Hold(l, "OPN_SNT", {"retry"})
    [] OTHER          -> Ignore(l)

InCnfRcvd(l, e) ==
  CASE e = "OPN_ACPT"  -> Go(l, "ESTAB", <<"CNF_RCVD", "ESTAB">>, {"confirm"}, {},
                             <<ConfirmFrame(l)>>)
    [] e \in Ending    -> Hold(l, "CNF_RCVD", {"confirm"})
    [] e = "TOC"       -> Hold(l, "CNF_RCVD", {})
    [] OTHER           -> Ignore(l)

\* Mutant of InOpnRcvd: ClearRetryTimer is forgotten on the way to ESTAB.
InOpnRcvdKeepsTimer(l, e) ==
  CASE e = "TOR1"     -> Retry(l)
    [] e = "CNF_ACPT" -> Go(l, "ESTAB", <<"OPN_RCVD", "ESTAB">>, {}, {}, << >>)
    [] e \in Ending \cup {"TOR2"} -> Hold(l, "OPN_RCVD", {"retry"})
    [] OTHER          -> Ignore(l)

InOpnRcvd(l, e) ==
  CASE e = "TOR1"     -> Retry(l)
    [] e = "CNF_ACPT" -> Go(l, "ESTAB", <<"OPN_RCVD", "ESTAB">>, {"retry"}, {}, << >>)
    [] e \in Ending \cup {"TOR2"} -> Hold(l, "OPN_RCVD", {"retry"})
    [] OTHER          -> Ignore(l)

\* Mutant of InEstab: the Close branch is copied from OPN_RCVD, its report too.
InEstabCopied(l, e) ==
  CASE e = "OPN_ACPT" -> Result(l, Silence, <<ConfirmFrame(l)>>)
    [] e \in {"OPN_RJCT", "CNF_RJCT"} -> Hold(l, "ESTAB", {"retry"})
    [] e = "CLS_ACPT" -> Hold(l, "OPN_RCVD", {})
    [] e = "CNCL"     -> Hold(l, "ESTAB", {})
    [] OTHER          -> Ignore(l)

InEstab(l, e) ==
  CASE e = "OPN_ACPT" -> Result(l, Silence, <<ConfirmFrame(l)>>)
    [] e \in {"OPN_RJCT", "CNF_RJCT"} -> Hold(l, "ESTAB", {"retry"})
    [] e \in {"CLS_ACPT", "CNCL"}     -> Hold(l, "ESTAB", {})
    [] OTHER          -> Ignore(l)

\* Mutant of InHolding: an Open that arrives during the tear-down revives the link.
InHoldingRevives(l, e) ==
  CASE e = "CLS_ACPT" -> Go(l, "IDLE", <<"HOLDING", "IDLE">>, {"holding"}, {}, << >>)
    [] e = "TOH"      -> Go(l, "IDLE", <<"HOLDING", "IDLE">>, {}, {}, << >>)
    [] e = "OPN_ACPT" -> Go(l, "OPN_RCVD", <<"HOLDING", "OPN_RCVD">>, {"holding"},
                            {"retry"}, <<ConfirmFrame(l), OpenFrame(l)>>)
    [] e \in {"CNF_ACPT", "OPN_RJCT", "CNF_RJCT"} ->
                         Result(l, <<"HOLDING", "HOLDING">>, <<CloseFrame(l)>>)
    [] OTHER          -> Ignore(l)

InHolding(l, e) ==
  CASE e = "CLS_ACPT" -> Go(l, "IDLE", <<"HOLDING", "IDLE">>, {"holding"}, {}, << >>)
    [] e = "TOH"      -> Go(l, "IDLE", <<"HOLDING", "IDLE">>, {}, {}, << >>)
    [] e \in {"OPN_ACPT", "CNF_ACPT", "OPN_RJCT", "CNF_RJCT"} ->
                         Result(l, <<"HOLDING", "HOLDING">>, <<CloseFrame(l)>>)
    [] OTHER          -> Ignore(l)

StateMachine(l, e) ==
  CASE l.state = "IDLE"     -> InIdle(l, e)
    [] l.state = "OPN_SNT"  -> InOpnSnt(l, e)
    [] l.state = "CNF_RCVD" -> InCnfRcvd(l, e)
    [] l.state = "OPN_RCVD" -> InOpnRcvd(l, e)
    [] l.state = "ESTAB"    -> InEstab(l, e)
    [] l.state = "HOLDING"  -> InHolding(l, e)

-----------------------------------------------------------------------------
(* The methods. local and peer are the ids of the received frame: local is *)
(* the id of the station that sent it.                                     *)

OpenAccept(l, local) == StateMachine([l EXCEPT !.peerId = local], "OPN_ACPT")

\* Remember the peer's id if this is the first frame that tells it.
Learn(l, local) == [l EXCEPT !.peerId = IF @ = Unknown THEN local ELSE @]

OpenReject(l, local) == StateMachine(Learn(l, local), "OPN_RJCT")

\* Mutant of ConfirmAccept: the id of my own instance is not compared.
ConfirmAcceptAnyInstance(l, local, peer) ==
  IF l.peerId \in {Unknown, local}
  THEN StateMachine(Learn(l, local), "CNF_ACPT")
  ELSE Ignore(l)

ConfirmAccept(l, local, peer) ==
  IF l.localId = peer /\ l.peerId \in {Unknown, local}
  THEN StateMachine(Learn(l, local), "CNF_ACPT")
  ELSE Ignore(l)

\* A Close may omit my id: its sender may not have learnt it.
Close(l, local, peer) ==
  IF peer \in {Unknown, l.localId} /\ l.peerId \in {Unknown, local}
  THEN StateMachine(Learn(l, local), "CLS_ACPT")
  ELSE Ignore(l)

TransmissionSuccess(l) == Ignore([l EXCEPT !.fails = 0])

\* Mutant of TransmissionFailure: the counter is not reset.
TransmissionFailureNoReset(l) ==
  IF l.fails + 1 = MaxPacketFailure
  THEN StateMachine([l EXCEPT !.fails = @ + 1], "CNCL")
  ELSE Ignore([l EXCEPT !.fails = @ + 1])

TransmissionFailure(l) ==
  IF l.fails + 1 = MaxPacketFailure
  THEN StateMachine([l EXCEPT !.fails = 0], "CNCL")
  ELSE Ignore([l EXCEPT !.fails = @ + 1])

\* A timer that fires is no longer pending when its handler runs.
Fired(l, t) == [l EXCEPT !.timers = @ \ {t}]

RetryTimeout(l) ==
  StateMachine(Fired(l, "retry"),
               IF l.retries < MaxRetries THEN "TOR1" ELSE "TOR2")

ConfirmTimeout(l) == StateMachine(Fired(l, "confirm"), "TOC")

HoldingTimeout(l) == StateMachine(Fired(l, "holding"), "TOH")

BeaconLoss(l) == StateMachine(Fired(l, "beacon"), "CNCL")

\* SetBeaconInformation (re)starts the beacon loss timer.
HearBeacon(l) == [l EXCEPT !.timers = @ \cup {"beacon"}]
=============================================================================
