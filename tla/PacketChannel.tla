--------------------------- MODULE PacketChannel ---------------------------
(***************************************************************************)
(* What one direction of the tunnel promises: the packets that come from   *)
(* one side are numbered as they come, and the other side receives them in *)
(* that order, none twice, and none left out but those that were recorded  *)
(* as lost before.  The channel may stop at any time; what it holds then   *)
(* goes nowhere.                                                           *)
(***************************************************************************)
EXTENDS Naturals, Sequences

VARIABLES sent,       \* packets that came from the source
          lost,       \* numbers of those that were given up
          delivered   \* numbers of the packets handed to the sink, in order

Init == sent = 0 /\ lost = {} /\ delivered = <<>>

IsDelivered(p) == \E i \in DOMAIN delivered : delivered[i] = p

Send == sent' = sent + 1 /\ UNCHANGED <<lost, delivered>>

\* A packet is given up as it comes, or later.
SendLost ==
  /\ sent' = sent + 1
  /\ lost' = lost \cup {sent + 1}
  /\ UNCHANGED delivered

Lose ==
  /\ \E p \in 1 .. sent : ~IsDelivered(p) /\ lost' = lost \cup {p}
  /\ UNCHANGED <<sent, delivered>>

\* The next packet is the oldest that was neither delivered nor given up.
Deliver ==
  /\ \E p \in 1 .. sent \ lost :
       /\ \A i \in DOMAIN delivered : delivered[i] < p
       /\ \A q \in 1 .. p - 1 : q \in lost \/ IsDelivered(q)
       /\ delivered' = Append(delivered, p)
  /\ UNCHANGED <<sent, lost>>

Next == Send \/ SendLost \/ Lose \/ Deliver

Spec == Init /\ [][Next]_<<sent, lost, delivered>>
=============================================================================
