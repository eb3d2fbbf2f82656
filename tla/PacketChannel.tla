--------------------------- MODULE PacketChannel ---------------------------
(***************************************************************************)
(* What the mission's packet paths promise their two ends: every packet    *)
(* the sender was told is accepted is delivered, once, unmodified and in   *)
(* the order of acceptance.  How packets are stored and queued is left to  *)
(* the implementation; a packet it refuses is simply never accepted.       *)
(***************************************************************************)
EXTENDS Naturals, Sequences

CONSTANT Packets

VARIABLES accepted, delivered

channelVars == <<accepted, delivered>>

Init == accepted = <<>> /\ delivered = <<>>

Accept(p) ==
  /\ accepted' = Append(accepted, p)
  /\ UNCHANGED delivered

Deliver ==
  /\ Len(delivered) < Len(accepted)
  /\ delivered' = Append(delivered, accepted[Len(delivered) + 1])
  /\ UNCHANGED accepted

Next == (\E p \in Packets : Accept(p)) \/ Deliver

Spec == Init /\ [][Next]_channelVars
=============================================================================
