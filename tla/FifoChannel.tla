---------------------------- MODULE FifoChannel ----------------------------
(***************************************************************************)
(* What every point-to-point link of a topology promises its two tiles: a  *)
(* bounded first-in first-out channel.  A message is identified by its     *)
(* place in the order of acceptance, so `sent' is a count and `out' the    *)
(* identities the consumer has been handed, in the order it got them.      *)
(* BoundedQueue (thread mode) and TangoLink (process mode, reliable) are   *)
(* shown to implement this specification.                                  *)
(***************************************************************************)
EXTENDS Naturals, Sequences

CONSTANT Capacity

VARIABLES sent, out

channelVars == <<sent, out>>

ChannelInit ==
  /\ sent = 0
  /\ out = <<>>

\* A message is accepted only while fewer than Capacity are undelivered.
Send ==
  /\ sent - Len(out) < Capacity
  /\ sent' = sent + 1
  /\ UNCHANGED out

\* The oldest undelivered message, and no other, is delivered, once.
Receive ==
  /\ Len(out) < sent
  /\ out' = Append(out, Len(out))
  /\ UNCHANGED sent

ChannelNext == Send \/ Receive

ChannelSpec == ChannelInit /\ [][ChannelNext]_channelVars
=============================================================================
