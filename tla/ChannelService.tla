--------------------------- MODULE ChannelService ---------------------------
(***************************************************************************)
(* What the L2CAP channel manager promises the owner of a channel, event   *)
(* by event: a channel opens at most once, closes exactly once, and        *)
(* delivers data only in between.                                          *)
(***************************************************************************)
EXTENDS Naturals, Sequences

VARIABLES
  life,  \* handle -> where the channel is in its life
  event  \* the last event delivered: kind, handle, reason

Reasons == {"LOCAL", "PEER_DISCONNECTED", "REFUSED", "CONFIG_FAILED", "TIMEOUT"}

Init == life = <<>> /\ event = [kind |-> "none", handle |-> 0, reason |-> "none"]

Fire(kind, g, reason) == event' = [kind |-> kind, handle |-> g, reason |-> reason]

Start == life' = Append(life, "opening") /\ UNCHANGED event

StartFails == life' = Append(life, "failed") /\ UNCHANGED event

StartFixed == life' = Append(life, "opened") /\ Fire("OPENED", Len(life) + 1, "none")

Opened(g) ==
  life[g] = "opening" /\ life' = [life EXCEPT ![g] = "opened"] /\ Fire("OPENED", g, "none")

Data(g) == life[g] = "opened" /\ Fire("DATA", g, "none") /\ UNCHANGED life

Closing(g) ==
  life[g] = "opened" /\ life' = [life EXCEPT ![g] = "closing"] /\ UNCHANGED event

Closed(g) ==
  /\ life[g] \in {"opening", "opened", "closing"}
  /\ life' = [life EXCEPT ![g] = "closed"]
  /\ \E reason \in Reasons : Fire("CLOSED", g, reason)

Next ==
  \/ Start \/ StartFails \/ StartFixed
  \/ \E g \in DOMAIN life : Opened(g) \/ Data(g) \/ Closing(g) \/ Closed(g)

Spec == Init /\ [][Next]_<<life, event>>
=============================================================================
