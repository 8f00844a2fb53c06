--------------------------- MODULE ExchangeService ---------------------------
(***************************************************************************)
(* What the protocol clients promise their callers: requests are accepted  *)
(* one at a time, and each is completed once, before the next is accepted. *)
(***************************************************************************)
EXTENDS Naturals, Sequences

VARIABLE done   \* request -> how often its callback was called

Init == done = <<>>

(* Accepted, and completed at once when nothing could be sent. *)
Accept ==
  /\ \A i \in DOMAIN done : done[i] = 1
  /\ \E n \in {0, 1} : done' = Append(done, n)

Complete ==
  \E i \in DOMAIN done : done[i] = 0 /\ done' = [done EXCEPT ![i] = 1]

Spec == Init /\ [][Accept \/ Complete]_done
=============================================================================
