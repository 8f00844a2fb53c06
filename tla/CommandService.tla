--------------------------- MODULE CommandService ---------------------------
(* What the command queue promises the rest of the stack: commands are      *)
(* served one at a time in the order they were accepted, and each one gets  *)
(* exactly one completion.                                                  *)
EXTENDS Naturals, Sequences

CONSTANT Results, MaxAccepted

VARIABLES
  accepted,  \* number of commands accepted so far
  serving,   \* the command being served, 0 when none
  finished   \* the completions, oldest first

vars == <<accepted, serving, finished>>

Init == accepted = 0 /\ serving = 0 /\ finished = <<>>

Accept ==
  /\ accepted' = accepted + 1
  /\ UNCHANGED <<serving, finished>>

Serve ==
  /\ serving = 0
  /\ Len(finished) < accepted
  /\ serving' = Len(finished) + 1
  /\ UNCHANGED <<accepted, finished>>

Finish(result) ==
  /\ serving # 0
  /\ finished' = Append(finished, [id |-> serving, result |-> result])
  /\ serving' = 0
  /\ UNCHANGED accepted

Next == Accept \/ Serve \/ \E r \in Results : Finish(r)

Safety == Init /\ [][Next]_vars

(* Nothing accepted is left unserved or unfinished. *)
Liveness == \A i \in 1..MaxAccepted : accepted >= i ~> Len(finished) >= i

Spec == Safety /\ Liveness
=============================================================================
