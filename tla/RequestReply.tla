---------------------------- MODULE RequestReply ----------------------------
(***************************************************************************)
(* What codius IPC promises: a request reaches the embedding program at    *)
(* most once, is answered at most once, in any order, and its result is    *)
(* read at most once and never before it was answered.                     *)
(***************************************************************************)
CONSTANT Ids

VARIABLE phase

Phases == {"unused", "asked", "held", "answered", "returned"}

\* i moves from one phase to the next.
Move(i, from, to) ==
  /\ phase[i] = from
  /\ phase' = [phase EXCEPT ![i] = to]

Init == phase = [i \in Ids |-> "unused"]

Ask(i)    == Move(i, "unused", "asked")
Hold(i)   == Move(i, "asked", "held")
Answer(i) == Move(i, "held", "answered")
Return(i) == Move(i, "answered", "returned")

Next == \E i \in Ids : Ask(i) \/ Hold(i) \/ Answer(i) \/ Return(i)

Spec == Init /\ [][Next]_phase

=============================================================================
