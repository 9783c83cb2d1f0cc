------------------------------- MODULE Forest -------------------------------
(***************************************************************************)
(* What a JSON tree is: values made one by one, each with the sequence of  *)
(* its children, and in at most one such sequence.                         *)
(***************************************************************************)
EXTENDS SequencesExt

CONSTANT Nodes

VARIABLES live, children

vars == <<live, children>>

Roots == {n \in live : \A p \in live : n \notin Range(children[p])}

\* n, its children, theirs, and so on: what is in every set that has n and with
\* each node its children.
Subtree(n) ==
  {m \in Nodes : \A S \in SUBSET Nodes :
     n \in S /\ (\A p \in S : Range(children[p]) \subseteq S) => m \in S}

Without(n) == [p \in Nodes |-> RemoveFirst(children[p], n)]

Init == live = {} /\ children = [n \in Nodes |-> <<>>]

Make(n) ==
  /\ n \notin live
  /\ live' = live \cup {n}
  /\ UNCHANGED children

\* n becomes the last or the first child of p.
Add(p, n) ==
  /\ p \in live /\ n \in Roots /\ p \notin Subtree(n)
  /\ children' \in {[children EXCEPT ![p] = Append(@, n)],
                    [children EXCEPT ![p] = <<n>> \o @]}
  /\ UNCHANGED live

Detach(n) ==
  /\ n \in live
  /\ children' = Without(n)
  /\ UNCHANGED live

Delete(n) ==
  /\ n \in live
  /\ live' = live \ Subtree(n)
  /\ children' = [p \in Nodes |-> IF p \in Subtree(n) THEN <<>> ELSE Without(n)[p]]

Next ==
  \E n \in Nodes : \/ Make(n) \/ Detach(n) \/ Delete(n)
                   \/ \E p \in Nodes : Add(p, n)

Spec == Init /\ [][Next]_vars

=============================================================================
