----------------------------- MODULE PosixFiles -----------------------------
(***************************************************************************)
(* What the sandboxed program is promised about its virtual descriptors:   *)
(* the POSIX open file table src/include/filesystem.h refers to.  Each     *)
(* open descriptor has an offset of its own; it starts at 0, a read moves  *)
(* it by exactly the number of bytes it reports, a seek sets it, and       *)
(* nothing else, no call on another descriptor either, changes it.         *)
(***************************************************************************)
EXTENDS Integers

VARIABLES offset,   \* the offset of each open descriptor
          answer    \* the value the last call returned

Opened == DOMAIN offset

Init == offset = [v \in {} |-> 0]

\* open reports the number of the new descriptor.
Open ==
  LET v == answer' IN
    /\ v \notin Opened
    /\ offset' = [w \in Opened \cup {v} |-> IF w = v THEN 0 ELSE offset[w]]

\* The descriptor is gone from the moment close is called.
Close(v) ==
  /\ offset' = [w \in Opened \ {v} |-> offset[w]]
  /\ UNCHANGED answer

Read(v) ==
  /\ answer' \in Nat
  /\ offset' = [offset EXCEPT ![v] = @ + answer']

\* A seek that succeeds reports 0 here (POSIX: the new offset).
Seek(v) ==
  /\ answer' = 0
  /\ DOMAIN offset' = Opened
  /\ \A w \in Opened \ {v} : offset'[w] = offset[w]

\* Every other call, and every call that fails.
Other == UNCHANGED offset

Next == Open \/ (\E v \in Opened : Close(v) \/ Read(v) \/ Seek(v)) \/ Other

Spec == Init /\ [][Next]_<<offset, answer>>
=============================================================================
