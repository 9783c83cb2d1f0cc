------------------------------ MODULE JsonTree ------------------------------
(***************************************************************************)
(* The trees that carry the arguments and results of codius IPC            *)
(* (src/src/json.c): nodes with pointers to parent, siblings and children, *)
(* kept consistent by hand in append_node, prepend_node,                   *)
(* json_remove_from_parent and json_delete.                                *)
(***************************************************************************)
EXTENDS SequencesExt

CONSTANTS
  Nodes, \* the addresses of a small heap
  NULL   \* the null pointer

ASSUME NodesAssumption == NULL \notin Nodes /\ IsFiniteSet(Nodes)

VARIABLE heap

\* A number, a string, a boolean and a null differ in nothing that matters to
\* the structure: they are leaves.  A node that is not allocated is "free".
Tags    == {"free", "leaf", "array", "object"}
Pointer == Nodes \cup {NULL}

\* struct JsonNode; of a key, whether there is one.
JsonNode == [tag : Tags, parent : Pointer, prev : Pointer, next : Pointer,
             head : Pointer, tail : Pointer, key : BOOLEAN]

Cleared(tag) == [tag |-> tag, parent |-> NULL, prev |-> NULL, next |-> NULL,
                 head |-> NULL, tail |-> NULL, key |-> FALSE]

IsContainer(node) == node.tag \in {"array", "object"}

Live == {n \in Nodes : heap[n].tag # "free"}

\* Only containers use the children part of the union.
TypeOK ==
  /\ heap \in [Nodes -> JsonNode]
  /\ \A n \in Nodes : ~IsContainer(heap[n]) => heap[n].head = NULL /\ heap[n].tail = NULL

-----------------------------------------------------------------------------
(* Pointer surgery, as functions from heap to heap.                        *)

append_node(h, parent, child) ==
  LET last == h[parent].tail IN
  [n \in Nodes |->
    CASE n = child  -> [h[n] EXCEPT !.parent = parent, !.prev = last, !.next = NULL]
      [] n = parent -> [h[n] EXCEPT !.tail = child, !.head = IF last = NULL THEN child ELSE @]
      [] n = last   -> [h[n] EXCEPT !.next = child]
      [] OTHER      -> h[n]]

\* Mutant of prepend_node: the old head is not linked back.
prepend_node_NoBackLink(h, parent, child) ==
  LET first == h[parent].head IN
  [n \in Nodes |->
    CASE n = child  -> [h[n] EXCEPT !.parent = parent, !.prev = NULL, !.next = first]
      [] n = parent -> [h[n] EXCEPT !.head = child, !.tail = IF first = NULL THEN child ELSE @]
      [] OTHER      -> h[n]]

prepend_node(h, parent, child) ==
  LET first == h[parent].head IN
  [n \in Nodes |->
    CASE n = child  -> [h[n] EXCEPT !.parent = parent, !.prev = NULL, !.next = first]
      [] n = parent -> [h[n] EXCEPT !.head = child, !.tail = IF first = NULL THEN child ELSE @]
      [] n = first  -> [h[n] EXCEPT !.prev = child]
      [] OTHER      -> h[n]]

\* Mutant of unlink: the last child's removal leaves the tail behind.
unlink_KeepsTail(h, node) ==
  LET at == h[node] IN
  [n \in Nodes |->
    CASE n = node      -> [at EXCEPT !.parent = NULL, !.prev = NULL, !.next = NULL, !.key = FALSE]
      [] n = at.parent -> [h[n] EXCEPT !.head = IF at.prev = NULL THEN at.next ELSE @]
      [] n = at.prev   -> [h[n] EXCEPT !.next = at.next]
      [] n = at.next   -> [h[n] EXCEPT !.prev = at.prev]
      [] OTHER         -> h[n]]

\* json_remove_from_parent; of a root nothing changes.
unlink(h, node) ==
  LET at == h[node] IN
  [n \in Nodes |->
    CASE at.parent = NULL -> h[n]
      [] at.parent # NULL /\ n = node ->
           [at EXCEPT !.parent = NULL, !.prev = NULL, !.next = NULL, !.key = FALSE]
      [] at.parent # NULL /\ n = at.parent ->
           [h[n] EXCEPT !.head = IF at.prev = NULL THEN at.next ELSE @,
                        !.tail = IF at.next = NULL THEN at.prev ELSE @]
      [] at.parent # NULL /\ n = at.prev -> [h[n] EXCEPT !.next = at.next]
      [] at.parent # NULL /\ n = at.next -> [h[n] EXCEPT !.prev = at.prev]
      [] OTHER -> h[n]]

\* The nodes json_delete comes to from node, down to the first child and along
\* the next pointers: those in every set that is closed under these two steps.
ClosedFrom(h, node, S) ==
  /\ node \in S
  /\ \A n \in S : /\ h[n].head \in S \cup {NULL}
                  /\ n # node => h[n].next \in S \cup {NULL}

Reached(h, node) ==
  {m \in Nodes : \A S \in SUBSET Nodes : ClosedFrom(h, node, S) => m \in S}

-----------------------------------------------------------------------------
(* The functions of json.h.                                                *)

\* json_mknull, json_mkbool, json_mkstring, json_mknumber; json_mkarray,
\* json_mkobject.
mknode(n, tag) ==
  /\ heap[n].tag = "free"
  /\ heap' = [heap EXCEPT ![n] = Cleared(tag)]

\* The assertions on the arguments, and what they leave to the caller: that a
\* tree is not put into itself.
MayAdd(tag, parent, child) ==
  /\ heap[parent].tag = tag
  /\ child \in Live /\ heap[child].parent = NULL
  /\ parent \notin Reached(heap, child)

json_append_element(array, element) ==
  /\ MayAdd("array", array, element)
  /\ heap' = append_node(heap, array, element)

json_prepend_element(array, element) ==
  /\ MayAdd("array", array, element)
  /\ heap' = prepend_node(heap, array, element)

WithKey(value) == [heap EXCEPT ![value].key = TRUE]

\* Mutant of json_append_member: any node is taken for an object.
json_append_member_Unchecked(object, value) ==
  /\ object \in Live /\ value \in Live /\ heap[value].parent = NULL
  /\ object \notin Reached(heap, value)
  /\ heap' = append_node(WithKey(value), object, value)

json_append_member(object, value) ==
  /\ MayAdd("object", object, value)
  /\ heap' = append_node(WithKey(value), object, value)

json_prepend_member(object, value) ==
  /\ MayAdd("object", object, value)
  /\ heap' = prepend_node(WithKey(value), object, value)

json_remove_from_parent(node) ==
  /\ node \in Live
  /\ heap' = unlink(heap, node)

\* Mutant of json_delete: the node is freed where it is.
json_delete_InPlace(node) ==
  /\ node \in Live
  /\ heap' = [n \in Nodes |-> IF n \in Reached(heap, node) THEN Cleared("free") ELSE heap[n]]

\* The node is unlinked and freed with everything below it; each child is
\* unlinked before its own turn, from a list nobody will look at again.
json_delete(node) ==
  /\ node \in Live
  /\ heap' = [n \in Nodes |->
       IF n \in Reached(heap, node) THEN Cleared("free") ELSE unlink(heap, node)[n]]

Init == heap = [n \in Nodes |-> Cleared("free")]

Next ==
  \E n \in Nodes :
    \/ \E tag \in Tags \ {"free"} : mknode(n, tag)
    \/ \E p \in Nodes :
         \/ json_append_element(p, n) \/ json_prepend_element(p, n)
         \/ json_append_member(p, n)  \/ json_prepend_member(p, n)
    \/ json_remove_from_parent(n) \/ json_delete(n)

Spec == Init /\ [][Next]_heap

-----------------------------------------------------------------------------
(* Properties.                                                             *)

\* The nodes the loop of json_check comes to: from the head of node along the
\* next pointers.
Walked(node) ==
  {c \in Nodes : \A S \in SUBSET Nodes :
     heap[node].head \in S \cup {NULL} /\ (\A s \in S : heap[s].next \in S \cup {NULL})
       => c \in S}

\* json_check finds nothing to complain about in any node, whatever calls of
\* the interface came before.
JsonCheck ==
  \A n \in Live : IsContainer(heap[n]) =>
    /\ (heap[n].head = NULL) <=> (heap[n].tail = NULL)
    /\ heap[n].head # NULL => heap[heap[n].head].prev = NULL
    /\ \A c \in Walked(n) :
         /\ c # n
         /\ heap[c].next \notin {c, heap[n].head}
         /\ heap[c].parent = n
         /\ heap[c].next # NULL => heap[heap[c].next].prev = c
         /\ heap[c].key = (heap[n].tag = "object")
         /\ heap[c].next = NULL => heap[n].tail = c

\* No node in use points to one that was freed: a deleted tree takes nothing
\* outside it along and leaves no trace in its parent (json_delete).
NothingDangling ==
  \A n \in Live :
    {heap[n].parent, heap[n].prev, heap[n].next, heap[n].head, heap[n].tail}
      \subseteq Live \cup {NULL}

\* s is the list of node: it starts at the head, goes on along the next pointers
\* and ends where they do.
IsListOf(h, node, s) ==
  /\ IF s = <<>> THEN h[node].head = NULL
                 ELSE s[1] = h[node].head /\ h[s[Len(s)]].next = NULL
  /\ \A i \in 1 .. Len(s) - 1 : h[s[i]].next = s[i + 1]

\* The children of node in order.
ListOf(h, node) == CHOOSE s \in SeqOf(Nodes, Cardinality(Nodes)) : IsListOf(h, node, s)

Abstract == INSTANCE Forest WITH
  live     <- Live,
  children <- [n \in Nodes |-> ListOf(heap, n)]

\* Read along the next pointers, the nodes are sequences of children that each
\* call changes in one place.
ImplementsForest == Abstract!Spec

=============================================================================
