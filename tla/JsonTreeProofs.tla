--------------------------- MODULE JsonTreeProofs ---------------------------
(***************************************************************************)
(* Proofs about JsonTree, for any number of nodes.                         *)
(*                                                                         *)
(* The pointers of neighbours agree (Linked, Placed), every child is on    *)
(* the list that starts at its parent's head (Chained), and no node is     *)
(* below itself (Grounded).  The last two speak of sets of nodes, so that  *)
(* the invariant needs no induction along a list or down a tree.  That the *)
(* heap is a forest of sequences does need the first: a list exists, is    *)
(* the only one, and each call changes it in one place.                    *)
(***************************************************************************)
EXTENDS JsonTree, TLAPS, FiniteSetTheorems, SequenceTheorems

Typed(h) ==
  /\ h \in [Nodes -> JsonNode]
  /\ \A n \in Nodes : ~IsContainer(h[n]) => h[n].head = NULL /\ h[n].tail = NULL

\* Pointers of neighbours agree.
Linked(h) ==
  \A n \in Nodes :
    /\ h[n].next # NULL => h[h[n].next].prev = n /\ h[h[n].next].parent = h[n].parent
    /\ h[n].prev # NULL => h[h[n].prev].next = n /\ h[h[n].prev].parent = h[n].parent
    /\ h[n].head # NULL => h[h[n].head].parent = n /\ h[h[n].head].prev = NULL
    /\ h[n].tail # NULL => h[h[n].tail].parent = n /\ h[h[n].tail].next = NULL
    /\ (h[n].head = NULL) <=> (h[n].tail = NULL)

\* What a node says of its place in a list.
Placed(h) ==
  \A n \in Nodes :
    /\ h[n].parent = NULL => h[n].prev = NULL /\ h[n].next = NULL
    /\ h[n].parent # NULL =>
         /\ h[n].tag # "free" /\ IsContainer(h[h[n].parent])
         /\ h[n].key = (h[h[n].parent].tag = "object")
         /\ h[n].prev = NULL => h[h[n].parent].head = n
         /\ h[n].next = NULL => h[h[n].parent].tail = n

\* S holds the head of p and whatever follows a child of p in it.
ListFrom(h, p, S) ==
  /\ h[p].head \in S \cup {NULL}
  /\ \A n \in S : h[n].parent = p => h[n].next \in S \cup {NULL}

\* Every child of p is on the list that starts at the head of p.
Chained(h) ==
  \A p \in Nodes, S \in SUBSET Nodes :
    ListFrom(h, p, S) => \A n \in Nodes : h[n].parent = p => n \in S

\* Going up from parent to parent ends.
Grounded(h) ==
  \A S \in SUBSET Nodes : S # {} => \E n \in S : h[n].parent \notin S

Sound(h) == Typed(h) /\ Linked(h) /\ Placed(h) /\ Chained(h) /\ Grounded(h)

\* Only members have keys; json_append_member copies one just before the node
\* gets its parent.
Keyless(h) == \A n \in Nodes : h[n].parent = NULL => h[n].key = FALSE

IInv == Sound(heap) /\ Keyless(heap)

\* What the calls do to the tags and the lists of a heap h, which they make g.
Appended(h, p, c, g) ==
  \A n \in Nodes :
    /\ g[n].tag = h[n].tag
    /\ g[n].next = IF n = c THEN NULL ELSE IF n = h[p].tail THEN c ELSE h[n].next
    /\ g[n].head = IF n = p /\ h[p].tail = NULL THEN c ELSE h[n].head

Prepended(h, p, c, g) ==
  \A n \in Nodes :
    /\ g[n].tag = h[n].tag
    /\ g[n].next = IF n = c THEN h[p].head ELSE h[n].next
    /\ g[n].head = IF n = p THEN c ELSE h[n].head

Unlinked(h, node, g) ==
  \A n \in Nodes :
    /\ g[n].tag = h[n].tag
    /\ g[n].next = IF n = node THEN NULL
                   ELSE IF n = h[node].prev THEN h[node].next ELSE h[n].next
    /\ g[n].head = IF n = h[node].parent /\ h[node].prev = NULL
                     THEN h[node].next ELSE h[n].head

SameLists(h, g) ==
  \A n \in Nodes : g[n].head = h[n].head /\ g[n].next = h[n].next

LEMMA NullIsNoNode == NULL \notin Nodes
  BY NodesAssumption

LEMMA Fields ==
  ASSUME NEW h, Typed(h), NEW n \in Nodes
  PROVE  /\ h[n] \in JsonNode
         /\ h[n].parent \in Pointer /\ h[n].prev \in Pointer /\ h[n].next \in Pointer
         /\ h[n].head \in Pointer /\ h[n].tail \in Pointer
         /\ h[n].key \in BOOLEAN /\ h[n].tag \in Tags
  BY DEF Typed, JsonNode

-----------------------------------------------------------------------------
(* Lists and trees of a sound heap.                                        *)

LEMMA NotOwnParent ==
  ASSUME NEW h, Sound(h), NEW n \in Nodes
  PROVE  h[n].parent # n
  <1>1. {n} \in SUBSET Nodes /\ {n} # {}
    OBVIOUS
  <1>2. PICK m \in {n} : h[m].parent \notin {n}
    BY <1>1 DEF Sound, Grounded
  <1> QED BY <1>2

\* No set of siblings is closed under going back: a list has a first node.
LEMMA NoLoop ==
  ASSUME NEW h, Sound(h), NEW p \in Nodes, NEW T \in SUBSET Nodes, T # {},
         \A n \in T : h[n].parent = p /\ h[n].prev \in T
  PROVE  FALSE
  <1> DEFINE S == {n \in Nodes : h[n].parent = p} \ T
  <1>1. h[p].head \in S \cup {NULL}
    <2>1. CASE h[p].head # NULL
      <3>1. h[p].head \in Nodes /\ h[h[p].head].parent = p /\ h[h[p].head].prev = NULL
        BY <2>1, Fields DEF Sound, Linked, Pointer
      <3> QED BY <3>1, NullIsNoNode
    <2> QED BY <2>1
  <1>2. ASSUME NEW n \in S, h[n].next # NULL PROVE h[n].next \in S
    <2>1. h[n].next \in Nodes /\ h[h[n].next].parent = p /\ h[h[n].next].prev = n
      BY <1>2, Fields DEF Sound, Linked, Pointer
    <2> QED BY <2>1
  <1>3. ListFrom(h, p, S)
    BY <1>1, <1>2 DEF ListFrom
  <1>4. S \in SUBSET Nodes
    OBVIOUS
  <1>5. \A n \in Nodes : h[n].parent = p => n \in S
    BY <1>3, <1>4 DEF Sound, Chained
  <1> QED BY <1>5

\* What json_delete comes to is the node and all that is below it: the parent of
\* everything else in it is in it, and so are its children.
LEMMA WholeTree ==
  ASSUME NEW h, Sound(h), NEW c \in Nodes
  PROVE  /\ c \in Reached(h, c) /\ Reached(h, c) \in SUBSET Nodes
         /\ \A m \in Reached(h, c) : m = c \/ h[m].parent \in Reached(h, c)
         /\ h[c].parent \notin Reached(h, c)
         /\ \A n \in Nodes : h[n].parent \in Reached(h, c) => n \in Reached(h, c)
  <1> DEFINE R == Reached(h, c)
  <1>1. c \in R /\ R \in SUBSET Nodes
    BY DEF Reached, ClosedFrom
  <1>2. ASSUME NEW m \in R, NEW s \in Nodes, s = h[m].head \/ (m # c /\ s = h[m].next)
        PROVE  s \in R
    <2>1. ASSUME NEW S \in SUBSET Nodes, ClosedFrom(h, c, S) PROVE s \in S
      <3>1. m \in S
        BY <2>1 DEF Reached
      <3>2. s # NULL
        BY NullIsNoNode
      <3> QED BY <1>2, <2>1, <3>1, <3>2 DEF ClosedFrom
    <2> QED BY <2>1 DEF Reached
  <1>3. ASSUME NEW S \in SUBSET Nodes, ClosedFrom(h, c, S), NEW m \in R PROVE m \in S
    BY <1>3 DEF Reached
  <1> HIDE DEF R
  <1>4. \A m \in R : m = c \/ h[m].parent \in R
    <2> DEFINE D == {m \in R : m = c \/ h[m].parent \in R}
    <2>1. ASSUME NEW m \in D, NEW s \in Nodes, s = h[m].head \/ (m # c /\ s = h[m].next)
          PROVE  s \in D
      <3>1. s \in R
        BY <1>2, <2>1
      <3>2. CASE s = h[m].head
        <4>1. h[s].parent = m
          BY <1>1, <3>2, NullIsNoNode DEF Sound, Linked
        <4> QED BY <3>1, <4>1
      <3>3. CASE m # c /\ s = h[m].next
        <4>1. h[s].parent = h[m].parent
          BY <1>1, <3>3, NullIsNoNode DEF Sound, Linked
        <4> QED BY <3>1, <3>3, <4>1
      <3> QED BY <2>1, <3>2, <3>3
    <2>2. \A m \in D : h[m].head \in Pointer /\ h[m].next \in Pointer
      BY <1>1, Fields DEF Sound
    <2>3. ClosedFrom(h, c, D)
      BY <1>1, <2>1, <2>2 DEF ClosedFrom, Pointer
    <2>4. D \in SUBSET Nodes
      BY <1>1
    <2> QED BY <1>3, <2>3, <2>4
  <1>5. h[c].parent \notin R
    BY <1>1, <1>4 DEF Sound, Grounded
  <1>6. ASSUME NEW n \in Nodes, h[n].parent \in R PROVE n \in R
    <2> DEFINE p == h[n].parent
    <2>1. p \in Nodes
      BY <1>1, <1>6
    <2>2. h[p].head \in R \cup {NULL}
      BY <1>2, <1>6, <2>1, Fields DEF Sound, Pointer
    <2>3. ASSUME NEW m \in R, h[m].parent = p PROVE h[m].next \in R \cup {NULL}
      <3>1. m # c
        BY <1>5, <1>6, <2>3
      <3> QED BY <1>1, <1>2, <3>1, Fields DEF Sound, Pointer
    <2>4. ListFrom(h, p, R)
      BY <2>2, <2>3 DEF ListFrom
    <2> QED BY <1>1, <2>1, <2>4 DEF Sound, Chained
  <1> QED BY <1>1, <1>4, <1>5, <1>6 DEF R

-----------------------------------------------------------------------------
(* The sequence along the next pointers.                                   *)

LEMMA NatWellFounded == IsWellFoundedOn({ss \in Nat \X Nat : ss[1] < ss[2]}, Nat)
  BY NatLessThanWellFounded, Zenon DEF OpToRel

\* A set of numbers has a least one.
LEMMA LeastNumber ==
  ASSUME NEW T \in SUBSET Nat, T # {}
  PROVE  \E n \in T : \A m \in T : n <= m
  <1>1. PICK n \in T : \A m \in T : ~(<<m, n>> \in {ss \in Nat \X Nat : ss[1] < ss[2]})
    BY WFMin, NatWellFounded, Zenon
  <1>2. \A m \in T : ~(m < n)
    BY <1>1
  <1> QED BY <1>2

\* s is how the list of p begins.
Begins(h, p, s) ==
  /\ s \in Seq(Nodes)
  /\ s # <<>> => s[1] = h[p].head
  /\ \A i \in 1 .. Len(s) - 1 : h[s[i]].next = s[i + 1]

\* Each node on it is a child of p and has the one before it as prev.
LEMMA BeginsLinked ==
  ASSUME NEW h, Sound(h), NEW p \in Nodes, NEW s, Begins(h, p, s)
  PROVE  /\ \A i \in 1 .. Len(s) : s[i] \in Nodes /\ h[s[i]].parent = p
         /\ s # <<>> => h[s[1]].prev = NULL
         /\ \A i \in 1 .. Len(s) - 1 : h[s[i + 1]].prev = s[i]
  <1>0. /\ s \in Seq(Nodes) /\ Len(s) \in Nat /\ NULL \notin Nodes
        /\ s # <<>> => s[1] = h[p].head
        /\ \A i \in 1 .. Len(s) - 1 : h[s[i]].next = s[i + 1]
        /\ \A i \in 1 .. Len(s) : s[i] \in Nodes
    BY NullIsNoNode DEF Begins
  <1>1. s # <<>> => h[s[1]].parent = p /\ h[s[1]].prev = NULL
    <2>1. s # <<>> => s[1] \in Nodes /\ s[1] = h[p].head
      BY <1>0
    <2> QED BY <1>0, <2>1 DEF Sound, Linked
  <1>2. ASSUME NEW i \in 1 .. Len(s) - 1
        PROVE  h[s[i + 1]].prev = s[i] /\ h[s[i + 1]].parent = h[s[i]].parent
    <2>1. h[s[i]].next = s[i + 1] /\ s[i] \in Nodes /\ s[i + 1] \in Nodes
      BY <1>0
    <2> QED BY <1>0, <2>1 DEF Sound, Linked
  <1>3. \A i \in 1 .. Len(s) : h[s[i]].parent = p
    <2> DEFINE T == {i \in 1 .. Len(s) : h[s[i]].parent # p}
    <2> SUFFICES ASSUME T # {} PROVE FALSE
      OBVIOUS
    <2>1. T \in SUBSET Nat
      OBVIOUS
    <2>2. PICK i \in T : \A j \in T : i <= j
      BY <2>1, LeastNumber
    <2>3. i # 1
      BY <1>0, <1>1, <2>2
    <2>4. i - 1 \in 1 .. Len(s) - 1 /\ i - 1 \notin T
      BY <1>0, <2>2, <2>3
    <2>5. h[s[i - 1]].parent = p
      BY <2>4
    <2>6. h[s[(i - 1) + 1]].parent = h[s[i - 1]].parent
      BY <1>2, <2>4
    <2> QED BY <2>2, <2>5, <2>6
  <1> QED BY <1>0, <1>1, <1>2, <1>3

\* No node is on it twice, ...
LEMMA BeginsOnce ==
  ASSUME NEW h, Sound(h), NEW p \in Nodes, NEW s, Begins(h, p, s),
         NEW i \in 1 .. Len(s), NEW j \in 1 .. Len(s), s[i] = s[j]
  PROVE  i = j
  <1>0. /\ s \in Seq(Nodes) /\ Len(s) \in Nat /\ NULL \notin Nodes
        /\ \A k \in 1 .. Len(s) : s[k] \in Nodes
        /\ h[s[1]].prev = NULL
        /\ \A k \in 1 .. Len(s) - 1 : h[s[k + 1]].prev = s[k]
    <2>1. s \in Seq(Nodes) /\ s # <<>>
      BY DEF Begins
    <2> QED BY <2>1, NullIsNoNode, BeginsLinked
  <1> DEFINE Again(a) == \E b \in 1 .. Len(s) : a < b /\ s[a] = s[b]
             T == {a \in 1 .. Len(s) : Again(a)}
  <1>1. T = {}
    <2> SUFFICES ASSUME T # {} PROVE FALSE
      OBVIOUS
    <2>1. T \in SUBSET Nat
      OBVIOUS
    <2>2. PICK a \in T : \A m \in T : a <= m
      BY <2>1, LeastNumber
    <2>3. PICK b \in 1 .. Len(s) : a < b /\ s[a] = s[b]
      BY <2>2
    <2>4. b - 1 \in 1 .. Len(s) - 1 /\ h[s[b]].prev = s[b - 1] /\ s[b - 1] \in Nodes
      <3>1. b - 1 \in 1 .. Len(s) - 1 /\ b - 1 \in 1 .. Len(s)
        BY <2>2, <2>3
      <3>2. h[s[(b - 1) + 1]].prev = s[b - 1]
        BY <1>0, <3>1
      <3> QED BY <1>0, <2>3, <3>1, <3>2
    <2>5. a # 1
      BY <1>0, <2>3, <2>4
    <2>6. a - 1 \in 1 .. Len(s) - 1 /\ a - 1 \in 1 .. Len(s) /\ h[s[a]].prev = s[a - 1]
      <3>1. a - 1 \in 1 .. Len(s) - 1 /\ a - 1 \in 1 .. Len(s)
        BY <2>2, <2>5
      <3>2. h[s[(a - 1) + 1]].prev = s[a - 1]
        BY <1>0, <3>1
      <3> QED BY <2>2, <3>1, <3>2
    <2>7. s[a - 1] = s[b - 1] /\ a - 1 < b - 1
      BY <2>2, <2>3, <2>4, <2>6
    <2>8. a - 1 \in T
      BY <2>4, <2>6, <2>7
    <2> QED BY <2>2, <2>8
  <1> QED BY <1>1

\* ... so it is not longer than there are nodes.
LEMMA BeginsShort ==
  ASSUME NEW h, Sound(h), NEW p \in Nodes, NEW s, Begins(h, p, s)
  PROVE  Len(s) <= Cardinality(Nodes) /\ s \in SeqOf(Nodes, Cardinality(Nodes))
  <1>1. s \in [1 .. Len(s) -> Nodes] /\ Len(s) \in Nat
    BY DEF Begins
  <1>2. s \in Injection(1 .. Len(s), Nodes)
    BY <1>1, BeginsOnce DEF Injection, IsInjective
  <1>3. IsFiniteSet(Nodes) /\ Cardinality(Nodes) \in Nat
    BY NodesAssumption, FS_CardinalityType
  <1>4. Cardinality(1 .. Len(s)) <= Cardinality(Nodes)
    BY <1>2, <1>3, FS_Injection
  <1>5. Cardinality(1 .. Len(s)) = Len(s)
    <2>1. 1 \in Int /\ Len(s) \in Int /\ Len(s) >= 0
      BY <1>1
    <2>2. Cardinality(1 .. Len(s)) = IF 1 > Len(s) THEN 0 ELSE Len(s) - 1 + 1
      BY <2>1, FS_Interval
    <2> QED BY <2>1, <2>2
  <1>6. Len(s) \in 0 .. Cardinality(Nodes)
    BY <1>1, <1>3, <1>4, <1>5
  <1> QED BY <1>1, <1>6 DEF SeqOf

\* One that goes on for as long as it can is the list.
LEMMA ListExists ==
  ASSUME NEW h, Sound(h), NEW p \in Nodes
  PROVE  \E s \in SeqOf(Nodes, Cardinality(Nodes)) : IsListOf(h, p, s)
  <1> DEFINE HasLength(k) == \E s : Begins(h, p, s) /\ Len(s) = k
             T == {k \in Nat : ~HasLength(k)}
  <1>1. HasLength(0)
    <2>1. Begins(h, p, <<>>) /\ Len(<<>>) = 0
      BY DEF Begins
    <2> QED BY <2>1
  <1>2. T \in SUBSET Nat /\ T # {}
    <2>1. Cardinality(Nodes) \in Nat
      BY NodesAssumption, FS_CardinalityType
    <2>2. Cardinality(Nodes) + 1 \in T
      <3>1. ASSUME NEW s, Begins(h, p, s) PROVE Len(s) # Cardinality(Nodes) + 1
        BY <2>1, <3>1, BeginsShort
      <3> QED BY <2>1, <3>1
    <2> QED BY <2>2
  <1>3. PICK k \in T : \A m \in T : k <= m
    <2> HIDE DEF T
    <2> QED BY <1>2, LeastNumber
  <1>4. k # 0 /\ k - 1 \in Nat /\ k - 1 \notin T
    <2>1. k \in Nat /\ k # 0
      BY <1>1, <1>3
    <2> HIDE DEF T
    <2> QED BY <1>3, <2>1
  <1>5. PICK s : Begins(h, p, s) /\ Len(s) = k - 1
    BY <1>4
  <1>6. s \in Seq(Nodes)
    BY <1>5 DEF Begins
  <1>7. \A c \in Nodes : ~Begins(h, p, Append(s, c))
    <2> SUFFICES ASSUME NEW c \in Nodes, Begins(h, p, Append(s, c)) PROVE FALSE
      OBVIOUS
    <2>1. Len(Append(s, c)) = k
      BY <1>3, <1>5, <1>6
    <2>2. HasLength(k)
      BY <2>1
    <2> QED BY <1>3, <2>2
  <1>8. IsListOf(h, p, s)
    <2>1. CASE s = <<>>
      <3>1. ASSUME h[p].head # NULL PROVE FALSE
        <4>1. h[p].head \in Nodes
          BY <3>1, Fields DEF Sound, Pointer
        <4>2. Begins(h, p, Append(s, h[p].head))
          BY <2>1, <4>1 DEF Begins
        <4> QED BY <1>7, <4>1, <4>2
      <3> QED BY <2>1, <3>1 DEF IsListOf
    <2>2. CASE s # <<>>
      <3> DEFINE c == h[s[Len(s)]].next
      <3>1. Len(s) \in 1 .. Len(s) /\ s[Len(s)] \in Nodes
        BY <1>6, <2>2
      <3>2. c \in Pointer
        BY <3>1, Fields DEF Sound
      <3>3. ASSUME c # NULL PROVE FALSE
        <4>1. c \in Nodes
          BY <3>2, <3>3 DEF Pointer
        <4> DEFINE t == Append(s, c)
        <4>2. /\ t \in Seq(Nodes) /\ Len(t) = Len(s) + 1 /\ t # <<>>
              /\ \A i \in 1 .. Len(s) : t[i] = s[i]
              /\ t[Len(s) + 1] = c
          BY <1>6, <4>1
        <4>3. t[1] = h[p].head
          BY <1>5, <2>2, <3>1, <4>2 DEF Begins
        <4>4. ASSUME NEW i \in 1 .. Len(t) - 1 PROVE h[t[i]].next = t[i + 1]
          <5>1. i \in 1 .. Len(s) /\ t[i] = s[i]
            BY <1>6, <4>2
          <5>2. CASE i = Len(s)
            BY <4>2, <5>1, <5>2
          <5>3. CASE i # Len(s)
            <6>1. i \in 1 .. Len(s) - 1 /\ i + 1 \in 1 .. Len(s)
              BY <1>6, <5>1, <5>3
            <6> QED BY <1>5, <4>2, <5>1, <6>1 DEF Begins
          <5> QED BY <5>2, <5>3
        <4> HIDE DEF t
        <4>5. Begins(h, p, t)
          BY <4>2, <4>3, <4>4 DEF Begins
        <4> QED BY <1>7, <4>1, <4>5 DEF t
      <3> HIDE DEF c
      <3>4. h[s[Len(s)]].next = NULL
        BY <3>3 DEF c
      <3> QED BY <1>5, <2>2, <3>4 DEF IsListOf, Begins
    <2> QED BY <2>1, <2>2
  <1> QED BY <1>5, <1>8, BeginsShort

LEMMA BeginsOfList ==
  ASSUME NEW h, NEW p, NEW s \in Seq(Nodes), IsListOf(h, p, s)
  PROVE  Begins(h, p, s)
  BY DEF Begins, IsListOf

\* The list is all that is in order: there is no other.
LEMMA ListUnique ==
  ASSUME NEW h, Sound(h), NEW p \in Nodes,
         NEW s \in Seq(Nodes), IsListOf(h, p, s), NEW t \in Seq(Nodes), IsListOf(h, p, t)
  PROVE  s = t
  <1>0. /\ NULL \notin Nodes /\ Len(s) \in Nat /\ Len(t) \in Nat
        /\ \A i \in 1 .. Len(s) : s[i] \in Nodes
        /\ \A i \in 1 .. Len(t) : t[i] \in Nodes
    BY NullIsNoNode
  <1>1. ASSUME NEW a \in Seq(Nodes), IsListOf(h, p, a), NEW b \in Seq(Nodes), IsListOf(h, p, b),
               NEW i \in 1 .. Len(a)
        PROVE  i \in 1 .. Len(b) /\ a[i] = b[i]
    <2> DEFINE T == {m \in 1 .. Len(a) : ~(m \in 1 .. Len(b) /\ a[m] = b[m])}
    <2>0. /\ NULL \notin Nodes /\ Len(a) \in Nat /\ Len(b) \in Nat
          /\ \A m \in 1 .. Len(a) : a[m] \in Nodes
          /\ \A m \in 1 .. Len(b) : b[m] \in Nodes
      BY NullIsNoNode
    <2> SUFFICES ASSUME T # {} PROVE FALSE
      OBVIOUS
    <2>1. T \in SUBSET Nat
      OBVIOUS
    <2>2. PICK m \in T : \A n \in T : m <= n
      BY <2>1, LeastNumber
    <2>3. m \in 1 .. Len(a) /\ ~(m \in 1 .. Len(b) /\ a[m] = b[m]) /\ a # <<>>
      BY <2>2
    <2>4. CASE m = 1
      <3>1. a[1] = h[p].head /\ a[1] \in Nodes
        BY <1>1, <2>0, <2>3, <2>4 DEF IsListOf
      <3>2. b # <<>>
        BY <1>1, <2>0, <3>1 DEF IsListOf
      <3>3. b[1] = h[p].head /\ 1 \in 1 .. Len(b)
        BY <1>1, <2>0, <3>2 DEF IsListOf
      <3> QED BY <2>3, <2>4, <3>1, <3>3
    <2>5. CASE m # 1
      <3>1. m - 1 \in 1 .. Len(a) - 1 /\ m - 1 \in 1 .. Len(a) /\ m - 1 \notin T
        BY <2>0, <2>2, <2>3, <2>5, SMTT(30)
      <3>2. m - 1 \in 1 .. Len(b) /\ a[m - 1] = b[m - 1]
        BY <3>1
      <3>3. h[a[m - 1]].next = a[m]
        <4>1. h[a[m - 1]].next = a[(m - 1) + 1]
          BY <1>1, <3>1 DEF IsListOf
        <4> QED BY <2>3, <4>1
      <3>4. m - 1 # Len(b)
        <4> SUFFICES ASSUME m - 1 = Len(b) PROVE FALSE
          OBVIOUS
        <4>1. b # <<>> /\ h[b[Len(b)]].next = NULL
          BY <1>1, <2>0, <3>2 DEF IsListOf
        <4> QED BY <2>0, <2>3, <3>2, <3>3, <4>1
      <3>5. m - 1 \in 1 .. Len(b) - 1 /\ m \in 1 .. Len(b)
        BY <2>0, <2>3, <3>2, <3>4
      <3>6. h[b[m - 1]].next = b[m]
        <4>1. h[b[m - 1]].next = b[(m - 1) + 1]
          BY <1>1, <3>5 DEF IsListOf
        <4> QED BY <2>3, <4>1
      <3> QED BY <2>3, <3>2, <3>3, <3>5, <3>6
    <2> QED BY <2>4, <2>5
  <1>2. \A i \in 1 .. Len(s) : i \in 1 .. Len(t) /\ s[i] = t[i]
    BY <1>1
  <1>3. \A i \in 1 .. Len(t) : i \in 1 .. Len(s)
    BY <1>1
  <1>4. Len(s) = Len(t)
    <2>1. Len(s) <= Len(t)
      BY <1>0, <1>2
    <2>2. Len(t) <= Len(s)
      BY <1>0, <1>3
    <2> QED BY <1>0, <2>1, <2>2
  <1> QED BY <1>2, <1>4

\* The sequence chosen for a node is its list, of which it has all children.
LEMMA ListIs ==
  ASSUME NEW h, Sound(h), NEW p \in Nodes
  PROVE  /\ ListOf(h, p) \in Seq(Nodes)
         /\ IsListOf(h, p, ListOf(h, p))
         /\ Begins(h, p, ListOf(h, p))
  <1>1. /\ ListOf(h, p) \in SeqOf(Nodes, Cardinality(Nodes))
        /\ IsListOf(h, p, ListOf(h, p))
    BY ListExists, Zenon DEF ListOf
  <1>2. Cardinality(Nodes) \in Nat
    BY NodesAssumption, FS_CardinalityType
  <1>3. PICK k \in 0 .. Cardinality(Nodes) : ListOf(h, p) \in [1 .. k -> Nodes]
    BY <1>1, Zenon DEF SeqOf
  <1>4. ListOf(h, p) \in Seq(Nodes)
    BY <1>2, <1>3
  <1> QED BY <1>1, <1>4, BeginsOfList

LEMMA ListEquals ==
  ASSUME NEW h, Sound(h), NEW p \in Nodes, NEW s \in Seq(Nodes), IsListOf(h, p, s)
  PROVE  ListOf(h, p) = s
  BY ListIs, ListUnique

LEMMA ListRange ==
  ASSUME NEW h, Sound(h), NEW p \in Nodes
  PROVE  Range(ListOf(h, p)) = {n \in Nodes : h[n].parent = p}
  <1> DEFINE s == ListOf(h, p)
  <1>1. /\ s \in Seq(Nodes) /\ IsListOf(h, p, s)
        /\ \A i \in 1 .. Len(s) : s[i] \in Nodes /\ h[s[i]].parent = p
        /\ NULL \notin Nodes
    BY ListIs, BeginsLinked, NullIsNoNode
  <1> HIDE DEF s
  <1> DEFINE S == {s[i] : i \in 1 .. Len(s)}
  <1>2. Range(s) = S
    BY <1>1 DEF Range
  <1>3. S \in SUBSET {n \in Nodes : h[n].parent = p}
    BY <1>1
  <1>4. ListFrom(h, p, S)
    <2>1. h[p].head \in S \cup {NULL}
      <3>1. CASE s = <<>>
        BY <1>1, <3>1 DEF IsListOf
      <3>2. CASE s # <<>>
        <4>1. 1 \in 1 .. Len(s) /\ s[1] = h[p].head
          BY <1>1, <3>2 DEF IsListOf
        <4> QED BY <4>1
      <3> QED BY <3>1, <3>2
    <2>2. ASSUME NEW i \in 1 .. Len(s) PROVE h[s[i]].next \in S \cup {NULL}
      <3>1. CASE i = Len(s)
        BY <1>1, <3>1 DEF IsListOf
      <3>2. CASE i # Len(s)
        <4>1. i \in 1 .. Len(s) - 1 /\ i + 1 \in 1 .. Len(s)
          BY <1>1, <3>2
        <4>2. h[s[i]].next = s[i + 1]
          BY <1>1, <4>1 DEF IsListOf
        <4> QED BY <4>1, <4>2
      <3> QED BY <3>1, <3>2
    <2> QED BY <2>1, <2>2 DEF ListFrom
  <1>5. \A n \in Nodes : h[n].parent = p => n \in S
    <2>1. S \in SUBSET Nodes
      BY <1>3
    <2> HIDE DEF S
    <2> QED BY <1>4, <2>1 DEF Sound, Chained
  <1> QED BY <1>2, <1>3, <1>5 DEF s

-----------------------------------------------------------------------------
(* Adding a child.                                                         *)

\* What append_node and prepend_node are called with.
Addable(h, p, c) ==
  /\ Sound(h) /\ p \in Nodes /\ c \in Nodes
  /\ IsContainer(h[p]) /\ h[c].tag # "free" /\ h[c].parent = NULL
  /\ h[c].key = (h[p].tag = "object")
  /\ p \notin Reached(h, c)

\* Going up still ends when a root c gets a parent that is not below it.
LEMMA AddGrounded ==
  ASSUME NEW h, NEW p, NEW c, Addable(h, p, c), NEW g,
         \A n \in Nodes : g[n].parent = IF n = c THEN p ELSE h[n].parent
  PROVE  Grounded(g)
  <1> SUFFICES ASSUME NEW S \in SUBSET Nodes, S # {}, \A n \in S : g[n].parent \in S
               PROVE  FALSE
    BY DEF Grounded
  <1> DEFINE R == Reached(h, c)
  <1>0. Sound(h) /\ p \in Nodes /\ c \in Nodes /\ p \notin R /\ h[c].parent = NULL
    BY DEF Addable
  <1>1. c \in R /\ R \in SUBSET Nodes /\ \A n \in Nodes : h[n].parent \in R => n \in R
    BY <1>0, WholeTree
  <1> HIDE DEF R
  <1>2. CASE c \notin S
    <2>1. \A n \in S : h[n].parent \in S
      BY <1>2
    <2> QED BY <1>0, <2>1 DEF Sound, Grounded
  <1>3. CASE c \in S
    <2> DEFINE T == S \ R
    <2>1. p \in T
      BY <1>0, <1>3
    <2>2. ASSUME NEW n \in T PROVE h[n].parent \in T
      <3>1. n # c /\ n \in Nodes
        BY <1>1
      <3> QED BY <1>1, <3>1
    <2>3. T \in SUBSET Nodes /\ T # {}
      BY <2>1
    <2> QED BY <1>0, <2>2, <2>3 DEF Sound, Grounded
  <1> QED BY <1>2, <1>3

LEMMA AppendSound ==
  ASSUME NEW h, NEW p, NEW c, Addable(h, p, c)
  PROVE  /\ Sound(append_node(h, p, c))
         /\ \A n \in Nodes : /\ append_node(h, p, c)[n].key = h[n].key
                             /\ append_node(h, p, c)[n].parent = IF n = c THEN p ELSE h[n].parent
         /\ Appended(h, p, c, append_node(h, p, c))
  <1> DEFINE g    == append_node(h, p, c)
             last == h[p].tail
  <1>0. /\ Sound(h) /\ Typed(h) /\ Linked(h) /\ Placed(h) /\ Chained(h)
        /\ p \in Nodes /\ c \in Nodes /\ NULL \notin Nodes
        /\ IsContainer(h[p]) /\ h[c].tag # "free" /\ h[c].parent = NULL
        /\ h[c].key = (h[p].tag = "object") /\ last \in Pointer
    BY NullIsNoNode, Fields DEF Addable, Sound
  <1>1. /\ p # c /\ last # c /\ last # p
        /\ last # NULL => last \in Nodes /\ h[last].parent = p /\ h[last].next = NULL
        /\ (last = NULL) <=> (h[p].head = NULL)
        /\ h[c].prev = NULL /\ h[c].next = NULL
    <2>1. p # c
      BY <1>0, WholeTree DEF Addable
    <2>2. last # NULL => last \in Nodes /\ h[last].parent = p /\ h[last].next = NULL
      BY <1>0 DEF Linked, Pointer
    <2>3. (last = NULL) <=> (h[p].head = NULL)
      BY <1>0 DEF Linked
    <2>4. h[c].prev = NULL /\ h[c].next = NULL
      BY <1>0 DEF Placed
    <2>5. last # p
      BY <1>0, <2>2, NotOwnParent
    <2> QED BY <1>0, <2>1, <2>2, <2>3, <2>4, <2>5
  <1>2. \A n \in Nodes :
          g[n] = CASE n = c -> [h[n] EXCEPT !.parent = p, !.prev = last, !.next = NULL]
                   [] n = p -> [h[n] EXCEPT !.tail = c, !.head = IF last = NULL THEN c ELSE @]
                   [] n = last -> [h[n] EXCEPT !.next = c]
                   [] OTHER -> h[n]
    BY DEF append_node
  <1>3. \A n \in Nodes : g[n] =
          [tag    |-> h[n].tag,
           parent |-> IF n = c THEN p ELSE h[n].parent,
           prev   |-> IF n = c THEN last ELSE h[n].prev,
           next   |-> IF n = c THEN NULL ELSE IF n = last THEN c ELSE h[n].next,
           head   |-> IF n = p /\ last = NULL THEN c ELSE h[n].head,
           tail   |-> IF n = p THEN c ELSE h[n].tail,
           key    |-> h[n].key]
    <2> SUFFICES ASSUME NEW n \in Nodes
                 PROVE  g[n] =
          [tag    |-> h[n].tag,
           parent |-> IF n = c THEN p ELSE h[n].parent,
           prev   |-> IF n = c THEN last ELSE h[n].prev,
           next   |-> IF n = c THEN NULL ELSE IF n = last THEN c ELSE h[n].next,
           head   |-> IF n = p /\ last = NULL THEN c ELSE h[n].head,
           tail   |-> IF n = p THEN c ELSE h[n].tail,
           key    |-> h[n].key]
      OBVIOUS
    <2>1. h[n] \in JsonNode
      BY <1>0, Fields
    <2> HIDE DEF g, last
    <2>2. CASE n = c
      BY <1>1, <1>2, <2>1, <2>2 DEF JsonNode
    <2>3. CASE n = p
      BY <1>1, <1>2, <2>1, <2>3 DEF JsonNode
    <2>4. CASE n = last
      BY <1>1, <1>2, <2>1, <2>4 DEF JsonNode
    <2>5. CASE n # c /\ n # p /\ n # last
      BY <1>1, <1>2, <2>1, <2>5 DEF JsonNode
    <2> QED BY <2>2, <2>3, <2>4, <2>5
  <1>4. DOMAIN g = Nodes /\ g = [n \in Nodes |-> g[n]]
    BY DEF append_node
  <1> HIDE DEF g, last
  <1>5. \A n \in Nodes :
          /\ g[n].tag = h[n].tag /\ g[n].key = h[n].key
          /\ g[n].parent = IF n = c THEN p ELSE h[n].parent
          /\ g[n].prev = IF n = c THEN last ELSE h[n].prev
          /\ g[n].next = IF n = c THEN NULL ELSE IF n = last THEN c ELSE h[n].next
          /\ g[n].head = IF n = p /\ last = NULL THEN c ELSE h[n].head
          /\ g[n].tail = IF n = p THEN c ELSE h[n].tail
    <2> SUFFICES ASSUME NEW n \in Nodes
                 PROVE  /\ g[n].tag = h[n].tag /\ g[n].key = h[n].key
                        /\ g[n].parent = IF n = c THEN p ELSE h[n].parent
                        /\ g[n].prev = IF n = c THEN last ELSE h[n].prev
                        /\ g[n].next = IF n = c THEN NULL ELSE IF n = last THEN c ELSE h[n].next
                        /\ g[n].head = IF n = p /\ last = NULL THEN c ELSE h[n].head
                        /\ g[n].tail = IF n = p THEN c ELSE h[n].tail
      OBVIOUS
    <2>1. g[n] =
            [tag    |-> h[n].tag,
             parent |-> IF n = c THEN p ELSE h[n].parent,
             prev   |-> IF n = c THEN last ELSE h[n].prev,
             next   |-> IF n = c THEN NULL ELSE IF n = last THEN c ELSE h[n].next,
             head   |-> IF n = p /\ last = NULL THEN c ELSE h[n].head,
             tail   |-> IF n = p THEN c ELSE h[n].tail,
             key    |-> h[n].key]
      BY <1>3
    <2> QED BY <2>1
  <1>6. Typed(g)
    <2>1. \A n \in Nodes : g[n] \in JsonNode
      <3> SUFFICES ASSUME NEW n \in Nodes PROVE g[n] \in JsonNode
        OBVIOUS
      <3>1. /\ h[n].parent \in Pointer /\ h[n].prev \in Pointer /\ h[n].next \in Pointer
            /\ h[n].head \in Pointer /\ h[n].tail \in Pointer
            /\ h[n].key \in BOOLEAN /\ h[n].tag \in Tags
        BY <1>0, Fields
      <3>2. p \in Pointer /\ c \in Pointer /\ NULL \in Pointer
        BY <1>0 DEF Pointer
      <3> DEFINE parent == IF n = c THEN p ELSE h[n].parent
                 prev   == IF n = c THEN last ELSE h[n].prev
                 next   == IF n = c THEN NULL ELSE IF n = last THEN c ELSE h[n].next
                 head   == IF n = p /\ last = NULL THEN c ELSE h[n].head
                 tail   == IF n = p THEN c ELSE h[n].tail
      <3>3. /\ parent \in Pointer /\ prev \in Pointer /\ next \in Pointer
            /\ head \in Pointer /\ tail \in Pointer
        BY <1>0, <3>1, <3>2
      <3>4. g[n] = [tag |-> h[n].tag, parent |-> parent, prev |-> prev, next |-> next,
                    head |-> head, tail |-> tail, key |-> h[n].key]
        BY <1>3, Zenon
      <3> HIDE DEF parent, prev, next, head, tail
      <3> QED BY <3>1, <3>3, <3>4 DEF JsonNode
    <2>2. \A n \in Nodes : ~IsContainer(g[n]) => g[n].head = NULL /\ g[n].tail = NULL
      BY <1>0, <1>5 DEF Typed, IsContainer
    <2> QED BY <1>4, <2>1, <2>2 DEF Typed
  <1>7. Linked(g)
    <2> SUFFICES ASSUME NEW n \in Nodes
                 PROVE  /\ g[n].next # NULL => g[g[n].next].prev = n /\ g[g[n].next].parent = g[n].parent
                        /\ g[n].prev # NULL => g[g[n].prev].next = n /\ g[g[n].prev].parent = g[n].parent
                        /\ g[n].head # NULL => g[g[n].head].parent = n /\ g[g[n].head].prev = NULL
                        /\ g[n].tail # NULL => g[g[n].tail].parent = n /\ g[g[n].tail].next = NULL
                        /\ (g[n].head = NULL) <=> (g[n].tail = NULL)
      BY DEF Linked
    <2>1. /\ h[n].next # NULL => h[n].next \in Nodes /\ h[h[n].next].prev = n /\ h[h[n].next].parent = h[n].parent
          /\ h[n].prev # NULL => h[n].prev \in Nodes /\ h[h[n].prev].next = n /\ h[h[n].prev].parent = h[n].parent
          /\ h[n].head # NULL => h[n].head \in Nodes /\ h[h[n].head].parent = n /\ h[h[n].head].prev = NULL
          /\ h[n].tail # NULL => h[n].tail \in Nodes /\ h[h[n].tail].parent = n /\ h[h[n].tail].next = NULL
          /\ (h[n].head = NULL) <=> (h[n].tail = NULL)
      BY <1>0, Fields DEF Linked, Pointer
    <2>2. g[n].next # NULL => g[g[n].next].prev = n /\ g[g[n].next].parent = g[n].parent
      BY <1>0, <1>1, <1>5, <2>1
    <2>3. g[n].prev # NULL => g[g[n].prev].next = n /\ g[g[n].prev].parent = g[n].parent
      BY <1>0, <1>1, <1>5, <2>1
    <2>4. g[n].head # NULL => g[g[n].head].parent = n /\ g[g[n].head].prev = NULL
      BY <1>0, <1>1, <1>5, <2>1
    <2>5. g[n].tail # NULL => g[g[n].tail].parent = n /\ g[g[n].tail].next = NULL
      BY <1>0, <1>1, <1>5, <2>1, last = NULL \/ last \in Nodes DEF Pointer
    <2>6. (g[n].head = NULL) <=> (g[n].tail = NULL)
      BY <1>0, <1>1, <1>5, <2>1
    <2> QED BY <2>2, <2>3, <2>4, <2>5, <2>6
  <1>8. Placed(g)
    <2> SUFFICES ASSUME NEW n \in Nodes
                 PROVE  /\ g[n].parent = NULL => g[n].prev = NULL /\ g[n].next = NULL
                        /\ g[n].parent # NULL =>
                             /\ g[n].tag # "free" /\ IsContainer(g[g[n].parent])
                             /\ g[n].key = (g[g[n].parent].tag = "object")
                             /\ g[n].prev = NULL => g[g[n].parent].head = n
                             /\ g[n].next = NULL => g[g[n].parent].tail = n
      BY DEF Placed
    <2>1. h[n].parent # NULL => h[n].parent \in Nodes
      BY <1>0, Fields DEF Pointer
    <2>2. /\ h[n].parent = NULL => h[n].prev = NULL /\ h[n].next = NULL
          /\ h[n].parent # NULL =>
               /\ h[n].tag # "free" /\ IsContainer(h[h[n].parent])
               /\ h[n].key = (h[h[n].parent].tag = "object")
               /\ h[n].prev = NULL => h[h[n].parent].head = n
               /\ h[n].next = NULL => h[h[n].parent].tail = n
      BY <1>0 DEF Placed
    <2>3. CASE n = c
      BY <1>0, <1>1, <1>5, <2>3 DEF IsContainer
    <2>4. CASE n # c
      <3>1. /\ g[n].parent = h[n].parent /\ g[n].prev = h[n].prev
            /\ g[n].tag = h[n].tag /\ g[n].key = h[n].key
        BY <1>5, <2>4
      <3>2. g[n].parent = NULL => g[n].prev = NULL /\ g[n].next = NULL
        BY <1>0, <1>1, <1>5, <2>2, <2>4, <3>1
      <3>3. ASSUME g[n].parent # NULL
            PROVE  /\ g[n].tag # "free" /\ IsContainer(g[g[n].parent])
                   /\ g[n].key = (g[g[n].parent].tag = "object")
        <4>1. g[g[n].parent].tag = h[h[n].parent].tag
          BY <1>5, <2>1, <3>1, <3>3
        <4> QED BY <2>2, <3>1, <3>3, <4>1 DEF IsContainer
      <3>4. ASSUME g[n].parent # NULL, g[n].prev = NULL PROVE g[g[n].parent].head = n
        BY <1>0, <1>1, <1>5, <2>1, <2>2, <3>1, <3>4
      <3>5. ASSUME g[n].parent # NULL, g[n].next = NULL PROVE g[g[n].parent].tail = n
        <4>1. n # last /\ h[n].next = NULL
          BY <1>0, <1>5, <2>4, <3>5
        <4>2. h[n].parent \in Nodes /\ h[h[n].parent].tail = n
          BY <2>1, <2>2, <3>1, <3>5, <4>1
        <4>3. h[n].parent # p
          BY <4>1, <4>2 DEF last
        <4> QED BY <1>5, <3>1, <4>2, <4>3
      <3> QED BY <3>2, <3>3, <3>4, <3>5
    <2> QED BY <2>3, <2>4
  <1>9. Chained(g)
    <2> SUFFICES ASSUME NEW q \in Nodes, NEW S \in SUBSET Nodes, ListFrom(g, q, S),
                        NEW n \in Nodes, g[n].parent = q
                 PROVE  n \in S
      BY DEF Chained
    <2>1. /\ g[q].head \in S \cup {NULL}
          /\ \A m \in S : g[m].parent = q => g[m].next \in S \cup {NULL}
      BY DEF ListFrom
    <2>2. ListFrom(h, q, S)
      <3>1. h[q].head \in S \cup {NULL}
        BY <1>0, <1>1, <1>5, <2>1
      <3>2. ASSUME NEW m \in S, h[m].parent = q PROVE h[m].next \in S \cup {NULL}
        BY <1>0, <1>1, <1>5, <2>1, <3>2
      <3> QED BY <3>1, <3>2 DEF ListFrom
    <2>3. \A m \in Nodes : h[m].parent = q => m \in S
      BY <1>0, <2>2 DEF Chained
    <2> QED BY <1>0, <1>1, <1>5, <2>1, <2>3
  <1>10. Grounded(g)
    BY <1>5, AddGrounded
  <1>11. Sound(g)
    BY <1>6, <1>7, <1>8, <1>9, <1>10 DEF Sound
  <1>12. Appended(h, p, c, g)
    BY <1>5 DEF Appended, last
  <1> QED BY <1>5, <1>11, <1>12 DEF g

LEMMA PrependSound ==
  ASSUME NEW h, NEW p, NEW c, Addable(h, p, c)
  PROVE  /\ Sound(prepend_node(h, p, c))
         /\ \A n \in Nodes : /\ prepend_node(h, p, c)[n].key = h[n].key
                             /\ prepend_node(h, p, c)[n].parent = IF n = c THEN p ELSE h[n].parent
         /\ Prepended(h, p, c, prepend_node(h, p, c))
  <1> DEFINE g    == prepend_node(h, p, c)
             first == h[p].head
  <1>0. /\ Sound(h) /\ Typed(h) /\ Linked(h) /\ Placed(h) /\ Chained(h)
        /\ p \in Nodes /\ c \in Nodes /\ NULL \notin Nodes
        /\ IsContainer(h[p]) /\ h[c].tag # "free" /\ h[c].parent = NULL
        /\ h[c].key = (h[p].tag = "object") /\ first \in Pointer
    BY NullIsNoNode, Fields DEF Addable, Sound
  <1>1. /\ p # c /\ first # c /\ first # p
        /\ first # NULL => first \in Nodes /\ h[first].parent = p /\ h[first].prev = NULL
        /\ (first = NULL) <=> (h[p].tail = NULL)
        /\ h[c].next = NULL /\ h[c].prev = NULL
    <2>1. p # c
      BY <1>0, WholeTree DEF Addable
    <2>2. first # NULL => first \in Nodes /\ h[first].parent = p /\ h[first].prev = NULL
      BY <1>0 DEF Linked, Pointer
    <2>3. (first = NULL) <=> (h[p].tail = NULL)
      BY <1>0 DEF Linked
    <2>4. h[c].next = NULL /\ h[c].prev = NULL
      BY <1>0 DEF Placed
    <2>5. first # p
      BY <1>0, <2>2, NotOwnParent
    <2> QED BY <1>0, <2>1, <2>2, <2>3, <2>4, <2>5
  <1>2. \A n \in Nodes :
          g[n] = CASE n = c -> [h[n] EXCEPT !.parent = p, !.next = first, !.prev = NULL]
                   [] n = p -> [h[n] EXCEPT !.head = c, !.tail = IF first = NULL THEN c ELSE @]
                   [] n = first -> [h[n] EXCEPT !.prev = c]
                   [] OTHER -> h[n]
    BY DEF prepend_node
  <1>3. \A n \in Nodes : g[n] =
          [tag    |-> h[n].tag,
           parent |-> IF n = c THEN p ELSE h[n].parent,
           next   |-> IF n = c THEN first ELSE h[n].next,
           prev   |-> IF n = c THEN NULL ELSE IF n = first THEN c ELSE h[n].prev,
           tail   |-> IF n = p /\ first = NULL THEN c ELSE h[n].tail,
           head   |-> IF n = p THEN c ELSE h[n].head,
           key    |-> h[n].key]
    <2> SUFFICES ASSUME NEW n \in Nodes
                 PROVE  g[n] =
          [tag    |-> h[n].tag,
           parent |-> IF n = c THEN p ELSE h[n].parent,
           next   |-> IF n = c THEN first ELSE h[n].next,
           prev   |-> IF n = c THEN NULL ELSE IF n = first THEN c ELSE h[n].prev,
           tail   |-> IF n = p /\ first = NULL THEN c ELSE h[n].tail,
           head   |-> IF n = p THEN c ELSE h[n].head,
           key    |-> h[n].key]
      OBVIOUS
    <2>1. h[n] \in JsonNode
      BY <1>0, Fields
    <2> HIDE DEF g, first
    <2>2. CASE n = c
      BY <1>1, <1>2, <2>1, <2>2, ZenonT(30) DEF JsonNode
    <2>3. CASE n = p
      BY <1>1, <1>2, <2>1, <2>3, ZenonT(30) DEF JsonNode
    <2>4. CASE n = first
      BY <1>1, <1>2, <2>1, <2>4 DEF JsonNode
    <2>5. CASE n # c /\ n # p /\ n # first
      BY <1>1, <1>2, <2>1, <2>5 DEF JsonNode
    <2> QED BY <2>2, <2>3, <2>4, <2>5
  <1>4. DOMAIN g = Nodes /\ g = [n \in Nodes |-> g[n]]
    BY DEF prepend_node
  <1> HIDE DEF g, first
  <1>5. \A n \in Nodes :
          /\ g[n].tag = h[n].tag /\ g[n].key = h[n].key
          /\ g[n].parent = IF n = c THEN p ELSE h[n].parent
          /\ g[n].next = IF n = c THEN first ELSE h[n].next
          /\ g[n].prev = IF n = c THEN NULL ELSE IF n = first THEN c ELSE h[n].prev
          /\ g[n].tail = IF n = p /\ first = NULL THEN c ELSE h[n].tail
          /\ g[n].head = IF n = p THEN c ELSE h[n].head
    <2> SUFFICES ASSUME NEW n \in Nodes
                 PROVE  /\ g[n].tag = h[n].tag /\ g[n].key = h[n].key
                        /\ g[n].parent = IF n = c THEN p ELSE h[n].parent
                        /\ g[n].next = IF n = c THEN first ELSE h[n].next
                        /\ g[n].prev = IF n = c THEN NULL ELSE IF n = first THEN c ELSE h[n].prev
                        /\ g[n].tail = IF n = p /\ first = NULL THEN c ELSE h[n].tail
                        /\ g[n].head = IF n = p THEN c ELSE h[n].head
      OBVIOUS
    <2>1. g[n] =
            [tag    |-> h[n].tag,
             parent |-> IF n = c THEN p ELSE h[n].parent,
             next   |-> IF n = c THEN first ELSE h[n].next,
             prev   |-> IF n = c THEN NULL ELSE IF n = first THEN c ELSE h[n].prev,
             tail   |-> IF n = p /\ first = NULL THEN c ELSE h[n].tail,
             head   |-> IF n = p THEN c ELSE h[n].head,
             key    |-> h[n].key]
      BY <1>3
    <2> QED BY <2>1
  <1>6. Typed(g)
    <2>1. \A n \in Nodes : g[n] \in JsonNode
      <3> SUFFICES ASSUME NEW n \in Nodes PROVE g[n] \in JsonNode
        OBVIOUS
      <3>1. /\ h[n].parent \in Pointer /\ h[n].next \in Pointer /\ h[n].prev \in Pointer
            /\ h[n].tail \in Pointer /\ h[n].head \in Pointer
            /\ h[n].key \in BOOLEAN /\ h[n].tag \in Tags
        BY <1>0, Fields
      <3>2. p \in Pointer /\ c \in Pointer /\ NULL \in Pointer
        BY <1>0 DEF Pointer
      <3> DEFINE parent == IF n = c THEN p ELSE h[n].parent
                 next   == IF n = c THEN first ELSE h[n].next
                 prev   == IF n = c THEN NULL ELSE IF n = first THEN c ELSE h[n].prev
                 tail   == IF n = p /\ first = NULL THEN c ELSE h[n].tail
                 head   == IF n = p THEN c ELSE h[n].head
      <3>3. /\ parent \in Pointer /\ next \in Pointer /\ prev \in Pointer
            /\ tail \in Pointer /\ head \in Pointer
        BY <1>0, <3>1, <3>2
      <3>4. g[n] = [tag |-> h[n].tag, parent |-> parent, next |-> next, prev |-> prev,
                    tail |-> tail, head |-> head, key |-> h[n].key]
        BY <1>3, Zenon
      <3> HIDE DEF parent, next, prev, tail, head
      <3> QED BY <3>1, <3>3, <3>4 DEF JsonNode
    <2>2. \A n \in Nodes : ~IsContainer(g[n]) => g[n].tail = NULL /\ g[n].head = NULL
      BY <1>0, <1>5 DEF Typed, IsContainer
    <2> QED BY <1>4, <2>1, <2>2 DEF Typed
  <1>7. Linked(g)
    <2> SUFFICES ASSUME NEW n \in Nodes
                 PROVE  /\ g[n].prev # NULL => g[g[n].prev].next = n /\ g[g[n].prev].parent = g[n].parent
                        /\ g[n].next # NULL => g[g[n].next].prev = n /\ g[g[n].next].parent = g[n].parent
                        /\ g[n].tail # NULL => g[g[n].tail].parent = n /\ g[g[n].tail].next = NULL
                        /\ g[n].head # NULL => g[g[n].head].parent = n /\ g[g[n].head].prev = NULL
                        /\ (g[n].tail = NULL) <=> (g[n].head = NULL)
      BY DEF Linked
    <2>1. /\ h[n].prev # NULL => h[n].prev \in Nodes /\ h[h[n].prev].next = n /\ h[h[n].prev].parent = h[n].parent
          /\ h[n].next # NULL => h[n].next \in Nodes /\ h[h[n].next].prev = n /\ h[h[n].next].parent = h[n].parent
          /\ h[n].tail # NULL => h[n].tail \in Nodes /\ h[h[n].tail].parent = n /\ h[h[n].tail].next = NULL
          /\ h[n].head # NULL => h[n].head \in Nodes /\ h[h[n].head].parent = n /\ h[h[n].head].prev = NULL
          /\ (h[n].tail = NULL) <=> (h[n].head = NULL)
      BY <1>0, Fields DEF Linked, Pointer
    <2>2. g[n].prev # NULL => g[g[n].prev].next = n /\ g[g[n].prev].parent = g[n].parent
      BY <1>0, <1>1, <1>5, <2>1
    <2>3. g[n].next # NULL => g[g[n].next].prev = n /\ g[g[n].next].parent = g[n].parent
      BY <1>0, <1>1, <1>5, <2>1
    <2>4. g[n].tail # NULL => g[g[n].tail].parent = n /\ g[g[n].tail].next = NULL
      BY <1>0, <1>1, <1>5, <2>1
    <2>5. g[n].head # NULL => g[g[n].head].parent = n /\ g[g[n].head].prev = NULL
      BY <1>0, <1>1, <1>5, <2>1, first = NULL \/ first \in Nodes DEF Pointer
    <2>6. (g[n].tail = NULL) <=> (g[n].head = NULL)
      BY <1>0, <1>1, <1>5, <2>1
    <2> QED BY <2>2, <2>3, <2>4, <2>5, <2>6
  <1>8. Placed(g)
    <2> SUFFICES ASSUME NEW n \in Nodes
                 PROVE  /\ g[n].parent = NULL => g[n].next = NULL /\ g[n].prev = NULL
                        /\ g[n].parent # NULL =>
                             /\ g[n].tag # "free" /\ IsContainer(g[g[n].parent])
                             /\ g[n].key = (g[g[n].parent].tag = "object")
                             /\ g[n].next = NULL => g[g[n].parent].tail = n
                             /\ g[n].prev = NULL => g[g[n].parent].head = n
      BY DEF Placed
    <2>1. h[n].parent # NULL => h[n].parent \in Nodes
      BY <1>0, Fields DEF Pointer
    <2>2. /\ h[n].parent = NULL => h[n].next = NULL /\ h[n].prev = NULL
          /\ h[n].parent # NULL =>
               /\ h[n].tag # "free" /\ IsContainer(h[h[n].parent])
               /\ h[n].key = (h[h[n].parent].tag = "object")
               /\ h[n].next = NULL => h[h[n].parent].tail = n
               /\ h[n].prev = NULL => h[h[n].parent].head = n
      BY <1>0 DEF Placed
    <2>3. CASE n = c
      BY <1>0, <1>1, <1>5, <2>3 DEF IsContainer
    <2>4. CASE n # c
      <3>1. /\ g[n].parent = h[n].parent /\ g[n].next = h[n].next
            /\ g[n].tag = h[n].tag /\ g[n].key = h[n].key
        BY <1>5, <2>4
      <3>2. g[n].parent = NULL => g[n].next = NULL /\ g[n].prev = NULL
        BY <1>0, <1>1, <1>5, <2>2, <2>4, <3>1
      <3>3. ASSUME g[n].parent # NULL
            PROVE  /\ g[n].tag # "free" /\ IsContainer(g[g[n].parent])
                   /\ g[n].key = (g[g[n].parent].tag = "object")
        <4>1. g[g[n].parent].tag = h[h[n].parent].tag
          BY <1>5, <2>1, <3>1, <3>3
        <4> QED BY <2>2, <3>1, <3>3, <4>1 DEF IsContainer
      <3>4. ASSUME g[n].parent # NULL, g[n].next = NULL PROVE g[g[n].parent].tail = n
        BY <1>0, <1>1, <1>5, <2>1, <2>2, <3>1, <3>4
      <3>5. ASSUME g[n].parent # NULL, g[n].prev = NULL PROVE g[g[n].parent].head = n
        <4>1. n # first /\ h[n].prev = NULL
          BY <1>0, <1>5, <2>4, <3>5
        <4>2. h[n].parent \in Nodes /\ h[h[n].parent].head = n
          BY <2>1, <2>2, <3>1, <3>5, <4>1
        <4>3. h[n].parent # p
          BY <4>1, <4>2 DEF first
        <4> QED BY <1>5, <3>1, <4>2, <4>3
      <3> QED BY <3>2, <3>3, <3>4, <3>5
    <2> QED BY <2>3, <2>4
  <1>9. Chained(g)
    <2> SUFFICES ASSUME NEW q \in Nodes, NEW S \in SUBSET Nodes, ListFrom(g, q, S),
                        NEW n \in Nodes, g[n].parent = q
                 PROVE  n \in S
      BY DEF Chained
    <2>1. /\ g[q].head \in S \cup {NULL}
          /\ \A m \in S : g[m].parent = q => g[m].next \in S \cup {NULL}
      BY DEF ListFrom
    <2>2. q = p => c \in S
      BY <1>0, <1>5, <2>1
    <2>3. ListFrom(h, q, S)
      <3>1. h[q].head \in S \cup {NULL}
        BY <1>0, <1>1, <1>5, <2>1, <2>2 DEF first
      <3>2. ASSUME NEW m \in S, h[m].parent = q PROVE h[m].next \in S \cup {NULL}
        BY <1>0, <1>1, <1>5, <2>1, <3>2
      <3> QED BY <3>1, <3>2 DEF ListFrom
    <2>4. \A m \in Nodes : h[m].parent = q => m \in S
      BY <1>0, <2>3 DEF Chained
    <2> QED BY <1>0, <1>1, <1>5, <2>1, <2>2, <2>4
  <1>10. Grounded(g)
    BY <1>5, AddGrounded
  <1>11. Sound(g)
    BY <1>6, <1>7, <1>8, <1>9, <1>10 DEF Sound
  <1>12. Prepended(h, p, c, g)
    BY <1>5 DEF Prepended, first
  <1> QED BY <1>5, <1>11, <1>12 DEF g

-----------------------------------------------------------------------------
(* Removing a child.                                                       *)

LEMMA UnlinkSound ==
  ASSUME NEW h, Sound(h), NEW node \in Nodes
  PROVE  /\ Sound(unlink(h, node))
         /\ \A n \in Nodes :
              /\ unlink(h, node)[n].parent = IF n = node THEN NULL ELSE h[n].parent
              /\ unlink(h, node)[n].key =
                   IF n = node /\ h[node].parent # NULL THEN FALSE ELSE h[n].key
         /\ Unlinked(h, node, unlink(h, node))
  <1> DEFINE g  == unlink(h, node)
             up == h[node].parent
             before == h[node].prev
             after  == h[node].next
  <1>0. /\ Typed(h) /\ Linked(h) /\ Placed(h) /\ Chained(h) /\ NULL \notin Nodes
        /\ up \in Pointer /\ before \in Pointer /\ after \in Pointer
    BY NullIsNoNode, Fields DEF Sound
  <1>a. CASE up = NULL
    <2>1. g = [n \in Nodes |-> h[n]]
      BY <1>a DEF unlink
    <2>2. g = h
      BY <1>0, <2>1 DEF Typed
    <2>3. h[node].prev = NULL /\ h[node].next = NULL
      BY <1>0, <1>a DEF Placed
    <2>4. \A n \in Nodes : g[n] = h[n] /\ n # NULL
      BY <1>0, <2>2
    <2>5. Sound(g)
      BY <2>2
    <2> HIDE DEF g
    <2>6. \A n \in Nodes : /\ g[n].parent = IF n = node THEN NULL ELSE h[n].parent
                           /\ g[n].key = IF n = node /\ h[node].parent # NULL THEN FALSE ELSE h[n].key
      BY <1>a, <2>4
    <2>7. Unlinked(h, node, g)
      BY <1>a, <2>3, <2>4 DEF Unlinked
    <2> QED BY <2>5, <2>6, <2>7 DEF g
  <1>b. CASE up # NULL
    <2>1. /\ before # NULL => /\ before \in Nodes /\ h[before].parent = up
                              /\ h[before].next = node
          /\ after # NULL => /\ after \in Nodes /\ h[after].parent = up
                             /\ h[after].prev = node
          /\ up \in Nodes
          /\ before = NULL => h[up].head = node
          /\ after = NULL => h[up].tail = node
      BY <1>0, <1>b DEF Linked, Placed, Pointer
    <2>2. before # node
      <3> SUFFICES ASSUME before = node PROVE FALSE
        OBVIOUS
      <3>1. \A n \in {node} : h[n].parent = up /\ h[n].prev \in {node}
        OBVIOUS
      <3>2. up \in Nodes
        BY <2>1
      <3> HIDE DEF up
      <3> QED BY <3>1, <3>2, NoLoop, {node} \in SUBSET Nodes, {node} # {}
    <2>3. after # node
      BY <2>1, <2>2, NullIsNoNode
    <2>4. after # NULL => before # after
      <3> SUFFICES ASSUME after # NULL, before = after PROVE FALSE
        OBVIOUS
      <3>1. \A n \in {node, before} : h[n].parent = up /\ h[n].prev \in {node, before}
        BY <2>1
      <3> QED BY <2>1, <3>1, NoLoop, {node, before} \in SUBSET Nodes, {node, before} # {}
    <2>5. up # node /\ up # before /\ up # after
      BY <1>b, <2>1, NotOwnParent
    <2>6. \A n \in Nodes : g[n] =
            CASE n = node   -> [h[node] EXCEPT !.parent = NULL, !.prev = NULL, !.next = NULL,
                                               !.key = FALSE]
              [] n = up     -> [h[n] EXCEPT !.head = IF before = NULL THEN after ELSE @,
                                            !.tail = IF after = NULL THEN before ELSE @]
              [] n = before -> [h[n] EXCEPT !.next = after]
              [] n = after  -> [h[n] EXCEPT !.prev = before]
              [] OTHER      -> h[n]
      <3> SUFFICES ASSUME NEW n \in Nodes
                   PROVE  g[n] =
            CASE n = node   -> [h[node] EXCEPT !.parent = NULL, !.prev = NULL, !.next = NULL,
                                               !.key = FALSE]
              [] n = up     -> [h[n] EXCEPT !.head = IF before = NULL THEN after ELSE @,
                                            !.tail = IF after = NULL THEN before ELSE @]
              [] n = before -> [h[n] EXCEPT !.next = after]
              [] n = after  -> [h[n] EXCEPT !.prev = before]
              [] OTHER      -> h[n]
        OBVIOUS
      <3>1. CASE n = node
        BY <1>b, <3>1 DEF unlink
      <3>2. CASE n = up
        BY <1>b, <2>5, <3>2 DEF unlink
      <3>3. CASE n = before
        <4>1. n # node /\ n # up /\ n # after
          BY <1>0, <2>2, <2>4, <2>5, <3>3
        <4> QED BY <1>b, <3>3, <4>1 DEF unlink
      <3>4. CASE n = after /\ n # before
        BY <1>b, <2>3, <2>5, <3>4 DEF unlink
      <3>5. CASE n # node /\ n # up /\ n # before /\ n # after
        BY <1>b, <3>5 DEF unlink
      <3> QED BY <3>1, <3>2, <3>3, <3>4, <3>5
    <2>7. DOMAIN g = Nodes /\ g = [n \in Nodes |-> g[n]]
      BY DEF unlink
    <2> HIDE DEF g, up, before, after
    <2>8. \A n \in Nodes : g[n] =
            [tag    |-> h[n].tag,
             parent |-> IF n = node THEN NULL ELSE h[n].parent,
             prev   |-> IF n = node THEN NULL ELSE IF n = after THEN before ELSE h[n].prev,
             next   |-> IF n = node THEN NULL ELSE IF n = before THEN after ELSE h[n].next,
             head   |-> IF n = up /\ before = NULL THEN after ELSE h[n].head,
             tail   |-> IF n = up /\ after = NULL THEN before ELSE h[n].tail,
             key    |-> IF n = node THEN FALSE ELSE h[n].key]
      <3> SUFFICES ASSUME NEW n \in Nodes
                   PROVE  g[n] =
            [tag    |-> h[n].tag,
             parent |-> IF n = node THEN NULL ELSE h[n].parent,
             prev   |-> IF n = node THEN NULL ELSE IF n = after THEN before ELSE h[n].prev,
             next   |-> IF n = node THEN NULL ELSE IF n = before THEN after ELSE h[n].next,
             head   |-> IF n = up /\ before = NULL THEN after ELSE h[n].head,
             tail   |-> IF n = up /\ after = NULL THEN before ELSE h[n].tail,
             key    |-> IF n = node THEN FALSE ELSE h[n].key]
        OBVIOUS
      <3>1. h[n] \in JsonNode /\ h[node] \in JsonNode
        BY <1>0, Fields
      <3>2. CASE n = node
        BY <2>2, <2>3, <2>5, <2>6, <3>1, <3>2 DEF JsonNode
      <3>3. CASE n = up
        BY <2>5, <2>6, <3>1, <3>3, ZenonT(30) DEF JsonNode
      <3>4. CASE n = before
        BY <1>0, <2>2, <2>4, <2>5, <2>6, <3>1, <3>4, ZenonT(30) DEF JsonNode
      <3>5. CASE n = after
        BY <1>0, <2>3, <2>4, <2>5, <2>6, <3>1, <3>5, ZenonT(30) DEF JsonNode
      <3>6. CASE n # node /\ n # up /\ n # before /\ n # after
        BY <2>6, <3>1, <3>6 DEF JsonNode
      <3> QED BY <3>2, <3>3, <3>4, <3>5, <3>6
    <2>9. \A n \in Nodes :
            /\ g[n].tag = h[n].tag
            /\ g[n].parent = IF n = node THEN NULL ELSE h[n].parent
            /\ g[n].prev = IF n = node THEN NULL ELSE IF n = after THEN before ELSE h[n].prev
            /\ g[n].next = IF n = node THEN NULL ELSE IF n = before THEN after ELSE h[n].next
            /\ g[n].head = IF n = up /\ before = NULL THEN after ELSE h[n].head
            /\ g[n].tail = IF n = up /\ after = NULL THEN before ELSE h[n].tail
            /\ g[n].key = IF n = node THEN FALSE ELSE h[n].key
      <3> SUFFICES ASSUME NEW n \in Nodes
                   PROVE  
            /\ g[n].tag = h[n].tag
            /\ g[n].parent = IF n = node THEN NULL ELSE h[n].parent
            /\ g[n].prev = IF n = node THEN NULL ELSE IF n = after THEN before ELSE h[n].prev
            /\ g[n].next = IF n = node THEN NULL ELSE IF n = before THEN after ELSE h[n].next
            /\ g[n].head = IF n = up /\ before = NULL THEN after ELSE h[n].head
            /\ g[n].tail = IF n = up /\ after = NULL THEN before ELSE h[n].tail
            /\ g[n].key = IF n = node THEN FALSE ELSE h[n].key
        OBVIOUS
      <3>1. g[n] =
            [tag    |-> h[n].tag,
             parent |-> IF n = node THEN NULL ELSE h[n].parent,
             prev   |-> IF n = node THEN NULL ELSE IF n = after THEN before ELSE h[n].prev,
             next   |-> IF n = node THEN NULL ELSE IF n = before THEN after ELSE h[n].next,
             head   |-> IF n = up /\ before = NULL THEN after ELSE h[n].head,
             tail   |-> IF n = up /\ after = NULL THEN before ELSE h[n].tail,
             key    |-> IF n = node THEN FALSE ELSE h[n].key]
        BY <2>8
      <3> QED BY <3>1
    <2>10. Typed(g)
      <3>1. \A n \in Nodes : g[n] \in JsonNode
        <4> SUFFICES ASSUME NEW n \in Nodes PROVE g[n] \in JsonNode
          OBVIOUS
        <4>1. /\ h[n].parent \in Pointer /\ h[n].prev \in Pointer /\ h[n].next \in Pointer
              /\ h[n].head \in Pointer /\ h[n].tail \in Pointer
              /\ h[n].key \in BOOLEAN /\ h[n].tag \in Tags /\ NULL \in Pointer
          BY <1>0, Fields DEF Pointer
        <4> DEFINE parent == IF n = node THEN NULL ELSE h[n].parent
                   prev   == IF n = node THEN NULL ELSE IF n = after THEN before ELSE h[n].prev
                   next   == IF n = node THEN NULL ELSE IF n = before THEN after ELSE h[n].next
                   head   == IF n = up /\ before = NULL THEN after ELSE h[n].head
                   tail   == IF n = up /\ after = NULL THEN before ELSE h[n].tail
                   key    == IF n = node THEN FALSE ELSE h[n].key
        <4>2. /\ parent \in Pointer /\ prev \in Pointer /\ next \in Pointer
              /\ head \in Pointer /\ tail \in Pointer /\ key \in BOOLEAN
          BY <1>0, <4>1
        <4>3. g[n] = [tag |-> h[n].tag, parent |-> parent, prev |-> prev, next |-> next,
                      head |-> head, tail |-> tail, key |-> key]
          BY <2>8, Zenon
        <4> HIDE DEF parent, prev, next, head, tail, key
        <4> QED BY <4>1, <4>2, <4>3 DEF JsonNode
      <3>2. \A n \in Nodes : ~IsContainer(g[n]) => g[n].head = NULL /\ g[n].tail = NULL
        <4>1. IsContainer(h[up])
          BY <1>0, <1>b DEF Placed, up
        <4> QED BY <1>0, <2>9, <4>1, ZenonT(30) DEF Typed, IsContainer
      <3> QED BY <2>7, <3>1, <3>2 DEF Typed
    <2>11. Linked(g)
      <3> SUFFICES ASSUME NEW n \in Nodes
                   PROVE  /\ g[n].next # NULL => g[g[n].next].prev = n /\ g[g[n].next].parent = g[n].parent
                          /\ g[n].prev # NULL => g[g[n].prev].next = n /\ g[g[n].prev].parent = g[n].parent
                          /\ g[n].head # NULL => g[g[n].head].parent = n /\ g[g[n].head].prev = NULL
                          /\ g[n].tail # NULL => g[g[n].tail].parent = n /\ g[g[n].tail].next = NULL
                          /\ (g[n].head = NULL) <=> (g[n].tail = NULL)
        BY DEF Linked
      <3>1. /\ h[n].next # NULL => h[n].next \in Nodes /\ h[h[n].next].prev = n /\ h[h[n].next].parent = h[n].parent
            /\ h[n].prev # NULL => h[n].prev \in Nodes /\ h[h[n].prev].next = n /\ h[h[n].prev].parent = h[n].parent
            /\ h[n].head # NULL => h[n].head \in Nodes /\ h[h[n].head].parent = n /\ h[h[n].head].prev = NULL
            /\ h[n].tail # NULL => h[n].tail \in Nodes /\ h[h[n].tail].parent = n /\ h[h[n].tail].next = NULL
            /\ (h[n].head = NULL) <=> (h[n].tail = NULL)
        BY <1>0, Fields DEF Linked, Pointer
      <3>0. h[node].parent = up /\ h[node].prev = before /\ h[node].next = after
        BY DEF up, before, after
      <3>a. after # NULL => g[after].prev = before /\ g[after].parent = up
        BY <2>1, <2>3, <2>9
      <3>b. before # NULL => g[before].next = after /\ g[before].parent = up
        BY <2>1, <2>2, <2>9
      <3>c. g[node].next = NULL /\ g[node].prev = NULL
        BY <2>9
      <3>2. ASSUME g[n].next # NULL
            PROVE  g[g[n].next].prev = n /\ g[g[n].next].parent = g[n].parent
        <4>1. n # node
          BY <3>2, <3>c
        <4>2. CASE n = before
          BY <1>0, <3>2, <3>a, <3>b, <4>2
        <4>3. CASE n # before
          <5> DEFINE m == h[n].next
          <5>1. g[n].next = m /\ m \in Nodes /\ h[m].prev = n /\ h[m].parent = h[n].parent
            BY <2>9, <3>1, <3>2, <4>1, <4>3
          <5>2. m # node /\ m # after
            BY <1>0, <2>1, <3>0, <4>1, <4>3, <5>1
          <5> HIDE DEF m
          <5>3. g[m].prev = h[m].prev /\ g[m].parent = h[m].parent /\ g[n].parent = h[n].parent
            BY <2>9, <4>1, <5>1, <5>2
          <5> QED BY <5>1, <5>3
        <4> QED BY <4>2, <4>3
      <3>3. ASSUME g[n].prev # NULL
            PROVE  g[g[n].prev].next = n /\ g[g[n].prev].parent = g[n].parent
        <4>1. n # node
          BY <3>3, <3>c
        <4>2. CASE n = after
          BY <1>0, <3>3, <3>a, <3>b, <4>2
        <4>3. CASE n # after
          <5> DEFINE m == h[n].prev
          <5>1. g[n].prev = m /\ m \in Nodes /\ h[m].next = n /\ h[m].parent = h[n].parent
            BY <2>9, <3>1, <3>3, <4>1, <4>3
          <5>2. m # node /\ m # before
            BY <1>0, <2>1, <3>0, <4>1, <4>3, <5>1
          <5> HIDE DEF m
          <5>3. g[m].next = h[m].next /\ g[m].parent = h[m].parent /\ g[n].parent = h[n].parent
            BY <2>9, <4>1, <5>1, <5>2
          <5> QED BY <5>1, <5>3
        <4> QED BY <4>2, <4>3
      <3>4. ASSUME g[n].head # NULL
            PROVE  g[g[n].head].parent = n /\ g[g[n].head].prev = NULL
        <4>1. CASE n = up /\ before = NULL
          <5>1. g[n].head = after
            BY <2>9, <4>1
          <5> QED BY <3>4, <3>a, <4>1, <5>1
        <4>2. CASE ~(n = up /\ before = NULL)
          <5> DEFINE m == h[n].head
          <5>1. g[n].head = m /\ m \in Nodes /\ h[m].parent = n /\ h[m].prev = NULL
            BY <2>9, <3>1, <3>4, <4>2
          <5>2. m # node /\ m # after
            BY <1>0, <2>1, <3>0, <4>2, <5>1
          <5> HIDE DEF m
          <5>3. g[m].prev = h[m].prev /\ g[m].parent = h[m].parent
            BY <2>9, <5>1, <5>2
          <5> QED BY <5>1, <5>3
        <4> QED BY <4>1, <4>2
      <3>5. ASSUME g[n].tail # NULL
            PROVE  g[g[n].tail].parent = n /\ g[g[n].tail].next = NULL
        <4>1. CASE n = up /\ after = NULL
          <5>1. g[n].tail = before
            BY <2>9, <4>1
          <5> QED BY <3>5, <3>b, <4>1, <5>1
        <4>2. CASE ~(n = up /\ after = NULL)
          <5> DEFINE m == h[n].tail
          <5>1. g[n].tail = m /\ m \in Nodes /\ h[m].parent = n /\ h[m].next = NULL
            BY <2>9, <3>1, <3>5, <4>2
          <5>2. m # node /\ m # before
            BY <1>0, <2>1, <3>0, <4>2, <5>1
          <5> HIDE DEF m
          <5>3. g[m].next = h[m].next /\ g[m].parent = h[m].parent
            BY <2>9, <5>1, <5>2
          <5> QED BY <5>1, <5>3
        <4> QED BY <4>1, <4>2
      <3>6. (g[n].head = NULL) <=> (g[n].tail = NULL)
        <4>1. CASE n = up
          <5>1. before = NULL => h[n].head # NULL
            BY <1>0, <2>1, <4>1
          <5>2. after = NULL => h[n].tail # NULL
            BY <1>0, <2>1, <4>1
          <5>3. /\ g[n].head = IF before = NULL THEN after ELSE h[n].head
                /\ g[n].tail = IF after = NULL THEN before ELSE h[n].tail
            BY <2>9, <4>1
          <5> QED BY <3>1, <5>1, <5>2, <5>3
        <4>2. CASE n # up
          BY <2>9, <3>1, <4>2
        <4> QED BY <4>1, <4>2
      <3> QED BY <3>2, <3>3, <3>4, <3>5, <3>6
    <2>12. Placed(g)
      <3> SUFFICES ASSUME NEW n \in Nodes, n # node
                   PROVE  /\ g[n].parent = NULL => g[n].prev = NULL /\ g[n].next = NULL
                          /\ g[n].parent # NULL =>
                               /\ g[n].tag # "free" /\ IsContainer(g[g[n].parent])
                               /\ g[n].key = (g[g[n].parent].tag = "object")
                               /\ g[n].prev = NULL => g[g[n].parent].head = n
                               /\ g[n].next = NULL => g[g[n].parent].tail = n
        BY <2>9 DEF Placed
      <3>0. h[node].parent = up /\ h[node].prev = before /\ h[node].next = after
        BY DEF up, before, after
      <3>1. h[n].parent # NULL => h[n].parent \in Nodes
        BY <1>0, Fields DEF Pointer
      <3>2. /\ h[n].parent = NULL => h[n].prev = NULL /\ h[n].next = NULL
            /\ h[n].parent # NULL =>
                 /\ h[n].tag # "free" /\ IsContainer(h[h[n].parent])
                 /\ h[n].key = (h[h[n].parent].tag = "object")
                 /\ h[n].prev = NULL => h[h[n].parent].head = n
                 /\ h[n].next = NULL => h[h[n].parent].tail = n
        BY <1>0 DEF Placed
      <3>3. /\ g[n].parent = h[n].parent /\ g[n].tag = h[n].tag /\ g[n].key = h[n].key
        BY <2>9
      <3>4. g[n].parent = NULL => g[n].prev = NULL /\ g[n].next = NULL
        BY <1>0, <1>b, <2>1, <2>9, <3>2, <3>3, ZenonT(30)
      <3>5. ASSUME g[n].parent # NULL
            PROVE  /\ g[n].tag # "free" /\ IsContainer(g[g[n].parent])
                   /\ g[n].key = (g[g[n].parent].tag = "object")
        <4>1. g[g[n].parent].tag = h[h[n].parent].tag
          BY <2>9, <3>1, <3>3, <3>5, ZenonT(30)
        <4> QED BY <3>2, <3>3, <3>5, <4>1 DEF IsContainer
      <3>6. ASSUME g[n].parent # NULL, g[n].prev = NULL PROVE g[g[n].parent].head = n
        <4>1. CASE n = after
          <5>1. before = NULL /\ h[n].parent = up
            BY <1>0, <2>1, <2>9, <3>6, <4>1
          <5>2. g[up].head = after
            BY <2>1, <2>9, <5>1
          <5> QED BY <3>3, <4>1, <5>1, <5>2
        <4>2. CASE n # after
          <5>1. h[n].prev = NULL /\ h[h[n].parent].head = n
            BY <2>9, <3>2, <3>3, <3>6, <4>2
          <5>2. ~(h[n].parent = up /\ before = NULL)
            BY <2>1, <5>1
          <5> QED BY <2>9, <3>1, <3>3, <3>6, <5>1, <5>2, ZenonT(30)
        <4> QED BY <4>1, <4>2
      <3>7. ASSUME g[n].parent # NULL, g[n].next = NULL PROVE g[g[n].parent].tail = n
        <4>1. CASE n = before
          <5>1. after = NULL /\ h[n].parent = up
            BY <1>0, <2>1, <2>9, <3>7, <4>1
          <5>2. g[up].tail = before
            BY <2>1, <2>9, <5>1
          <5> QED BY <3>3, <4>1, <5>1, <5>2
        <4>2. CASE n # before
          <5>1. h[n].next = NULL /\ h[h[n].parent].tail = n
            BY <2>9, <3>2, <3>3, <3>7, <4>2
          <5>2. ~(h[n].parent = up /\ after = NULL)
            BY <2>1, <5>1
          <5> QED BY <2>9, <3>1, <3>3, <3>7, <5>1, <5>2, ZenonT(30)
        <4> QED BY <4>1, <4>2
      <3> QED BY <3>4, <3>5, <3>6, <3>7
    <2>13. Chained(g)
      <3> SUFFICES ASSUME NEW q \in Nodes, NEW S \in SUBSET Nodes, ListFrom(g, q, S),
                          NEW n \in Nodes, g[n].parent = q
                   PROVE  n \in S
        BY DEF Chained
      <3>0. h[node].parent = up /\ h[node].prev = before /\ h[node].next = after
        BY DEF up, before, after
      <3>1. /\ g[q].head \in S \cup {NULL}
            /\ \A m \in S : g[m].parent = q => g[m].next \in S \cup {NULL}
            /\ n # node /\ h[n].parent = q
        BY <1>0, <2>9 DEF ListFrom
      <3>2. CASE q # up
        <4>1. h[q].head \in S \cup {NULL}
          BY <2>9, <3>1, <3>2
        <4>2. \A m \in S : h[m].parent = q => h[m].next \in S \cup {NULL}
          BY <1>0, <2>1, <2>9, <3>0, <3>1, <3>2, ZenonT(30)
        <4> QED BY <1>0, <3>1, <4>1, <4>2 DEF Chained, ListFrom
      <3>3. CASE q = up /\ (before = NULL \/ before \in S)
        <4> DEFINE T == S \cup {node}
        <4>0. after \in S \cup {NULL}
          <5>1. CASE before = NULL
            BY <2>9, <3>1, <3>3, <5>1
          <5>2. CASE before \in S
            <6>1. g[before].next = after /\ g[before].parent = up
              BY <1>0, <2>1, <2>2, <2>9, <5>2
            <6> QED BY <3>1, <3>3, <5>2, <6>1
          <5> QED BY <3>3, <5>1, <5>2
        <4>1. h[q].head \in T \cup {NULL}
          BY <2>1, <2>9, <3>1, <3>3
        <4>2. \A m \in T : h[m].parent = q => h[m].next \in T \cup {NULL}
          <5> SUFFICES ASSUME NEW m \in T, h[m].parent = q PROVE h[m].next \in T \cup {NULL}
            OBVIOUS
          <5>1. CASE m = node
            BY <3>0, <4>0, <5>1
          <5>2. CASE m = before
            BY <1>0, <2>1, <5>2
          <5>3. CASE m # node /\ m # before
            BY <2>9, <3>1, <5>3
          <5> QED BY <5>1, <5>2, <5>3
        <4>3. T \in SUBSET Nodes
          OBVIOUS
        <4>4. ListFrom(h, q, T)
          BY <4>1, <4>2 DEF ListFrom
        <4>5. n \in T
          BY <1>0, <3>1, <4>3, <4>4 DEF Chained
        <4> QED BY <3>1, <4>5
      <3>4. CASE q = up /\ before # NULL /\ before \notin S
        <4> DEFINE T == S \ {node}
        <4>1. h[q].head \in T \cup {NULL}
          <5>1. h[q].head # NULL => h[h[q].head].prev = NULL
            BY <1>0 DEF Linked
          <5>2. h[q].head # node
            BY <1>0, <3>0, <3>4, <5>1, NullIsNoNode
          <5> QED BY <2>9, <3>1, <3>4, <5>2
        <4>2. ASSUME NEW m \in T, h[m].parent = q PROVE h[m].next \in T \cup {NULL}
          <5>1. m # before /\ m # node
            BY <3>4
          <5>2. h[m].next # node
            BY <1>0, <3>0, <5>1 DEF Linked
          <5>3. h[m].next \in S \cup {NULL}
            BY <2>9, <3>1, <4>2, <5>1
          <5> QED BY <5>2, <5>3
        <4>3. T \in SUBSET Nodes
          OBVIOUS
        <4>4. ListFrom(h, q, T)
          BY <4>1, <4>2 DEF ListFrom
        <4>5. node \in T
          BY <1>0, <3>0, <3>4, <4>3, <4>4 DEF Chained
        <4> QED BY <4>5
      <3> QED BY <3>2, <3>3, <3>4
    <2>14. Grounded(g)
      <3> SUFFICES ASSUME NEW S \in SUBSET Nodes, S # {} PROVE \E n \in S : g[n].parent \notin S
        BY DEF Grounded
      <3>1. PICK n \in S : h[n].parent \notin S
        BY DEF Sound, Grounded
      <3> QED BY <1>0, <2>9, <3>1
    <2>15. Sound(g)
      BY <2>10, <2>11, <2>12, <2>13, <2>14 DEF Sound
    <2>16. Unlinked(h, node, g)
      BY <2>9 DEF Unlinked, up, before, after
    <2> QED BY <1>b, <2>9, <2>15, <2>16 DEF g, up
  <1> QED BY <1>a, <1>b


-----------------------------------------------------------------------------
(* Making and freeing nodes.                                               *)

\* A node may change its tag as long as it is alone.
LEMMA MakeSound ==
  ASSUME NEW h, Sound(h), Keyless(h), NEW c \in Nodes, h[c].tag = "free",
         NEW tag \in Tags \ {"free"}
  PROVE  /\ Sound([h EXCEPT ![c] = Cleared(tag)])
         /\ Keyless([h EXCEPT ![c] = Cleared(tag)])
  <1> DEFINE g == [h EXCEPT ![c] = Cleared(tag)]
  <1>0. /\ Typed(h) /\ Linked(h) /\ Placed(h) /\ Chained(h) /\ NULL \notin Nodes
        /\ h \in [Nodes -> JsonNode]
    BY NullIsNoNode DEF Sound, Typed
  <1>1. /\ h[c].parent = NULL /\ h[c].prev = NULL /\ h[c].next = NULL /\ h[c].head = NULL
        /\ h[c].tail = NULL /\ h[c].key = FALSE /\ ~IsContainer(h[c])
    BY <1>0 DEF Placed, Typed, IsContainer, Keyless
  <1>2. g[c] = Cleared(tag) /\ \A n \in Nodes \ {c} : g[n] = h[n]
    BY <1>0
  <1>3. g \in [Nodes -> JsonNode]
    BY <1>0 DEF Cleared, JsonNode, Pointer
  <1> HIDE DEF g
  <1>4. \A n \in Nodes :
          /\ n # c => g[n].tag = h[n].tag
          /\ g[n].parent = h[n].parent /\ g[n].prev = h[n].prev /\ g[n].next = h[n].next
          /\ g[n].head = h[n].head /\ g[n].tail = h[n].tail /\ g[n].key = h[n].key
    <2>1. /\ g[c].parent = NULL /\ g[c].prev = NULL /\ g[c].next = NULL
          /\ g[c].head = NULL /\ g[c].tail = NULL /\ g[c].key = FALSE
      BY <1>2 DEF Cleared
    <2> QED BY <1>1, <1>2, <2>1
  <1>5. Typed(g)
    BY <1>0, <1>1, <1>3, <1>4 DEF Typed, IsContainer
  <1>6. Linked(g)
    <2>1. \A n \in Nodes : h[n].prev \in Pointer /\ h[n].next \in Pointer
                           /\ h[n].head \in Pointer /\ h[n].tail \in Pointer
      BY <1>0, Fields
    <2> QED BY <1>0, <1>4, <2>1 DEF Linked, Pointer
  <1>7. Placed(g)
    <2> SUFFICES ASSUME NEW n \in Nodes
                 PROVE  /\ g[n].parent = NULL => g[n].prev = NULL /\ g[n].next = NULL
                        /\ g[n].parent # NULL =>
                             /\ g[n].tag # "free" /\ IsContainer(g[g[n].parent])
                             /\ g[n].key = (g[g[n].parent].tag = "object")
                             /\ g[n].prev = NULL => g[g[n].parent].head = n
                             /\ g[n].next = NULL => g[g[n].parent].tail = n
      BY DEF Placed
    <2>1. CASE h[n].parent = NULL
      BY <1>0, <1>4, <2>1 DEF Placed
    <2>2. CASE h[n].parent # NULL
      <3> DEFINE p == h[n].parent
      <3>1. p \in Nodes /\ IsContainer(h[p]) /\ n # c
        BY <1>0, <1>1, <2>2, Fields DEF Placed, Pointer
      <3>2. p # c
        BY <1>1, <3>1
      <3>3. g[n].parent = p /\ g[p] = h[p] /\ g[n] = h[n]
        BY <1>2, <3>1, <3>2
      <3> QED BY <1>0, <2>2, <3>3 DEF Placed
    <2> QED BY <2>1, <2>2
  <1>8. Chained(g)
    <2> SUFFICES ASSUME NEW q \in Nodes, NEW S \in SUBSET Nodes, ListFrom(g, q, S)
                 PROVE  \A n \in Nodes : g[n].parent = q => n \in S
      BY DEF Chained
    <2>1. ListFrom(h, q, S)
      BY <1>4 DEF ListFrom
    <2> QED BY <1>0, <1>4, <2>1 DEF Chained
  <1>9. Grounded(g)
    BY <1>4 DEF Sound, Grounded
  <1>10. Keyless(g)
    BY <1>4 DEF Keyless
  <1> QED BY <1>5, <1>6, <1>7, <1>8, <1>9, <1>10 DEF Sound, g

\* Whole trees can be freed: nothing outside points into them.
LEMMA FreeSound ==
  ASSUME NEW h, Sound(h), Keyless(h), NEW R \in SUBSET Nodes,
         \A m \in R : h[m].parent \in R \cup {NULL},
         \A n \in Nodes : h[n].parent \in R => n \in R,
         NEW g, g = [n \in Nodes |-> IF n \in R THEN Cleared("free") ELSE h[n]]
  PROVE  Sound(g) /\ Keyless(g)
  <1>0. /\ Typed(h) /\ Linked(h) /\ Placed(h) /\ Chained(h) /\ NULL \notin Nodes
        /\ h \in [Nodes -> JsonNode]
    BY NullIsNoNode DEF Sound, Typed
  <1>1. /\ \A n \in R : /\ g[n].parent = NULL /\ g[n].prev = NULL /\ g[n].next = NULL
                        /\ g[n].head = NULL /\ g[n].tail = NULL /\ g[n].key = FALSE
                        /\ g[n].tag = "free"
        /\ \A n \in Nodes \ R : g[n] = h[n]
    BY DEF Cleared
  <1>2. Typed(g)
    <2>1. Cleared("free") \in JsonNode
      BY DEF Cleared, JsonNode, Pointer, Tags
    <2>2. g \in [Nodes -> JsonNode]
      BY <1>0, <2>1
    <2> QED BY <1>0, <1>1, <2>2 DEF Typed
  <1>3. Linked(g)
    <2> SUFFICES ASSUME NEW n \in Nodes \ R
                 PROVE  /\ g[n].next # NULL => g[g[n].next].prev = n /\ g[g[n].next].parent = g[n].parent
                        /\ g[n].prev # NULL => g[g[n].prev].next = n /\ g[g[n].prev].parent = g[n].parent
                        /\ g[n].head # NULL => g[g[n].head].parent = n /\ g[g[n].head].prev = NULL
                        /\ g[n].tail # NULL => g[g[n].tail].parent = n /\ g[g[n].tail].next = NULL
                        /\ (g[n].head = NULL) <=> (g[n].tail = NULL)
      BY <1>1 DEF Linked
    <2>1. /\ h[n].next # NULL => h[n].next \in Nodes /\ h[h[n].next].prev = n /\ h[h[n].next].parent = h[n].parent
          /\ h[n].prev # NULL => h[n].prev \in Nodes /\ h[h[n].prev].next = n /\ h[h[n].prev].parent = h[n].parent
          /\ h[n].head # NULL => h[n].head \in Nodes /\ h[h[n].head].parent = n /\ h[h[n].head].prev = NULL
          /\ h[n].tail # NULL => h[n].tail \in Nodes /\ h[h[n].tail].parent = n /\ h[h[n].tail].next = NULL
          /\ (h[n].head = NULL) <=> (h[n].tail = NULL)
          /\ h[n].parent = NULL => h[n].prev = NULL /\ h[n].next = NULL
      BY <1>0, Fields DEF Linked, Placed, Pointer
    <2>2. h[n].next # NULL => h[n].next \notin R
      BY <2>1
    <2>3. h[n].prev # NULL => h[n].prev \notin R
      BY <2>1
    <2>4. h[n].head # NULL => h[n].head \notin R
      BY <1>0, <2>1
    <2>5. h[n].tail # NULL => h[n].tail \notin R
      BY <1>0, <2>1
    <2> QED BY <1>1, <2>1, <2>2, <2>3, <2>4, <2>5
  <1>4. Placed(g)
    <2> SUFFICES ASSUME NEW n \in Nodes \ R
                 PROVE  /\ g[n].parent = NULL => g[n].prev = NULL /\ g[n].next = NULL
                        /\ g[n].parent # NULL =>
                             /\ g[n].tag # "free" /\ IsContainer(g[g[n].parent])
                             /\ g[n].key = (g[g[n].parent].tag = "object")
                             /\ g[n].prev = NULL => g[g[n].parent].head = n
                             /\ g[n].next = NULL => g[g[n].parent].tail = n
      BY <1>1 DEF Placed
    <2>1. h[n].parent # NULL => h[n].parent \in Nodes \ R
      BY <1>0, Fields DEF Pointer
    <2>2. g[n] = h[n] /\ (h[n].parent # NULL => g[h[n].parent] = h[h[n].parent])
      BY <1>1, <2>1
    <2> QED BY <1>0, <2>2 DEF Placed
  <1>5. Chained(g)
    <2> SUFFICES ASSUME NEW q \in Nodes, NEW S \in SUBSET Nodes, ListFrom(g, q, S),
                        NEW n \in Nodes, g[n].parent = q
                 PROVE  n \in S
      BY DEF Chained
    <2>1. n \notin R /\ h[n].parent = q /\ q \notin R
      BY <1>0, <1>1
    <2>2. ListFrom(h, q, S)
      <3>1. h[q].head \in S \cup {NULL}
        BY <1>1, <2>1 DEF ListFrom
      <3>2. ASSUME NEW m \in S, h[m].parent = q PROVE h[m].next \in S \cup {NULL}
        <4>1. m \notin R
          BY <1>0, <2>1, <3>2
        <4> QED BY <1>1, <3>2, <4>1 DEF ListFrom
      <3> QED BY <3>1, <3>2 DEF ListFrom
    <2> QED BY <1>0, <2>1, <2>2 DEF Chained
  <1>6. Grounded(g)
    <2> SUFFICES ASSUME NEW S \in SUBSET Nodes, S # {} PROVE \E n \in S : g[n].parent \notin S
      BY DEF Grounded
    <2>1. CASE \E n \in S : n \in R
      <3>1. PICK n \in S : n \in R
        BY <2>1
      <3>2. g[n].parent = NULL /\ NULL \notin S
        BY <1>0, <1>1, <3>1
      <3> QED BY <3>2
    <2>2. CASE \A n \in S : n \notin R
      BY <1>1, <2>2 DEF Sound, Grounded
    <2> QED BY <2>1, <2>2
  <1>7. Keyless(g)
    BY <1>1 DEF Keyless
  <1> QED BY <1>2, <1>3, <1>4, <1>5, <1>6, <1>7 DEF Sound

-----------------------------------------------------------------------------
(* The calls.                                                              *)

\* A root that is about to become a member gets its key first.
LEMMA KeySound ==
  ASSUME Sound(heap), NEW c \in Nodes, heap[c].parent = NULL
  PROVE  /\ Sound(WithKey(c)) /\ Reached(WithKey(c), c) = Reached(heap, c)
         /\ WithKey(c)[c].key = TRUE
         /\ \A n \in Nodes : /\ WithKey(c)[n].tag = heap[n].tag
                             /\ WithKey(c)[n].parent = heap[n].parent
                             /\ n # c => WithKey(c)[n].key = heap[n].key
         /\ SameLists(heap, WithKey(c))
  <1> DEFINE g == WithKey(c)
  <1>0. /\ Typed(heap) /\ Linked(heap) /\ Placed(heap) /\ Chained(heap)
        /\ heap \in [Nodes -> JsonNode] /\ NULL \notin Nodes
    BY NullIsNoNode DEF Sound, Typed
  <1>1. g[c] = [heap[c] EXCEPT !.key = TRUE] /\ \A n \in Nodes \ {c} : g[n] = heap[n]
    BY <1>0 DEF WithKey
  <1>2. heap[c] \in JsonNode
    BY <1>0
  <1>3. g \in [Nodes -> JsonNode]
    BY <1>0, <1>2 DEF WithKey, JsonNode
  <1> HIDE DEF g
  <1>4. /\ g[c].key = TRUE /\ \A n \in Nodes \ {c} : g[n].key = heap[n].key
        /\ \A n \in Nodes :
             /\ g[n].tag = heap[n].tag /\ g[n].parent = heap[n].parent
             /\ g[n].prev = heap[n].prev /\ g[n].next = heap[n].next
             /\ g[n].head = heap[n].head /\ g[n].tail = heap[n].tail
    BY <1>1, <1>2 DEF JsonNode
  <1>5. Typed(g)
    BY <1>0, <1>3, <1>4 DEF Typed, IsContainer
  <1>6. \A n \in Nodes : heap[n].prev \in Pointer /\ heap[n].next \in Pointer
                         /\ heap[n].head \in Pointer /\ heap[n].tail \in Pointer
                         /\ heap[n].parent \in Pointer
    BY <1>0, Fields
  <1>7. Linked(g)
    BY <1>0, <1>4, <1>6 DEF Linked, Pointer
  <1>8. Placed(g)
    BY <1>0, <1>4, <1>6 DEF Placed, Pointer, IsContainer
  <1>9. Chained(g)
    <2> SUFFICES ASSUME NEW q \in Nodes, NEW S \in SUBSET Nodes, ListFrom(g, q, S)
                 PROVE  \A n \in Nodes : g[n].parent = q => n \in S
      BY DEF Chained
    <2>1. ListFrom(heap, q, S)
      BY <1>4 DEF ListFrom
    <2> QED BY <1>0, <1>4, <2>1 DEF Chained
  <1>10. Grounded(g)
    BY <1>4 DEF Sound, Grounded
  <1>11. Reached(g, c) = Reached(heap, c)
    <2>1. \A S \in SUBSET Nodes : ClosedFrom(g, c, S) <=> ClosedFrom(heap, c, S)
      BY <1>4 DEF ClosedFrom
    <2> QED BY <2>1 DEF Reached
  <1>12. SameLists(heap, g)
    BY <1>4 DEF SameLists
  <1> QED BY <1>4, <1>5, <1>7, <1>8, <1>9, <1>10, <1>11, <1>12 DEF Sound, g

LEMMA AddedKeyless ==
  ASSUME NEW h, NEW p, NEW c, Addable(h, p, c),
         \A n \in Nodes \ {c} : h[n].parent = NULL => h[n].key = FALSE
  PROVE  Keyless(append_node(h, p, c)) /\ Keyless(prepend_node(h, p, c))
  <1>1. p # NULL
    BY NullIsNoNode DEF Addable
  <1> QED BY <1>1, AppendSound, PrependSound DEF Keyless

LEMMA UnlinkKeyless ==
  ASSUME Sound(heap), Keyless(heap), NEW node \in Nodes
  PROVE  Keyless(unlink(heap, node))
  <1>1. \A n \in Nodes : heap[n].parent = NULL => heap[n].key = FALSE
    BY DEF Keyless
  <1> DEFINE g == unlink(heap, node)
  <1>2. \A n \in Nodes :
          /\ g[n].parent = IF n = node THEN NULL ELSE heap[n].parent
          /\ g[n].key = IF n = node /\ heap[node].parent # NULL THEN FALSE ELSE heap[n].key
    BY UnlinkSound
  <1> HIDE DEF g
  <1>3. Keyless(g)
    BY <1>1, <1>2 DEF Keyless
  <1> QED BY <1>3 DEF g

LEMMA DeleteSound ==
  ASSUME Sound(heap), Keyless(heap), NEW node \in Nodes, json_delete(node)
  PROVE  Sound(heap') /\ Keyless(heap')
  <1> DEFINE g == unlink(heap, node)
             R == Reached(heap, node)
  <1>1. Sound(g)
    BY UnlinkSound
  <1>2. /\ node \in R /\ R \in SUBSET Nodes
        /\ \A m \in R : m = node \/ heap[m].parent \in R
        /\ \A n \in Nodes : heap[n].parent \in R => n \in R
    BY WholeTree
  <1>3. \A n \in Nodes : g[n].parent = IF n = node THEN NULL ELSE heap[n].parent
    BY UnlinkSound
  <1>4. heap' = [n \in Nodes |-> IF n \in R THEN Cleared("free") ELSE g[n]]
    BY DEF json_delete
  <1>5. Keyless(g)
    BY UnlinkKeyless
  <1> HIDE DEF g, R
  <1>6. \A m \in R : g[m].parent \in R \cup {NULL}
    BY <1>2, <1>3
  <1>7. \A n \in Nodes : g[n].parent \in R => n \in R
    BY <1>2, <1>3
  <1> QED BY <1>1, <1>2, <1>4, <1>5, <1>6, <1>7, FreeSound

LEMMA InitInv == Init => IInv
  <1> SUFFICES ASSUME Init PROVE IInv
    OBVIOUS
  <1>1. \A n \in Nodes : /\ heap[n].parent = NULL /\ heap[n].prev = NULL /\ heap[n].next = NULL
                         /\ heap[n].head = NULL /\ heap[n].tail = NULL /\ heap[n].key = FALSE
    BY DEF Init, Cleared
  <1>2. heap \in [Nodes -> JsonNode]
    BY DEF Init, Cleared, JsonNode, Pointer, Tags
  <1>3. Typed(heap) /\ Linked(heap) /\ Placed(heap)
    BY <1>1, <1>2 DEF Typed, Linked, Placed
  <1>4. Chained(heap) /\ Grounded(heap) /\ Keyless(heap)
    BY <1>1, NullIsNoNode DEF Chained, Grounded, Keyless
  <1> QED BY <1>3, <1>4 DEF IInv, Sound

\* What the assertions on the arguments ensure.
LEMMA ArrayAddable ==
  ASSUME Sound(heap), Keyless(heap), NEW p \in Nodes, NEW c \in Nodes, MayAdd("array", p, c)
  PROVE  Addable(heap, p, c)
  BY DEF MayAdd, Addable, Keyless, IsContainer, Live

LEMMA ObjectAddable ==
  ASSUME Sound(heap), NEW p \in Nodes, NEW c \in Nodes, MayAdd("object", p, c)
  PROVE  Addable(WithKey(c), p, c)
  <1> DEFINE g == WithKey(c)
  <1>1. /\ heap[c].parent = NULL /\ heap[c].tag # "free" /\ heap[p].tag = "object"
        /\ p \notin Reached(heap, c)
    BY DEF MayAdd, Live
  <1>2. Sound(g) /\ Reached(g, c) = Reached(heap, c) /\ g[c].key = TRUE
    BY <1>1, KeySound
  <1>3. g[c].tag = heap[c].tag /\ g[p].tag = heap[p].tag /\ g[c].parent = heap[c].parent
    BY <1>1, KeySound
  <1> HIDE DEF g
  <1>4. Addable(g, p, c)
    BY <1>1, <1>2, <1>3 DEF Addable, IsContainer
  <1> QED BY <1>4 DEF g

LEMMA InvStep == IInv /\ [Next]_heap => IInv'
  <1> SUFFICES ASSUME Sound(heap), Keyless(heap), [Next]_heap
               PROVE  Sound(heap') /\ Keyless(heap')
    BY DEF IInv, Sound, Keyless, Typed, Linked, Placed, Chained, ListFrom, Grounded
  <1>1. ASSUME NEW n \in Nodes, NEW tag \in Tags \ {"free"}, mknode(n, tag)
        PROVE  Sound(heap') /\ Keyless(heap')
    BY <1>1, MakeSound DEF mknode
  <1>2. ASSUME NEW p \in Nodes, NEW c \in Nodes, MayAdd("array", p, c)
        PROVE  /\ Addable(heap, p, c)
               /\ \A n \in Nodes \ {c} : heap[n].parent = NULL => heap[n].key = FALSE
    BY <1>2, ArrayAddable DEF Keyless
  <1>3. ASSUME NEW p \in Nodes, NEW c \in Nodes, MayAdd("object", p, c)
        PROVE  /\ Addable(WithKey(c), p, c)
               /\ \A n \in Nodes \ {c} : WithKey(c)[n].parent = NULL => WithKey(c)[n].key = FALSE
    <2>1. Addable(WithKey(c), p, c) /\ heap[c].parent = NULL
      BY <1>3, ObjectAddable DEF MayAdd
    <2>2. \A n \in Nodes \ {c} : /\ WithKey(c)[n].parent = heap[n].parent
                                 /\ WithKey(c)[n].key = heap[n].key
      BY <2>1, KeySound
    <2> QED BY <2>1, <2>2 DEF Keyless
  <1>4. ASSUME NEW p \in Nodes, NEW c \in Nodes,
               \/ json_append_element(p, c) \/ json_prepend_element(p, c)
               \/ json_append_member(p, c) \/ json_prepend_member(p, c)
        PROVE  Sound(heap') /\ Keyless(heap')
    <2>0. ASSUME NEW h, Addable(h, p, c),
                 \A n \in Nodes \ {c} : h[n].parent = NULL => h[n].key = FALSE,
                 heap' = append_node(h, p, c) \/ heap' = prepend_node(h, p, c)
          PROVE  Sound(heap') /\ Keyless(heap')
      <3>1. CASE heap' = append_node(h, p, c)
        <4>1. Sound(append_node(h, p, c)) /\ Keyless(append_node(h, p, c))
          BY <2>0, AppendSound, AddedKeyless
        <4> QED BY <3>1, <4>1
      <3>2. CASE heap' = prepend_node(h, p, c)
        <4>1. Sound(prepend_node(h, p, c)) /\ Keyless(prepend_node(h, p, c))
          BY <2>0, PrependSound, AddedKeyless
        <4> QED BY <3>2, <4>1
      <3> QED BY <2>0, <3>1, <3>2
    <2>1. CASE json_append_element(p, c) \/ json_prepend_element(p, c)
      <3>1. MayAdd("array", p, c)
        BY <2>1 DEF json_append_element, json_prepend_element
      <3> QED BY <1>2, <2>0, <2>1, <3>1 DEF json_append_element, json_prepend_element
    <2>2. CASE json_append_member(p, c) \/ json_prepend_member(p, c)
      <3>1. MayAdd("object", p, c)
        BY <2>2 DEF json_append_member, json_prepend_member
      <3> QED BY <1>3, <2>0, <2>2, <3>1 DEF json_append_member, json_prepend_member
    <2> QED BY <1>4, <2>1, <2>2
  <1>5. ASSUME NEW n \in Nodes, json_remove_from_parent(n)
        PROVE  Sound(heap') /\ Keyless(heap')
    <2>1. heap' = unlink(heap, n)
      BY <1>5 DEF json_remove_from_parent
    <2> QED BY <2>1, UnlinkSound, UnlinkKeyless
  <1>6. ASSUME NEW n \in Nodes, json_delete(n)
        PROVE  Sound(heap') /\ Keyless(heap')
    BY <1>6, DeleteSound
  <1>7. CASE heap' = heap
    BY <1>7
  <1> QED BY <1>1, <1>4, <1>5, <1>6, <1>7 DEF Next

-----------------------------------------------------------------------------
(* What the calls do to the lists.                                         *)

\* A list stays as it is if its nodes keep what follows them.
LEMMA ListKept ==
  ASSUME NEW h, Sound(h), NEW g, Sound(g), NEW q \in Nodes, g[q].head = h[q].head,
         \A n \in Nodes : h[n].parent = q => g[n].next = h[n].next
  PROVE  ListOf(g, q) = ListOf(h, q)
  <1> DEFINE L == ListOf(h, q)
  <1>1. /\ L \in Seq(Nodes) /\ IsListOf(h, q, L)
        /\ \A i \in 1 .. Len(L) : L[i] \in Nodes /\ h[L[i]].parent = q
    BY ListIs, BeginsLinked
  <1> HIDE DEF L
  <1>2. \A i \in 1 .. Len(L) : g[L[i]].next = h[L[i]].next
    BY <1>1
  <1>3. IsListOf(g, q, L)
    BY <1>1, <1>2 DEF IsListOf
  <1>4. ListOf(g, q) = L
    BY <1>1, <1>3, ListEquals
  <1> QED BY <1>4 DEF L

\* The head is the first and the tail the last of the list.
LEMMA ListEnds ==
  ASSUME NEW h, Sound(h), NEW p \in Nodes, NEW s \in Seq(Nodes), IsListOf(h, p, s)
  PROVE  /\ s = <<>> => h[p].head = NULL /\ h[p].tail = NULL
         /\ s # <<>> => /\ Len(s) \in 1 .. Len(s) /\ 1 \in 1 .. Len(s)
                        /\ h[p].head = s[1] /\ h[p].tail = s[Len(s)]
                        /\ h[p].head # NULL /\ h[p].tail # NULL
                        /\ h[s[Len(s)]].next = NULL
         /\ \A i \in 1 .. Len(s) - 1 : s[i] # h[p].tail
  <1>0. /\ Linked(h) /\ Placed(h) /\ NULL \notin Nodes /\ Len(s) \in Nat
        /\ \A i \in 1 .. Len(s) : s[i] \in Nodes /\ h[s[i]].parent = p
    BY NullIsNoNode, BeginsOfList, BeginsLinked DEF Sound
  <1>1. s = <<>> => h[p].head = NULL /\ h[p].tail = NULL
    BY <1>0 DEF IsListOf, Linked
  <1>2. ASSUME s # <<>>
        PROVE  /\ Len(s) \in 1 .. Len(s) /\ 1 \in 1 .. Len(s)
               /\ h[p].head = s[1] /\ h[p].tail = s[Len(s)]
               /\ h[p].head # NULL /\ h[p].tail # NULL
               /\ h[s[Len(s)]].next = NULL
    <2>1. Len(s) \in 1 .. Len(s) /\ 1 \in 1 .. Len(s)
      BY <1>2
    <2>2. h[p].head = s[1] /\ h[s[Len(s)]].next = NULL
      BY <1>2 DEF IsListOf
    <2>3. h[p].tail = s[Len(s)]
      BY <1>0, <2>1, <2>2 DEF Placed
    <2> QED BY <1>0, <2>1, <2>2, <2>3
  <1>3. ASSUME NEW i \in 1 .. Len(s) - 1 PROVE s[i] # h[p].tail
    <2>1. s # <<>> /\ i + 1 \in 1 .. Len(s) /\ h[s[i]].next = s[i + 1]
      BY <1>0 DEF IsListOf
    <2> QED BY <1>0, <1>2, <2>1
  <1> QED BY <1>1, <1>2, <1>3

LEMMA AppendLists ==
  ASSUME NEW h, NEW p, NEW c, Addable(h, p, c), NEW q \in Nodes
  PROVE  ListOf(append_node(h, p, c), q) =
           IF q = p THEN Append(ListOf(h, p), c) ELSE ListOf(h, q)
  <1> DEFINE g == append_node(h, p, c)
             L == ListOf(h, p)
  <1>0. /\ Sound(h) /\ p \in Nodes /\ c \in Nodes /\ h[c].parent = NULL /\ NULL \notin Nodes
    BY NullIsNoNode DEF Addable
  <1>1. Sound(g) /\ Appended(h, p, c, g)
    BY AppendSound
  <1>2. /\ L \in Seq(Nodes) /\ IsListOf(h, p, L)
        /\ \A i \in 1 .. Len(L) : L[i] \in Nodes /\ h[L[i]].parent = p /\ L[i] # c
    BY <1>0, ListIs, BeginsLinked
  <1> HIDE DEF g, L
  <1>3. CASE q # p
    <2>1. g[q].head = h[q].head
      BY <1>1, <1>3 DEF Appended
    <2>2. ASSUME NEW n \in Nodes, h[n].parent = q PROVE g[n].next = h[n].next
      <3>1. n # c
        BY <1>0, <2>2
      <3>2. h[p].tail # NULL => h[h[p].tail].parent = p
        BY <1>0 DEF Sound, Linked
      <3>3. n # h[p].tail
        BY <1>0, <1>3, <2>2, <3>2
      <3> QED BY <1>1, <3>1, <3>3 DEF Appended
    <2>3. ListOf(g, q) = ListOf(h, q)
      BY <1>0, <1>1, <2>1, <2>2, ListKept
    <2> QED BY <1>3, <2>3 DEF g
  <1>4. CASE q = p
    <2> DEFINE M == Append(L, c)
    <2>1. /\ M \in Seq(Nodes) /\ M # <<>> /\ Len(M) = Len(L) + 1 /\ M[Len(L) + 1] = c
          /\ \A i \in 1 .. Len(L) : M[i] = L[i]
      <3>1. L \in Seq(Nodes) /\ c \in Nodes
        BY <1>0, <1>2
      <3> QED BY <3>1
    <2>2. g[c].next = NULL
      BY <1>0, <1>1 DEF Appended
    <2> HIDE DEF M
    <2>3. M[1] = g[p].head
      <3>1. CASE L = <<>>
        <4>1. h[p].tail = NULL
          BY <1>0, <1>2, <3>1, ListEnds
        <4> QED BY <1>0, <1>1, <2>1, <3>1, <4>1 DEF Appended
      <3>2. CASE L # <<>>
        <4>1. h[p].tail # NULL /\ h[p].head = L[1] /\ 1 \in 1 .. Len(L)
          BY <1>0, <1>2, <3>2, ListEnds, SMTT(30)
        <4> QED BY <1>0, <1>1, <2>1, <4>1 DEF Appended
      <3> QED BY <3>1, <3>2
    <2>4. ASSUME NEW i \in 1 .. Len(M) - 1 PROVE g[M[i]].next = M[i + 1]
      <3>1. i \in 1 .. Len(L) /\ M[i] = L[i] /\ L # <<>>
        BY <1>2, <2>1
      <3>2. CASE i = Len(L)
        <4>1. h[p].tail = L[i]
          BY <1>0, <1>2, <3>1, <3>2, ListEnds
        <4> QED BY <1>1, <1>2, <2>1, <3>1, <3>2, <4>1 DEF Appended
      <3>3. CASE i # Len(L)
        <4>1. i \in 1 .. Len(L) - 1 /\ i + 1 \in 1 .. Len(L)
          BY <1>2, <3>1, <3>3
        <4>2. L[i] # h[p].tail
          BY <1>0, <1>2, <4>1, ListEnds
        <4>3. h[L[i]].next = L[i + 1]
          BY <1>2, <4>1 DEF IsListOf
        <4> QED BY <1>1, <1>2, <2>1, <3>1, <4>1, <4>2, <4>3 DEF Appended
      <3> QED BY <3>2, <3>3
    <2>5. IsListOf(g, p, M)
      BY <2>1, <2>2, <2>3, <2>4 DEF IsListOf
    <2>6. ListOf(g, p) = M
      BY <1>0, <1>1, <2>1, <2>5, ListEquals
    <2> QED BY <1>4, <2>6 DEF M, g, L
  <1> QED BY <1>3, <1>4

LEMMA PrependLists ==
  ASSUME NEW h, NEW p, NEW c, Addable(h, p, c), NEW q \in Nodes
  PROVE  ListOf(prepend_node(h, p, c), q) =
           IF q = p THEN <<c>> \o ListOf(h, p) ELSE ListOf(h, q)
  <1> DEFINE g == prepend_node(h, p, c)
             L == ListOf(h, p)
  <1>0. /\ Sound(h) /\ p \in Nodes /\ c \in Nodes /\ h[c].parent = NULL /\ NULL \notin Nodes
    BY NullIsNoNode DEF Addable
  <1>1. Sound(g) /\ Prepended(h, p, c, g)
    BY PrependSound
  <1>2. /\ L \in Seq(Nodes) /\ IsListOf(h, p, L)
        /\ \A i \in 1 .. Len(L) : L[i] \in Nodes /\ h[L[i]].parent = p /\ L[i] # c
    BY <1>0, ListIs, BeginsLinked
  <1> HIDE DEF g, L
  <1>3. CASE q # p
    <2>1. g[q].head = h[q].head
      BY <1>1, <1>3 DEF Prepended
    <2>2. ASSUME NEW n \in Nodes, h[n].parent = q PROVE g[n].next = h[n].next
      <3>1. n # c
        BY <1>0, <2>2
      <3> QED BY <1>1, <3>1 DEF Prepended
    <2>3. ListOf(g, q) = ListOf(h, q)
      BY <1>0, <1>1, <2>1, <2>2, ListKept
    <2> QED BY <1>3, <2>3 DEF g
  <1>4. CASE q = p
    <2> DEFINE M == <<c>> \o L
    <2>1. /\ M \in Seq(Nodes) /\ M # <<>> /\ Len(M) = Len(L) + 1 /\ M[1] = c
          /\ \A i \in 1 .. Len(L) : M[i + 1] = L[i]
      <3> DEFINE C == <<c>>
      <3>1. C \in Seq(Nodes) /\ Len(C) = 1 /\ C[1] = c
        BY <1>0
      <3> HIDE DEF C
      <3>a. L \in Seq(Nodes) /\ Len(L) \in Nat
        BY <1>2
      <3> DEFINE N == C \o L
      <3>b. /\ N \in Seq(Nodes) /\ Len(N) = Len(C) + Len(L)
            /\ \A i \in 1 .. Len(C) + Len(L) : N[i] = IF i <= Len(C) THEN C[i] ELSE L[i - Len(C)]
        BY <3>1, <3>a, ConcatProperties
      <3> HIDE DEF N
      <3>2. N \in Seq(Nodes) /\ Len(N) = Len(L) + 1 /\ N[1] = c
        BY <3>1, <3>a, <3>b
      <3>3. \A i \in 1 .. Len(L) : N[i + 1] = L[i]
        BY <3>1, <3>a, <3>b
      <3>4. N # <<>>
        BY <3>a, <3>2
      <3> QED BY <3>2, <3>3, <3>4 DEF C, N
    <2> HIDE DEF M
    <2>2. M[1] = g[p].head
      BY <1>0, <1>1, <2>1 DEF Prepended
    <2>3. ASSUME NEW i \in 1 .. Len(L) PROVE g[L[i]].next = h[L[i]].next
      BY <1>1, <1>2 DEF Prepended
    <2>4. g[c].next = IF L = <<>> THEN NULL ELSE L[1]
      <3>1. g[c].next = h[p].head
        BY <1>0, <1>1 DEF Prepended
      <3> QED BY <1>0, <1>2, <3>1, ListEnds
    <2>5. ASSUME NEW i \in 1 .. Len(M) - 1 PROVE g[M[i]].next = M[i + 1]
      <3>1. CASE i = 1
        <4>1. L # <<>> /\ 1 \in 1 .. Len(L)
          BY <1>2, <2>1, <3>1
        <4> QED BY <2>1, <2>4, <3>1, <4>1
      <3>2. CASE i # 1
        <4>1. i - 1 \in 1 .. Len(L) - 1 /\ i - 1 \in 1 .. Len(L) /\ i \in 1 .. Len(L)
          BY <1>2, <2>1, <3>2
        <4>2. M[(i - 1) + 1] = L[i - 1] /\ M[i + 1] = L[i] /\ h[L[i - 1]].next = L[(i - 1) + 1]
          BY <1>2, <2>1, <4>1 DEF IsListOf
        <4>3. (i - 1) + 1 = i
          BY <4>1
        <4> QED BY <2>3, <4>1, <4>2, <4>3
      <3> QED BY <3>1, <3>2
    <2>6. g[M[Len(M)]].next = NULL
      <3>1. CASE L = <<>>
        BY <2>1, <2>4, <3>1
      <3>2. CASE L # <<>>
        <4>1. Len(L) \in 1 .. Len(L) /\ h[L[Len(L)]].next = NULL
          BY <1>0, <1>2, <3>2, ListEnds
        <4>2. M[Len(M)] = L[Len(L)]
          BY <2>1, <4>1
        <4> QED BY <2>3, <4>1, <4>2
      <3> QED BY <3>1, <3>2
    <2>7. IsListOf(g, p, M)
      BY <2>1, <2>2, <2>5, <2>6 DEF IsListOf
    <2>8. ListOf(g, p) = M
      BY <1>0, <1>1, <2>1, <2>7, ListEquals
    <2> QED BY <1>4, <2>8 DEF M, g, L
  <1> QED BY <1>3, <1>4

\* Of a sequence that has e once, what is left without it.
LEMMA RemovedOnce ==
  ASSUME NEW S, NEW s \in Seq(S), NEW k \in 1 .. Len(s), NEW e, s[k] = e,
         \A j \in 1 .. Len(s) : s[j] = e => j = k
  PROVE  /\ RemoveFirst(s, e) \in Seq(S)
         /\ Len(RemoveFirst(s, e)) = Len(s) - 1
         /\ \A i \in 1 .. Len(s) - 1 : RemoveFirst(s, e)[i] = IF i < k THEN s[i] ELSE s[i + 1]
  <1> DEFINE I == {i \in 1 .. Len(s) : s[i] = e}
             A == SubSeq(s, 1, k - 1)
             B == SubSeq(s, k + 1, Len(s))
  <1>1. I = {k} /\ I # {}
    OBVIOUS
  <1>2. Min(I) = k
    BY <1>1 DEF Min
  <1>3. SelectInSeq(s, LAMBDA v : v = e) = k
    BY <1>1, <1>2, Zenon DEF SelectInSeq
  <1>4. \E i \in 1 .. Len(s) : s[i] = e
    OBVIOUS
  <1>5. RemoveFirst(s, e) = A \o B
    BY <1>3, <1>4, Zenon DEF RemoveFirst, RemoveAt
  <1>6. /\ A \in Seq(S) /\ Len(A) = k - 1 /\ \A i \in 1 .. k - 1 : A[i] = s[i]
        /\ B \in Seq(S) /\ Len(B) = Len(s) - k
        /\ \A i \in 1 .. Len(s) - k : B[i] = s[k + i]
    OBVIOUS
  <1> HIDE DEF A, B
  <1> DEFINE N == A \o B
  <1>7. /\ N \in Seq(S) /\ Len(N) = Len(A) + Len(B)
        /\ \A i \in 1 .. Len(A) + Len(B) : N[i] = IF i <= Len(A) THEN A[i] ELSE B[i - Len(A)]
    BY <1>6, ConcatProperties
  <1> HIDE DEF N
  <1>8. Len(s) \in Nat /\ k \in Nat /\ 1 <= k /\ k <= Len(s)
    OBVIOUS
  <1>9. Len(N) = Len(s) - 1
    BY <1>6, <1>7, <1>8
  <1>10. ASSUME NEW i \in 1 .. Len(s) - 1 PROVE N[i] = IF i < k THEN s[i] ELSE s[i + 1]
    <2>1. CASE i < k
      <3>1. i \in 1 .. k - 1 /\ i \in 1 .. Len(A) + Len(B) /\ i <= Len(A)
        BY <1>6, <1>8, <2>1
      <3> QED BY <1>6, <1>7, <2>1, <3>1
    <2>2. CASE ~(i < k)
      <3>1. i - (k - 1) \in 1 .. Len(s) - k /\ k + (i - (k - 1)) = i + 1
        BY <1>8, <2>2
      <3>2. N[i] = B[i - (k - 1)]
        BY <1>6, <1>7, <1>8, <2>2
      <3> QED BY <1>6, <2>2, <3>1, <3>2
    <2> QED BY <2>1, <2>2
  <1> QED BY <1>5, <1>7, <1>9, <1>10 DEF N

LEMMA RemovedNone ==
  ASSUME NEW s, NEW e, \A i \in 1 .. Len(s) : s[i] # e
  PROVE  RemoveFirst(s, e) = s
  <1>1. ~ \E i \in 1 .. Len(s) : s[i] = e
    OBVIOUS
  <1> QED BY <1>1, Zenon DEF RemoveFirst

LEMMA UnlinkLists ==
  ASSUME NEW h, Sound(h), NEW node \in Nodes, NEW q \in Nodes
  PROVE  ListOf(unlink(h, node), q) = RemoveFirst(ListOf(h, q), node)
  <1> DEFINE g == unlink(h, node)
             L == ListOf(h, q)
  <1>0. Linked(h) /\ Placed(h) /\ NULL \notin Nodes
    BY NullIsNoNode DEF Sound
  <1>1. Sound(g) /\ Unlinked(h, node, g)
    BY UnlinkSound
  <1>2. /\ L \in Seq(Nodes) /\ IsListOf(h, q, L) /\ Begins(h, q, L)
        /\ \A i \in 1 .. Len(L) : L[i] \in Nodes /\ h[L[i]].parent = q
    BY ListIs, BeginsLinked
  <1>3. Range(L) = {n \in Nodes : h[n].parent = q}
    BY ListRange
  <1> HIDE DEF g, L
  <1>4. CASE h[node].parent # q
    <2>1. RemoveFirst(L, node) = L
      <3>1. \A i \in 1 .. Len(L) : L[i] # node
        BY <1>2, <1>4
      <3> QED BY <3>1, RemovedNone
    <2>2. g[q].head = h[q].head
      BY <1>1, <1>4 DEF Unlinked
    <2>3. ASSUME NEW n \in Nodes, h[n].parent = q PROVE g[n].next = h[n].next
      <3>1. n # node
        BY <1>4, <2>3
      <3>2. n # h[node].prev
        BY <1>0, <1>4, <2>3 DEF Linked
      <3> QED BY <1>1, <3>1, <3>2 DEF Unlinked
    <2>4. ListOf(g, q) = ListOf(h, q)
      BY <1>1, <2>2, <2>3, ListKept
    <2> QED BY <2>1, <2>4 DEF g, L
  <1>5. CASE h[node].parent = q
    <2> DEFINE M == RemoveFirst(L, node)
    <2>1. PICK k \in 1 .. Len(L) : L[k] = node
      <3>1. node \in Range(L)
        BY <1>3, <1>5
      <3> QED BY <1>2, <3>1 DEF Range
    <2>2. \A j \in 1 .. Len(L) : L[j] = node => j = k
      BY <1>2, <2>1, BeginsOnce
    <2>3. /\ M \in Seq(Nodes) /\ Len(M) = Len(L) - 1
          /\ \A i \in 1 .. Len(L) - 1 : M[i] = IF i < k THEN L[i] ELSE L[i + 1]
      BY <1>2, <2>1, <2>2, RemovedOnce
    <2>4. /\ Len(L) \in Nat /\ k \in Nat /\ 1 <= k /\ k <= Len(L) /\ L # <<>>
          /\ h[L[Len(L)]].next = NULL /\ L[1] = h[q].head
          /\ \A i \in 1 .. Len(L) - 1 : h[L[i]].next = L[i + 1]
      BY <1>2, <2>1 DEF IsListOf
    <2>5. h[node].next = IF k = Len(L) THEN NULL ELSE L[k + 1]
      BY <2>1, <2>4
    <2>6. /\ h[L[1]].prev = NULL
          /\ \A i \in 1 .. Len(L) - 1 : h[L[i + 1]].prev = L[i]
      BY <1>2, <2>4, BeginsLinked
    <2>7. h[node].prev = IF k = 1 THEN NULL ELSE L[k - 1]
      <3>1. CASE k = 1
        BY <2>1, <2>6, <3>1
      <3>2. CASE k # 1
        <4>1. k - 1 \in 1 .. Len(L) - 1 /\ (k - 1) + 1 = k
          BY <2>4, <3>2
        <4>2. h[L[(k - 1) + 1]].prev = L[k - 1]
          BY <2>6, <4>1
        <4> QED BY <2>1, <3>2, <4>1, <4>2
      <3> QED BY <3>1, <3>2
    <2>8. ASSUME NEW i \in 1 .. Len(L), i # k
          PROVE  g[L[i]].next = IF i = k - 1 THEN h[node].next ELSE h[L[i]].next
      <3>1. L[i] \in Nodes /\ L[i] # node /\ i \in Nat
        BY <1>2, <2>2, <2>8
      <3>2. CASE i = k - 1
        <4>1. h[node].prev = L[i]
          BY <2>4, <2>7, <3>1, <3>2
        <4> QED BY <1>1, <3>1, <3>2, <4>1 DEF Unlinked
      <3>3. CASE i # k - 1
        <4>1. h[node].prev # L[i]
          <5>1. CASE k = 1
            BY <1>0, <2>7, <3>1, <5>1
          <5>2. CASE k # 1
            <6>1. k - 1 \in 1 .. Len(L) /\ h[node].prev = L[k - 1]
              BY <2>4, <2>7, <5>2
            <6>2. L[i] = L[k - 1] => i = k - 1
              BY <1>2, <6>1, BeginsOnce
            <6> QED BY <3>3, <6>1, <6>2
          <5> QED BY <5>1, <5>2
        <4> QED BY <1>1, <3>1, <3>3, <4>1 DEF Unlinked
      <3> QED BY <3>2, <3>3
    <2> HIDE DEF M
    <2>9. g[q].head = IF k = 1 THEN h[node].next ELSE L[1]
      <3>1. k # 1 => h[node].prev # NULL
        <4> SUFFICES ASSUME k # 1 PROVE h[node].prev # NULL
          OBVIOUS
        <4>1. k - 1 \in 1 .. Len(L) /\ h[node].prev = L[k - 1]
          BY <2>4, <2>7
        <4> QED BY <1>0, <1>2, <4>1
      <3> QED BY <1>1, <1>5, <2>4, <2>7, <3>1 DEF Unlinked
    <2>10. ASSUME M = <<>> PROVE g[q].head = NULL
      <3>1. Len(L) = 1 /\ k = 1
        <4>1. Len(M) = 0
          BY <2>10
        <4>2. Len(M) = Len(L) - 1
          BY <2>3
        <4>3. Len(L) \in Nat /\ k \in Nat /\ 1 <= k /\ k <= Len(L)
          BY <2>4
        <4>4. \A x \in Nat : x - 1 = 0 => x = 1
          OBVIOUS
        <4>5. Len(L) = 1
          BY <4>1, <4>2, <4>3, <4>4
        <4> QED BY <4>3, <4>5
      <3> QED BY <2>5, <2>9, <3>1
    <2>11. ASSUME M # <<>> PROVE M[1] = g[q].head /\ g[M[Len(M)]].next = NULL
      <3>1. Len(L) >= 2 /\ 1 \in 1 .. Len(L) - 1 /\ Len(L) - 1 \in 1 .. Len(L) - 1
        BY <2>3, <2>4, <2>11
      <3>2. M[1] = g[q].head
        BY <2>3, <2>4, <2>5, <2>9, <3>1
      <3>3. CASE k = Len(L)
        <4>1. M[Len(M)] = L[k - 1] /\ k - 1 \in 1 .. Len(L) /\ k - 1 # k
          BY <2>3, <2>4, <3>1, <3>3
        <4> QED BY <2>5, <2>8, <3>2, <3>3, <4>1
      <3>4. CASE k # Len(L)
        <4>1. M[Len(M)] = L[Len(L)] /\ Len(L) \in 1 .. Len(L) /\ Len(L) # k - 1
          BY <2>3, <2>4, <3>1, <3>4
        <4> QED BY <2>4, <2>8, <3>2, <3>4, <4>1
      <3> QED BY <3>3, <3>4
    <2>12. ASSUME NEW i \in 1 .. Len(M) - 1 PROVE g[M[i]].next = M[i + 1]
      <3>0. /\ i \in Nat /\ 1 <= i /\ i <= Len(L) - 2
            /\ i \in 1 .. Len(L) - 1 /\ i + 1 \in 1 .. Len(L) - 1
            /\ i \in 1 .. Len(L) /\ i + 1 \in 1 .. Len(L)
        BY <2>3, <2>4
      <3>1. CASE i < k - 1
        <4>1. M[i] = L[i] /\ M[i + 1] = L[i + 1] /\ i # k
          BY <2>3, <2>4, <3>0, <3>1
        <4>2. g[L[i]].next = h[L[i]].next
          BY <2>8, <3>0, <3>1, <4>1
        <4> QED BY <2>4, <3>0, <4>1, <4>2
      <3>2. CASE i = k - 1
        <4>1. M[i] = L[i] /\ M[i + 1] = L[i + 2] /\ i # k
          BY <2>3, <2>4, <3>0, <3>2
        <4>2. g[L[i]].next = h[node].next
          BY <2>8, <3>0, <3>2, <4>1
        <4>3. h[node].next = L[k + 1] /\ k + 1 = i + 2
          BY <2>4, <2>5, <3>0, <3>2
        <4> QED BY <4>1, <4>2, <4>3
      <3>3. CASE i >= k
        <4>1. M[i] = L[i + 1] /\ M[i + 1] = L[(i + 1) + 1] /\ i + 1 # k /\ i + 1 # k - 1
          BY <2>3, <2>4, <3>0, <3>3
        <4>2. g[L[i + 1]].next = h[L[i + 1]].next
          BY <2>8, <3>0, <4>1
        <4> QED BY <2>4, <3>0, <4>1, <4>2
      <3> QED BY <2>4, <3>0, <3>1, <3>2, <3>3
    <2>13. IsListOf(g, q, M)
      BY <2>10, <2>11, <2>12 DEF IsListOf
    <2>14. ListOf(g, q) = M
      BY <1>1, <2>3, <2>13, ListEquals
    <2> QED BY <2>14 DEF M, g, L
  <1> QED BY <1>4, <1>5

\* Trees are freed with all their lists, and no other list knows of them.
LEMMA FreeLists ==
  ASSUME NEW h, Sound(h), Keyless(h), NEW R \in SUBSET Nodes,
         \A m \in R : h[m].parent \in R \cup {NULL},
         \A n \in Nodes : h[n].parent \in R => n \in R,
         NEW g, g = [n \in Nodes |-> IF n \in R THEN Cleared("free") ELSE h[n]],
         NEW q \in Nodes
  PROVE  ListOf(g, q) = IF q \in R THEN <<>> ELSE ListOf(h, q)
  <1>1. Sound(g)
    BY FreeSound
  <1>2. CASE q \in R
    <2>1. g[q].head = NULL
      BY <1>2 DEF Cleared
    <2>2. IsListOf(g, q, <<>>) /\ <<>> \in Seq(Nodes)
      BY <2>1 DEF IsListOf
    <2>3. ListOf(g, q) = <<>>
      BY <1>1, <2>2, ListEquals
    <2> QED BY <1>2, <2>3
  <1>3. CASE q \notin R
    <2>1. g[q].head = h[q].head
      BY <1>3
    <2>2. ASSUME NEW n \in Nodes, h[n].parent = q PROVE g[n].next = h[n].next
      <3>1. n \notin R
        BY <1>3, <2>2, NullIsNoNode
      <3> QED BY <3>1
    <2>3. ListOf(g, q) = ListOf(h, q)
      BY <1>1, <2>1, <2>2, ListKept
    <2> QED BY <1>3, <2>3
  <1> QED BY <1>2, <1>3

\* A new node has no children, and nobody has it as one.
LEMMA MakeLists ==
  ASSUME NEW h, Sound(h), Keyless(h), NEW c \in Nodes, h[c].tag = "free",
         NEW tag \in Tags \ {"free"}, NEW q \in Nodes
  PROVE  ListOf([h EXCEPT ![c] = Cleared(tag)], q) = ListOf(h, q)
  <1> DEFINE g == [h EXCEPT ![c] = Cleared(tag)]
  <1>1. Sound(g)
    BY MakeSound
  <1>2. h[c].head = NULL /\ h[c].parent = NULL /\ NULL \notin Nodes /\ h \in [Nodes -> JsonNode]
    BY NullIsNoNode DEF Sound, Typed, Placed, IsContainer
  <1>3. g[c].head = NULL /\ \A n \in Nodes \ {c} : g[n] = h[n]
    BY <1>2 DEF Cleared
  <1> HIDE DEF g
  <1>4. g[q].head = h[q].head /\ \A n \in Nodes : h[n].parent = q => g[n].next = h[n].next
    BY <1>2, <1>3
  <1>5. ListOf(g, q) = ListOf(h, q)
    BY <1>1, <1>4, ListKept
  <1> QED BY <1>5 DEF g

\* To make a node a member, a copy of the key is hung on it; the lists stay.
LEMMA KeyLists ==
  ASSUME Sound(heap), NEW c \in Nodes, heap[c].parent = NULL, NEW q \in Nodes
  PROVE  ListOf(WithKey(c), q) = ListOf(heap, q)
  <1>1. Sound(WithKey(c)) /\ SameLists(heap, WithKey(c))
    BY KeySound
  <1>2. /\ WithKey(c)[q].head = heap[q].head
        /\ \A n \in Nodes : heap[n].parent = q => WithKey(c)[n].next = heap[n].next
    BY <1>1 DEF SameLists
  <1> QED BY <1>1, <1>2, ListKept

\* The roots of the forest are the nodes in use that have no parent.
LEMMA RootsAre ==
  ASSUME Sound(heap), NEW n \in Live
  PROVE  n \in Abstract!Roots <=> heap[n].parent = NULL
  <1>1. n \in Nodes /\ NULL \notin Nodes /\ Live \in SUBSET Nodes
    BY NullIsNoNode DEF Live
  <1>2. \A p \in Nodes : n \in Range(ListOf(heap, p)) <=> heap[n].parent = p
    BY <1>1, ListRange
  <1>3. heap[n].parent # NULL => heap[n].parent \in Live
    <2>1. heap[n].parent \in Pointer
      BY <1>1, Fields DEF Sound
    <2> QED BY <1>1, <2>1 DEF Sound, Placed, IsContainer, Live, Pointer
  <1>4. n \in Abstract!Roots <=> \A p \in Live : n \notin Range(ListOf(heap, p))
    BY <1>1 DEF Abstract!Roots, Abstract!Range, Range
  <1> QED BY <1>1, <1>2, <1>3, <1>4

\* What json_delete comes to is the subtree of the node.
LEMMA SubtreeIs ==
  ASSUME Sound(heap), NEW n \in Nodes
  PROVE  Abstract!Subtree(n) = Reached(heap, n)
  <1> DEFINE R == Reached(heap, n)
             Closed(S) == n \in S /\ \A p \in S : Range(ListOf(heap, p)) \subseteq S
  <1>1. Abstract!Subtree(n) = {m \in Nodes : \A S \in SUBSET Nodes : Closed(S) => m \in S}
    <2>1. \A S \in SUBSET Nodes, p \in Nodes :
            p \in S => Abstract!Range([k \in Nodes |-> ListOf(heap, k)][p]) = Range(ListOf(heap, p))
      BY DEF Abstract!Range, Range
    <2>2. \A S \in SUBSET Nodes :
            (\A p \in S : Abstract!Range([k \in Nodes |-> ListOf(heap, k)][p]) \subseteq S)
              <=> \A p \in S : Range(ListOf(heap, p)) \subseteq S
      BY <2>1
    <2> QED BY <2>2, Zenon DEF Abstract!Subtree
  <1>2. \A p \in Nodes : Range(ListOf(heap, p)) = {m \in Nodes : heap[m].parent = p}
    BY ListRange
  <1>3. /\ n \in R /\ R \in SUBSET Nodes
        /\ \A m \in Nodes : heap[m].parent \in R => m \in R
    BY WholeTree
  <1>4. Closed(R)
    BY <1>2, <1>3
  <1>5. ASSUME NEW S \in SUBSET Nodes, Closed(S), NEW m \in R PROVE m \in S
    <2> DEFINE D == {k \in S : k = n \/ heap[k].parent \in S}
    <2>1. \A p \in S, k \in Nodes : heap[k].parent = p => k \in S
      BY <1>2, <1>5
    <2>2. ASSUME NEW k \in D PROVE /\ heap[k].head \in D \cup {NULL}
                                   /\ k # n => heap[k].next \in D \cup {NULL}
      <3>1. k \in Nodes /\ heap[k].head \in Pointer /\ heap[k].next \in Pointer /\ Linked(heap)
        BY Fields DEF Sound
      <3>2. heap[k].head # NULL => heap[k].head \in Nodes /\ heap[heap[k].head].parent = k
        BY <3>1 DEF Linked, Pointer
      <3>3. heap[k].next # NULL =>
              heap[k].next \in Nodes /\ heap[heap[k].next].parent = heap[k].parent
        BY <3>1 DEF Linked, Pointer
      <3> QED BY <2>1, <3>2, <3>3
    <2>3. ClosedFrom(heap, n, D) /\ D \in SUBSET Nodes
      BY <1>5, <2>2 DEF ClosedFrom
    <2>4. m \in D
      BY <1>5, <2>3 DEF Reached
    <2> QED BY <2>4
  <1> HIDE DEF R, Closed
  <1>6. \A m \in Nodes : (\A S \in SUBSET Nodes : Closed(S) => m \in S) <=> m \in R
    BY <1>3, <1>4, <1>5
  <1> QED BY <1>1, <1>3, <1>6 DEF R

-----------------------------------------------------------------------------
(* Every call is a step of the forest.                                     *)

Kids == [n \in Nodes |-> ListOf(heap, n)]

\* Removed from every list: what Detach and Delete leave of the children.
LEMMA IsWithout ==
  ASSUME NEW n \in Nodes
  PROVE  Abstract!Without(n) = [q \in Nodes |-> RemoveFirst(Kids[q], n)]
  <1>1. \A q \in Nodes : Abstract!RemoveFirst(Kids[q], n) = RemoveFirst(Kids[q], n)
    BY Zenon DEF Abstract!RemoveFirst, RemoveFirst, Abstract!RemoveAt, RemoveAt,
                 Abstract!SelectInSeq, SelectInSeq, Abstract!Min, Min
  <1> QED BY <1>1 DEF Abstract!Without, Kids

LEMMA AddIsAdd ==
  ASSUME Sound(heap), NEW p \in Live, NEW c \in Live, heap[c].parent = NULL,
         p \notin Reached(heap, c), NEW h, Addable(h, p, c),
         \A n \in Nodes : h[n].tag = heap[n].tag /\ ListOf(h, n) = ListOf(heap, n),
         heap' = append_node(h, p, c) \/ heap' = prepend_node(h, p, c)
  PROVE  Abstract!Add(p, c)
  <1>1. p \in Nodes /\ c \in Nodes
    BY DEF Live
  <1>2. c \in Abstract!Roots /\ p \notin Abstract!Subtree(c)
    BY <1>1, RootsAre, SubtreeIs
  <1>3. Live' = Live
    <2>1. \A n \in Nodes : heap'[n].tag = h[n].tag
      BY AppendSound, PrependSound DEF Appended, Prepended
    <2> QED BY <2>1 DEF Live
  <1>4. CASE heap' = append_node(h, p, c)
    <2>1. \A q \in Nodes : ListOf(heap', q) =
            IF q = p THEN Append(ListOf(heap, p), c) ELSE ListOf(heap, q)
      BY <1>1, <1>4, AppendLists
    <2>2. Kids' = [Kids EXCEPT ![p] = Append(@, c)]
      BY <1>1, <2>1 DEF Kids
    <2> QED BY <1>2, <1>3, <2>2 DEF Abstract!Add, Kids
  <1>5. CASE heap' = prepend_node(h, p, c)
    <2>1. \A q \in Nodes : ListOf(heap', q) =
            IF q = p THEN <<c>> \o ListOf(heap, p) ELSE ListOf(heap, q)
      BY <1>1, <1>5, PrependLists
    <2>2. Kids' = [Kids EXCEPT ![p] = <<c>> \o @]
      BY <1>1, <2>1 DEF Kids
    <2> QED BY <1>2, <1>3, <2>2 DEF Abstract!Add, Kids
  <1> QED BY <1>4, <1>5

LEMMA ForestStep == IInv /\ [Next]_heap => [Abstract!Next]_(Abstract!vars)
  <1> SUFFICES ASSUME IInv, Next PROVE Abstract!Next
    BY DEF Abstract!vars, Live, ListOf, IsListOf
  <1>0. Sound(heap) /\ Keyless(heap)
    BY DEF IInv
  <1>1. ASSUME NEW n \in Nodes, NEW tag \in Tags \ {"free"}, mknode(n, tag)
        PROVE  Abstract!Make(n)
    <2>1. heap[n].tag = "free" /\ heap' = [heap EXCEPT ![n] = Cleared(tag)]
      BY <1>1 DEF mknode
    <2>2. Kids' = Kids
      <3>1. \A q \in Nodes : ListOf(heap', q) = ListOf(heap, q)
        BY <1>0, <2>1, MakeLists
      <3> QED BY <3>1 DEF Kids
    <2>3. n \notin Live /\ Live' = Live \cup {n}
      <3>1. heap'[n].tag = tag /\ \A m \in Nodes \ {n} : heap'[m] = heap[m]
        BY <1>0, <2>1 DEF Sound, Typed, Cleared
      <3> QED BY <2>1, <3>1 DEF Live
    <2> QED BY <2>2, <2>3 DEF Abstract!Make, Kids
  <1>2. ASSUME NEW p \in Nodes, NEW c \in Nodes, MayAdd("array", p, c),
               heap' = append_node(heap, p, c) \/ heap' = prepend_node(heap, p, c)
        PROVE  Abstract!Add(p, c)
    <2>1. p \in Live /\ c \in Live /\ heap[c].parent = NULL /\ p \notin Reached(heap, c)
      BY <1>2 DEF MayAdd, Live
    <2>2. Addable(heap, p, c)
      BY <1>0, <1>2, ArrayAddable
    <2> QED BY <1>0, <1>2, <2>1, <2>2, AddIsAdd
  <1>3. ASSUME NEW p \in Nodes, NEW c \in Nodes, MayAdd("object", p, c),
               \/ heap' = append_node(WithKey(c), p, c)
               \/ heap' = prepend_node(WithKey(c), p, c)
        PROVE  Abstract!Add(p, c)
    <2>1. p \in Live /\ c \in Live /\ heap[c].parent = NULL /\ p \notin Reached(heap, c)
      BY <1>3 DEF MayAdd, Live
    <2>2. Addable(WithKey(c), p, c)
      BY <1>0, <1>3, ObjectAddable
    <2>3. \A n \in Nodes : /\ WithKey(c)[n].tag = heap[n].tag
                           /\ ListOf(WithKey(c), n) = ListOf(heap, n)
      BY <1>0, <2>1, KeySound, KeyLists
    <2> QED BY <1>0, <1>3, <2>1, <2>2, <2>3, AddIsAdd
  <1>4. ASSUME NEW n \in Nodes, json_remove_from_parent(n) PROVE Abstract!Detach(n)
    <2>1. n \in Live /\ heap' = unlink(heap, n)
      BY <1>4 DEF json_remove_from_parent
    <2>2. \A q \in Nodes : ListOf(heap', q) = RemoveFirst(ListOf(heap, q), n)
      BY <1>0, <2>1, UnlinkLists
    <2>3. Live' = Live
      <3>1. Unlinked(heap, n, heap')
        BY <1>0, <2>1, UnlinkSound
      <3> QED BY <3>1 DEF Unlinked, Live
    <2>4. Kids' = [q \in Nodes |-> RemoveFirst(Kids[q], n)]
      BY <2>2 DEF Kids
    <2> QED BY <2>1, <2>3, <2>4, IsWithout DEF Abstract!Detach, Kids
  <1>5. ASSUME NEW n \in Nodes, json_delete(n) PROVE Abstract!Delete(n)
    <2> DEFINE g == unlink(heap, n)
               R == Reached(heap, n)
    <2>1. n \in Live /\ heap' = [q \in Nodes |-> IF q \in R THEN Cleared("free") ELSE g[q]]
      BY <1>5 DEF json_delete
    <2>2. /\ n \in R /\ R \in SUBSET Nodes
          /\ \A m \in R : m = n \/ heap[m].parent \in R
          /\ \A m \in Nodes : heap[m].parent \in R => m \in R
      BY <1>0, WholeTree
    <2>3. /\ Sound(g) /\ Keyless(g) /\ Unlinked(heap, n, g)
          /\ \A m \in Nodes : g[m].parent = IF m = n THEN NULL ELSE heap[m].parent
          /\ \A q \in Nodes : ListOf(g, q) = RemoveFirst(ListOf(heap, q), n)
      BY <1>0, UnlinkSound, UnlinkKeyless, UnlinkLists
    <2>4. Abstract!Subtree(n) = R
      BY <1>0, SubtreeIs
    <2> HIDE DEF g, R
    <2>5. /\ \A m \in R : g[m].parent \in R \cup {NULL}
          /\ \A m \in Nodes : g[m].parent \in R => m \in R
      BY <2>2, <2>3
    <2>6. \A q \in Nodes : ListOf(heap', q) =
            IF q \in R THEN <<>> ELSE RemoveFirst(ListOf(heap, q), n)
      BY <2>1, <2>2, <2>3, <2>5, FreeLists
    <2>7. Live' = Live \ R
      <3>1. \A q \in Nodes : heap'[q].tag = IF q \in R THEN "free" ELSE heap[q].tag
        BY <2>1, <2>3 DEF Unlinked, Cleared
      <3> QED BY <3>1 DEF Live
    <2>8. Kids' = [q \in Nodes |-> IF q \in R THEN <<>> ELSE RemoveFirst(Kids[q], n)]
      BY <2>6 DEF Kids
    <2>9. Kids' = [q \in Nodes |-> IF q \in R THEN <<>> ELSE Abstract!Without(n)[q]]
      BY <2>8, IsWithout
    <2> QED BY <2>1, <2>4, <2>7, <2>9 DEF Abstract!Delete, Kids
  <1>6. ASSUME NEW n \in Nodes, NEW p \in Nodes,
               \/ json_append_element(p, n) \/ json_prepend_element(p, n)
               \/ json_append_member(p, n)  \/ json_prepend_member(p, n)
        PROVE  Abstract!Add(p, n)
    BY <1>2, <1>3, <1>6 DEF json_append_element, json_prepend_element, json_append_member,
                            json_prepend_member
  <1> QED BY <1>1, <1>4, <1>5, <1>6 DEF Next, Abstract!Next

-----------------------------------------------------------------------------
(* The theorems.                                                           *)

\* The heap stays sound whatever functions of json.h are called in whatever order.
THEOREM Invariance == Spec => []IInv
  BY InitInv, InvStep, PTL DEF Spec

\* Every node keeps its type, and only arrays and objects have children.
THEOREM TypeCorrect == Spec => []TypeOK
  <1>1. IInv => TypeOK
    BY DEF IInv, Sound, Typed, TypeOK
  <1> QED BY <1>1, Invariance, PTL

\* json_check has nothing to complain about in any tree of any size, whatever
\* was appended, prepended, removed or deleted before.
THEOREM TreesCheck == Spec => []JsonCheck
  <1>1. ASSUME IInv, NEW n \in Live, IsContainer(heap[n])
        PROVE  /\ (heap[n].head = NULL) <=> (heap[n].tail = NULL)
               /\ heap[n].head # NULL => heap[heap[n].head].prev = NULL
               /\ \A c \in Walked(n) :
                    /\ c # n
                    /\ heap[c].next \notin {c, heap[n].head}
                    /\ heap[c].parent = n
                    /\ heap[c].next # NULL => heap[heap[c].next].prev = c
                    /\ heap[c].key = (heap[n].tag = "object")
                    /\ heap[c].next = NULL => heap[n].tail = c
    <2>0. /\ n \in Nodes /\ Sound(heap) /\ Typed(heap) /\ Linked(heap) /\ Placed(heap)
          /\ NULL \notin Nodes
      <3>1. Sound(heap) /\ n \in Nodes
        BY <1>1 DEF IInv, Live
      <3> QED BY <3>1, NullIsNoNode DEF Sound
    <2>1. ASSUME NEW c \in Walked(n) PROVE c \in Nodes /\ heap[c].parent = n
      <3> DEFINE S == {m \in Nodes : heap[m].parent = n}
      <3>1. heap[n].head \in S \cup {NULL}
        BY <2>0, Fields DEF Linked, Pointer
      <3>2. \A m \in S : heap[m].next \in S \cup {NULL}
        BY <2>0, Fields DEF Linked, Pointer
      <3>3. S \in SUBSET Nodes
        OBVIOUS
      <3> QED BY <3>1, <3>2, <3>3 DEF Walked
    <2>2. ASSUME NEW c \in Walked(n)
          PROVE  /\ c # n
                 /\ heap[c].next \notin {c, heap[n].head}
                 /\ heap[c].next # NULL => heap[heap[c].next].prev = c
                 /\ heap[c].key = (heap[n].tag = "object")
                 /\ heap[c].next = NULL => heap[n].tail = c
      <3>1. c \in Nodes /\ heap[c].parent = n /\ n # NULL
        BY <2>0, <2>1, <2>2
      <3>2. c # n
        BY <2>0, <3>1, NotOwnParent
      <3>3. heap[c].next # NULL => heap[heap[c].next].prev = c
        BY <2>0, <3>1 DEF Linked
      <3>4. heap[c].next # c
        <4> SUFFICES ASSUME heap[c].next = c PROVE FALSE
          OBVIOUS
        <4>1. \A m \in {c} : heap[m].parent = n /\ heap[m].prev \in {c}
          BY <2>0, <3>1, <3>3
        <4> QED BY <2>0, <3>1, <4>1, NoLoop, {c} \in SUBSET Nodes, {c} # {}
      <3>5. heap[c].next # heap[n].head
        <4>1. CASE heap[c].next = NULL
          BY <2>0, <3>1, <4>1 DEF Linked, Placed
        <4>2. CASE heap[c].next # NULL
          BY <2>0, <3>1, <3>3, <4>2 DEF Linked
        <4> QED BY <4>1, <4>2
      <3> QED BY <2>0, <3>1, <3>2, <3>3, <3>4, <3>5 DEF Placed
    <2> QED BY <2>0, <2>1, <2>2 DEF Linked
  <1>2. IInv => JsonCheck
    BY <1>1 DEF JsonCheck
  <1> QED BY <1>2, Invariance, PTL

\* No node in use points to a freed one, and a tree deleted out of a larger one
\* takes nothing else along.
THEOREM NothingLeftDangling == Spec => []NothingDangling
  <1>1. ASSUME IInv, NEW n \in Live
        PROVE  {heap[n].parent, heap[n].prev, heap[n].next, heap[n].head, heap[n].tail}
                 \subseteq Live \cup {NULL}
    <2>0. /\ n \in Nodes /\ Typed(heap) /\ Linked(heap) /\ Placed(heap) /\ NULL \notin Nodes
      <3>1. Sound(heap) /\ n \in Nodes
        BY <1>1 DEF IInv, Live
      <3> QED BY <3>1, NullIsNoNode DEF Sound
    <2>1. \A m \in Nodes : heap[m].parent # NULL => m \in Live
      BY <2>0 DEF Placed, Live
    <2>2. /\ heap[n].parent \in Pointer /\ heap[n].prev \in Pointer /\ heap[n].next \in Pointer
          /\ heap[n].head \in Pointer /\ heap[n].tail \in Pointer
      BY <2>0, Fields
    <2>3. heap[n].parent # NULL => heap[n].parent \in Live
      BY <2>0, <2>2 DEF Placed, IsContainer, Live, Pointer
    <2>4. heap[n].next # NULL => heap[n].next \in Live
      BY <2>0, <2>1, <2>2 DEF Linked, Placed, Pointer
    <2>5. heap[n].prev # NULL => heap[n].prev \in Live
      BY <2>0, <2>1, <2>2 DEF Linked, Placed, Pointer
    <2>6. heap[n].head # NULL => heap[n].head \in Live
      BY <2>0, <2>1, <2>2 DEF Linked, Pointer
    <2>7. heap[n].tail # NULL => heap[n].tail \in Live
      BY <2>0, <2>1, <2>2 DEF Linked, Pointer
    <2> QED BY <2>3, <2>4, <2>5, <2>6, <2>7
  <1>2. IInv => NothingDangling
    BY <1>1 DEF NothingDangling
  <1> QED BY <1>2, Invariance, PTL

\* Whatever functions of json.h are called, read along the next pointers the
\* nodes are sequences of children, and each call puts one node at an end of one
\* of them, takes one out, or frees a whole subtree.
THEOREM TreesAreForest == Spec => ImplementsForest
  <1>1. Init => Abstract!Init
    <2> SUFFICES ASSUME Init PROVE Abstract!Init
      OBVIOUS
    <2>1. Sound(heap)
      BY InitInv DEF IInv
    <2>2. \A n \in Nodes : heap[n].tag = "free" /\ heap[n].head = NULL
      BY DEF Init, Cleared
    <2>3. ASSUME NEW n \in Nodes PROVE ListOf(heap, n) = <<>>
      <3>1. <<>> \in Seq(Nodes) /\ IsListOf(heap, n, <<>>)
        BY <2>2 DEF IsListOf
      <3> QED BY <2>1, <3>1, ListEquals
    <2> QED BY <2>2, <2>3 DEF Abstract!Init, Live
  <1> QED BY <1>1, ForestStep, Invariance, PTL DEF Spec, ImplementsForest, Abstract!Spec

=============================================================================
