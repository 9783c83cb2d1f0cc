-------------------------- MODULE NodeSandboxProofs --------------------------
(***************************************************************************)
(* Proofs about NodeSandbox, for any number of sandboxes, descriptors,     *)
(* calls and requests.                                                     *)
(*                                                                         *)
(* That a reply finds its channel follows from two facts about what is     *)
(* remembered: no two channels ever made share their identity, and a       *)
(* request whose channel still exists remembers that channel's number.     *)
(***************************************************************************)
EXTENDS NodeSandbox, SequenceTheorems, TLAPS

IdsUnique ==
  \A s, t \in Sandboxes : \A c \in channels[s], d \in channels[t] :
    c.id = d.id => c = d /\ s = t

RequestsRemember ==
  \A r \in requests : \A c \in Open : c.id = r.of => c.parent = r.fd

Inv == TypeOK /\ DescriptorsOwned /\ IdsUnique /\ RequestsRemember /\ RepliesHome

-----------------------------------------------------------------------------
(* Messages.                                                               *)

\* Every message in a stream names a channel that has been made.
LEMMA MessagesOf ==
  ASSUME NEW q \in Seq(Messages)
  PROVE  \A j \in DOMAIN q : q[j] \in Messages /\ q[j].of \in Ids
<1>1. \A j \in DOMAIN q : q[j] \in Messages
  BY ElementOfSeq, LenProperties
<1> QED
  BY <1>1 DEF Messages

\* What is in a sequence after an append.
LEMMA AppendElements ==
  ASSUME NEW S, NEW q \in Seq(S), NEW e \in S
  PROVE  /\ Append(q, e) \in Seq(S)
         /\ \A k \in DOMAIN Append(q, e) :
              Append(q, e)[k] = e \/ (k \in DOMAIN q /\ Append(q, e)[k] = q[k])
BY AppendProperties, LenProperties

-----------------------------------------------------------------------------
(* New channels.                                                           *)

\* What k calls of SandboxIPC may make.
New(k) == [id : made + 1 .. made + k, dupAs : {1, 2, 3}, parent : Numbers, child : Numbers]

\* Channels that share neither their identity nor a number.
Apart(cs) ==
  /\ \A c \in cs : c.parent # c.child
  /\ \A c, d \in cs : c.id = d.id \/ {c.parent, c.child} \cap {d.parent, d.child} # {} => c = d

\* The table shows at each number of a channel the end it is of.
LEMMA EndAtOwn ==
  ASSUME NEW cs, Apart(cs), NEW c \in cs
  PROVE  /\ EndAt(cs, c.parent) = End(c.id, "parent")
         /\ EndAt(cs, c.child) = End(c.id, "child")
<1>1. \A n \in {c.parent, c.child} : (CHOOSE d \in cs : n \in {d.parent, d.child}) = c
  <2> TAKE n \in {c.parent, c.child}
  <2> DEFINE d == CHOOSE d \in cs : n \in {d.parent, d.child}
  <2>1. d \in cs /\ n \in {d.parent, d.child}
    OBVIOUS
  <2> QED
    BY <2>1 DEF Apart
<1> QED
  BY <1>1 DEF EndAt, Apart

\* What an end of some channel is, for any number of it.
LEMMA EndAtType ==
  ASSUME NEW k \in Nat, NEW cs \in SUBSET New(k), NEW n \in NumbersOf(cs)
  PROVE  EndAt(cs, n) \in [id : made + 1 .. made + k, side : {"parent", "child"}]
<1> DEFINE c == CHOOSE c \in cs : n \in {c.parent, c.child}
<1>1. c \in cs
  BY DEF NumbersOf
<1>2. c.id \in made + 1 .. made + k
  BY <1>1 DEF New
<1> QED
  BY <1>2 DEF EndAt, End

\* addIPC keeps the types of all it changes and of what refers to channels.
LEMMA AddIPCType ==
  ASSUME TypeOK, NEW s \in Sandboxes, NEW k \in Nat, NEW cs \in SUBSET New(k),
         addIPC(s, cs, k), UNCHANGED <<requests, asked>>
  PROVE  /\ made' \in Nat /\ made' = made + k
         /\ channels' \in [Sandboxes -> SUBSET Channels']
         /\ DOMAIN fds' \subseteq Numbers
         /\ \A n \in DOMAIN fds' : fds'[n] \in Files'
         /\ streams' \in [Ids' -> Streams']
         /\ requests' \subseteq Requests'
<1>1. made' \in Nat /\ made' = made + k /\ Ids \subseteq Ids' /\ made + 1 .. made + k \subseteq Ids'
  BY DEF TypeOK, addIPC, Ids
<1>2. channels' \in [Sandboxes -> SUBSET Channels']
  <2>1. Channels \subseteq Channels' /\ cs \subseteq Channels'
    BY <1>1 DEF Channels, New, Numbers
  <2> QED
    BY <2>1 DEF TypeOK, addIPC
<1>3. DOMAIN fds' \subseteq Numbers
  BY DEF TypeOK, addIPC, NumbersOf, New
<1>4. ASSUME NEW n \in DOMAIN fds'
      PROVE  fds'[n] \in Files'
  <2>1. Files \subseteq Files'
    BY <1>1 DEF Files
  <2>2. CASE n \in DOMAIN fds
    BY <2>1, <2>2 DEF TypeOK, addIPC
  <2>3. CASE n \notin DOMAIN fds
    <3>1. n \in NumbersOf(cs) /\ fds'[n] = EndAt(cs, n)
      BY <2>3 DEF addIPC
    <3> QED
      BY <3>1, EndAtType, <1>1 DEF Files
  <2> QED
    BY <2>2, <2>3
<1>5. streams' \in [Ids' -> Streams']
  <2>1. Messages \subseteq Messages'
    BY <1>1 DEF Messages
  <2>2. Seq(Messages) \subseteq Seq(Messages')
    BY <2>1, SeqMonotonic
  <2>3. Streams \subseteq Streams'
    BY <2>2 DEF Streams
  <2>4. Empty \in Streams'
    BY DEF Empty, Streams
  <2> QED
    BY <1>1, <2>3, <2>4 DEF TypeOK, addIPC, Ids
<1>6. requests' \subseteq Requests'
  <2>1. Requests \subseteq Requests'
    BY <1>1 DEF Requests, Numbers
  <2> QED
    BY <2>1 DEF TypeOK
<1> QED
  BY <1>1, <1>2, <1>3, <1>4, <1>5, <1>6

\* addIPC keeps the invariant: the new channels are the sandbox's, on numbers
\* and identities nobody has.
LEMMA AddIPCKeeps ==
  ASSUME Inv, NEW s \in Sandboxes, NEW k \in Nat, NEW cs \in SUBSET New(k),
         Apart(cs), NumbersOf(cs) \cap DOMAIN fds = {},
         addIPC(s, cs, k), UNCHANGED <<requests, asked>>,
         NEW p \in {"made", "running"}, phase' = [phase EXCEPT ![s] = p]
  PROVE  DescriptorsOwned' /\ IdsUnique' /\ RequestsRemember' /\ RepliesHome'
<1> USE DEF Inv
<1>1. made' \in Nat /\ made' = made + k
  BY AddIPCType
<1>2. \A t \in Sandboxes : channels'[t] = IF t = s THEN channels[s] \cup cs ELSE channels[t]
  BY DEF TypeOK, addIPC
<1>3. \A c \in cs : c.id \notin Ids /\ c.parent \in NumbersOf(cs) /\ c.child \in NumbersOf(cs)
  <2> TAKE c \in cs
  <2>1. c.id \in made + 1 .. made + k
    BY DEF New
  <2> QED
    BY <2>1 DEF NumbersOf, TypeOK, Ids
<1>4. \A t \in Sandboxes : \A c \in channels[t] : c.id \in Ids
  BY DEF TypeOK, Channels
<1>6. ChannelsOpen'
  <2> SUFFICES ASSUME NEW t \in Sandboxes, NEW c \in channels'[t]
               PROVE  /\ {c.parent, c.child} \subseteq DOMAIN fds'
                      /\ fds'[c.parent] = End(c.id, "parent")
                      /\ fds'[c.child] = End(c.id, "child")
    BY DEF ChannelsOpen
  <2>1. CASE c \in channels[t]
    BY <2>1 DEF DescriptorsOwned, ChannelsOpen, addIPC
  <2>2. CASE c \in cs
    BY <2>2, <1>3, EndAtOwn DEF addIPC
  <2> QED
    BY <2>1, <2>2, <1>2
<1>7. NoneLeaked'
  <2> SUFFICES ASSUME NEW n \in DOMAIN fds', fds'[n] # Other
               PROVE  \E t \in Sandboxes : n \in NumbersOf(channels'[t])
    BY DEF NoneLeaked, Other, End, NumbersOf
  <2>1. CASE n \in DOMAIN fds
    <3>1. PICK t \in Sandboxes : n \in NumbersOf(channels[t])
      BY <2>1 DEF DescriptorsOwned, NoneLeaked, addIPC
    <3> QED
      BY <3>1, <1>2 DEF NumbersOf
  <2>2. CASE n \in NumbersOf(cs)
    BY <2>2, <1>2 DEF NumbersOf
  <2> QED
    BY <2>1, <2>2 DEF addIPC
<1>8. NoneKept'
  BY <1>2 DEF DescriptorsOwned, NoneKept, TypeOK
<1>9. IdsUnique'
  <2> SUFFICES ASSUME NEW t \in Sandboxes, NEW u \in Sandboxes,
                      NEW c \in channels'[t], NEW d \in channels'[u], c.id = d.id
               PROVE  c = d /\ t = u
    BY DEF IdsUnique
  <2>1. CASE c \in channels[t] /\ d \in channels[u]
    BY <2>1 DEF IdsUnique
  <2>2. CASE c \in cs /\ d \in cs
    <3>1. t = s /\ u = s
      BY <2>2, <1>2, <1>3, <1>4
    <3> QED
      BY <2>2, <3>1 DEF Apart
  <2>3. CASE c \in cs /\ d \in channels[u]
    BY <2>3, <1>3, <1>4
  <2>4. CASE c \in channels[t] /\ d \in cs
    BY <2>4, <1>3, <1>4
  <2> QED
    BY <2>1, <2>2, <2>3, <2>4, <1>2
<1>10. \A c \in Open' : c \in Open \/ c.id \notin Ids
  BY <1>2, <1>3 DEF Open
<1>11. \A i \in Ids : i \in OpenIds' => i \in OpenIds
  BY <1>10 DEF OpenIds
<1>12. RequestsRemember'
  BY <1>10 DEF RequestsRemember, TypeOK, Requests
<1>13. RepliesHome'
  <2> SUFFICES ASSUME NEW i \in Ids'
               PROVE  /\ \A j \in DOMAIN streams'[i].down :
                           LET m == streams'[i].down[j] IN m.of # i => m.of \notin OpenIds'
                      /\ \A j \in DOMAIN streams'[i].up :
                           LET m == streams'[i].up[j] IN m.kind = "reply" => m.of \notin OpenIds'
    BY DEF RepliesHome
  <2>1. CASE i \in Ids
    <3>1. streams'[i] = streams[i] /\ streams[i] \in Streams
      BY <2>1 DEF addIPC, TypeOK, Ids
    <3>2. /\ \A j \in DOMAIN streams[i].down : streams[i].down[j].of \in Ids
          /\ \A j \in DOMAIN streams[i].up : streams[i].up[j].of \in Ids
      <4>1. streams[i].down \in Seq(Messages) /\ streams[i].up \in Seq(Messages)
        BY <3>1 DEF Streams
      <4> QED
        BY <4>1, MessagesOf
    <3> QED
      BY <2>1, <3>1, <3>2, <1>11 DEF RepliesHome
  <2>2. CASE i \notin Ids
    BY <2>2 DEF addIPC, Empty, Ids
  <2> QED
    BY <2>1, <2>2
<1> QED
  BY <1>6, <1>7, <1>8, <1>9, <1>12, <1>13 DEF DescriptorsOwned

-----------------------------------------------------------------------------
(* Channels that go.                                                       *)

\* releaseChild keeps the types of all it changes.
LEMMA ReleaseType ==
  ASSUME TypeOK, NEW s \in Sandboxes, releaseChild(s), UNCHANGED <<made, requests, asked>>
  PROVE  /\ made' \in Nat
         /\ channels' \in [Sandboxes -> SUBSET Channels']
         /\ DOMAIN fds' \subseteq Numbers
         /\ \A n \in DOMAIN fds' : fds'[n] \in Files'
         /\ streams' \in [Ids' -> Streams']
         /\ requests' \subseteq Requests'
<1>1. Ids' = Ids /\ Channels' = Channels /\ Files' = Files /\ Streams' = Streams
      /\ Requests' = Requests
  BY DEF Ids, Channels, Files, Streams, Messages, Requests
<1>2. Empty \in Streams
  BY DEF Empty, Streams
<1>3. streams' \in [Ids -> Streams]
  BY <1>2 DEF TypeOK, releaseChild
<1> QED
  BY <1>1, <1>3 DEF TypeOK, releaseChild

\* releaseChild keeps the invariant: what it closes is no other sandbox's.
LEMMA ReleaseKeeps ==
  ASSUME Inv, NEW s \in Sandboxes, releaseChild(s), UNCHANGED <<made, requests, asked>>,
         \A t \in Sandboxes \ {s} : phase'[t] = phase[t]
  PROVE  DescriptorsOwned' /\ IdsUnique' /\ RequestsRemember' /\ RepliesHome'
<1> USE DEF Inv
<1>1. \A t \in Sandboxes : channels'[t] = IF t = s THEN {} ELSE channels[t]
  BY DEF TypeOK, releaseChild
<1>2. \A n \in NumbersOf(channels[s]) : \A t \in Sandboxes \ {s} : n \notin NumbersOf(channels[t])
  <2> SUFFICES ASSUME NEW t \in Sandboxes \ {s}, NEW c \in channels[s], NEW d \in channels[t],
                      NEW n \in {c.parent, c.child}, n \in {d.parent, d.child}
               PROVE  FALSE
    BY DEF NumbersOf
  <2>1. ChannelsOpen
    BY DEF DescriptorsOwned
  <2>2. fds[n].id = c.id
    <3>1. fds[c.parent] = End(c.id, "parent") /\ fds[c.child] = End(c.id, "child")
      BY <2>1 DEF ChannelsOpen
    <3> QED
      BY <3>1 DEF End
  <2>3. fds[n].id = d.id
    <3>1. fds[d.parent] = End(d.id, "parent") /\ fds[d.child] = End(d.id, "child")
      BY <2>1 DEF ChannelsOpen
    <3> QED
      BY <3>1 DEF End
  <2> QED
    BY <2>2, <2>3 DEF IdsUnique
<1>3. ChannelsOpen'
  <2> SUFFICES ASSUME NEW t \in Sandboxes \ {s}, NEW c \in channels[t]
               PROVE  /\ {c.parent, c.child} \subseteq DOMAIN fds'
                      /\ fds'[c.parent] = End(c.id, "parent")
                      /\ fds'[c.child] = End(c.id, "child")
    BY <1>1 DEF ChannelsOpen
  <2>1. c.parent \in NumbersOf(channels[t]) /\ c.child \in NumbersOf(channels[t])
    BY DEF NumbersOf
  <2> QED
    BY <2>1, <1>2 DEF DescriptorsOwned, ChannelsOpen, releaseChild
<1>4. NoneLeaked'
  <2> SUFFICES ASSUME NEW n \in DOMAIN fds', fds'[n] # Other
               PROVE  \E t \in Sandboxes : n \in NumbersOf(channels'[t])
    BY DEF NoneLeaked, Other, End, NumbersOf
  <2>1. n \in DOMAIN fds /\ n \notin NumbersOf(channels[s]) /\ fds[n] # Other
    BY DEF releaseChild
  <2>2. PICK t \in Sandboxes : n \in NumbersOf(channels[t])
    BY <2>1 DEF DescriptorsOwned, NoneLeaked
  <2> QED
    BY <2>1, <2>2, <1>1
<1>5. NoneKept'
  BY <1>1 DEF DescriptorsOwned, NoneKept
<1>6. IdsUnique'
  BY <1>1 DEF IdsUnique
<1>7. \A c \in Open' : c \in Open
  BY <1>1 DEF Open
<1>8. RequestsRemember'
  BY <1>7 DEF RequestsRemember
<1>9. \A i : i \in OpenIds' => i \in OpenIds
  BY <1>7 DEF OpenIds
<1>10. \A i \in Ids : streams'[i] = streams[i] \/ streams'[i] = Empty
  BY DEF releaseChild
<1>11. RepliesHome'
  BY <1>9, <1>10 DEF RepliesHome, Ids, Empty
<1> QED
  BY <1>3, <1>4, <1>5, <1>6, <1>8, <1>11 DEF DescriptorsOwned

-----------------------------------------------------------------------------
(* The calls of the embedding program.                                     *)

\* A step that leaves channels, messages and requests alone keeps what is said
\* of them.
LEMMA SameChannels ==
  ASSUME Inv, UNCHANGED <<phase, channels, fds, made, streams, requests>>
  PROVE  DescriptorsOwned' /\ IdsUnique' /\ RequestsRemember' /\ RepliesHome'
BY DEF Inv, DescriptorsOwned, ChannelsOpen, NoneLeaked, NoneKept, IdsUnique,
       RequestsRemember, Open, RepliesHome, OpenIds, Ids

\* A free number given out is taken afterwards, so the next one is another.
LEMMA NodeNewKeeps ==
  ASSUME Inv, NEW s \in Sandboxes, node_new(s)
  PROVE  Inv'
<1> USE DEF Inv
<1>1. PICK p1 \in Numbers, q1 \in Numbers, p2 \in Numbers, q2 \in Numbers :
        /\ p1 \notin DOMAIN fds /\ q1 \notin DOMAIN fds \cup {p1}
        /\ p2 \notin DOMAIN fds \cup {p1, q1} /\ q2 \notin DOMAIN fds \cup {p1, q1, p2}
        /\ addIPC(s, {Channel(made + 1, 1, p1, q1), Channel(made + 2, 2, p2, q2)}, 2)
  BY DEF node_new, Lowest
<1> DEFINE cs == {Channel(made + 1, 1, p1, q1), Channel(made + 2, 2, p2, q2)}
<1>2. cs \in SUBSET New(2)
  BY DEF New, Channel, TypeOK
<1>3. Apart(cs)
  BY <1>1 DEF Apart, Channel, TypeOK
<1>4. NumbersOf(cs) \cap DOMAIN fds = {}
  BY <1>1 DEF NumbersOf, Channel
<1>5. UNCHANGED <<cwd, stack, requests, host, spawns, asked>>
      /\ phase' = [phase EXCEPT ![s] = "made"]
  BY DEF node_new
<1> HIDE DEF cs
<1>6. addIPC(s, cs, 2)
  BY <1>1 DEF cs
<1>7. DescriptorsOwned' /\ IdsUnique' /\ RequestsRemember' /\ RepliesHome'
  BY <1>2, <1>3, <1>4, <1>5, <1>6, AddIPCKeeps
<1>8. TypeOK'
  BY <1>2, <1>5, <1>6, AddIPCType DEF TypeOK, Phases
<1> QED
  BY <1>7, <1>8

LEMMA NodeSpawnKeeps ==
  ASSUME Inv, NEW s \in Sandboxes, node_spawn(s)
  PROVE  Inv'
<1>1. DescriptorsOwned' /\ IdsUnique' /\ RequestsRemember' /\ RepliesHome'
  BY SameChannels DEF node_spawn
<1>2. stack' \in Seq(Frames)
  <2>1. <<[of |-> s, op |-> "open", answered |-> FALSE, ok |-> FALSE]>> \in Seq(Frames)
    BY DEF Frames
  <2> QED
    BY <2>1, ConcatProperties DEF node_spawn, Inv, TypeOK
<1>3. spawns' \in 0 .. MaxSpawns
  BY BoundsAssumption DEF node_spawn, Inv, TypeOK
<1>4. TypeOK'
  BY <1>2, <1>3 DEF node_spawn, Inv, TypeOK, Channels, Files, Streams, Messages, Ids, Requests
<1> QED
  BY <1>1, <1>4 DEF Inv

LEMMA NodeFinishVfsKeeps ==
  ASSUME Inv, NEW s \in Sandboxes, node_finish_vfs(s)
  PROVE  Inv'
<1>1. DescriptorsOwned' /\ IdsUnique' /\ RequestsRemember' /\ RepliesHome'
  BY SameChannels DEF node_finish_vfs
<1>2. stack' \in Seq(Frames)
  <2>1. PICK k \in DOMAIN stack, ok \in BOOLEAN :
          stack' = [stack EXCEPT ![k] = [stack[k] EXCEPT !.answered = TRUE, !.ok = ok]]
    BY DEF node_finish_vfs
  <2>2. stack \in Seq(Frames) /\ k \in 1 .. Len(stack) /\ stack[k] \in Frames
    BY <2>1, ElementOfSeq, LenProperties DEF Inv, TypeOK
  <2>3. [stack[k] EXCEPT !.answered = TRUE, !.ok = ok] \in Frames
    BY <2>2 DEF Frames
  <2> QED
    BY <2>1, <2>2, <2>3, ExceptSeq
<1>3. TypeOK'
  BY <1>2 DEF node_finish_vfs, Inv, TypeOK, Channels, Files, Streams, Messages, Ids, Requests
<1> QED
  BY <1>1, <1>3 DEF Inv

LEMMA NodeKillKeeps ==
  ASSUME Inv, NEW s \in Sandboxes, node_kill(s)
  PROVE  Inv'
<1>1. CASE releaseChild(s)
  <2>1. DescriptorsOwned' /\ IdsUnique' /\ RequestsRemember' /\ RepliesHome'
    BY <1>1, ReleaseKeeps DEF node_kill, Inv, TypeOK
  <2>2. TypeOK'
    BY <1>1, ReleaseType DEF node_kill, Inv, TypeOK, Phases
  <2> QED
    BY <2>1, <2>2 DEF Inv
<1>2. CASE phase[s] = "made" /\ host' = "crashed" /\ UNCHANGED <<channels, fds, streams>>
  <2>1. phase' = phase
    BY <1>2 DEF node_kill, Inv, TypeOK
  <2>2. DescriptorsOwned' /\ IdsUnique' /\ RequestsRemember' /\ RepliesHome'
    BY <1>2, <2>1, SameChannels DEF node_kill
  <2>3. TypeOK'
    BY <1>2, <2>1
    DEF node_kill, Inv, TypeOK, Channels, Files, Streams, Messages, Ids, Requests
  <2> QED
    BY <2>2, <2>3 DEF Inv
<1> QED
  BY <1>1, <1>2 DEF node_kill

LEMMA CollectKeeps ==
  ASSUME Inv, NEW s \in Sandboxes, Collect(s)
  PROVE  Inv'
<1>1. DescriptorsOwned' /\ IdsUnique' /\ RequestsRemember' /\ RepliesHome'
  BY ReleaseKeeps DEF Collect, Inv, TypeOK
<1>2. TypeOK'
  BY ReleaseType DEF Collect, Inv, TypeOK, Phases, Dirs
<1> QED
  BY <1>1, <1>2 DEF Inv

LEMMA CloseOtherKeeps ==
  ASSUME Inv, CloseOther
  PROVE  Inv'
<1>1. PICK p \in DOMAIN fds : fds[p] = Other /\ fds' = [n \in DOMAIN fds \ {p} |-> fds[n]]
  BY DEF CloseOther
<1>2. UNCHANGED <<phase, cwd, channels, made, streams, stack, requests, host, spawns, asked>>
  BY DEF CloseOther
<1>3. ChannelsOpen'
  <2> SUFFICES ASSUME NEW t \in Sandboxes, NEW c \in channels[t]
               PROVE  /\ {c.parent, c.child} \subseteq DOMAIN fds'
                      /\ fds'[c.parent] = End(c.id, "parent")
                      /\ fds'[c.child] = End(c.id, "child")
    BY <1>2 DEF ChannelsOpen
  <2>1. /\ {c.parent, c.child} \subseteq DOMAIN fds
        /\ fds[c.parent] = End(c.id, "parent") /\ fds[c.child] = End(c.id, "child")
    BY DEF Inv, DescriptorsOwned, ChannelsOpen
  <2>2. fds[c.parent] # Other /\ fds[c.child] # Other
    BY <2>1 DEF End, Other
  <2> QED
    BY <1>1, <2>1, <2>2
<1>4. NoneLeaked' /\ NoneKept'
  BY <1>1, <1>2 DEF Inv, DescriptorsOwned, NoneLeaked, NoneKept
<1>5. IdsUnique' /\ RequestsRemember' /\ RepliesHome'
  BY <1>2 DEF Inv, IdsUnique, RequestsRemember, Open, RepliesHome, OpenIds, Ids
<1>6. TypeOK'
  BY <1>1, <1>2 DEF Inv, TypeOK, Channels, Files, Streams, Messages, Ids, Requests
<1> QED
  BY <1>3, <1>4, <1>5, <1>6 DEF Inv, DescriptorsOwned

-----------------------------------------------------------------------------
(* Returns to spawn.                                                       *)

\* What spawn itself does to the channels and to the stack.
LEMMA SpawnKeeps ==
  ASSUME Inv, NEW s \in Sandboxes, spawn(s), stack # <<>>, cwd' \in [Sandboxes -> Dirs],
         UNCHANGED <<requests, host, spawns, asked>>
  PROVE  Inv'
<1> USE DEF Inv
<1>1. PICK p \in Numbers, q \in Numbers :
        /\ p \notin DOMAIN fds /\ q \notin DOMAIN fds \cup {p}
        /\ addIPC(s, {Channel(made + 1, 3, p, q)}, 1)
  BY DEF spawn, Lowest
<1> DEFINE cs == {Channel(made + 1, 3, p, q)}
<1>2. cs \in SUBSET New(1)
  BY DEF New, Channel, TypeOK
<1>3. Apart(cs)
  BY <1>1 DEF Apart, Channel
<1>4. NumbersOf(cs) \cap DOMAIN fds = {}
  BY <1>1 DEF NumbersOf, Channel
<1>5. phase' = [phase EXCEPT ![s] = "running"] /\ stack' = Tail(stack)
  BY DEF spawn
<1>6. stack' \in Seq(Frames)
  BY <1>5, HeadTailProperties DEF TypeOK
<1> HIDE DEF cs
<1>7. addIPC(s, cs, 1)
  BY <1>1 DEF cs
<1>8. DescriptorsOwned' /\ IdsUnique' /\ RequestsRemember' /\ RepliesHome'
  BY <1>2, <1>3, <1>4, <1>5, <1>7, AddIPCKeeps
<1>9. TypeOK'
  BY <1>2, <1>5, <1>6, <1>7, AddIPCType DEF TypeOK, Phases
<1> QED
  BY <1>8, <1>9

LEMMA FinishOpenKeeps ==
  ASSUME Inv, NEW s \in Sandboxes, FinishOpen(s)
  PROVE  Inv'
<1>1. stack # <<>> /\ UNCHANGED <<requests, host, spawns, asked>>
  BY DEF FinishOpen, Returning
<1>2. cwd' \in [Sandboxes -> Dirs]
  BY DEF FinishOpen, Inv, TypeOK, Dirs
<1>3. CASE spawn(s)
  BY <1>1, <1>2, <1>3, SpawnKeeps
<1>4. CASE /\ stack' = <<[Head(stack) EXCEPT !.op = "close", !.answered = FALSE]>> \o Tail(stack)
           /\ UNCHANGED <<phase, channels, fds, made, streams>>
  <2>1. DescriptorsOwned' /\ IdsUnique' /\ RequestsRemember' /\ RepliesHome'
    BY <1>1, <1>4, SameChannels
  <2>2. Head(stack) \in Frames /\ Tail(stack) \in Seq(Frames)
    BY <1>1, HeadTailProperties DEF Inv, TypeOK
  <2>3. [Head(stack) EXCEPT !.op = "close", !.answered = FALSE] \in Frames
    BY <2>2 DEF Frames
  <2>4. <<[Head(stack) EXCEPT !.op = "close", !.answered = FALSE]>> \in Seq(Frames)
    BY <2>3
  <2>5. stack' \in Seq(Frames)
    BY <1>4, <2>2, <2>4, ConcatProperties
  <2>6. TypeOK'
    BY <1>1, <1>2, <1>4, <2>5
    DEF Inv, TypeOK, Channels, Files, Streams, Messages, Ids, Requests
  <2> QED
    BY <2>1, <2>6 DEF Inv
<1> QED
  BY <1>3, <1>4 DEF FinishOpen

LEMMA FinishCloseKeeps ==
  ASSUME Inv, NEW s \in Sandboxes, FinishClose(s)
  PROVE  Inv'
BY SpawnKeeps DEF FinishClose, Returning, Inv, TypeOK

-----------------------------------------------------------------------------
(* The program.                                                            *)

LEMMA HandleExitKeeps ==
  ASSUME Inv, NEW s \in Sandboxes, handleExit(s)
  PROVE  Inv'
<1>1. DescriptorsOwned' /\ IdsUnique' /\ RequestsRemember' /\ RepliesHome'
  BY ReleaseKeeps DEF handleExit, Inv, TypeOK
<1>2. TypeOK'
  BY ReleaseType DEF handleExit, Inv, TypeOK, Phases
<1> QED
  BY <1>1, <1>2 DEF Inv

\* A step that changes nothing but streams and requests, both well typed.
LEMMA StreamsType ==
  ASSUME Inv, UNCHANGED <<phase, cwd, channels, fds, made, stack, spawns>>,
         streams' \in [Ids -> Streams], asked' \in 0 .. MaxRequests, asked \in 0 .. asked',
         requests' \subseteq Requests', host' \in {"up", "crashed"}
  PROVE  TypeOK' /\ DescriptorsOwned' /\ IdsUnique'
<1>1. Ids' = Ids /\ Channels' = Channels /\ Files' = Files /\ Streams' = Streams
  BY DEF Ids, Channels, Files, Streams, Messages
<1>2. TypeOK'
  BY <1>1 DEF Inv, TypeOK
<1>3. DescriptorsOwned'
  BY DEF Inv, DescriptorsOwned, ChannelsOpen, NoneLeaked, NoneKept
<1>4. IdsUnique'
  BY DEF Inv, IdsUnique
<1> QED
  BY <1>2, <1>3, <1>4

LEMMA AskKeeps ==
  ASSUME Inv, NEW s \in Sandboxes, Ask(s)
  PROVE  Inv'
<1> USE DEF Inv
<1>1. PICK c \in RpcOf(s) :
        streams' = [streams EXCEPT ![c.id] =
                      [streams[c.id] EXCEPT !.up = Append(streams[c.id].up, Message("request", c.id))]]
  BY DEF Ask
<1>2. c.id \in Ids /\ streams[c.id] \in Streams
  BY DEF RpcOf, TypeOK, Channels
<1> DEFINE up == Append(streams[c.id].up, Message("request", c.id))
<1>3. streams[c.id].up \in Seq(Messages) /\ Message("request", c.id) \in Messages
  BY <1>2 DEF Streams, Messages, Message
<1>4. /\ up \in Seq(Messages)
      /\ \A k \in DOMAIN up : up[k] = Message("request", c.id)
                                \/ (k \in DOMAIN streams[c.id].up /\ up[k] = streams[c.id].up[k])
  BY <1>3, AppendElements
<1> HIDE DEF up
<1>5. streams' = [streams EXCEPT ![c.id] = [streams[c.id] EXCEPT !.up = up]]
  BY <1>1 DEF up
<1>6. streams' \in [Ids -> Streams]
  BY <1>2, <1>4, <1>5 DEF TypeOK, Streams
<1>7. UNCHANGED <<phase, cwd, channels, fds, made, stack, requests, host, spawns>>
      /\ asked' \in 0 .. MaxRequests /\ asked \in 0 .. asked'
  BY BoundsAssumption DEF Ask, TypeOK
<1>8. requests' \subseteq Requests'
  BY <1>7 DEF TypeOK, Requests, Ids
<1>9. TypeOK' /\ DescriptorsOwned' /\ IdsUnique'
  BY <1>6, <1>7, <1>8, StreamsType DEF TypeOK
<1>10. RequestsRemember'
  BY <1>7 DEF RequestsRemember, Open
<1>11. RepliesHome'
  <2> SUFFICES ASSUME NEW i \in Ids
               PROVE  /\ \A j \in DOMAIN streams'[i].down :
                           LET m == streams'[i].down[j] IN m.of # i => m.of \notin OpenIds
                      /\ \A j \in DOMAIN streams'[i].up :
                           LET m == streams'[i].up[j] IN m.kind = "reply" => m.of \notin OpenIds
    BY <1>7 DEF RepliesHome, OpenIds, Open, Ids
  <2>1. streams'[i].down = streams[i].down
    BY <1>2, <1>5 DEF TypeOK, Streams
  <2>2. CASE i # c.id
    BY <2>2, <1>2, <1>5 DEF RepliesHome, TypeOK
  <2>3. CASE i = c.id
    <3>1. streams'[i].up = up
      BY <2>3, <1>2, <1>5 DEF TypeOK, Streams
    <3> QED
      BY <2>1, <2>3, <3>1, <1>4 DEF RepliesHome, Message
  <2> QED
    BY <2>2, <2>3
<1> QED
  BY <1>9, <1>10, <1>11

-----------------------------------------------------------------------------
(* Requests and replies.                                                   *)

\* What is left of a stream was in it.
LEMMA TailElements ==
  ASSUME NEW S, NEW q \in Seq(S), q # <<>>
  PROVE  /\ Tail(q) \in Seq(S)
         /\ \A k \in DOMAIN Tail(q) : \E j \in DOMAIN q : Tail(q)[k] = q[j]
<1>1. /\ Tail(q) \in Seq(S) /\ Len(Tail(q)) = Len(q) - 1
      /\ \A k \in 1 .. Len(Tail(q)) : Tail(q)[k] = q[k + 1]
  BY HeadTailProperties
<1>2. DOMAIN Tail(q) = 1 .. Len(q) - 1 /\ DOMAIN q = 1 .. Len(q) /\ Len(q) \in Nat
  BY <1>1, LenProperties
<1>3. ASSUME NEW k \in DOMAIN Tail(q)
      PROVE  \E j \in DOMAIN q : Tail(q)[k] = q[j]
  <2>1. k + 1 \in DOMAIN q /\ Tail(q)[k] = q[k + 1]
    BY <1>1, <1>2
  <2> QED
    BY <2>1
<1> QED
  BY <1>1, <1>3

\* The request is remembered with the number of its own channel.
LEMMA HandleIpcReadKeeps ==
  ASSUME Inv, NEW s \in Sandboxes, handle_ipc_read(s)
  PROVE  Inv'
<1> USE DEF Inv
<1>1. PICK c \in RpcOf(s) :
        /\ streams[c.id].up # <<>>
        /\ streams' = [streams EXCEPT ![c.id] = [streams[c.id] EXCEPT !.up = Tail(streams[c.id].up)]]
        /\ NewRequest(c, c.parent) \/ UNCHANGED requests
        /\ host' \in {"up", "crashed"}
  BY DEF handle_ipc_read
<1>2. c.id \in Ids /\ streams[c.id] \in Streams /\ c \in channels[s] /\ c.parent \in Numbers
  BY DEF RpcOf, TypeOK, Channels
<1> DEFINE up == Tail(streams[c.id].up)
<1>3. streams[c.id].up \in Seq(Messages)
  BY <1>2 DEF Streams
<1>4. /\ up \in Seq(Messages)
      /\ \A k \in DOMAIN up : \E j \in DOMAIN streams[c.id].up : up[k] = streams[c.id].up[j]
  BY <1>1, <1>3, TailElements
<1> HIDE DEF up
<1>5. streams' = [streams EXCEPT ![c.id] = [streams[c.id] EXCEPT !.up = up]]
  BY <1>1 DEF up
<1>6. streams' \in [Ids -> Streams]
  BY <1>2, <1>4, <1>5 DEF TypeOK, Streams
<1>7. UNCHANGED <<phase, cwd, channels, fds, made, stack, spawns, asked>>
  BY DEF handle_ipc_read
<1>8. \A r \in requests' : r \in requests \/ (r.of = c.id /\ r.fd = c.parent)
  BY <1>1 DEF NewRequest
<1>9. requests' \subseteq Requests'
  BY <1>1, <1>2, <1>7 DEF NewRequest, TypeOK, Requests, Ids
<1>10. TypeOK' /\ DescriptorsOwned' /\ IdsUnique'
  <2>1. asked' \in 0 .. MaxRequests /\ asked \in 0 .. asked'
    BY <1>7 DEF TypeOK
  <2> QED
    BY <1>1, <1>6, <1>7, <1>9, <2>1, StreamsType
<1>11. RequestsRemember'
  <2> SUFFICES ASSUME NEW r \in requests', NEW d \in Open, d.id = r.of
               PROVE  d.parent = r.fd
    BY <1>7 DEF RequestsRemember, Open
  <2>1. CASE r \in requests
    BY <2>1 DEF RequestsRemember
  <2>2. CASE r.of = c.id /\ r.fd = c.parent
    BY <2>2, <1>2 DEF IdsUnique, Open
  <2> QED
    BY <2>1, <2>2, <1>8
<1>12. RepliesHome'
  <2> SUFFICES ASSUME NEW i \in Ids
               PROVE  /\ \A j \in DOMAIN streams'[i].down :
                           LET m == streams'[i].down[j] IN m.of # i => m.of \notin OpenIds
                      /\ \A j \in DOMAIN streams'[i].up :
                           LET m == streams'[i].up[j] IN m.kind = "reply" => m.of \notin OpenIds
    BY <1>7 DEF RepliesHome, OpenIds, Open, Ids
  <2>1. streams'[i].down = streams[i].down
    BY <1>2, <1>5 DEF TypeOK, Streams
  <2>2. CASE i # c.id
    BY <2>2, <1>2, <1>5 DEF RepliesHome, TypeOK
  <2>3. CASE i = c.id
    <3>1. streams'[i].up = up
      BY <2>3, <1>2, <1>5, SMTT(30) DEF TypeOK, Streams
    <3> QED
      BY <2>1, <2>3, <3>1, <1>4 DEF RepliesHome
  <2> QED
    BY <2>2, <2>3
<1> QED
  BY <1>10, <1>11, <1>12

\* A reply to a channel that exists is written to its own end; one to a channel
\* that is gone may go anywhere and is nobody's.
LEMMA NodeFinishIpcKeeps ==
  ASSUME Inv, NEW r \in requests, node_finish_ipc(r)
  PROVE  Inv'
<1> USE DEF Inv
<1> DEFINE reply == Message("reply", r.of)
<1>1. UNCHANGED <<phase, cwd, channels, fds, made, stack, host, spawns, asked>>
      /\ requests' = requests \ {r}
  BY DEF node_finish_ipc
<1>2. RequestsRemember'
  BY <1>1 DEF RequestsRemember, Open
<1>3. reply \in Messages /\ reply.of = r.of /\ reply.kind = "reply"
  BY DEF Message, Messages, TypeOK, Requests
<1>4. r.of \in OpenIds => r.fd \in DOMAIN fds /\ fds[r.fd] = End(r.of, "parent")
  <2> SUFFICES ASSUME NEW s \in Sandboxes, NEW c \in channels[s], c.id = r.of
               PROVE  r.fd \in DOMAIN fds /\ fds[r.fd] = End(r.of, "parent")
    BY DEF OpenIds, Open
  <2>1. c.parent = r.fd
    BY DEF RequestsRemember, Open
  <2> QED
    BY <2>1 DEF DescriptorsOwned, ChannelsOpen
<1>5. asked' \in 0 .. MaxRequests /\ asked \in 0 .. asked' /\ host' \in {"up", "crashed"}
      /\ requests' \subseteq Requests'
  BY <1>1 DEF TypeOK, Requests, Ids
<1>6. CASE streams' = streams
  <2>1. TypeOK' /\ DescriptorsOwned' /\ IdsUnique'
    BY <1>1, <1>5, <1>6, StreamsType DEF TypeOK
  <2>2. RepliesHome'
    BY <1>1, <1>6 DEF RepliesHome, OpenIds, Open, Ids
  <2> QED
    BY <1>2, <2>1, <2>2
<1>7. ASSUME r.fd \in DOMAIN fds, fds[r.fd].side = "parent",
             streams' = [streams EXCEPT ![fds[r.fd].id] =
               [streams[fds[r.fd].id] EXCEPT !.down = Append(streams[fds[r.fd].id].down, reply)]]
      PROVE  Inv'
  <2> DEFINE i == fds[r.fd].id
             down == Append(streams[i].down, reply)
  <2>1. i \in Ids /\ streams[i] \in Streams
    BY <1>7 DEF TypeOK, Files, Other, End
  <2>2. /\ down \in Seq(Messages)
        /\ \A k \in DOMAIN down : down[k] = reply
                                    \/ (k \in DOMAIN streams[i].down /\ down[k] = streams[i].down[k])
    <3>1. streams[i].down \in Seq(Messages)
      BY <2>1 DEF Streams
    <3>2. reply \in Messages
      BY <1>3
    <3> HIDE DEF reply
    <3> QED
      BY <3>1, <3>2, AppendElements, SMTT(30)
  <2>3. r.of # i => r.of \notin OpenIds
    BY <1>4 DEF End
  <2> HIDE DEF i, down, reply
  <2>4. streams' = [streams EXCEPT ![i] = [streams[i] EXCEPT !.down = down]]
    BY <1>7 DEF i, down
  <2>5. streams' \in [Ids -> Streams]
    BY <2>1, <2>2, <2>4 DEF TypeOK, Streams
  <2>6. TypeOK' /\ DescriptorsOwned' /\ IdsUnique'
    BY <1>1, <1>5, <2>5, StreamsType
  <2>7. RepliesHome'
    <3> SUFFICES ASSUME NEW h \in Ids
                 PROVE  /\ \A j \in DOMAIN streams'[h].down :
                             LET m == streams'[h].down[j] IN m.of # h => m.of \notin OpenIds
                        /\ \A j \in DOMAIN streams'[h].up :
                             LET m == streams'[h].up[j] IN m.kind = "reply" => m.of \notin OpenIds
      BY <1>1 DEF RepliesHome, OpenIds, Open, Ids
    <3>1. streams'[h].up = streams[h].up
      BY <2>1, <2>4 DEF TypeOK, Streams
    <3>2. CASE h # i
      BY <3>2, <2>1, <2>4 DEF RepliesHome, TypeOK
    <3>3. CASE h = i
      <4>1. streams'[h].down = down
        BY <3>3, <2>1, <2>4 DEF TypeOK, Streams
      <4> QED
        BY <3>1, <3>3, <4>1, <1>3, <2>2, <2>3 DEF RepliesHome
    <3> QED
      BY <3>2, <3>3
  <2> QED
    BY <1>2, <2>6, <2>7
<1>8. ASSUME r.fd \in DOMAIN fds, fds[r.fd].side = "child",
             streams' = [streams EXCEPT ![fds[r.fd].id] =
               [streams[fds[r.fd].id] EXCEPT !.up = Append(streams[fds[r.fd].id].up, reply)]]
      PROVE  Inv'
  <2> DEFINE i == fds[r.fd].id
             up == Append(streams[i].up, reply)
  <2>1. i \in Ids /\ streams[i] \in Streams
    BY <1>8 DEF TypeOK, Files, Other, End
  <2>2. /\ up \in Seq(Messages)
        /\ \A k \in DOMAIN up : up[k] = reply
                                  \/ (k \in DOMAIN streams[i].up /\ up[k] = streams[i].up[k])
    <3>1. streams[i].up \in Seq(Messages)
      BY <2>1 DEF Streams
    <3>2. reply \in Messages
      BY <1>3
    <3> HIDE DEF reply
    <3> QED
      BY <3>1, <3>2, AppendElements, SMTT(30)
  <2>3. r.of \notin OpenIds
    BY <1>4, <1>8 DEF End
  <2> HIDE DEF i, up, reply
  <2>4. streams' = [streams EXCEPT ![i] = [streams[i] EXCEPT !.up = up]]
    BY <1>8 DEF i, up
  <2>5. streams' \in [Ids -> Streams]
    BY <2>1, <2>2, <2>4 DEF TypeOK, Streams
  <2>6. TypeOK' /\ DescriptorsOwned' /\ IdsUnique'
    BY <1>1, <1>5, <2>5, StreamsType
  <2>7. RepliesHome'
    <3> SUFFICES ASSUME NEW h \in Ids
                 PROVE  /\ \A j \in DOMAIN streams'[h].down :
                             LET m == streams'[h].down[j] IN m.of # h => m.of \notin OpenIds
                        /\ \A j \in DOMAIN streams'[h].up :
                             LET m == streams'[h].up[j] IN m.kind = "reply" => m.of \notin OpenIds
      BY <1>1 DEF RepliesHome, OpenIds, Open, Ids
    <3>1. streams'[h].down = streams[h].down
      BY <2>1, <2>4 DEF TypeOK, Streams
    <3>2. CASE h # i
      BY <3>2, <2>1, <2>4 DEF RepliesHome, TypeOK
    <3>3. CASE h = i
      <4>1. streams'[h].up = up
        BY <3>3, <2>1, <2>4 DEF TypeOK, Streams
      <4> QED
        BY <3>1, <3>3, <4>1, <1>3, <2>2, <2>3 DEF RepliesHome
    <3> QED
      BY <3>2, <3>3
  <2> QED
    BY <1>2, <2>6, <2>7
<1>9. r.fd \in DOMAIN fds => fds[r.fd].side \in {"parent", "child", "other"}
  BY DEF TypeOK, Files, Other, End
<1> QED
  BY <1>6, <1>7, <1>8, <1>9 DEF node_finish_ipc

-----------------------------------------------------------------------------
(* Theorems.                                                               *)

LEMMA InitInv == Init => Inv
<1> SUFFICES ASSUME Init PROVE Inv
  OBVIOUS
<1>1. Open = {} /\ Ids = {}
  BY DEF Init, Open, Ids
<1>2. TypeOK
  <2>1. PICK held \in SUBSET (Numbers \cap {3}) : fds = [n \in held |-> Other]
    BY DEF Init
  <2>2. DOMAIN fds \subseteq Numbers
    BY <2>1
  <2>3. streams \in [Ids -> Streams]
    BY <1>1 DEF Init
  <2> QED
    BY <1>1, <2>1, <2>2, <2>3, BoundsAssumption DEF Init, TypeOK, Phases, Dirs, Files
<1>3. DescriptorsOwned
  BY DEF Init, DescriptorsOwned, ChannelsOpen, NoneLeaked, NoneKept
<1>4. IdsUnique /\ RequestsRemember /\ RepliesHome
  BY <1>1 DEF Init, IdsUnique, RequestsRemember, RepliesHome
<1> QED
  BY <1>2, <1>3, <1>4 DEF Inv

LEMMA StepInv == Inv /\ [Next]_vars => Inv'
<1> SUFFICES ASSUME Inv, [Next]_vars PROVE Inv'
  OBVIOUS
<1>1. CASE UNCHANGED vars
  <2>1. DescriptorsOwned' /\ IdsUnique' /\ RequestsRemember' /\ RepliesHome'
    BY <1>1, SameChannels DEF vars
  <2>2. TypeOK'
    BY <1>1 DEF vars, Inv, TypeOK, Channels, Files, Streams, Messages, Ids, Requests
  <2> QED
    BY <2>1, <2>2 DEF Inv
<1>2. ASSUME NEW s \in Sandboxes, Embedding(s)
      PROVE  Inv'
  BY <1>2, NodeNewKeeps, NodeSpawnKeeps, NodeFinishVfsKeeps, NodeKillKeeps, CollectKeeps
  DEF Embedding
<1>3. ASSUME NEW s \in Sandboxes, Loop(s)
      PROVE  Inv'
  BY <1>3, FinishOpenKeeps, FinishCloseKeeps, HandleIpcReadKeeps DEF Loop, Return
<1>4. ASSUME NEW s \in Sandboxes, Program(s)
      PROVE  Inv'
  BY <1>4, AskKeeps, HandleExitKeeps DEF Program
<1>5. ASSUME NEW r \in requests, node_finish_ipc(r)
      PROVE  Inv'
  BY <1>5, NodeFinishIpcKeeps
<1>6. CASE CloseOther
  BY <1>6, CloseOtherKeeps
<1> QED
  BY <1>1, <1>2, <1>3, <1>4, <1>5, <1>6 DEF Next

\* The inductive invariant holds in every reachable state.
THEOREM Invariance == Spec => []Inv
<1> QED
  BY InitInv, StepInv, PTL DEF Spec

\* Every reachable state is well typed.
THEOREM TypeCorrect == Spec => []TypeOK
<1>1. Inv => TypeOK
  BY DEF Inv
<1> QED
  BY <1>1, Invariance, PTL

\* Channels and open descriptors match one to one: SandboxIPC, ~SandboxIPC and
\* releaseChild lose none and close none twice, in any nesting of spawns.
THEOREM ChannelsOwnDescriptors == Spec => []DescriptorsOwned
<1>1. Inv => DescriptorsOwned
  BY DEF Inv
<1> QED
  BY <1>1, Invariance, PTL

\* codius_send_reply reaches the channel the request came from as long as there
\* is one, whatever the number it remembered has been in between.
THEOREM RepliesFindHome == Spec => []RepliesHome
<1>1. Inv => RepliesHome
  BY DEF Inv
<1> QED
  BY <1>1, Invariance, PTL

=============================================================================
