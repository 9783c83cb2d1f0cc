----------------------------- MODULE RpcProofs -----------------------------
(***************************************************************************)
(* Theorems about IPC, for any number of callers, sizes of messages and    *)
(* capacity of the sockets: every state is well typed, each request goes   *)
(* once through the phases of RequestReply, and one thread that makes sync *)
(* calls gets its own results.                                             *)
(***************************************************************************)
EXTENDS Rpc, SequenceTheorems, TLAPS

-----------------------------------------------------------------------------
(* The inductive invariant.                                                *)

Writes(c) == pc[c] \in {"header", "body"}

\* Whatever is in somebody's hands is a message, and there is something of it
\* left while it is being written or read.
InHand ==
  /\ \A c \in Callers : /\ Writes(c) => msg[c].id \in Ids /\ msg[c].left > 0
                        /\ pc[c] = "data" => msg[c].id \in Ids
  /\ hostPc \in {"body", "reply", "replyBody"} => hostMsg.id \in Ids
  /\ hostPc \in {"body", "replyBody"} => hostMsg.left > 0
  /\ \A k \in 1 .. Len(up) :
       IF up[k].kind = "header" THEN up[k].size > 0 ELSE up[k].due > 0

\* Nothing in the socket to the host is there twice, nor is it what a caller is
\* about to write or the host has in hand.
SentOnce ==
  /\ \A j, k \in 1 .. Len(up) : up[j].id = up[k].id =>
       /\ up[j].kind = "header" /\ up[k].kind = "header" => j = k
       /\ up[j].kind = "part" /\ up[k].kind = "part" /\ up[j].due = up[k].due => j = k
  /\ \A c, d \in Callers : Writes(c) /\ Writes(d) /\ msg[c].id = msg[d].id => c = d
  /\ \A c \in Callers, k \in 1 .. Len(up) :
       Writes(c) /\ up[k].id = msg[c].id =>
         /\ pc[c] = "body"
         /\ up[k].kind = "part" => up[k].due > msg[c].left
  /\ hostPc = "body" =>
       /\ \A k \in 1 .. Len(up) : up[k].kind = "header" => up[k].id # hostMsg.id
       /\ \A c \in Callers : pc[c] = "header" => msg[c].id # hostMsg.id

\* No part is beyond the size its header says.
Fits(i, n) ==
  /\ \A k \in 1 .. Len(up) : up[k].kind = "part" /\ up[k].id = i => up[k].due <= n
  /\ \A c \in Callers : pc[c] = "body" /\ msg[c].id = i => msg[c].left <= n

Sized ==
  /\ \A k \in 1 .. Len(up) : up[k].kind = "header" => Fits(up[k].id, up[k].size)
  /\ hostPc = "body" => Fits(hostMsg.id, hostMsg.left)

\* The embedding program has answered i.
Answered(i) ==
  \/ hostPc \in {"reply", "replyBody"} /\ hostMsg.id = i
  \/ i \in IdsIn(down)
  \/ \E c \in Callers : pc[c] = "data" /\ msg[c].id = i
  \/ \E k \in 1 .. Len(results) : results[k].id = i

\* A request is on its way, with the embedding program, or answered.
OnePlace ==
  \A i \in Ids :
    /\ Underway(i) \/ i \in pending \/ Answered(i) => i < nextId
    /\ Underway(i) => i \notin pending /\ ~Answered(i)
    /\ i \in pending => ~Answered(i)

IInv == TypeOK /\ InHand /\ SentOnce /\ Sized /\ OnePlace

-----------------------------------------------------------------------------
(* Streams.                                                                *)

LEMMA Appended ==
  ASSUME NEW S, NEW s \in Seq(S), NEW u \in S
  PROVE  /\ Append(s, u) \in Seq(S) /\ Len(Append(s, u)) = Len(s) + 1
         /\ \A k \in 1 .. Len(s) : Append(s, u)[k] = s[k]
         /\ Append(s, u)[Len(s) + 1] = u
  OBVIOUS

LEMMA Tailed ==
  ASSUME NEW S, NEW s \in Seq(S), s # <<>>
  PROVE  /\ Head(s) \in S /\ Head(s) = s[1] /\ Len(s) > 0
         /\ Tail(s) \in Seq(S) /\ Len(Tail(s)) = Len(s) - 1
         /\ \A k \in 1 .. Len(Tail(s)) : Tail(s)[k] = s[k + 1]
  OBVIOUS

LEMMA Rested ==
  ASSUME NEW S, NEW s \in Seq(S), NEW n \in Nat
  PROVE  /\ Taken(s, n) \in Nat /\ Taken(s, n) <= Len(s) /\ Taken(s, n) <= n
         /\ n <= Len(s) => Taken(s, n) = n
         /\ Rest(s, n) \in Seq(S) /\ Len(Rest(s, n)) = Len(s) - Taken(s, n)
         /\ \A k \in 1 .. Len(Rest(s, n)) : Rest(s, n)[k] = s[k + Taken(s, n)]
  <1>1. Len(s) \in Nat
    OBVIOUS
  <1>2. Taken(s, n) \in 0 .. Len(s) /\ Taken(s, n) <= n /\ (n <= Len(s) => Taken(s, n) = n)
    BY <1>1 DEF Taken
  <1>3. Taken(s, n) + 1 \in Nat /\ \A i \in Taken(s, n) + 1 .. Len(s) : s[i] \in S
    BY <1>1, <1>2
  <1> QED BY <1>1, <1>2, <1>3, SubSeqProperties DEF Rest

LEMMA ConstantsTyped ==
  /\ NoId \notin Ids /\ Ids \subseteq Nat /\ NoMsg \in Messages
  /\ Capacity \in Nat \ {0} /\ MaxId \in Nat
  /\ \A n \in Sizes : n \in Nat /\ n > 0
  /\ \A n \in ReplySizes : n \in Nat
  BY BoundsAssumption, SizesAssumption DEF NoId, Ids, NoMsg, Messages

-----------------------------------------------------------------------------
(* Types, and what is in hand.                                             *)

LEMMA TypeInit == Init => TypeOK /\ InHand
  <1> SUFFICES ASSUME Init PROVE TypeOK /\ InHand
    OBVIOUS
  <1>1. TypeOK
    <2>1. /\ pc \in [Callers -> {"idle", "header", "body", "result", "data"}]
          /\ msg \in [Callers -> Messages] /\ hostMsg \in Messages
      BY ConstantsTyped DEF Init
    <2>2. nextId \in 0 .. MaxId /\ hostId \in Nat /\ pending \subseteq Ids
      BY ConstantsTyped, EnvAssumption DEF Init
    <2>3. /\ results \in Seq(Results) /\ up \in Seq(Units) /\ down \in Seq(Units)
          /\ Len(up) <= Capacity /\ Len(down) <= Capacity
      BY ConstantsTyped DEF Init
    <2> QED BY <2>1, <2>2, <2>3 DEF Init, TypeOK
  <1>2. InHand
    BY DEF Init, InHand, Writes
  <1> QED BY <1>1, <1>2

LEMMA CallerTypes ==
  ASSUME TypeOK, InHand, NEW c \in Callers,
         codius_request_new(c) \/ codius_read_result(c) \/ Call(c)
  PROVE  TypeOK' /\ InHand'
  <1> USE ConstantsTyped DEF program, server, env
  <1>a. \A d \in Callers : msg[d] \in Messages
    BY DEF TypeOK
  <1>1. CASE codius_request_new(c)
    <2> USE <1>1 DEF codius_request_new
    <2>1. nextId \in Ids /\ nextId' \in 0 .. MaxId
      BY DEF TypeOK, Ids
    <2>2. PICK m \in Messages : m.id = nextId /\ m.left > 0 /\ msg' = [msg EXCEPT ![c] = m]
      <3>1. PICK n \in Sizes, call \in {nextId, NoId} :
              msg' = [msg EXCEPT ![c] = [id |-> nextId, left |-> n, call |-> call]]
        OBVIOUS
      <3> QED BY <2>1, <3>1 DEF Messages
    <2>3. TypeOK'
      BY <2>1, <2>2 DEF TypeOK
    <2>4. InHand'
      BY <2>1, <2>2 DEF TypeOK, InHand, Writes
    <2> QED BY <2>3, <2>4
  <1>2. CASE codius_read_result(c)
    <2> USE <1>2 DEF codius_read_result
    <2>1. TypeOK'
      BY DEF TypeOK
    <2>2. InHand'
      BY DEF TypeOK, InHand, Writes
    <2> QED BY <2>1, <2>2
  <1>3. CASE WriteHeader(c)
    <2> DEFINE u == Header(msg[c].id, msg[c].left)
    <2>1. u \in Units /\ u.kind = "header" /\ u.size > 0 /\ up' = Append(up, u)
      BY <1>3, <1>a DEF WriteHeader, InHand, Writes, Units, Header, Messages
    <2> HIDE DEF u
    <2>2. /\ up' \in Seq(Units) /\ Len(up') = Len(up) + 1 /\ up'[Len(up) + 1] = u
          /\ \A k \in 1 .. Len(up) : up'[k] = up[k]
      BY <2>1, Appended DEF TypeOK
    <2>3. TypeOK'
      BY <1>3, <2>2 DEF TypeOK, WriteHeader
    <2>4. InHand'
      BY <1>3, <2>1, <2>2 DEF WriteHeader, InHand, Writes, TypeOK
    <2> QED BY <2>3, <2>4
  <1>4. CASE WriteBody(c)
    <2> DEFINE u == Part(msg[c].id, msg[c].left)
    <2>1. u \in Units /\ u.kind = "part" /\ u.due > 0 /\ up' = Append(up, u)
      BY <1>4, <1>a DEF WriteBody, InHand, Writes, Units, Part, Messages
    <2> HIDE DEF u
    <2>2. /\ up' \in Seq(Units) /\ Len(up') = Len(up) + 1 /\ up'[Len(up) + 1] = u
          /\ \A k \in 1 .. Len(up) : up'[k] = up[k]
      BY <2>1, Appended DEF TypeOK
    <2>3. msg[c].left \in Nat /\ msg[c].left > 0
      BY <1>4, <1>a DEF WriteBody, InHand, Writes, Messages
    <2>4. msg' \in [Callers -> Messages] /\ pc' \in [Callers -> {"idle", "header", "body", "result", "data"}]
      <3> DEFINE m == [id |-> msg[c].id, left |-> msg[c].left - 1, call |-> msg[c].call]
      <3>1. m \in Messages /\ msg' = [msg EXCEPT ![c] = m]
        <4>1. [msg[c] EXCEPT !.left = @ - 1] = m
          BY <1>a DEF Messages
        <4>2. m \in Messages
          BY <1>a, <2>3 DEF Messages
        <4> QED BY <1>4, <4>1, <4>2 DEF WriteBody
      <3>2. msg' \in [Callers -> Messages]
        BY <3>1 DEF TypeOK
      <3>3. pc' \in [Callers -> {"idle", "header", "body", "result", "data"}]
        <4>1. PICK to \in {"idle", "body", "result"} : pc' = [pc EXCEPT ![c] = to]
          <5>1. CASE msg[c].left > 1
            BY <1>4, <5>1 DEF WriteBody
          <5>2. CASE ~(msg[c].left > 1) /\ msg[c].call = NoId
            BY <1>4, <5>2 DEF WriteBody
          <5>3. CASE ~(msg[c].left > 1) /\ msg[c].call # NoId
            BY <1>4, <5>3 DEF WriteBody
          <5> QED BY <5>1, <5>2, <5>3
        <4> QED BY <4>1 DEF TypeOK
      <3> QED BY <3>2, <3>3
    <2>5. TypeOK'
      BY <1>4, <2>2, <2>4 DEF TypeOK, WriteBody
    <2>6. InHand'
      <3>1. \A d \in Callers : /\ Writes(d)' => Writes(d)
                               /\ msg'[d].id = msg[d].id
                               /\ pc'[d] = "data" => pc[d] = "data"
        BY <1>4 DEF TypeOK, WriteBody, Writes, Messages
      <3>2. \A d \in Callers : Writes(d)' => msg'[d].left > 0
        <4> SUFFICES ASSUME NEW d \in Callers, Writes(d)' PROVE msg'[d].left > 0
          OBVIOUS
        <4>1. CASE d # c
          BY <1>4, <3>1, <4>1 DEF TypeOK, WriteBody, InHand
        <4>2. CASE d = c
          BY <1>4, <1>a, <2>3, <4>2 DEF TypeOK, WriteBody, Writes, Messages
        <4> QED BY <4>1, <4>2
      <3> QED BY <1>4, <2>1, <2>2, <3>1, <3>2 DEF WriteBody, InHand, TypeOK
    <2> QED BY <2>5, <2>6
  <1>5. CASE ReadHeader(c)
    <2>1. Head(down) \in Units /\ Tail(down) \in Seq(Units) /\ Len(Tail(down)) <= Capacity
      BY <1>5, Tailed DEF ReadHeader, TypeOK
    <2>2. CASE Head(down).kind = "header"
      <3> DEFINE m == [id |-> Head(down).id, left |-> Head(down).size, call |-> msg[c].call]
      <3>1. Head(down).id \in Ids /\ Head(down).size \in Nat
        BY <2>1, <2>2 DEF Units
      <3>2. m \in Messages /\ m.id \in Ids /\ msg' = [msg EXCEPT ![c] = m]
        BY <1>5, <1>a, <2>2, <3>1, SMTT(30) DEF ReadHeader, Messages
      <3> HIDE DEF m
      <3>3. TypeOK'
        BY <1>5, <2>1, <2>2, <3>2 DEF ReadHeader, TypeOK
      <3>4. InHand'
        BY <1>5, <2>2, <3>2 DEF ReadHeader, TypeOK, InHand, Writes
      <3> QED BY <3>3, <3>4
    <2>3. CASE Head(down).kind # "header"
      <3>1. [call |-> msg[c].call, id |-> NoId, data |-> FALSE] \in Results
        BY <1>a DEF Results, Messages
      <3>2. results' \in Seq(Results) /\ down' \in Seq(Units) /\ Len(down') <= Capacity
        <4>1. Returns(c, NoId, FALSE) /\ down' \in {down, Tail(down)}
          BY <1>5, <2>3 DEF ReadHeader
        <4>2. results' \in Seq(Results)
          BY <3>1, <4>1 DEF Returns, TypeOK
        <4> QED BY <2>1, <4>1, <4>2 DEF TypeOK
      <3>3. TypeOK'
        BY <1>5, <2>3, <3>2 DEF ReadHeader, Returns, TypeOK
      <3>4. InHand'
        BY <1>5, <2>3 DEF ReadHeader, Returns, TypeOK, InHand, Writes
      <3> QED BY <3>3, <3>4
    <2> QED BY <2>2, <2>3
  <1>6. CASE ReadData(c)
    <2>1. msg[c].left \in Nat /\ msg[c].id \in Ids
      BY <1>6, <1>a DEF ReadData, InHand, Messages
    <2>2. down' \in Seq(Units) /\ Len(down') <= Capacity
      BY <1>6, <2>1, Rested DEF ReadData, TypeOK
    <2>3. \A data \in BOOLEAN : [call |-> msg[c].call, id |-> msg[c].id, data |-> data] \in Results
      BY <1>a, <2>1 DEF Results, Messages
    <2>4. TypeOK'
      BY <1>6, <2>2, <2>3 DEF ReadData, Returns, TypeOK
    <2>5. InHand'
      BY <1>6 DEF ReadData, Returns, TypeOK, InHand, Writes
    <2> QED BY <2>4, <2>5
  <1> QED BY <1>1, <1>2, <1>3, <1>4, <1>5, <1>6 DEF Call

LEMMA HostTypes ==
  ASSUME TypeOK, InHand, Host \/ (\E i \in Ids : node_finish_ipc(i))
  PROVE  TypeOK' /\ InHand'
  <1> USE ConstantsTyped DEF program, server, env
  <1>a. hostMsg \in Messages
    BY DEF TypeOK
  <1>1. CASE handle_ipc_read
    <2>1. /\ Head(up) \in Units /\ Head(up) = up[1] /\ Len(up) > 0
          /\ Tail(up) \in Seq(Units) /\ Len(Tail(up)) = Len(up) - 1
          /\ \A k \in 1 .. Len(Tail(up)) : Tail(up)[k] = up[k + 1]
      BY <1>1, Tailed DEF handle_ipc_read, TypeOK
    <2>2. CASE Head(up).kind = "header"
      <3> DEFINE m == [id |-> Head(up).id, left |-> Head(up).size, call |-> NoId]
      <3>1. Head(up).id \in Ids /\ Head(up).size \in Nat /\ Head(up).size > 0
        BY <2>1, <2>2 DEF Units, InHand
      <3>2. m \in Messages /\ m.id \in Ids /\ m.left > 0 /\ hostMsg' = m
        BY <1>1, <2>2, <3>1 DEF handle_ipc_read, Messages, NoMsg
      <3> HIDE DEF m
      <3>3. up' = Tail(up) /\ Len(up') <= Capacity
        BY <1>1, <2>1, <2>2 DEF handle_ipc_read, TypeOK
      <3>4. TypeOK'
        BY <1>1, <2>1, <2>2, <3>2, <3>3 DEF handle_ipc_read, TypeOK
      <3>5. InHand'
        BY <1>1, <2>1, <2>2, <3>2, SMTT(30) DEF handle_ipc_read, TypeOK, InHand, Writes
      <3> QED BY <3>4, <3>5
    <2>3. CASE Head(up).kind # "header"
      BY <1>1, <2>3 DEF handle_ipc_read, TypeOK, InHand, Writes
    <2> QED BY <2>2, <2>3
  <1>2. CASE ReadRequestBody
    <2>1. CASE Whole(up, hostMsg.id, hostMsg.left)
      <3>1. hostMsg.left \in Nat /\ hostMsg.id \in Ids
        BY <1>2, <1>a DEF ReadRequestBody, Messages, InHand
      <3>2. /\ up' \in Seq(Units) /\ Len(up') <= Capacity
            /\ \A k \in 1 .. Len(up') : \E j \in 1 .. Len(up) : up'[k] = up[j]
        <4>1. up' = Rest(up, hostMsg.left) /\ up \in Seq(Units)
          BY <1>2, <2>1 DEF ReadRequestBody, TypeOK
        <4> DEFINE n == Taken(up, hostMsg.left)
        <4>2. /\ n \in Nat /\ n <= Len(up) /\ up' \in Seq(Units) /\ Len(up') = Len(up) - n
              /\ \A k \in 1 .. Len(up') : up'[k] = up[k + n]
          BY <3>1, <4>1, Rested
        <4> HIDE DEF n
        <4>3. \A k \in 1 .. Len(up') : k + n \in 1 .. Len(up)
          BY <4>1, <4>2
        <4>4. Len(up') <= Capacity
          BY <4>1, <4>2 DEF TypeOK
        <4> QED BY <4>2, <4>3, <4>4
      <3>3. /\ hostMsg' = NoMsg /\ pending' = pending \cup {hostMsg.id} /\ hostId' = hostId + 1
            /\ hostPc' = "loop" /\ UNCHANGED <<program, down, env>>
        BY <1>2, <2>1 DEF ReadRequestBody
      <3>4. hostMsg' \in Messages /\ hostId' \in Nat
        BY <3>3 DEF TypeOK
      <3>5. pending' \subseteq Ids
        BY <3>1, <3>3 DEF TypeOK
      <3>6. hostPc' \in {"loop", "body", "reply", "replyBody", "exited"}
        BY <3>3
      <3>7. TypeOK'
        BY <3>2, <3>3, <3>4, <3>5, <3>6 DEF TypeOK
      <3>8. InHand'
        BY <1>2, <2>1, <3>2 DEF ReadRequestBody, TypeOK, InHand, Writes
      <3> QED BY <3>7, <3>8
    <2>2. CASE ~Whole(up, hostMsg.id, hostMsg.left)
      BY <1>2, <2>2 DEF ReadRequestBody, TypeOK, InHand, Writes
    <2> QED BY <2>1, <2>2
  <1>3. CASE WriteReply
    <2> DEFINE n == hostMsg.left - (IF hostPc = "reply" THEN 0 ELSE 1)
               u == IF hostPc = "reply" THEN Header(hostMsg.id, n) ELSE Part(hostMsg.id, hostMsg.left)
               m == [id |-> hostMsg.id, left |-> n, call |-> hostMsg.call]
    <2>1. n \in Nat /\ hostMsg.id \in Ids /\ hostMsg.left \in Nat
      BY <1>3, <1>a DEF WriteReply, Messages, InHand
    <2>2. u \in Units /\ m \in Messages /\ m.left = n /\ m.id \in Ids
      BY <1>a, <2>1 DEF Units, Header, Part, Messages
    <2>3. [hostMsg EXCEPT !.left = n] = m
      BY <1>a DEF Messages
    <2>4. CASE Len(down) < Capacity
      <3>1. /\ down' = Append(down, u) /\ hostMsg' = m
            /\ hostPc' = IF n = 0 THEN "loop" ELSE "replyBody"
        BY <1>3, <2>3, <2>4 DEF WriteReply
      <3> HIDE DEF n, u, m
      <3>2. down' \in Seq(Units) /\ Len(down') <= Capacity
        BY <2>2, <2>4, <3>1, Appended DEF TypeOK
      <3>3. TypeOK'
        BY <1>3, <2>2, <3>1, <3>2 DEF WriteReply, TypeOK
      <3>4. InHand'
        BY <1>3, <2>1, <2>2, <3>1 DEF WriteReply, InHand, Writes
      <3> QED BY <3>3, <3>4
    <2>5. CASE ~(Len(down) < Capacity)
      BY <1>3, <2>5 DEF WriteReply, TypeOK, InHand, Writes
    <2> QED BY <2>4, <2>5
  <1>4. CASE handle_trap
    BY <1>4 DEF handle_trap, TypeOK, InHand, Writes
  <1>5. ASSUME NEW i \in Ids, node_finish_ipc(i) PROVE TypeOK' /\ InHand'
    <2>1. PICK m \in Messages : m.id = i /\ hostMsg' = m
      BY <1>5 DEF node_finish_ipc, Messages
    <2>2. TypeOK'
      BY <1>5, <2>1 DEF node_finish_ipc, TypeOK
    <2>3. InHand'
      BY <1>5, <2>1 DEF node_finish_ipc, InHand, Writes
    <2> QED BY <2>2, <2>3
  <1> QED BY <1>1, <1>2, <1>3, <1>4, <1>5 DEF Host

LEMMA SignalTypes ==
  ASSUME TypeOK, InHand, (\E c \in Callers : Signal(c)) \/ OtherChild
  PROVE  TypeOK' /\ InHand'
  <1>1. hostPc' = hostPc \/ hostPc' \in {"exited", "loop"}
    BY DEF Signal, OtherChild, Sigchld
  <1>2. /\ UNCHANGED <<program, up, down, hostMsg, hostId, pending, blocking>>
        /\ sigchld' = TRUE /\ stopped' \subseteq Callers
    BY DEF Signal, OtherChild, Sigchld, TypeOK
  <1> QED BY <1>1, <1>2 DEF program, TypeOK, InHand, Writes

-----------------------------------------------------------------------------
(* What is in the socket to the host.                                      *)

Quiet ==
  /\ UNCHANGED up
  /\ \A c \in Callers : Writes(c)' => Writes(c) /\ pc'[c] = pc[c] /\ msg'[c] = msg[c]
  /\ hostPc' = "body" => hostPc = "body" /\ hostMsg' = hostMsg

LEMMA QuietKeeps ==
  ASSUME SentOnce, Sized, Quiet
  PROVE  SentOnce' /\ Sized'
  <1>1. \A c \in Callers : pc'[c] \in {"header", "body"} =>
          pc[c] \in {"header", "body"} /\ pc'[c] = pc[c] /\ msg'[c] = msg[c]
    BY DEF Quiet, Writes
  <1>2. SentOnce'
    BY <1>1 DEF SentOnce, Quiet, Writes
  <1>3. \A i, n : Fits(i, n) => Fits(i, n)'
    BY <1>1 DEF Fits, Quiet
  <1>4. Sized'
    BY <1>3 DEF Sized, Quiet
  <1> QED BY <1>2, <1>4

LEMMA MostAreQuiet ==
  ASSUME TypeOK,
         \/ \E c \in Callers : codius_read_result(c) \/ ReadHeader(c) \/ ReadData(c) \/ Signal(c)
         \/ OtherChild \/ WriteReply \/ handle_trap
         \/ \E i \in Ids : node_finish_ipc(i)
         \/ handle_ipc_read /\ Head(up).kind # "header"
         \/ ReadRequestBody /\ ~Whole(up, hostMsg.id, hostMsg.left)
  PROVE  Quiet
  <1> USE DEF program, server, env
  <1>1. ASSUME NEW c \in Callers, codius_read_result(c) \/ ReadHeader(c) \/ ReadData(c)
        PROVE  Quiet
    <2>1. pc[c] \notin {"header", "body"} /\ UNCHANGED <<up, hostPc, hostMsg>>
      BY <1>1 DEF codius_read_result, ReadHeader, ReadData
    <2>2. /\ \E to \in {"idle", "result", "data"} : pc' = [pc EXCEPT ![c] = to]
          /\ \E m : msg' = [msg EXCEPT ![c] = m]
      BY <1>1 DEF codius_read_result, ReadHeader, ReadData, Returns
    <2> QED BY <2>1, <2>2 DEF Quiet, Writes, TypeOK
  <1>2. ASSUME NEW c \in Callers, Signal(c) PROVE Quiet
    BY <1>2 DEF Signal, Sigchld, Blocked, Quiet, Writes
  <1>3. CASE OtherChild
    BY <1>3 DEF OtherChild, Sigchld, Blocked, Quiet, Writes
  <1>4. CASE WriteReply
    BY <1>4 DEF WriteReply, Quiet, Writes
  <1>5. CASE handle_trap
    BY <1>5 DEF handle_trap, Quiet, Writes
  <1>6. ASSUME NEW i \in Ids, node_finish_ipc(i) PROVE Quiet
    BY <1>6 DEF node_finish_ipc, Quiet, Writes
  <1>7. CASE handle_ipc_read /\ Head(up).kind # "header"
    BY <1>7 DEF handle_ipc_read, Quiet, Writes
  <1>8. CASE ReadRequestBody /\ ~Whole(up, hostMsg.id, hostMsg.left)
    BY <1>8 DEF ReadRequestBody, Quiet, Writes
  <1> QED BY <1>1, <1>2, <1>3, <1>4, <1>5, <1>6, <1>7, <1>8

LEMMA NewKeeps ==
  ASSUME IInv, NEW c \in Callers, codius_request_new(c)
  PROVE  SentOnce' /\ Sized'
  <1>1. /\ nextId \in Ids /\ pc[c] = "idle"
        /\ pc' = [pc EXCEPT ![c] = "header"] /\ msg'[c].id = nextId
        /\ \A d \in Callers : d # c => msg'[d] = msg[d]
        /\ UNCHANGED <<up, hostPc, hostMsg>>
    <2>1. PICK m : m.id = nextId /\ msg' = [msg EXCEPT ![c] = m]
      BY DEF codius_request_new
    <2>2. nextId \in Ids
      BY ConstantsTyped DEF codius_request_new, IInv, TypeOK, Ids
    <2> QED BY <2>1, <2>2 DEF codius_request_new, server, IInv, TypeOK
  <1>2. ~Underway(nextId)
    <2>1. ~(nextId < nextId)
      BY <1>1, ConstantsTyped
    <2> QED BY <1>1, <2>1 DEF IInv, OnePlace
  <1>3. /\ \A k \in 1 .. Len(up) : up[k].id # nextId
        /\ hostPc = "body" => hostMsg.id # nextId
        /\ \A d \in Callers : Writes(d) => msg[d].id # nextId
    BY <1>2 DEF Underway, IdsIn, Writes
  <1>4. \A d \in Callers : d # c => pc'[d] = pc[d] /\ Writes(d)' = Writes(d)
    BY <1>1 DEF Writes, IInv, TypeOK
  <1>5. pc'[c] = "header"
    BY <1>1 DEF IInv, TypeOK
  <1>6. SentOnce'
    BY <1>1, <1>3, <1>4, <1>5 DEF SentOnce, IInv
  <1>7. \A i, n : Fits(i, n) => Fits(i, n)'
    BY <1>1, <1>4, <1>5 DEF Fits
  <1>8. Sized'
    BY <1>1, <1>7 DEF Sized, IInv
  <1> QED BY <1>6, <1>8

LEMMA WriteHeaderKeeps ==
  ASSUME IInv, NEW c \in Callers, WriteHeader(c)
  PROVE  SentOnce' /\ Sized'
  <1> DEFINE u == Header(msg[c].id, msg[c].left)
             last == Len(up) + 1
  <1>1. /\ u \in Units /\ u.kind = "header" /\ u.id = msg[c].id /\ u.size = msg[c].left
        /\ pc[c] = "header" /\ Writes(c)
        /\ up' = Append(up, u) /\ pc' = [pc EXCEPT ![c] = "body"]
        /\ UNCHANGED <<msg, hostPc, hostMsg>>
    BY DEF WriteHeader, IInv, InHand, Writes, Units, Header, TypeOK, Messages, server, program
  <1> HIDE DEF u
  <1>2. /\ Len(up') = last /\ up'[last] = u
        /\ \A k \in 1 .. Len(up) : up'[k] = up[k]
    BY <1>1, Appended DEF IInv, TypeOK
  <1>3. Len(up) \in Nat
    BY DEF IInv, TypeOK
  <1>4. \A k \in 1 .. Len(up') : k = last \/ (k \in 1 .. Len(up) /\ up'[k] = up[k])
    BY <1>2, <1>3
  <1> HIDE DEF last
  <1>5. /\ \A d \in Callers : d # c => pc'[d] = pc[d]
        /\ pc'[c] = "body" /\ \A d \in Callers : Writes(d)' = Writes(d)
    BY <1>1 DEF Writes, IInv, TypeOK
  <1>6. \A k \in 1 .. Len(up) : up[k].id # msg[c].id
    BY <1>1 DEF IInv, SentOnce
  <1>7. SentOnce'
    <2>1. \A j, k \in 1 .. Len(up') : up'[j].id = up'[k].id =>
            /\ up'[j].kind = "header" /\ up'[k].kind = "header" => j = k
            /\ up'[j].kind = "part" /\ up'[k].kind = "part" /\ up'[j].due = up'[k].due => j = k
      BY <1>1, <1>2, <1>4, <1>6 DEF IInv, SentOnce
    <2>2. \A d \in Callers, k \in 1 .. Len(up') :
            Writes(d)' /\ up'[k].id = msg'[d].id =>
              /\ pc'[d] = "body"
              /\ up'[k].kind = "part" => up'[k].due > msg'[d].left
      <3> SUFFICES ASSUME NEW d \in Callers, NEW k \in 1 .. Len(up'),
                          Writes(d), up'[k].id = msg[d].id
                   PROVE  pc'[d] = "body" /\ (up'[k].kind = "part" => up'[k].due > msg[d].left)
        BY <1>1, <1>5
      <3>1. CASE k = last
        <4>1. d = c
          BY <1>1, <1>2, <3>1 DEF IInv, SentOnce
        <4> QED BY <1>1, <1>2, <1>5, <3>1, <4>1
      <3>2. CASE k # last
        <4>1. k \in 1 .. Len(up) /\ up'[k] = up[k]
          BY <1>4, <3>2
        <4> QED BY <1>5, <4>1 DEF IInv, SentOnce
      <3> QED BY <3>1, <3>2
    <2>3. hostPc' = "body" =>
            /\ \A k \in 1 .. Len(up') : up'[k].kind = "header" => up'[k].id # hostMsg'.id
            /\ \A d \in Callers : pc'[d] = "header" => msg'[d].id # hostMsg'.id
      BY <1>1, <1>2, <1>4, <1>5 DEF IInv, SentOnce
    <2>4. \A d, e \in Callers : Writes(d)' /\ Writes(e)' /\ msg'[d].id = msg'[e].id => d = e
      BY <1>1, <1>5 DEF IInv, SentOnce
    <2> QED BY <2>1, <2>2, <2>3, <2>4 DEF SentOnce
  <1>8. Sized'
    <2>1. msg[c].left \in Nat
      BY DEF IInv, TypeOK, Messages
    <2>2. ASSUME NEW i, NEW n, Fits(i, n), i # msg[c].id PROVE Fits(i, n)'
      BY <1>1, <1>2, <1>4, <1>5, <2>2 DEF Fits
    <2>3. Fits(msg[c].id, msg[c].left)'
      <3>1. \A k \in 1 .. Len(up') : up'[k].kind = "part" => up'[k].id # msg[c].id
        BY <1>1, <1>2, <1>4, <1>6
      <3>2. \A d \in Callers : pc'[d] = "body" /\ msg[d].id = msg[c].id => d = c
        BY <1>1, <1>5 DEF Writes, IInv, SentOnce
      <3> QED BY <1>1, <2>1, <3>1, <3>2 DEF Fits
    <2>4. ASSUME NEW k \in 1 .. Len(up'), up'[k].kind = "header", NEW i, i = up'[k].id,
                 NEW n, n = up'[k].size
          PROVE  Fits(i, n)'
      <3>1. CASE k = last
        BY <1>1, <1>2, <2>3, <2>4, <3>1 DEF Fits
      <3>2. CASE k # last
        <4>1. k \in 1 .. Len(up) /\ up'[k] = up[k]
          BY <1>4, <3>2
        <4> QED BY <1>6, <2>2, <2>4, <4>1 DEF IInv, Sized
      <3> QED BY <3>1, <3>2
    <2>5. ASSUME hostPc' = "body" PROVE Fits(hostMsg.id, hostMsg.left)'
      <3>1. Fits(hostMsg.id, hostMsg.left) /\ hostMsg.id # msg[c].id
        BY <1>1, <2>5 DEF IInv, Sized, SentOnce
      <3> QED BY <1>1, <2>2, <3>1 DEF Fits
    <2> QED BY <2>4, <2>5 DEF Sized, Fits
  <1> QED BY <1>7, <1>8

LEMMA WriteBodyKeeps ==
  ASSUME IInv, NEW c \in Callers, WriteBody(c)
  PROVE  SentOnce' /\ Sized'
  <1> DEFINE u == Part(msg[c].id, msg[c].left)
             last == Len(up) + 1
  <1>1. /\ u \in Units /\ u.kind = "part" /\ u.id = msg[c].id /\ u.due = msg[c].left
        /\ pc[c] = "body" /\ Writes(c) /\ msg[c].left \in Nat /\ msg[c].left > 0
        /\ up' = Append(up, u) /\ UNCHANGED <<hostPc, hostMsg>>
    BY DEF WriteBody, IInv, InHand, Writes, Units, Part, TypeOK, Messages, server, program
  <1> HIDE DEF u
  <1>2. /\ Len(up') = last /\ up'[last] = u
        /\ \A k \in 1 .. Len(up) : up'[k] = up[k]
    BY <1>1, Appended DEF IInv, TypeOK
  <1>3. Len(up) \in Nat
    BY DEF IInv, TypeOK
  <1>4. \A k \in 1 .. Len(up') : k = last \/ (k \in 1 .. Len(up) /\ up'[k] = up[k])
    BY <1>2, <1>3
  <1> HIDE DEF last
  <1>5. /\ \A d \in Callers : d # c => pc'[d] = pc[d] /\ msg'[d] = msg[d]
        /\ pc'[c] # "header" /\ msg'[c].id = msg[c].id /\ msg'[c].left = msg[c].left - 1
        /\ \A d \in Callers : Writes(d)' => Writes(d) /\ pc'[d] = pc[d]
    <2>1. \A d \in Callers : msg[d] \in Messages /\ pc[d] \in {"idle", "header", "body", "result", "data"}
      BY DEF IInv, TypeOK
    <2>2. \A d \in Callers : d # c => pc'[d] = pc[d] /\ msg'[d] = msg[d]
      BY <2>1 DEF WriteBody, IInv, TypeOK
    <2>3. pc'[c] \in {"idle", "body", "result"}
      BY <2>1 DEF WriteBody, IInv, TypeOK
    <2>4. msg'[c].id = msg[c].id /\ msg'[c].left = msg[c].left - 1
      BY <2>1 DEF WriteBody, IInv, TypeOK, Messages
    <2> QED BY <1>1, <2>2, <2>3, <2>4 DEF Writes
  <1>6. \A k \in 1 .. Len(up) : up[k].kind = "part" /\ up[k].id = msg[c].id => up[k].due > msg[c].left
    BY <1>1 DEF IInv, SentOnce
  <1>7. \A k \in 1 .. Len(up) : up[k].kind = "part" => up[k].due \in Nat
    BY DEF IInv, TypeOK, Units
  <1>8. \A d \in Callers : msg'[d].id = msg[d].id
    BY <1>5
  <1>9. SentOnce'
    <2>1. \A j, k \in 1 .. Len(up') : up'[j].id = up'[k].id =>
            /\ up'[j].kind = "header" /\ up'[k].kind = "header" => j = k
            /\ up'[j].kind = "part" /\ up'[k].kind = "part" /\ up'[j].due = up'[k].due => j = k
      <3>1. ASSUME NEW k \in 1 .. Len(up') PROVE
              /\ k # last => k \in 1 .. Len(up) /\ up'[k] = up[k]
              /\ k # last /\ up'[k].id = u.id /\ up'[k].kind = "part" => up'[k].due # u.due
        BY <1>1, <1>4, <1>6, <1>7
      <3>2. u.kind # "header"
        BY <1>1
      <3> QED BY <1>2, <3>1, <3>2 DEF IInv, SentOnce
    <2>2. \A d, e \in Callers : Writes(d)' /\ Writes(e)' /\ msg'[d].id = msg'[e].id => d = e
      BY <1>5, <1>8 DEF IInv, SentOnce
    <2>3. ASSUME NEW d \in Callers, NEW k \in 1 .. Len(up'), Writes(d)', up'[k].id = msg'[d].id
          PROVE  pc'[d] = "body" /\ (up'[k].kind = "part" => up'[k].due > msg'[d].left)
      <3>1. CASE k # last
        <4>1. k \in 1 .. Len(up) /\ up'[k] = up[k]
          BY <1>4, <3>1
        <4>2. pc[d] = "body" /\ (up[k].kind = "part" => up[k].due > msg[d].left)
          BY <1>5, <1>8, <2>3, <4>1 DEF IInv, SentOnce
        <4> QED BY <1>1, <1>5, <1>7, <2>3, <4>1, <4>2
      <3>2. CASE k = last
        <4>1. d = c
          BY <1>1, <1>2, <1>5, <1>8, <2>3, <3>2 DEF IInv, SentOnce
        <4> QED BY <1>1, <1>2, <1>5, <2>3, <3>2, <4>1
      <3> QED BY <3>1, <3>2
    <2>4. hostPc' = "body" =>
            /\ \A k \in 1 .. Len(up') : up'[k].kind = "header" => up'[k].id # hostMsg'.id
            /\ \A d \in Callers : pc'[d] = "header" => msg'[d].id # hostMsg'.id
      BY <1>1, <1>2, <1>4, <1>5 DEF IInv, SentOnce
    <2> QED BY <2>1, <2>2, <2>3, <2>4 DEF SentOnce
  <1>10. Sized'
    <2>1. ASSUME NEW i, NEW n \in Nat, Fits(i, n) PROVE Fits(i, n)'
      <3>1. ASSUME NEW k \in 1 .. Len(up'), up'[k].kind = "part", up'[k].id = i PROVE up'[k].due <= n
        BY <1>1, <1>2, <1>4, <2>1, <3>1 DEF Fits
      <3>2. ASSUME NEW d \in Callers, pc'[d] = "body", msg'[d].id = i PROVE msg'[d].left <= n
        <4>1. pc[d] = "body" /\ msg[d].id = i
          BY <1>1, <1>5, <1>8, <3>2
        <4> QED BY <1>1, <1>5, <2>1, <4>1 DEF Fits
      <3> QED BY <3>1, <3>2 DEF Fits
    <2>2. ASSUME NEW k \in 1 .. Len(up'), up'[k].kind = "header", NEW i, i = up'[k].id,
                 NEW n, n = up'[k].size
          PROVE  Fits(i, n)'
      <3>1. k \in 1 .. Len(up) /\ up'[k] = up[k]
        BY <1>1, <1>2, <1>4, <2>2
      <3>2. n \in Nat /\ Fits(i, n)
        BY <2>2, <3>1 DEF IInv, Sized, TypeOK, Units
      <3> QED BY <2>1, <3>2
    <2>3. ASSUME hostPc' = "body" PROVE Fits(hostMsg.id, hostMsg.left)'
      <3>1. Fits(hostMsg.id, hostMsg.left) /\ hostMsg.left \in Nat
        BY <1>1, <2>3 DEF IInv, Sized, TypeOK, Messages
      <3>2. ASSUME NEW i, NEW n, i = hostMsg.id, n = hostMsg.left PROVE Fits(i, n)'
        BY <2>1, <3>1, <3>2
      <3> QED BY <1>1, <3>2 DEF Fits
    <2> QED BY <2>2, <2>3 DEF Sized, Fits
  <1> QED BY <1>9, <1>10

\* What is left in the socket after a read is in the same order.
LEMMA ReadKeeps ==
  ASSUME SentOnce, NEW n \in Nat, Len(up) \in Nat, n <= Len(up), Len(up') = Len(up) - n,
         \A k \in 1 .. Len(up') : up'[k] = up[k + n],
         UNCHANGED program
  PROVE  /\ hostPc' # "body" => SentOnce'
         /\ \A i, s : Fits(i, s) => Fits(i, s)'
         /\ \A k \in 1 .. Len(up') : k + n \in 1 .. Len(up)
  <1>1. \A k \in 1 .. Len(up') : k + n \in 1 .. Len(up) /\ up'[k] = up[k + n]
    OBVIOUS
  <1>2. hostPc' # "body" => SentOnce'
    <2>1. \A j, k \in 1 .. Len(up') : up'[j].id = up'[k].id =>
            /\ up'[j].kind = "header" /\ up'[k].kind = "header" => j = k
            /\ up'[j].kind = "part" /\ up'[k].kind = "part" /\ up'[j].due = up'[k].due => j = k
      <3> SUFFICES ASSUME NEW j \in 1 .. Len(up'), NEW k \in 1 .. Len(up'), up'[j].id = up'[k].id
                   PROVE  /\ up'[j].kind = "header" /\ up'[k].kind = "header" => j + n = k + n
                          /\ up'[j].kind = "part" /\ up'[k].kind = "part" /\ up'[j].due = up'[k].due => j + n = k + n
        OBVIOUS
      <3> QED BY <1>1, SMTT(30) DEF SentOnce
    <2> QED BY <1>1, <2>1 DEF SentOnce, program, Writes
  <1>3. \A i, s : Fits(i, s) => Fits(i, s)'
    BY <1>1 DEF Fits, program
  <1> QED BY <1>1, <1>2, <1>3

LEMMA TakeHeaderKeeps ==
  ASSUME IInv, handle_ipc_read, Head(up).kind = "header"
  PROVE  SentOnce' /\ Sized'
  <1>1. /\ Head(up) = up[1] /\ Len(up) > 0 /\ Len(up) \in Nat
        /\ Len(up') = Len(up) - 1
        /\ \A k \in 1 .. Len(up') : up'[k] = up[k + 1]
    BY Tailed DEF handle_ipc_read, IInv, TypeOK
  <1>2. /\ hostPc' = "body" /\ UNCHANGED program
        /\ hostMsg'.id = up[1].id /\ hostMsg'.left = up[1].size
    BY <1>1 DEF handle_ipc_read, NoMsg
  <1>3. /\ \A i, s : Fits(i, s) => Fits(i, s)'
        /\ \A k \in 1 .. Len(up') : k + 1 \in 1 .. Len(up)
    BY <1>1, <1>2, ReadKeeps DEF IInv
  <1>4. \A j, k \in 1 .. Len(up') : up'[j].id = up'[k].id =>
          /\ up'[j].kind = "header" /\ up'[k].kind = "header" => j = k
          /\ up'[j].kind = "part" /\ up'[k].kind = "part" /\ up'[j].due = up'[k].due => j = k
    <2> SUFFICES ASSUME NEW j \in 1 .. Len(up'), NEW k \in 1 .. Len(up'), up'[j].id = up'[k].id
                 PROVE  /\ up'[j].kind = "header" /\ up'[k].kind = "header" => j + 1 = k + 1
                        /\ up'[j].kind = "part" /\ up'[k].kind = "part" /\ up'[j].due = up'[k].due => j + 1 = k + 1
      OBVIOUS
    <2> QED BY <1>1, <1>3 DEF IInv, SentOnce
  <1>5. \A k \in 1 .. Len(up') : up'[k].kind = "header" => up'[k].id # hostMsg'.id
    <2> SUFFICES ASSUME NEW k \in 1 .. Len(up'), up'[k].kind = "header", up'[k].id = up[1].id
                 PROVE  FALSE
      BY <1>2
    <2>1. k + 1 \in 1 .. Len(up) /\ up'[k] = up[k + 1] /\ 1 \in 1 .. Len(up) /\ k + 1 # 1
      BY <1>1, <1>3
    <2> QED BY <1>1, <2>1 DEF IInv, SentOnce
  <1>6. SentOnce'
    BY <1>1, <1>2, <1>3, <1>4, <1>5 DEF IInv, SentOnce, program, Writes
  <1>7. Fits(up[1].id, up[1].size)
    BY <1>1 DEF IInv, Sized
  <1>8. Sized'
    <2>1. ASSUME NEW k \in 1 .. Len(up'), up'[k].kind = "header", NEW i, i = up'[k].id,
                 NEW s, s = up'[k].size
          PROVE  Fits(i, s)'
      BY <1>1, <1>3, <2>1 DEF IInv, Sized
    <2>2. ASSUME NEW i, i = hostMsg'.id, NEW s, s = hostMsg'.left PROVE Fits(i, s)'
      BY <1>2, <1>3, <1>7, <2>2
    <2> QED BY <2>1, <2>2 DEF Sized, Fits
  <1> QED BY <1>6, <1>8

LEMMA ReadBodyKeeps ==
  ASSUME IInv, ReadRequestBody, Whole(up, hostMsg.id, hostMsg.left)
  PROVE  SentOnce' /\ Sized'
  <1> DEFINE n == hostMsg.left
  <1>1. /\ n \in Nat /\ n <= Len(up) /\ Len(up) \in Nat
        /\ Len(up') = Len(up) - n
        /\ \A k \in 1 .. Len(up') : up'[k] = up[k + n]
    BY Rested DEF ReadRequestBody, Whole, IInv, TypeOK, Messages
  <1>2. hostPc' = "loop" /\ UNCHANGED program
    BY DEF ReadRequestBody
  <1> HIDE DEF n
  <1>3. /\ SentOnce'
        /\ \A i, s : Fits(i, s) => Fits(i, s)'
        /\ \A k \in 1 .. Len(up') : k + n \in 1 .. Len(up)
    BY <1>1, <1>2, ReadKeeps DEF IInv
  <1>4. ASSUME NEW k \in 1 .. Len(up'), up'[k].kind = "header", NEW i, i = up'[k].id,
               NEW s, s = up'[k].size
        PROVE  Fits(i, s)'
    BY <1>1, <1>3, <1>4 DEF IInv, Sized
  <1>5. Sized'
    BY <1>2, <1>4 DEF Sized, Fits
  <1> QED BY <1>3, <1>5

-----------------------------------------------------------------------------
(* Where the requests are.                                                 *)

LEMMA IdsAppended ==
  ASSUME NEW s \in Seq(Units), NEW u \in Units
  PROVE  \A i : i \in IdsIn(Append(s, u)) <=> i \in IdsIn(s) \/ i = u.id
  <1>1. /\ Len(s) \in Nat /\ Len(Append(s, u)) = Len(s) + 1
        /\ \A k \in 1 .. Len(s) : Append(s, u)[k] = s[k]
        /\ Append(s, u)[Len(s) + 1] = u
    BY Appended
  <1>2. \A k \in 1 .. Len(s) + 1 : k \in 1 .. Len(s) \/ k = Len(s) + 1
    BY <1>1
  <1>3. Len(s) + 1 \in 1 .. Len(s) + 1 /\ \A k \in 1 .. Len(s) : k \in 1 .. Len(s) + 1
    BY <1>1
  <1> QED BY <1>1, <1>2, <1>3 DEF IdsIn

LEMMA IdsTailed ==
  ASSUME NEW s \in Seq(Units), s # <<>>
  PROVE  \A i : i \in IdsIn(s) <=> i \in IdsIn(Tail(s)) \/ i = Head(s).id
  <1>1. /\ Len(s) \in Nat /\ Len(s) > 0 /\ Len(Tail(s)) = Len(s) - 1
        /\ \A k \in 1 .. Len(Tail(s)) : Tail(s)[k] = s[k + 1]
        /\ Head(s) = s[1]
    BY Tailed
  <1>2. \A k \in 1 .. Len(s) : k = 1 \/ (k - 1 \in 1 .. Len(Tail(s)) /\ Tail(s)[k - 1] = s[k])
    BY <1>1
  <1>3. 1 \in 1 .. Len(s) /\ \A k \in 1 .. Len(Tail(s)) : k + 1 \in 1 .. Len(s)
    BY <1>1
  <1> QED BY <1>1, <1>2, <1>3, SMTT(30) DEF IdsIn

Returned(i) == \E k \in 1 .. Len(results) : results[k].id = i

Stay(i) == /\ Underway(i)' <=> Underway(i)
           /\ Answered(i)' => Answered(i)
           /\ Returned(i)' <=> Returned(i)

\* The kinds of steps, as far as the phases of requests go.
StayStep == UNCHANGED <<nextId, pending>> /\ \A i \in Ids : Stay(i)

AskStep ==
  \E j \in Ids :
    /\ j = nextId /\ nextId' = j + 1 /\ UNCHANGED pending
    /\ Underway(j)'
    /\ \A i \in Ids : /\ i # j => Stay(i)
                      /\ Answered(i)' => Answered(i)
                      /\ Returned(i)' <=> Returned(i)

HoldStep ==
  \E j \in Ids :
    /\ Underway(j) /\ ~Underway(j)' /\ pending' = pending \cup {j} /\ UNCHANGED nextId
    /\ \A i \in Ids : /\ i # j => Stay(i)
                      /\ Answered(i)' => Answered(i)
                      /\ Returned(i)' <=> Returned(i)

AnswerStep ==
  \E j \in pending :
    /\ pending' = pending \ {j} /\ UNCHANGED nextId
    /\ \A i \in Ids : /\ i # j => Stay(i)
                      /\ Underway(i)' <=> Underway(i)
                      /\ Returned(i)' <=> Returned(i)

ReturnStep ==
  \E j \in Ids :
    /\ Answered(j) /\ Returned(j)' /\ UNCHANGED <<nextId, pending>>
    /\ \A i \in Ids : /\ i # j => Stay(i)
                      /\ Underway(i)' <=> Underway(i)
                      /\ Answered(i)' => Answered(i)

Kinds == StayStep \/ AskStep \/ HoldStep \/ AnswerStep \/ ReturnStep

LEMMA ResultsAppended ==
  ASSUME results \in Seq(Results), NEW r \in Results, results' = Append(results, r)
  PROVE  \A i : Returned(i)' <=> Returned(i) \/ i = r.id
  <1>1. /\ Len(results) \in Nat /\ Len(results') = Len(results) + 1
        /\ \A k \in 1 .. Len(results) : results'[k] = results[k]
        /\ results'[Len(results) + 1] = r
    BY Appended
  <1>2. \A k \in 1 .. Len(results) + 1 : k \in 1 .. Len(results) \/ k = Len(results) + 1
    BY <1>1
  <1>3. /\ Len(results) + 1 \in 1 .. Len(results) + 1
        /\ \A k \in 1 .. Len(results) : k \in 1 .. Len(results) + 1
    BY <1>1
  <1> QED BY <1>1, <1>2, <1>3 DEF Returned

LEMMA CallerKinds ==
  ASSUME IInv, NEW c \in Callers,
         codius_request_new(c) \/ codius_read_result(c) \/ Call(c)
  PROVE  Kinds
  <1> USE DEF program, server, env
  <1>a. /\ pc \in [Callers -> {"idle", "header", "body", "result", "data"}]
        /\ msg \in [Callers -> Messages] /\ msg[c] \in Messages
        /\ up \in Seq(Units) /\ down \in Seq(Units) /\ results \in Seq(Results)
    BY DEF IInv, TypeOK
  <1>1. CASE codius_request_new(c)
    <2>1. /\ pc' = [pc EXCEPT ![c] = "header"] /\ pc[c] = "idle"
          /\ \E m : m.id = nextId /\ msg' = [msg EXCEPT ![c] = m]
          /\ nextId' = nextId + 1 /\ UNCHANGED <<results, up, down, server>>
      BY <1>1 DEF codius_request_new
    <2>2. /\ \A d \in Callers : d # c => pc'[d] = pc[d] /\ msg'[d] = msg[d]
          /\ pc'[c] = "header" /\ msg'[c].id = nextId
      BY <1>a, <2>1
    <2>3. AskStep
      <3>1. PICK j \in Ids : j = nextId
        BY <1>1, ConstantsTyped DEF codius_request_new, Ids, IInv, TypeOK
      <3>2. \A i \in Ids : i # j => (Underway(i)' <=> Underway(i))
        BY <2>1, <2>2, <3>1 DEF Underway, IdsIn
      <3>3. Underway(j)'
        BY <2>2, <3>1 DEF Underway
      <3>4. \A i \in Ids : (Answered(i)' => Answered(i)) /\ (Returned(i)' <=> Returned(i))
        BY <2>1, <2>2 DEF Answered, Returned, IdsIn
      <3> QED BY <2>1, <3>1, <3>2, <3>3, <3>4 DEF AskStep, Stay
    <2> QED BY <2>3 DEF Kinds
  <1>2. CASE codius_read_result(c)
    <2>1. /\ pc[c] = "idle" /\ pc'[c] = "result"
          /\ \A d \in Callers : d # c => pc'[d] = pc[d] /\ msg'[d] = msg[d]
          /\ UNCHANGED <<results, nextId, up, down, server>>
      BY <1>2, <1>a DEF codius_read_result
    <2>2. StayStep
      BY <2>1 DEF StayStep, Stay, Underway, Answered, Returned, IdsIn
    <2> QED BY <2>2 DEF Kinds
  <1>3. CASE WriteHeader(c) \/ WriteBody(c)
    <2>1. PICK u \in Units : u.id = msg[c].id /\ up' = Append(up, u)
      <3>1. msg[c].id \in Ids
        BY <1>3 DEF IInv, InHand, Writes, WriteHeader, WriteBody
      <3> QED BY <1>3, <1>a, <3>1 DEF WriteHeader, WriteBody, Units, Header, Part, Messages
    <2>2. /\ pc[c] \in {"header", "body"} /\ pc'[c] \in {"idle", "body", "result"}
          /\ msg'[c].id = msg[c].id
          /\ \A d \in Callers : d # c => pc'[d] = pc[d] /\ msg'[d] = msg[d]
          /\ UNCHANGED <<results, nextId, down, server>>
      BY <1>3, <1>a DEF WriteHeader, WriteBody, Messages
    <2>3. \A i : i \in IdsIn(up') <=> i \in IdsIn(up) \/ i = msg[c].id
      BY <1>a, <2>1, IdsAppended
    <2>4. StayStep
      <3>1. \A i : i \in IdsIn(up)' <=> i \in IdsIn(up) \/ i = msg[c].id
        BY <2>3 DEF IdsIn
      <3>2. \A i \in Ids : Underway(i)' <=> Underway(i)
        BY <2>2, <3>1 DEF Underway
      <3>3. \A i \in Ids : (Answered(i)' => Answered(i)) /\ (Returned(i)' <=> Returned(i))
        BY <2>2 DEF Answered, Returned, IdsIn
      <3> QED BY <2>2, <3>2, <3>3 DEF StayStep, Stay
    <2> QED BY <2>4 DEF Kinds
  <1>4. CASE ReadHeader(c) /\ Head(down).kind = "header"
    <2>1. /\ pc[c] = "result" /\ pc'[c] = "data" /\ msg'[c].id = Head(down).id
          /\ \A d \in Callers : d # c => pc'[d] = pc[d] /\ msg'[d] = msg[d]
          /\ down' = Tail(down) /\ down # <<>>
          /\ UNCHANGED <<results, nextId, up, server>>
      BY <1>4, <1>a DEF ReadHeader, Messages
    <2>2. \A i : i \in IdsIn(down) <=> i \in IdsIn(down)' \/ i = Head(down).id
      <3>1. \A i : i \in IdsIn(down) <=> i \in IdsIn(Tail(down)) \/ i = Head(down).id
        BY <1>a, <2>1, IdsTailed
      <3>2. IdsIn(down)' = IdsIn(Tail(down))
        BY <2>1 DEF IdsIn
      <3> QED BY <3>1, <3>2
    <2>3. StayStep
      <3>1. \A i \in Ids : Underway(i)' <=> Underway(i)
        BY <2>1 DEF Underway, IdsIn
      <3>2. \A i \in Ids : Answered(i)' => Answered(i)
        BY <2>1, <2>2 DEF Answered
      <3> QED BY <2>1, <3>1, <3>2 DEF StayStep, Stay, Returned
    <2> QED BY <2>3 DEF Kinds
  <1>5. ASSUME NEW i0, NEW data \in BOOLEAN, Returns(c, i0, data), i0 \in Ids \cup {NoId},
               pc[c] \in {"result", "data"}, i0 # NoId => Answered(i0),
               \A i : i \in IdsIn(down)' => i \in IdsIn(down),
               UNCHANGED <<nextId, up, server>>
        PROVE  Kinds
    <2> DEFINE r == [call |-> msg[c].call, id |-> i0, data |-> data]
    <2>1. r \in Results /\ r.id = i0 /\ results' = Append(results, r)
      BY <1>5, <1>a DEF Returns, Results, Messages
    <2> HIDE DEF r
    <2>2. \A i : Returned(i)' <=> Returned(i) \/ i = i0
      BY <1>a, <2>1, ResultsAppended
    <2>3. /\ pc'[c] = "idle" /\ \A d \in Callers : d # c => pc'[d] = pc[d] /\ msg'[d] = msg[d]
      BY <1>5, <1>a DEF Returns
    <2>4. \A i \in Ids : Underway(i)' <=> Underway(i)
      BY <1>5, <2>3 DEF Underway, IdsIn
    <2>5. \A i \in Ids : Answered(i)' => Answered(i)
      <3> SUFFICES ASSUME NEW i \in Ids, Answered(i)' PROVE Answered(i)
        OBVIOUS
      <3>1. NoId \notin Ids
        BY ConstantsTyped
      <3>2. CASE Returned(i)'
        BY <1>5, <2>2, <3>1, <3>2 DEF Answered, Returned
      <3>3. CASE ~Returned(i)'
        BY <1>5, <2>3, <3>3 DEF Answered, Returned
      <3> QED BY <3>2, <3>3
    <2>6. CASE i0 = NoId
      <3>1. i0 \notin Ids
        BY <2>6, ConstantsTyped
      <3>2. StayStep
        BY <1>5, <2>2, <2>4, <2>5, <3>1 DEF StayStep, Stay
      <3> QED BY <3>2 DEF Kinds
    <2>7. CASE i0 # NoId
      <3>1. ReturnStep
        BY <1>5, <2>2, <2>4, <2>5, <2>7 DEF ReturnStep, Stay
      <3> QED BY <3>1 DEF Kinds
    <2> QED BY <2>6, <2>7
  <1>6. CASE ReadHeader(c) /\ Head(down).kind # "header"
    <2>1. /\ Returns(c, NoId, FALSE) /\ pc[c] = "result" /\ down # <<>>
          /\ down' \in {down, Tail(down)} /\ UNCHANGED <<nextId, up, server>>
      BY <1>6 DEF ReadHeader
    <2>2. \A i : i \in IdsIn(Tail(down)) => i \in IdsIn(down)
      BY <1>a, <2>1, IdsTailed
    <2>3. \A i : i \in IdsIn(down)' => i \in IdsIn(down)
      BY <2>1, <2>2 DEF IdsIn
    <2> QED BY <1>5, <2>1, <2>3
  <1>7. CASE ReadData(c)
    <2>1. PICK data \in BOOLEAN : Returns(c, msg[c].id, data)
      BY <1>7 DEF ReadData
    <2>2. /\ pc[c] = "data" /\ msg[c].id \in Ids /\ msg[c].left \in Nat
          /\ down' = Rest(down, msg[c].left) /\ UNCHANGED <<nextId, up, server>>
      BY <1>7, <1>a DEF ReadData, IInv, InHand, Messages
    <2> DEFINE n == Taken(down, msg[c].left)
    <2>3. /\ n \in Nat /\ n <= Len(down) /\ Len(down') = Len(down) - n
          /\ \A k \in 1 .. Len(down') : down'[k] = down[k + n]
      <3>1. down \in Seq(Units) /\ msg[c].left \in Nat /\ down' = Rest(down, msg[c].left)
        BY <1>a, <2>2
      <3> QED BY <3>1, Rested
    <2> HIDE DEF n
    <2>4. \A k \in 1 .. Len(down') : k + n \in 1 .. Len(down)
      <3>1. Len(down) \in Nat
        BY <1>a
      <3> QED BY <2>3, <3>1
    <2>5. \A i : i \in IdsIn(down)' => i \in IdsIn(down)
      BY <2>3, <2>4 DEF IdsIn
    <2>6. Answered(msg[c].id)
      BY <2>2 DEF Answered
    <2> QED BY <1>5, <2>1, <2>2, <2>5, <2>6
  <1> QED BY <1>1, <1>2, <1>3, <1>4, <1>6, <1>7 DEF Call

\* Once the host has read the body of a request, nothing of it is left behind.
LEMMA BodyTaken ==
  ASSUME IInv, ReadRequestBody, Whole(up, hostMsg.id, hostMsg.left),
         NEW j, j = hostMsg.id
  PROVE  j \in Ids /\ Underway(j) /\ ~Underway(j)'
  <1> DEFINE n == hostMsg.left
  <1>1. /\ n \in Nat /\ n > 0 /\ j \in Ids /\ hostPc = "body" /\ hostPc' = "loop"
        /\ n <= Len(up) /\ Len(up) \in Nat /\ Len(up') = Len(up) - n
        /\ \A k \in 1 .. Len(up') : up'[k] = up[k + n] /\ k + n \in 1 .. Len(up)
        /\ \A k \in 1 .. n : up[k] = Part(j, n + 1 - k)
        /\ UNCHANGED program
    <2>1. up \in Seq(Units) /\ n \in Nat /\ n > 0 /\ j \in Ids /\ hostPc = "body"
      BY DEF ReadRequestBody, IInv, TypeOK, InHand, Messages
    <2>2. n <= Len(up) /\ \A k \in 1 .. n : up[k] = Part(j, n + 1 - k)
      BY DEF Whole
    <2>3. up' = Rest(up, n) /\ hostPc' = "loop" /\ UNCHANGED program
      BY DEF ReadRequestBody
    <2>4. Len(up') = Len(up) - n /\ \A k \in 1 .. Len(up') : up'[k] = up[k + n]
      BY <2>1, <2>2, <2>3, Rested
    <2>5. Len(up) \in Nat /\ \A k \in 1 .. Len(up') : k + n \in 1 .. Len(up)
      BY <2>1, <2>2, <2>4
    <2> QED BY <2>1, <2>2, <2>3, <2>4, <2>5
  <1>2. Fits(j, n)
    BY <1>1 DEF IInv, Sized
  <1>3. Underway(j)
    BY <1>1 DEF Underway
  <1> HIDE DEF n
  <1>4. ASSUME NEW k \in 1 .. Len(up), k > n PROVE up[k].id # j
    <2> SUFFICES ASSUME up[k].id = j PROVE FALSE
      OBVIOUS
    <2>1. up[k] \in Units
      BY DEF IInv, TypeOK
    <2>2. up[k].kind = "part"
      BY <1>1, <2>1 DEF IInv, SentOnce, Units
    <2>3. up[k].due \in Nat /\ up[k].due > 0 /\ up[k].due <= n
      BY <1>2, <2>1, <2>2 DEF IInv, InHand, Fits, Units
    <2> DEFINE l == n + 1 - up[k].due
    <2>4. l \in 1 .. n /\ l \in 1 .. Len(up) /\ l # k /\ up[l] = Part(j, up[k].due)
      BY <1>1, <1>4, <2>3
    <2> HIDE DEF l
    <2>5. up[l].id = up[k].id /\ up[l].kind = "part" /\ up[l].due = up[k].due
      BY <2>4 DEF Part
    <2> QED BY <2>2, <2>4, <2>5 DEF IInv, SentOnce
  <1>5. ASSUME NEW c \in Callers, Writes(c) PROVE msg[c].id # j
    <2> SUFFICES ASSUME msg[c].id = j PROVE FALSE
      OBVIOUS
    <2>1. msg[c].left \in Nat /\ msg[c].left > 0
      BY <1>5 DEF IInv, TypeOK, InHand, Messages
    <2>2. n \in 1 .. Len(up) /\ up[n].id = j /\ up[n].kind = "part" /\ up[n].due = 1
      <3>1. n \in 1 .. n /\ n \in 1 .. Len(up) /\ n + 1 - n = 1
        BY <1>1
      <3>2. up[n] = Part(j, 1)
        BY <1>1, <3>1
      <3> QED BY <3>1, <3>2 DEF Part
    <2> QED BY <1>5, <2>1, <2>2 DEF IInv, SentOnce
  <1>6. ~Underway(j)'
    <2>1. \A k \in 1 .. Len(up') : up'[k].id # j
      <3> SUFFICES ASSUME NEW k \in 1 .. Len(up') PROVE up'[k].id # j
        OBVIOUS
      <3>1. k + n \in 1 .. Len(up) /\ k + n > n /\ up'[k] = up[k + n]
        BY <1>1
      <3> QED BY <3>1, <1>4
    <2>2. j \notin IdsIn(up)'
      BY <2>1 DEF IdsIn
    <2>3. \A c \in Callers : pc[c] \in {"header", "body"} => msg[c].id # j
      BY <1>5 DEF Writes
    <2> QED BY <1>1, <2>2, <2>3 DEF Underway, program
  <1> QED BY <1>1, <1>3, <1>6


LEMMA HostKinds ==
  ASSUME IInv, Host \/ (\E i \in Ids : node_finish_ipc(i))
  PROVE  Kinds
  <1> USE DEF program, server, env
  <1>a. up \in Seq(Units) /\ down \in Seq(Units) /\ hostMsg \in Messages /\ NoId \notin Ids
    BY ConstantsTyped DEF IInv, TypeOK
  <1>1. CASE handle_ipc_read
    <2>1. UNCHANGED <<program, down, pending>> /\ hostPc = "loop" /\ up # <<>>
      BY <1>1 DEF handle_ipc_read
    <2>2. CASE Head(up).kind = "header"
      <3>1. hostPc' = "body" /\ hostMsg'.id = Head(up).id
        BY <1>1, <2>2 DEF handle_ipc_read, NoMsg
      <3>2. \A i : i \in IdsIn(up) <=> i \in IdsIn(up)' \/ i = Head(up).id
        <4>1. \A i : i \in IdsIn(up) <=> i \in IdsIn(Tail(up)) \/ i = Head(up).id
          BY <1>a, <2>1, IdsTailed
        <4>2. IdsIn(up)' = IdsIn(Tail(up))
          BY <1>1, <2>2 DEF handle_ipc_read, IdsIn
        <4> QED BY <4>1, <4>2
      <3>3. \A i \in Ids : Underway(i)' <=> Underway(i)
        BY <2>1, <3>1, <3>2 DEF Underway
      <3>4. \A i \in Ids : (Answered(i)' => Answered(i)) /\ (Returned(i)' <=> Returned(i))
        BY <2>1, <3>1 DEF Answered, Returned, IdsIn
      <3>5. StayStep
        BY <2>1, <3>3, <3>4 DEF StayStep, Stay
      <3> QED BY <3>5 DEF Kinds
    <2>3. CASE Head(up).kind # "header"
      <3>1. hostPc' = "exited" /\ hostMsg'.id = NoId /\ UNCHANGED up
        BY <1>1, <2>3 DEF handle_ipc_read, NoMsg
      <3>2. StayStep
        BY <1>a, <2>1, <3>1 DEF StayStep, Stay, Underway, Answered, Returned, IdsIn
      <3> QED BY <3>2 DEF Kinds
    <2> QED BY <2>2, <2>3
  <1>2. CASE ReadRequestBody /\ Whole(up, hostMsg.id, hostMsg.left)
    <2>1. PICK j : j = hostMsg.id
      OBVIOUS
    <2>2. j \in Ids /\ Underway(j) /\ ~Underway(j)'
      BY <1>2, <2>1, BodyTaken
    <2>3. /\ hostPc = "body" /\ hostPc' = "loop" /\ hostMsg'.id = NoId
          /\ pending' = pending \cup {j} /\ UNCHANGED <<program, down>>
          /\ up' = Rest(up, hostMsg.left)
      BY <1>2, <2>1 DEF ReadRequestBody, NoMsg
    <2> DEFINE n == Taken(up, hostMsg.left)
    <2>4. /\ n = hostMsg.left /\ n \in Nat /\ n <= Len(up) /\ Len(up') = Len(up) - n
          /\ \A k \in 1 .. Len(up') : up'[k] = up[k + n] /\ k + n \in 1 .. Len(up)
      <3>1. hostMsg.left \in Nat /\ hostMsg.left <= Len(up) /\ Len(up) \in Nat
        BY <1>a, <1>2 DEF Whole, Messages
      <3>2. /\ n = hostMsg.left /\ Len(up') = Len(up) - n
            /\ \A k \in 1 .. Len(up') : up'[k] = up[k + n]
        BY <1>a, <2>3, <3>1, Rested
      <3> QED BY <3>1, <3>2
    <2>5. \A k \in 1 .. n : up[k].id = j
      <3>1. \A k \in 1 .. n : up[k] = Part(j, n + 1 - k)
        BY <1>2, <2>1, <2>4 DEF Whole
      <3>2. \A d : Part(j, d).id = j
        BY DEF Part
      <3> QED BY <3>1, <3>2
    <2> HIDE DEF n
    <2>6. \A i : i # j => (i \in IdsIn(up)' <=> i \in IdsIn(up))
      <3> SUFFICES ASSUME NEW i, i # j PROVE i \in IdsIn(up)' <=> i \in IdsIn(up)
        OBVIOUS
      <3>1. i \in IdsIn(up)' => i \in IdsIn(up)
        BY <2>4 DEF IdsIn
      <3>2. ASSUME NEW k \in 1 .. Len(up), up[k].id = i PROVE i \in IdsIn(up)'
        <4>1. k > n
          BY <2>4, <2>5, <3>2
        <4>2. k - n \in 1 .. Len(up') /\ up'[k - n] = up[k]
          <5>1. Len(up) \in Nat
            BY <1>a
          <5>2. k - n \in 1 .. Len(up') /\ (k - n) + n = k
            BY <2>4, <4>1, <5>1
          <5> QED BY <2>4, <5>2
        <4> QED BY <3>2, <4>2 DEF IdsIn
      <3> QED BY <3>1, <3>2 DEF IdsIn
    <2>7. \A i \in Ids : i # j => (Underway(i)' <=> Underway(i))
      BY <1>a, <2>1, <2>3, <2>6 DEF Underway
    <2>8. \A i \in Ids : (Answered(i)' => Answered(i)) /\ (Returned(i)' <=> Returned(i))
      BY <2>3 DEF Answered, Returned, IdsIn
    <2>9. HoldStep
      BY <2>2, <2>3, <2>7, <2>8 DEF HoldStep, Stay
    <2> QED BY <2>9 DEF Kinds
  <1>3. CASE ReadRequestBody /\ ~Whole(up, hostMsg.id, hostMsg.left)
    <2>1. /\ hostPc = "body" /\ hostPc' = "exited"
          /\ UNCHANGED <<program, up, down, hostMsg, pending>>
      BY <1>3 DEF ReadRequestBody
    <2>2. StayStep
      BY <2>1 DEF StayStep, Stay, Underway, Answered, Returned, IdsIn
    <2> QED BY <2>2 DEF Kinds
  <1>4. CASE \E j \in Ids : node_finish_ipc(j)
    <2>1. PICK j \in Ids : node_finish_ipc(j)
      BY <1>4
    <2>2. /\ j \in pending /\ pending' = pending \ {j} /\ UNCHANGED <<program, up, down>>
          /\ hostPc = "loop" /\ hostPc' = "reply" /\ hostMsg'.id = j
      BY <2>1 DEF node_finish_ipc
    <2>3. \A i \in Ids : Underway(i)' <=> Underway(i)
      BY <2>2 DEF Underway, IdsIn
    <2>4. \A i \in Ids : /\ i # j => (Answered(i)' => Answered(i))
                         /\ Returned(i)' <=> Returned(i)
      BY <2>2 DEF Answered, Returned, IdsIn
    <2>5. AnswerStep
      BY <2>2, <2>3, <2>4 DEF AnswerStep, Stay
    <2> QED BY <2>5 DEF Kinds
  <1>5. CASE WriteReply
    <2>1. /\ hostPc \in {"reply", "replyBody"} /\ hostPc' \in {"loop", "replyBody"}
          /\ UNCHANGED <<program, up, pending>>
      BY <1>5 DEF WriteReply
    <2>2. hostMsg'.id = hostMsg.id
      BY <1>5, <1>a DEF WriteReply, Messages
    <2>3. \A i : i \in IdsIn(down)' => i \in IdsIn(down) \/ i = hostMsg.id
      <3>1. CASE Len(down) < Capacity
        <4> DEFINE n == hostMsg.left - (IF hostPc = "reply" THEN 0 ELSE 1)
                   u == IF hostPc = "reply" THEN Header(hostMsg.id, n)
                                            ELSE Part(hostMsg.id, hostMsg.left)
        <4>1. n \in Nat /\ hostMsg.id \in Ids /\ hostMsg.left \in Nat
          BY <1>a, <2>1 DEF IInv, InHand, Messages
        <4>2. u \in Units /\ u.id = hostMsg.id
          BY <4>1 DEF Units, Header, Part
        <4>3. down' = Append(down, u)
          BY <1>5, <3>1 DEF WriteReply
        <4> HIDE DEF u
        <4>4. \A i : i \in IdsIn(Append(down, u)) <=> i \in IdsIn(down) \/ i = u.id
          BY <1>a, <4>2, IdsAppended
        <4>5. IdsIn(down)' = IdsIn(Append(down, u))
          BY <4>3 DEF IdsIn
        <4> QED BY <4>2, <4>4, <4>5
      <3>2. CASE ~(Len(down) < Capacity)
        BY <1>5, <3>2 DEF WriteReply, IdsIn
      <3> QED BY <3>1, <3>2
    <2>4. \A i \in Ids : Underway(i)' <=> Underway(i)
      BY <2>1 DEF Underway, IdsIn
    <2>5. \A i \in Ids : (Answered(i)' => Answered(i)) /\ (Returned(i)' <=> Returned(i))
      BY <2>1, <2>2, <2>3 DEF Answered, Returned
    <2>6. StayStep
      BY <2>1, <2>4, <2>5 DEF StayStep, Stay
    <2> QED BY <2>6 DEF Kinds
  <1>6. CASE handle_trap
    <2>1. UNCHANGED <<program, up, down, server>>
      BY <1>6 DEF handle_trap
    <2>2. StayStep
      BY <2>1 DEF StayStep, Stay, Underway, Answered, Returned, IdsIn
    <2> QED BY <2>2 DEF Kinds
  <1> QED BY <1>1, <1>2, <1>3, <1>4, <1>5, <1>6 DEF Host

LEMMA SignalKinds ==
  ASSUME IInv, OtherChild \/ (\E c \in Callers : Signal(c))
  PROVE  Kinds
  <1>1. UNCHANGED <<program, up, down, hostMsg, pending>>
    BY DEF OtherChild, Signal, Sigchld
  <1>2. /\ hostPc' \in {"body", "exited"} <=> hostPc \in {"body", "exited"}
        /\ hostPc' \in {"reply", "replyBody"} => hostPc \in {"reply", "replyBody"}
    BY DEF OtherChild, Signal, Sigchld, Blocked, IInv, TypeOK
  <1>3. \A i \in Ids : Underway(i)' <=> Underway(i)
    BY <1>1, <1>2 DEF Underway, IdsIn, program
  <1>4. \A i \in Ids : (Answered(i)' => Answered(i)) /\ (Returned(i)' <=> Returned(i))
    BY <1>1, <1>2 DEF Answered, Returned, IdsIn, program
  <1>5. StayStep
    BY <1>1, <1>3, <1>4 DEF StayStep, Stay, program
  <1> QED BY <1>5 DEF Kinds

\* A step of any of these kinds leaves each request in one place.
LEMMA KindsKeep ==
  ASSUME IInv, TypeOK', Kinds
  PROVE  OnePlace'
  <1>1. ASSUME NEW i \in Ids, Returned(i) PROVE Answered(i)
    BY <1>1 DEF Answered, Returned
  <1>2. nextId \in Nat /\ pending \subseteq Ids
    BY DEF IInv, TypeOK
  <1>3. \A i \in Ids : i \in Nat
    BY DEF Ids
  <1>4. CASE StayStep
    BY <1>4 DEF IInv, OnePlace, StayStep, Stay
  <1>5. CASE AskStep
    <2>1. PICK j \in Ids :
            /\ j = nextId /\ nextId' = j + 1 /\ UNCHANGED pending /\ Underway(j)'
            /\ \A i \in Ids : /\ i # j => Stay(i)
                              /\ Answered(i)' => Answered(i)
                              /\ Returned(i)' <=> Returned(i)
      BY <1>5 DEF AskStep
    <2>2. j \notin pending /\ ~Answered(j)
      BY <1>2, <2>1 DEF IInv, OnePlace
    <2>3. ASSUME NEW i \in Ids, i # j
          PROVE  /\ Underway(i)' \/ i \in pending' \/ Answered(i)' => i < nextId'
                 /\ Underway(i)' => i \notin pending' /\ ~Answered(i)'
                 /\ i \in pending' => ~Answered(i)'
      BY <1>2, <1>3, <2>1, <2>3 DEF IInv, OnePlace, Stay
    <2>4. /\ j < nextId' /\ j \notin pending' /\ ~Answered(j)'
      BY <1>3, <2>1, <2>2
    <2> QED BY <2>3, <2>4 DEF OnePlace
  <1>6. CASE HoldStep
    BY <1>6 DEF IInv, OnePlace, HoldStep, Stay
  <1>7. CASE AnswerStep
    BY <1>2, <1>7 DEF IInv, OnePlace, AnswerStep, Stay
  <1>8. CASE ReturnStep
    BY <1>8 DEF IInv, OnePlace, ReturnStep, Stay
  <1> QED BY <1>4, <1>5, <1>6, <1>7, <1>8 DEF Kinds


-----------------------------------------------------------------------------
(* The theorems.                                                           *)

LEMMA InvInit == Init => IInv
  <1> SUFFICES ASSUME Init PROVE IInv
    OBVIOUS
  <1>1. TypeOK /\ InHand
    BY TypeInit
  <1>2. /\ \A c \in Callers : ~Writes(c) /\ pc[c] = "idle"
        /\ Len(up) = 0 /\ Len(down) = 0 /\ Len(results) = 0 /\ pending = {} /\ hostPc = "loop"
    BY DEF Init, Writes
  <1>3. SentOnce /\ Sized
    BY <1>2 DEF SentOnce, Sized
  <1>4. \A i \in Ids : ~Underway(i) /\ ~Answered(i) /\ i \notin pending
    BY <1>2 DEF Underway, Answered, IdsIn
  <1> QED BY <1>1, <1>3, <1>4 DEF IInv, OnePlace

LEMMA StepKinds == IInv /\ [Next]_vars => Kinds
  <1> SUFFICES ASSUME IInv, [Next]_vars PROVE Kinds
    OBVIOUS
  <1>1. CASE Host \/ (\E i \in Ids : node_finish_ipc(i))
    BY <1>1, HostKinds
  <1>2. CASE OtherChild \/ (\E c \in Callers : Signal(c))
    BY <1>2, SignalKinds
  <1>3. ASSUME NEW c \in Callers, codius_request_new(c) \/ codius_read_result(c) \/ Call(c)
        PROVE  Kinds
    BY <1>3, CallerKinds
  <1>4. CASE UNCHANGED vars
    <2>1. StayStep
      BY <1>4 DEF vars, program, server, StayStep, Stay, Underway, Answered, Returned, IdsIn
    <2> QED BY <2>1 DEF Kinds
  <1> QED BY <1>1, <1>2, <1>3, <1>4 DEF Next

LEMMA InvStep == IInv /\ [Next]_vars => IInv'
  <1> SUFFICES ASSUME IInv, [Next]_vars PROVE IInv'
    OBVIOUS
  <1>a. TypeOK /\ InHand /\ SentOnce /\ Sized
    BY DEF IInv
  <1>1. TypeOK' /\ InHand'
    <2>1. CASE Host \/ (\E i \in Ids : node_finish_ipc(i))
      BY <1>a, <2>1, HostTypes
    <2>2. CASE OtherChild \/ (\E c \in Callers : Signal(c))
      BY <1>a, <2>2, SignalTypes
    <2>3. ASSUME NEW c \in Callers, codius_request_new(c) \/ codius_read_result(c) \/ Call(c)
          PROVE  TypeOK' /\ InHand'
      BY <1>a, <2>3, CallerTypes
    <2>4. CASE UNCHANGED vars
      BY <1>a, <2>4 DEF vars, program, server, env, TypeOK, InHand, Writes
    <2> QED BY <2>1, <2>2, <2>3, <2>4 DEF Next
  <1>2. SentOnce' /\ Sized'
    <2>1. ASSUME NEW c \in Callers, codius_request_new(c) PROVE SentOnce' /\ Sized'
      BY <2>1, NewKeeps
    <2>2. ASSUME NEW c \in Callers, WriteHeader(c) PROVE SentOnce' /\ Sized'
      BY <2>2, WriteHeaderKeeps
    <2>3. ASSUME NEW c \in Callers, WriteBody(c) PROVE SentOnce' /\ Sized'
      BY <2>3, WriteBodyKeeps
    <2>4. CASE handle_ipc_read /\ Head(up).kind = "header"
      BY <2>4, TakeHeaderKeeps
    <2>5. CASE ReadRequestBody /\ Whole(up, hostMsg.id, hostMsg.left)
      BY <2>5, ReadBodyKeeps
    <2>6. ASSUME Quiet PROVE SentOnce' /\ Sized'
      BY <1>a, <2>6, QuietKeeps
    <2>7. ASSUME NEW c \in Callers,
                 codius_read_result(c) \/ ReadHeader(c) \/ ReadData(c) \/ Signal(c)
          PROVE  Quiet
      BY <1>a, <2>7, MostAreQuiet
    <2>8. CASE \/ OtherChild \/ WriteReply \/ handle_trap
               \/ \E i \in Ids : node_finish_ipc(i)
               \/ handle_ipc_read /\ Head(up).kind # "header"
               \/ ReadRequestBody /\ ~Whole(up, hostMsg.id, hostMsg.left)
      BY <1>a, <2>6, <2>8, MostAreQuiet
    <2>9. CASE UNCHANGED vars
      <3>1. Quiet
        BY <2>9 DEF vars, program, server, Quiet, Writes
      <3> QED BY <2>6, <3>1
    <2> QED BY <2>1, <2>2, <2>3, <2>4, <2>5, <2>6, <2>7, <2>8, <2>9 DEF Next, Call, Host
  <1>3. OnePlace'
    BY <1>1, StepKinds, KindsKeep
  <1> QED BY <1>1, <1>2, <1>3 DEF IInv

\* Every reachable state satisfies the invariant: no request is in two places,
\* and nothing is in the socket to the host twice.
THEOREM Invariance == Spec => []IInv
  BY InvInit, InvStep, PTL DEF Spec

\* Every state is well typed: no socket holds more than its capacity.
THEOREM TypeCorrect == Spec => []TypeOK
  <1>1. IInv => TypeOK
    BY DEF IInv
  <1> QED BY <1>1, Invariance, PTL

\* The phase Rpc shows a request to be in.
PhaseOf(i) ==
  IF i >= nextId THEN "unused"
  ELSE IF Returned(i) THEN "returned"
  ELSE IF i \in pending THEN "held"
  ELSE IF Underway(i) THEN "asked" ELSE "answered"


Moved(j, from, to) ==
  /\ PhaseOf(j) = from /\ PhaseOf(j)' = to
  /\ \A i \in Ids : i # j => PhaseOf(i)' = PhaseOf(i)

LEMMA PhasesMove ==
  ASSUME IInv, Kinds
  PROVE  \/ \A i \in Ids : PhaseOf(i)' = PhaseOf(i)
         \/ \E j \in Ids : \/ Moved(j, "unused", "asked") \/ Moved(j, "asked", "held")
                           \/ Moved(j, "held", "answered") \/ Moved(j, "answered", "returned")
  <1>1. nextId \in Nat /\ pending \subseteq Ids /\ \A i \in Ids : i \in Nat
    BY DEF IInv, TypeOK, Ids
  <1>2. ASSUME NEW i \in Ids
        PROVE  /\ Returned(i) => Answered(i)
               /\ Underway(i) \/ i \in pending \/ Answered(i) => i < nextId
               /\ Underway(i) => i \notin pending /\ ~Answered(i)
               /\ i \in pending => ~Answered(i)
    BY DEF Answered, Returned, IInv, OnePlace
  <1>3. CASE StayStep
    <2>1. \A i \in Ids : PhaseOf(i)' = PhaseOf(i)
      BY <1>3 DEF StayStep, Stay, PhaseOf
    <2> QED BY <2>1
  <1>4. CASE AskStep
    <2>1. PICK j \in Ids :
            /\ j = nextId /\ nextId' = j + 1 /\ UNCHANGED pending /\ Underway(j)'
            /\ \A i \in Ids : /\ i # j => Stay(i)
                              /\ Answered(i)' => Answered(i)
                              /\ Returned(i)' <=> Returned(i)
      BY <1>4 DEF AskStep
    <2>2. ~(j < nextId) /\ j >= nextId /\ ~(j >= nextId')
      BY <1>1, <2>1
    <2>3. ~Returned(j)' /\ j \notin pending'
      BY <1>2, <2>1, <2>2
    <2>4. PhaseOf(j) = "unused" /\ PhaseOf(j)' = "asked"
      BY <2>1, <2>2, <2>3 DEF PhaseOf
    <2>5. \A i \in Ids : i # j => (i >= nextId' <=> i >= nextId)
      BY <1>1, <2>1
    <2>6. \A i \in Ids : i # j => PhaseOf(i)' = PhaseOf(i)
      BY <2>1, <2>5 DEF Stay, PhaseOf
    <2> QED BY <2>4, <2>6 DEF Moved
  <1>5. CASE HoldStep
    <2>1. PICK j \in Ids :
            /\ Underway(j) /\ ~Underway(j)' /\ pending' = pending \cup {j} /\ UNCHANGED nextId
            /\ \A i \in Ids : /\ i # j => Stay(i)
                              /\ Answered(i)' => Answered(i)
                              /\ Returned(i)' <=> Returned(i)
      BY <1>5 DEF HoldStep
    <2>2. ~(j >= nextId) /\ ~Returned(j) /\ j \notin pending
      BY <1>1, <1>2, <2>1
    <2>3. PhaseOf(j) = "asked" /\ PhaseOf(j)' = "held"
      BY <2>1, <2>2 DEF PhaseOf
    <2>4. \A i \in Ids : i # j => PhaseOf(i)' = PhaseOf(i)
      BY <2>1 DEF Stay, PhaseOf
    <2> QED BY <2>3, <2>4 DEF Moved
  <1>6. CASE AnswerStep
    <2>1. PICK j \in pending :
            /\ pending' = pending \ {j} /\ UNCHANGED nextId
            /\ \A i \in Ids : /\ i # j => Stay(i)
                              /\ Underway(i)' <=> Underway(i)
                              /\ Returned(i)' <=> Returned(i)
      BY <1>6 DEF AnswerStep
    <2>2. j \in Ids /\ ~(j >= nextId) /\ ~Returned(j) /\ ~Underway(j)
      BY <1>1, <1>2, <2>1
    <2>3. PhaseOf(j) = "held" /\ PhaseOf(j)' = "answered"
      BY <2>1, <2>2 DEF PhaseOf
    <2>4. \A i \in Ids : i # j => PhaseOf(i)' = PhaseOf(i)
      BY <2>1 DEF Stay, PhaseOf
    <2> QED BY <2>2, <2>3, <2>4 DEF Moved
  <1>7. CASE ReturnStep
    <2>1. PICK j \in Ids :
            /\ Answered(j) /\ Returned(j)' /\ UNCHANGED <<nextId, pending>>
            /\ \A i \in Ids : /\ i # j => Stay(i)
                              /\ Underway(i)' <=> Underway(i)
                              /\ Answered(i)' => Answered(i)
      BY <1>7 DEF ReturnStep
    <2>2. ~(j >= nextId) /\ j \notin pending /\ ~Underway(j)
      BY <1>1, <1>2, <2>1
    <2>3. PhaseOf(j) \in {"answered", "returned"} /\ PhaseOf(j)' = "returned"
      BY <2>1, <2>2 DEF PhaseOf
    <2>4. \A i \in Ids : i # j => PhaseOf(i)' = PhaseOf(i)
      BY <2>1 DEF Stay, PhaseOf
    <2> QED BY <2>3, <2>4 DEF Moved
  <1> QED BY <1>3, <1>4, <1>5, <1>6, <1>7 DEF Kinds

\* A request reaches the embedding program at most once, is answered at most
\* once, and its result is read at most once and only after it was answered,
\* whatever is lost: every step of Rpc is a step of RequestReply or none.
THEOREM EveryRequestOnce == Spec => ImplementsRequestReply
  <1> DEFINE phase == [i \in Ids |->
        IF i >= nextId THEN "unused"
        ELSE IF \E k \in 1 .. Len(results) : results[k].id = i THEN "returned"
        ELSE IF i \in pending THEN "held"
        ELSE IF Underway(i) THEN "asked" ELSE "answered"]
  <1>1. phase = [i \in Ids |-> PhaseOf(i)]
    BY DEF PhaseOf, Returned
  <1>2. phase' = [i \in Ids |-> PhaseOf(i)']
    BY DEF PhaseOf, Returned
  <1>3. Init => Abstract!Init
    <2> SUFFICES ASSUME Init PROVE phase = [i \in Ids |-> "unused"]
      BY DEF Abstract!Init
    <2>1. \A i \in Ids : i >= nextId
      BY DEF Init, Ids
    <2> QED BY <2>1
  <1>4. IInv /\ [Next]_vars => [Abstract!Next]_phase
    <2> SUFFICES ASSUME IInv, [Next]_vars PROVE Abstract!Next \/ phase' = phase
      OBVIOUS
    <2>1. \/ \A i \in Ids : PhaseOf(i)' = PhaseOf(i)
          \/ \E j \in Ids : \/ Moved(j, "unused", "asked") \/ Moved(j, "asked", "held")
                            \/ Moved(j, "held", "answered") \/ Moved(j, "answered", "returned")
      BY StepKinds, PhasesMove
    <2>2. ASSUME \A i \in Ids : PhaseOf(i)' = PhaseOf(i) PROVE phase' = phase
      BY <1>1, <1>2, <2>2
    <2>3. ASSUME NEW j \in Ids, NEW from, NEW to, Moved(j, from, to)
          PROVE  phase[j] = from /\ phase' = [phase EXCEPT ![j] = to]
      <3> HIDE DEF phase
      <3> QED BY <1>1, <1>2, <2>3 DEF Moved
    <2>4. ASSUME NEW j \in Ids, \/ Moved(j, "unused", "asked") \/ Moved(j, "asked", "held")
                                \/ Moved(j, "held", "answered") \/ Moved(j, "answered", "returned")
          PROVE  Abstract!Next
      <3>1. Abstract!Ask(j) \/ Abstract!Hold(j) \/ Abstract!Answer(j) \/ Abstract!Return(j)
        BY <2>3, <2>4 DEF Abstract!Ask, Abstract!Hold, Abstract!Answer, Abstract!Return, Abstract!Move
      <3> QED BY <3>1 DEF Abstract!Next
    <2> QED BY <2>1, <2>2, <2>4
  <1>5. Spec => Abstract!Init /\ [][Abstract!Next]_phase
    <2> HIDE DEF phase
    <2> QED BY <1>3, <1>4, Invariance, PTL DEF Spec
  <1> QED BY <1>5, PTL DEF ImplementsRequestReply, Abstract!Spec


-----------------------------------------------------------------------------
(* A program of one thread that makes one sync call after the other.       *)

\* Each of the results so far went to the call it was due to.
InTurn == \A j \in 1 .. Len(results) : results[j].call = j - 1

NothingUnderway == \A i \in Ids : ~Underway(i) /\ i \notin pending

\* Between two calls nothing is on its way.
Between(c) ==
  pc[c] = "idle" /\ nextId = Len(results) =>
    NothingUnderway /\ down = <<>> /\ hostPc \notin {"reply", "replyBody"}

\* Of the reply i, this much is in the socket, in the order it is read.
ReplyAhead(c, i) ==
  /\ hostPc = "reply" => down = <<>> /\ pc[c] = "result"
  /\ pc[c] = "result" =>
       /\ hostPc = "replyBody" => down = <<Header(i, 1)>>
       /\ \/ down \in {<<>>, <<Header(i, 0)>>, <<Header(i, 1)>>}
          \/ down = <<Header(i, 1), Part(i, 1)>>
  /\ pc[c] = "data" =>
       /\ msg[c].id = i /\ msg[c].left \in {0, 1}
       /\ msg[c].left = 0 => down = <<>> /\ hostPc # "replyBody"
       /\ hostPc = "replyBody" => down = <<>>
       /\ down \in {<<>>, <<Part(i, 1)>>}

\* During call i nothing but its request or its reply is on its way.
During(c) ==
  LET i == Len(results) IN
  pc[c] # "idle" /\ msg[c].call = i =>
    /\ nextId = i + 1
    /\ \A j \in Ids : Underway(j) \/ j \in pending => j = i
    /\ hostPc \in {"reply", "replyBody"} => hostMsg.id = i
    /\ pc[c] \in {"header", "body"} => down = <<>>
    /\ ReplyAhead(c, i)

IOwn ==
  /\ OwnReply
  /\ Len(results) <= nextId
  /\ \A c \in Callers : /\ pc[c] # "idle" => Len(results) < nextId
                        /\ InTurn => Between(c) /\ During(c)


LEMMA NothingNew ==
  ASSUME Kinds, UNCHANGED nextId
  PROVE  \A j \in Ids : Underway(j)' \/ j \in pending' => Underway(j) \/ j \in pending
  BY DEF Kinds, StayStep, AskStep, HoldStep, AnswerStep, ReturnStep, Stay, Ids

\* What During says besides, as no request is in two places.
LEMMA DuringCall ==
  ASSUME IInv, NEW c \in Callers, During(c), NEW i, i = Len(results),
         pc[c] # "idle", msg[c].call = i
  PROVE  /\ i \in Ids
         /\ pc[c] \in {"header", "body"} =>
              Underway(i) /\ i \notin pending /\ hostPc \notin {"reply", "replyBody"} /\ down = <<>>
         /\ hostPc \in {"reply", "replyBody"} \/ pc[c] = "data" \/ down # <<>> =>
              ~Underway(i) /\ i \notin pending
  <1>1. /\ nextId = i + 1 /\ ReplyAhead(c, i)
        /\ \A j \in Ids : Underway(j) \/ j \in pending => j = i
        /\ hostPc \in {"reply", "replyBody"} => hostMsg.id = i
        /\ pc[c] \in {"header", "body"} => down = <<>>
    BY DEF During
  <1>2. i \in Ids
    <2>1. Len(results) \in Nat /\ nextId \in 0 .. MaxId
      BY DEF IInv, TypeOK
    <2> QED BY <1>1, <2>1, ConstantsTyped DEF Ids
  <1>3. pc[c] \in {"header", "body"} => Underway(i)
    BY <1>1 DEF Underway, IInv, InHand, Writes
  <1>4. pc[c] \in {"result", "data"} \/ pc[c] \in {"header", "body"}
    BY DEF IInv, TypeOK
  <1>5. down # <<>> => Answered(i)
    <2>1. down \in Seq(Units) /\ Len(down) \in Nat
      BY DEF IInv, TypeOK
    <2>2. down # <<>> => 1 \in 1 .. Len(down) /\ down[1].id = i
      BY <1>1, <1>4, <2>1 DEF ReplyAhead, Header, Part
    <2> QED BY <2>2 DEF Answered, IdsIn
  <1>6. hostPc \in {"reply", "replyBody"} \/ pc[c] = "data" => Answered(i)
    BY <1>1 DEF ReplyAhead, Answered
  <1> QED BY <1>1, <1>2, <1>3, <1>5, <1>6 DEF IInv, OnePlace

LEMMA Pair == \A h, p : Append(<<h>>, p) = <<h, p>> /\ Tail(<<h, p>>) = <<p>>
  <1> SUFFICES ASSUME NEW h, NEW p PROVE Append(<<h>>, p) = <<h, p>> /\ Tail(<<h, p>>) = <<p>>
    OBVIOUS
  <1>1. Append(<<h>>, p) = <<h, p>>
    <2> DEFINE S == {h, p}
               s == Append(<<h>>, p)
    <2>1. <<h>> \in Seq(S) /\ Len(<<h>>) = 1 /\ <<h>>[1] = h /\ p \in S
      OBVIOUS
    <2>2. s \in Seq(S) /\ Len(s) = 2 /\ s[1] = h /\ s[2] = p
      BY <2>1, Appended
    <2>3. <<h, p>> \in Seq(S) /\ Len(<<h, p>>) = 2 /\ <<h, p>>[1] = h /\ <<h, p>>[2] = p
      OBVIOUS
    <2> HIDE DEF S, s
    <2>4. \A k \in 1 .. Len(s) : s[k] = <<h, p>>[k]
      <3>1. \A k \in 1 .. 2 : k = 1 \/ k = 2
        OBVIOUS
      <3> QED BY <2>2, <2>3, <3>1
    <2>5. s = <<h, p>>
      BY <2>2, <2>3, <2>4, SeqEqual
    <2> QED BY <2>5 DEF s
  <1>2. Tail(<<h, p>>) = <<p>>
    OBVIOUS
  <1> QED BY <1>1, <1>2

LEMMA HostOwn ==
  ASSUME IInv, IOwn, ShortBodies, Kinds, UNCHANGED program,
         \/ Host \/ OtherChild \/ \E i \in Ids : node_finish_ipc(i)
         \/ \E c \in Callers : Signal(c)
  PROVE  IOwn'
  <1> USE DEF program, server, env
  <1>1. /\ OwnReply' /\ Len(results)' <= nextId'
        /\ InTurn' <=> InTurn
        /\ \A c \in Callers : pc'[c] # "idle" => Len(results)' < nextId'
    BY DEF IOwn, OwnReply, InTurn
  <1>2. \A j \in Ids : Underway(j)' \/ j \in pending' => Underway(j) \/ j \in pending
    BY NothingNew
  <1> SUFFICES ASSUME NEW c \in Callers, InTurn PROVE Between(c)' /\ During(c)'
    BY <1>1 DEF IOwn
  <1>a. Between(c) /\ During(c)
    BY DEF IOwn
  <1>3. ASSUME UNCHANGED down, hostPc' \notin {"reply", "replyBody"} \/ UNCHANGED <<hostPc, hostMsg>>
        PROVE  Between(c)' /\ During(c)'
    <2>1. Between(c)'
      BY <1>a, <1>2, <1>3 DEF Between, NothingUnderway
    <2>2. During(c)'
      BY <1>a, <1>2, <1>3 DEF During, ReplyAhead
    <2> QED BY <2>1, <2>2
  <1>4. CASE handle_ipc_read \/ ReadRequestBody \/ handle_trap
    BY <1>3, <1>4 DEF handle_ipc_read, ReadRequestBody, handle_trap
  <1>5. CASE OtherChild \/ \E d \in Callers : Signal(d)
    BY <1>3, <1>5 DEF OtherChild, Signal, Sigchld, Blocked
  <1>6. CASE \E i \in Ids : node_finish_ipc(i)
    <2>1. PICK j \in Ids : node_finish_ipc(j)
      BY <1>6
    <2>2. j \in pending /\ hostPc' = "reply" /\ hostMsg'.id = j /\ UNCHANGED down
      BY <2>1 DEF node_finish_ipc
    <2>3. Between(c)'
      BY <1>a, <2>2 DEF Between, NothingUnderway
    <2>4. During(c)'
      <3> SUFFICES ASSUME NEW i, i = Len(results), pc[c] # "idle", msg[c].call = i
                   PROVE  During(c)'
        BY DEF During
      <3>1. j = i /\ nextId = i + 1 /\ ReplyAhead(c, i)
        BY <1>a, <2>2 DEF During
      <3>2. pc[c] \notin {"header", "body", "data"} /\ down = <<>>
        BY <1>a, <2>2, <3>1, DuringCall
      <3>3. pc[c] = "result"
        BY <3>2 DEF IInv, TypeOK
      <3> QED BY <1>a, <1>2, <2>2, <3>1, <3>2, <3>3 DEF During, ReplyAhead
    <2> QED BY <2>3, <2>4
  <1>7. CASE WriteReply
    <2>1. hostPc \in {"reply", "replyBody"} /\ UNCHANGED pending
      BY <1>7 DEF WriteReply
    <2>2. Between(c)'
      BY <1>a, <2>1 DEF Between
    <2>3. During(c)'
      <3> SUFFICES ASSUME NEW i, i = Len(results), pc[c] # "idle", msg[c].call = i
                   PROVE  During(c)'
        BY DEF During
      <3>1. /\ hostMsg.id = i /\ nextId = i + 1 /\ ReplyAhead(c, i)
            /\ \A j \in Ids : Underway(j)' \/ j \in pending' => j = i
        BY <1>a, <1>2, <2>1 DEF During
      <3>2. pc[c] \in {"result", "data"}
        BY <1>a, <2>1, DuringCall DEF IInv, TypeOK
      <3>3. hostMsg.left \in {0, 1} /\ (hostPc = "replyBody" => hostMsg.left = 1)
        BY DEF IInv, TypeOK, InHand, ShortBodies, Messages
      <3>4. CASE ~(Len(down) < Capacity)
        <4>1. hostPc' = "loop" /\ UNCHANGED <<down, hostMsg>>
          BY <1>7, <3>4 DEF WriteReply
        <4> QED BY <1>3, <4>1
      <3>5. CASE Len(down) < Capacity /\ hostPc = "reply"
        <4>1. down = <<>> /\ pc[c] = "result"
          BY <3>1, <3>5 DEF ReplyAhead
        <4>2. /\ down' = Append(down, Header(i, hostMsg.left))
              /\ hostPc' = IF hostMsg.left = 0 THEN "loop" ELSE "replyBody"
              /\ hostMsg'.id = i
          BY <1>7, <3>1, <3>3, <3>5 DEF WriteReply, IInv, TypeOK, Messages
        <4>3. down' = <<Header(i, hostMsg.left)>>
          BY <4>1, <4>2
        <4>4. ReplyAhead(c, i)'
          BY <3>3, <4>1, <4>2, <4>3 DEF ReplyAhead
        <4> QED BY <3>1, <3>2, <4>1, <4>2, <4>4 DEF During
      <3>6. CASE Len(down) < Capacity /\ hostPc = "replyBody"
        <4>1. down' = Append(down, Part(i, 1)) /\ hostPc' = "loop"
          BY <1>7, <3>1, <3>3, <3>6 DEF WriteReply
        <4>2. ReplyAhead(c, i)'
          <5>1. CASE pc[c] = "result"
            <6>1. down' = <<Header(i, 1), Part(i, 1)>>
              <7>1. down = <<Header(i, 1)>>
                BY <3>1, <3>6, <5>1 DEF ReplyAhead
              <7> QED BY <4>1, <7>1, Pair
            <6> QED BY <4>1, <5>1, <6>1 DEF ReplyAhead
          <5>2. CASE pc[c] = "data"
            <6>1. down' = <<Part(i, 1)>> /\ msg[c].left = 1 /\ msg[c].id = i
              BY <3>1, <3>6, <4>1, <5>2 DEF ReplyAhead
            <6>2. hostPc' = "loop" /\ UNCHANGED <<pc, msg>>
              BY <1>7, <4>1 DEF WriteReply
            <6> QED BY <5>2, <6>1, <6>2 DEF ReplyAhead
          <5> QED BY <3>2, <5>1, <5>2
        <4> QED BY <3>1, <3>2, <4>1, <4>2 DEF During
      <3> QED BY <2>1, <3>4, <3>5, <3>6
    <2> QED BY <2>2, <2>3
  <1> QED BY <1>4, <1>5, <1>6, <1>7 DEF Host


\* A step of the only caller that returns nothing yet.
LEMMA CallerOwn ==
  ASSUME IInv, IOwn, ShortBodies, Kinds, NEW c, Callers = {c},
         codius_request_new(c) \/ codius_read_result(c) \/ WriteHeader(c) \/ WriteBody(c)
           \/ (ReadHeader(c) /\ Head(down).kind = "header")
  PROVE  IOwn'
  <1> USE DEF program, server, env
  <1>a. /\ pc \in [Callers -> {"idle", "header", "body", "result", "data"}]
        /\ msg \in [Callers -> Messages] /\ c \in Callers /\ msg[c] \in Messages
        /\ nextId \in Nat /\ Len(results) \in Nat /\ NoId \notin Nat
    BY DEF IInv, TypeOK, NoId
  <1>1. UNCHANGED <<results, hostPc, hostMsg, pending>>
    BY DEF codius_request_new, codius_read_result, WriteHeader, WriteBody, ReadHeader
  <1>2. /\ nextId' = nextId \/ (codius_request_new(c) /\ nextId' = nextId + 1)
        /\ pc[c] = "idle" => Len(results) < nextId'
    <2>1. Len(results) <= nextId
      BY DEF IOwn
    <2>2. CASE codius_request_new(c)
      <3>1. nextId' = nextId + 1
        BY <2>2 DEF codius_request_new
      <3>2. Len(results) < nextId + 1
        BY <1>a, <2>1
      <3> QED BY <2>2, <3>1, <3>2
    <2>3. CASE codius_read_result(c)
      BY <2>3 DEF codius_read_result
    <2>4. CASE WriteHeader(c) \/ WriteBody(c) \/ ReadHeader(c)
      BY <2>4 DEF WriteHeader, WriteBody, ReadHeader
    <2> QED BY <2>2, <2>3, <2>4
  <1>3. /\ OwnReply' /\ Len(results)' <= nextId' /\ Len(results)' < nextId'
        /\ InTurn' <=> InTurn
    BY <1>a, <1>1, <1>2 DEF IOwn, OwnReply, InTurn
  <1> SUFFICES ASSUME InTurn, NEW i, i = Len(results), pc'[c] # "idle", msg'[c].call = i
               PROVE  During(c)'
    BY <1>a, <1>1, <1>3 DEF IOwn, Between, During
  <1>b. Between(c) /\ During(c)
    BY <1>a DEF IOwn
  <1>4. CASE codius_request_new(c)
    <2>1. /\ pc[c] = "idle" /\ nextId' = nextId + 1 /\ UNCHANGED <<up, down, server, results>>
          /\ pc' = [pc EXCEPT ![c] = "header"]
          /\ \E m : m.id = nextId /\ m.call \in {nextId, NoId} /\ msg' = [msg EXCEPT ![c] = m]
      BY <1>4 DEF codius_request_new
    <2>2. pc'[c] = "header" /\ msg'[c].id = nextId /\ nextId = i
      BY <1>a, <2>1
    <2>3. /\ down = <<>> /\ hostPc \notin {"reply", "replyBody"}
          /\ \A j \in Ids : ~Underway(j) /\ j \notin pending
      BY <1>b, <2>1, <2>2 DEF Between, NothingUnderway
    <2>4. \A j \in Ids : j # i => ~Underway(j)'
      BY <1>a, <2>1, <2>2, <2>3 DEF Underway, IdsIn
    <2> QED BY <1>1, <2>1, <2>2, <2>3, <2>4 DEF During, ReplyAhead
  <1>5. CASE codius_read_result(c)
    <2>1. msg'[c].call = NoId
      BY <1>5, <1>a DEF codius_read_result, NoMsg
    <2> QED BY <1>a, <2>1
  <1>6. CASE WriteHeader(c) \/ WriteBody(c)
    <2>1. /\ pc[c] \in {"header", "body"} /\ pc'[c] \in {"body", "result"}
          /\ msg[c].call = i /\ UNCHANGED <<down, nextId, server, results>>
      BY <1>6, <1>a DEF WriteHeader, WriteBody, Messages
    <2>2. /\ nextId = i + 1 /\ down = <<>> /\ hostPc \notin {"reply", "replyBody"}
          /\ \A j \in Ids : Underway(j) \/ j \in pending => j = i
      BY <1>a, <1>b, <2>1, DuringCall DEF During
    <2>3. \A j \in Ids : Underway(j)' \/ j \in pending' => j = i
      BY <2>1, <2>2, NothingNew
    <2> QED BY <1>1, <2>1, <2>2, <2>3 DEF During, ReplyAhead
  <1>7. CASE ReadHeader(c) /\ Head(down).kind = "header"
    <2>1. /\ pc[c] = "result" /\ pc'[c] = "data" /\ down # <<>> /\ down' = Tail(down)
          /\ msg'[c].id = Head(down).id /\ msg'[c].left = Head(down).size
          /\ msg[c].call = i /\ UNCHANGED <<nextId, server, results>>
      BY <1>7, <1>a DEF ReadHeader, Messages
    <2>2. /\ nextId = i + 1 /\ ReplyAhead(c, i)
          /\ hostPc \in {"reply", "replyBody"} => hostMsg.id = i
          /\ \A j \in Ids : Underway(j) \/ j \in pending => j = i
      BY <1>b, <2>1 DEF During
    <2>3. \A j \in Ids : Underway(j)' \/ j \in pending' => j = i
      BY <2>1, <2>2, NothingNew
    <2>4. \/ \E n \in {0, 1} : /\ down = <<Header(i, n)>> /\ Head(down) = Header(i, n)
                               /\ down' = <<>>
          \/ /\ down = <<Header(i, 1), Part(i, 1)>> /\ Head(down) = Header(i, 1)
             /\ down' = <<Part(i, 1)>> /\ hostPc # "replyBody"
      <3>1. CASE down = <<Header(i, 1), Part(i, 1)>>
        <4>1. Head(down) = Header(i, 1) /\ down' = <<Part(i, 1)>>
          BY <2>1, <3>1, Pair
        <4>2. Len(down) # 1
          BY <3>1
        <4>3. down # <<Header(i, 1)>>
          BY <4>2
        <4>4. hostPc # "replyBody"
          BY <2>1, <2>2, <4>3 DEF ReplyAhead
        <4> QED BY <3>1, <4>1, <4>4
      <3>2. ASSUME NEW n \in {0, 1}, down = <<Header(i, n)>>
            PROVE  Head(down) = Header(i, n) /\ down' = <<>>
        BY <2>1, <3>2
      <3>3. \/ down = <<Header(i, 0)>> \/ down = <<Header(i, 1)>>
            \/ down = <<Header(i, 1), Part(i, 1)>>
        BY <2>1, <2>2 DEF ReplyAhead
      <3> QED BY <3>1, <3>2, <3>3
    <2>5. \A n : Header(i, n).id = i /\ Header(i, n).size = n
      BY DEF Header
    <2>6. hostPc # "reply" /\ (hostPc = "replyBody" => down = <<Header(i, 1)>>)
      BY <2>1, <2>2 DEF ReplyAhead
    <2>7. /\ msg'[c].id = i /\ msg'[c].left \in {0, 1}
          /\ msg'[c].left = 0 => down' = <<>> /\ hostPc # "replyBody"
          /\ hostPc = "replyBody" => down' = <<>>
          /\ down' \in {<<>>, <<Part(i, 1)>>}
      <3>1. CASE \E n \in {0, 1} : /\ down = <<Header(i, n)>> /\ Head(down) = Header(i, n)
                                   /\ down' = <<>>
        <4>1. PICK n \in {0, 1} : /\ down = <<Header(i, n)>> /\ Head(down) = Header(i, n)
                                  /\ down' = <<>>
          BY <3>1
        <4>2. msg'[c].id = i /\ msg'[c].left = n
          BY <2>1, <2>5, <4>1
        <4>3. hostPc = "replyBody" => n = 1
          <5> SUFFICES ASSUME hostPc = "replyBody" PROVE n = 1
            OBVIOUS
          <5>1. Head(down) = Header(i, 1)
            BY <2>6
          <5> QED BY <2>5, <4>1, <5>1
        <4> QED BY <4>1, <4>2, <4>3
      <3>2. CASE /\ down = <<Header(i, 1), Part(i, 1)>> /\ Head(down) = Header(i, 1)
                 /\ down' = <<Part(i, 1)>> /\ hostPc # "replyBody"
        BY <2>1, <2>5, <3>2
      <3> QED BY <2>4, <3>1, <3>2
    <2>8. ReplyAhead(c, i)'
      BY <1>1, <2>1, <2>6, <2>7 DEF ReplyAhead
    <2> QED BY <1>1, <2>1, <2>2, <2>3, <2>8 DEF During
  <1> QED BY <1>4, <1>5, <1>6, <1>7

\* A call that returns in its turn returns its own reply, and leaves nothing
\* behind.
LEMMA ReturnOwn ==
  ASSUME IInv, IOwn, ShortBodies, Kinds, NEW c, Callers = {c},
         ReadData(c) \/ (ReadHeader(c) /\ Head(down).kind # "header")
  PROVE  IOwn'
  <1> USE DEF program, server, env
  <1>a. /\ pc \in [Callers -> {"idle", "header", "body", "result", "data"}]
        /\ msg \in [Callers -> Messages] /\ c \in Callers /\ msg[c] \in Messages
        /\ nextId \in Nat /\ Len(results) \in Nat /\ results \in Seq(Results)
        /\ down \in Seq(Units)
    BY DEF IInv, TypeOK
  <1>1. /\ pc[c] \in {"result", "data"} /\ pc'[c] = "idle"
        /\ UNCHANGED <<nextId, up, server>>
    BY <1>a DEF ReadData, ReadHeader, Returns
  <1>2. PICK r \in Results : /\ results' = Append(results, r)
                             /\ r.call = msg[c].call
                             /\ ReadData(c) => r.id = msg[c].id
    <2>1. PICK i \in Ids \cup {NoId}, data \in BOOLEAN :
            Returns(c, i, data) /\ (ReadData(c) => i = msg[c].id)
      BY <1>a DEF ReadData, ReadHeader, Messages
    <2> DEFINE r == [call |-> msg[c].call, id |-> i, data |-> data]
    <2>2. r \in Results
      BY <1>a, <2>1 DEF Results, Messages
    <2> QED BY <2>1, <2>2 DEF Returns
  <1>3. /\ Len(results') = Len(results) + 1
        /\ \A k \in 1 .. Len(results) : results'[k] = results[k]
        /\ results'[Len(results) + 1] = r
    BY <1>a, <1>2, Appended
  <1>4. Len(results) < nextId /\ Len(results') <= nextId'
    BY <1>a, <1>1, <1>3 DEF IOwn
  <1>5. InTurn' => InTurn /\ msg[c].call = Len(results)
    <2>1. /\ \A j \in 1 .. Len(results) : j \in 1 .. Len(results')
          /\ Len(results) + 1 \in 1 .. Len(results')
      BY <1>a, <1>3
    <2> QED BY <1>a, <1>2, <1>3, <2>1 DEF InTurn
  <1>6. ASSUME InTurn'
        PROVE  /\ ReadData(c) /\ msg[c].id = Len(results) /\ nextId = Len(results) + 1
               /\ down' = <<>> /\ hostPc \notin {"reply", "replyBody"}
               /\ \A j \in Ids : ~Underway(j) /\ j \notin pending
    <2>1. PICK i : i = Len(results)
      OBVIOUS
    <2>2. During(c) /\ msg[c].call = i /\ pc[c] # "idle"
      BY <1>a, <1>1, <1>5, <1>6, <2>1 DEF IOwn
    <2>3. /\ nextId = i + 1 /\ ReplyAhead(c, i)
          /\ \A j \in Ids : Underway(j) \/ j \in pending => j = i
      BY <2>1, <2>2 DEF During
    <2>4. ReadData(c)
      <3> SUFFICES ASSUME ReadHeader(c), Head(down).kind # "header" PROVE FALSE
        OBVIOUS
      <3>1. down # <<>> /\ pc[c] = "result"
        BY DEF ReadHeader
      <3>2. \/ down = <<Header(i, 0)>> \/ down = <<Header(i, 1)>>
            \/ down = <<Header(i, 1), Part(i, 1)>>
        BY <2>3, <3>1 DEF ReplyAhead
      <3>3. \A n : Header(i, n).kind = "header"
        BY DEF Header
      <3>4. \A n : Head(<<Header(i, n)>>) = Header(i, n)
        OBVIOUS
      <3>5. Head(<<Header(i, 1), Part(i, 1)>>) = Header(i, 1)
        OBVIOUS
      <3> QED BY <3>2, <3>3, <3>4, <3>5
    <2>5. /\ pc[c] = "data" /\ (msg[c].left > 0 => down # <<>>)
          /\ down' = Rest(down, msg[c].left)
      BY <2>4 DEF ReadData
    <2>6. /\ msg[c].id = i /\ msg[c].left \in {0, 1}
          /\ msg[c].left = 0 => down = <<>> /\ hostPc # "replyBody"
          /\ hostPc = "replyBody" => down = <<>>
          /\ down \in {<<>>, <<Part(i, 1)>>} /\ hostPc # "reply"
      BY <2>3, <2>5 DEF ReplyAhead
    <2>7. hostPc \notin {"reply", "replyBody"}
      BY <2>5, <2>6
    <2>8. Len(down') = 0 /\ down' \in Seq(Units)
      <3>1. /\ Len(down') = Len(down) - Taken(down, msg[c].left) /\ down' \in Seq(Units)
            /\ msg[c].left <= Len(down) => Taken(down, msg[c].left) = msg[c].left
        BY <1>a, <2>5, <2>6, Rested
      <3>2. Len(down) = msg[c].left
        <4>1. Len(<<Part(i, 1)>>) = 1 /\ Len(<< >>) = 0
          OBVIOUS
        <4>2. CASE msg[c].left = 0
          BY <2>6, <4>1, <4>2
        <4>3. CASE msg[c].left = 1
          <5>1. 1 > 0
            OBVIOUS
          <5>2. down # <<>>
            BY <2>5, <4>3, <5>1
          <5>3. down = <<Part(i, 1)>>
            BY <2>6, <5>2
          <5> QED BY <4>1, <4>3, <5>3
        <4> QED BY <2>6, <4>2, <4>3
      <3> QED BY <3>1, <3>2, <2>6
    <2>9. down' = <<>>
      BY <2>8, EmptySeq
    <2>10. ~Underway(i) /\ i \notin pending
      BY <1>a, <2>1, <2>2, <2>5, DuringCall
    <2> QED BY <2>1, <2>3, <2>4, <2>6, <2>7, <2>9, <2>10
  <1>7. OwnReply'
    <2> SUFFICES ASSUME NEW k \in 1 .. Len(results'),
                        \A j \in 1 .. k : results'[j].call = j - 1
                 PROVE  results'[k].id = k - 1
      BY DEF OwnReply
    <2>1. CASE k \in 1 .. Len(results)
      <3>1. \A j \in 1 .. k : j \in 1 .. Len(results) /\ results'[j] = results[j]
        BY <1>a, <1>3, <2>1
      <3>2. \A j \in 1 .. k : results[j].call = j - 1
        BY <3>1
      <3>3. results[k].id = k - 1
        BY <2>1, <3>2 DEF IOwn, OwnReply
      <3> QED BY <1>3, <2>1, <3>3
    <2>2. CASE k = Len(results) + 1
      <3>1. InTurn'
        BY <1>3, <2>2 DEF InTurn
      <3> QED BY <1>a, <1>2, <1>3, <1>6, <2>2, <3>1
    <2> QED BY <1>a, <1>3, <2>1, <2>2
  <1>8. InTurn' => Between(c)' /\ During(c)'
    <2> SUFFICES ASSUME InTurn' PROVE Between(c)' /\ During(c)'
      OBVIOUS
    <2>1. NothingUnderway'
      BY <1>1, <1>6, NothingNew DEF NothingUnderway
    <2> QED BY <1>1, <1>6, <2>1 DEF Between, During
  <1> QED BY <1>1, <1>4, <1>7, <1>8 DEF IOwn

OneCaller == \E c : Callers = {c}

LEMMA OwnInit == Init => IOwn
  <1> SUFFICES ASSUME Init PROVE IOwn
    OBVIOUS
  <1>1. /\ Len(results) = 0 /\ nextId = 0 /\ down = <<>> /\ hostPc = "loop"
        /\ \A c \in Callers : pc[c] = "idle"
        /\ \A i \in Ids : ~Underway(i) /\ i \notin pending
    BY DEF Init, Underway, IdsIn
  <1> QED BY <1>1 DEF IOwn, OwnReply, Between, During, NothingUnderway

LEMMA OwnStep ==
  ASSUME OneCaller
  PROVE  IInv /\ IOwn /\ ShortBodies /\ [Next]_vars => IOwn'
  <1> SUFFICES ASSUME IInv, IOwn, ShortBodies, [Next]_vars PROVE IOwn'
    OBVIOUS
  <1>1. PICK c : Callers = {c}
    BY DEF OneCaller
  <1>2. Kinds
    BY StepKinds
  <1>3. ASSUME NEW d \in Callers, codius_request_new(d) \/ codius_read_result(d) \/ Call(d)
        PROVE  IOwn'
    BY <1>1, <1>2, <1>3, CallerOwn, ReturnOwn DEF Call
  <1>4. ASSUME \/ Host \/ OtherChild \/ \E i \in Ids : node_finish_ipc(i)
               \/ \E d \in Callers : Signal(d)
        PROVE  IOwn'
    <2>1. UNCHANGED program
      BY <1>4 DEF Host, handle_ipc_read, ReadRequestBody, WriteReply, handle_trap, OtherChild,
                  Signal, Sigchld, node_finish_ipc, env
    <2> QED BY <1>2, <1>4, <2>1, HostOwn
  <1>5. CASE UNCHANGED vars
    BY <1>5 DEF vars, program, server, IOwn, OwnReply, InTurn, Between, During, ReplyAhead,
                NothingUnderway, Underway, IdsIn
  <1> QED BY <1>3, <1>4, <1>5 DEF Next

\* A program of one thread that makes one sync call after the other, all of
\* whose messages come whole, gets from each call the result of the request that
\* call made, whatever signals arrive and whichever way the host polls.  With
\* two threads it need not.
THEOREM OneThreadGetsOwnReply ==
  ASSUME OneCaller
  PROVE  Spec => SyncCallGetsOwnReply
  <1>1. IInv /\ IOwn /\ ShortBodies /\ [Next]_vars => IOwn'
    BY OwnStep
  <1>2. IOwn => OwnReply
    BY DEF IOwn
  <1>3. Spec => ([]ShortBodies => []OwnReply)
    BY <1>1, <1>2, OwnInit, Invariance, PTL DEF Spec
  <1> QED BY <1>3, PTL DEF SyncCallGetsOwnReply

=============================================================================
