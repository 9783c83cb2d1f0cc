---------------------------- MODULE TracerProofs ----------------------------
(***************************************************************************)
(* Proofs about Tracer, for any number of threads, events and foreign      *)
(* SIGCHLDs, and any depth of nested handlers.                             *)
(***************************************************************************)
EXTENDS Tracer, TLAPS

HeldBy(s, t) == \E i \in 1 .. Len(s) : Holds(s[i], t)

\* Before fork there is no thread.
Unborn == state[Main] = "none" => \A t \in Tids : state[t] = "none"

IInv == TypeOK /\ Unborn /\ StopsHeld /\ NoLostWakeup

-----------------------------------------------------------------------------
(* The stack of invocations.                                               *)

LEMMA PushStack ==
  ASSUME NEW s \in Seq(Frames), NEW f \in Frames
  PROVE  /\ <<f>> \o s \in Seq(Frames) /\ <<f>> \o s # <<>>
         /\ Len(<<f>> \o s) = Len(s) + 1
         /\ (<<f>> \o s)[1] = f
         /\ \A i \in 1 .. Len(s) : (<<f>> \o s)[i + 1] = s[i]
  OBVIOUS

LEMMA PopStack ==
  ASSUME NEW s \in Seq(Frames), s # <<>>
  PROVE  /\ Tail(s) \in Seq(Frames) /\ Head(s) \in Frames /\ Head(s) = s[1]
         /\ Len(s) \in Nat /\ Len(s) > 0 /\ Len(Tail(s)) = Len(s) - 1
         /\ \A i \in 1 .. Len(s) - 1 : Tail(s)[i] = s[i + 1]
  OBVIOUS

LEMMA PushHeld ==
  ASSUME NEW s \in Seq(Frames), NEW f \in Frames, NEW t, HeldBy(s, t)
  PROVE  HeldBy(<<f>> \o s, t)
  <1>1. PICK i \in 1 .. Len(s) : Holds(s[i], t)
    BY DEF HeldBy
  <1>2. i + 1 \in 1 .. Len(<<f>> \o s) /\ (<<f>> \o s)[i + 1] = s[i]
    BY PushStack
  <1> QED BY <1>1, <1>2 DEF HeldBy

LEMMA TopHeld ==
  ASSUME NEW s \in Seq(Frames), NEW f \in Frames, NEW t, Holds(f, t)
  PROVE  HeldBy(<<f>> \o s, t)
  <1>1. 1 \in 1 .. Len(<<f>> \o s) /\ (<<f>> \o s)[1] = f
    BY PushStack
  <1> QED BY <1>1 DEF HeldBy

\* Leaving the top frame keeps what the others hold.
LEMMA PopHeld ==
  ASSUME NEW s \in Seq(Frames), s # <<>>, NEW t, HeldBy(s, t), ~Holds(Head(s), t)
  PROVE  HeldBy(Tail(s), t)
  <1>1. PICK i \in 1 .. Len(s) : Holds(s[i], t)
    BY DEF HeldBy
  <1>2. i # 1
    BY <1>1, PopStack
  <1>3. i - 1 \in 1 .. Len(Tail(s)) /\ Tail(s)[i - 1] = s[i]
    <2>1. i \in Nat /\ i > 1 /\ i - 1 \in 1 .. Len(s) - 1 /\ (i - 1) + 1 = i
      BY <1>2, PopStack
    <2> QED BY <2>1, PopStack
  <1> QED BY <1>1, <1>3 DEF HeldBy

LEMMA ReplaceHeld ==
  ASSUME NEW s \in Seq(Frames), s # <<>>, NEW f \in Frames, NEW t, HeldBy(s, t),
         Holds(Head(s), t) => Holds(f, t)
  PROVE  HeldBy(<<f>> \o Tail(s), t)
  <1>1. Tail(s) \in Seq(Frames)
    BY PopStack
  <1>2. CASE Holds(f, t)
    BY <1>1, <1>2, TopHeld
  <1>3. CASE ~Holds(Head(s), t)
    BY <1>1, <1>3, PopHeld, PushHeld
  <1> QED BY <1>2, <1>3

WaitFrame == [pc |-> "wait", tid |-> NoTid, ev |-> "none"]

LEMMA WaitFrameType == WaitFrame \in Frames
  BY DEF WaitFrame, Frames

-----------------------------------------------------------------------------
(* Type correctness.                                                       *)

LEMMA StopAllType ==
  ASSUME TypeOK, NEW T, NEW w \in Whys, StopAll(T, w)
  PROVE  /\ state' \in [Tids -> States]
         /\ why' \in [Tids -> Whys]
         /\ seen' \subseteq Tids
         /\ sigchld' \in BOOLEAN
  BY DEF StopAll, TypeOK, States

LEMMA ContinuedType ==
  ASSUME TypeOK, NEW T
  PROVE  Continued(T) \in [Tids -> States]
  BY DEF Continued, After, TypeOK, States

LEMMA ReleaseType ==
  ASSUME TypeOK, NEW sig, NEW T, releaseChild(sig, T)
  PROVE  /\ state' \in [Tids -> States]
         /\ why' \in [Tids -> Whys]
         /\ seen' \subseteq Tids /\ traced' \subseteq Tids
         /\ watching' \in BOOLEAN /\ polling' \in BOOLEAN
         /\ UNCHANGED <<newborn, enteredMain, scratch>>
  <1> DEFINE hit == Stopped(Main)
             others == IF hit /\ sig = "SIGKILL" THEN Ending \ {Main} ELSE {}
             st(t) == IF t = Main /\ hit
                        THEN IF sig = "SIGKILL" THEN "dying" ELSE After(t)
                      ELSE IF t \in others THEN IF t \in T THEN "dying" ELSE "stopped"
                      ELSE Continued(T)[t]
  <1>1. /\ traced' = IF hit THEN traced \ {Main} ELSE traced
        /\ state' = [t \in Tids |-> st(t)]
        /\ why' = [t \in Tids |-> IF t \in others THEN "exit" ELSE why[t]]
        /\ seen' = seen \ others
        /\ watching' = FALSE /\ polling' = FALSE
        /\ UNCHANGED <<newborn, enteredMain, scratch>>
    BY DEF releaseChild
  <1>2. ASSUME NEW t \in Tids PROVE st(t) \in States
    <2>1. Continued(T)[t] \in States
      BY ContinuedType
    <2>2. After(t) \in States
      BY DEF After, States
    <2> QED BY <2>1, <2>2 DEF States
  <1>3. why' \in [Tids -> Whys]
    BY <1>1 DEF TypeOK, Whys
  <1>4. state' \in [Tids -> States]
    BY <1>1, <1>2
  <1> QED BY <1>1, <1>3, <1>4 DEF TypeOK

LEMMA StackType ==
  ASSUME TypeOK, stack # <<>>
  PROVE  /\ Caller \in Frames /\ Tail(stack) \in Seq(Frames)
         /\ Loop => stack' \in Seq(Frames)
         /\ \A pc \in {"wait", "got", "vfs"} : Goto(pc) => stack' \in Seq(Frames)
  <1>1. stack \in Seq(Frames)
    BY DEF TypeOK
  <1>2. Caller \in Frames /\ Tail(stack) \in Seq(Frames)
    BY <1>1, PopStack DEF Caller
  <1>3. Loop => stack' \in Seq(Frames)
    BY <1>2, WaitFrameType, PushStack DEF Loop, WaitFrame
  <1>4. ASSUME NEW pc \in {"wait", "got", "vfs"}, Goto(pc) PROVE stack' \in Seq(Frames)
    <2>1. [pc |-> pc, tid |-> Caller.tid, ev |-> Caller.ev] \in Frames
      BY <1>2 DEF Frames
    <2> QED BY <1>2, <1>4, <2>1, PushStack DEF Goto
  <1> QED BY <1>2, <1>3, <1>4

LEMMA ContAndLoopType ==
  ASSUME TypeOK, stack # <<>>, NEW T, ContAndLoop(T),
         enteredMain' \in BOOLEAN, scratch' \in {"unset", "valid", "stale"},
         watching' \in BOOLEAN, polling' \in BOOLEAN, exits' \in Nat
  PROVE  TypeOK'
  <1>1. state' \in [Tids -> States]
    BY ContinuedType DEF ContAndLoop
  <1>2. stack' \in Seq(Frames)
    BY StackType DEF ContAndLoop
  <1> QED BY <1>1, <1>2 DEF ContAndLoop, TypeOK

LEMMA FailType == ASSUME TypeOK, NEW how \in Ends, Fail(how) PROVE TypeOK'
  BY DEF Fail, TypeOK, kernel, priv

LEMMA KernelType == ASSUME TypeOK, Kernel PROVE TypeOK'
  <1> USE DEF Quiet, priv, kernel
  <1>1. CASE Boot
    <2>1. CASE boot = "setpgid" /\ boot' = "raise" /\ UNCHANGED <<state, why, seen, sigchld>>
      BY <1>1, <2>1 DEF Boot, TypeOK, Boots
    <2>2. CASE boot' \in Boots /\ \E w \in Whys : StopAll({Main}, w)
      BY <1>1, <2>2, StopAllType DEF Boot, TypeOK
    <2> QED BY <1>1, <2>1, <2>2 DEF Boot, Boots, Whys
  <1>2. CASE \E t \in Tids : Trap(t) \/ Signal(t) \/ Exit(t)
    <2>1. PICK t \in Tids : Trap(t) \/ Signal(t) \/ Exit(t)
      BY <1>2
    <2>2. PICK w \in Whys : StopAll({t}, w)
      BY <2>1 DEF Trap, Signal, Exit, Whys
    <2> QED BY <2>1, <2>2, StopAllType DEF Trap, Signal, Exit, UserStep, TypeOK
  <1>3. CASE Exec
    <2>1. StopAll({Main}, "exec") /\ "exec" \in Whys
      BY <1>3 DEF Exec, Whys
    <2> QED BY <1>3, <2>1, StopAllType DEF Exec, UserStep, TypeOK
  <1>4. CASE \E t \in Tids, k \in Kids : Clone(t, k)
    <2>1. PICK t \in Tids, k \in Kids : Clone(t, k)
      BY <1>4
    <2>2. k \in Tids /\ "clone" \in Whys /\ {"stopped", "born"} \subseteq States
      BY DEF Tids, Whys, States
    <2>3. state' \in [Tids -> States] /\ why' \in [Tids -> Whys]
          /\ newborn' \in [Tids -> Kids \cup {NoTid}]
      BY <2>1, <2>2 DEF Clone, TypeOK
    <2> QED BY <2>1, <2>2, <2>3 DEF Clone, UserStep, TypeOK
  <1>5. CASE \E k \in Kids : Born(k)
    <2>1. PICK k \in Kids : Born(k)
      BY <1>5
    <2>2. StopAll({k}, "birth") /\ "birth" \in Whys
      BY <2>1 DEF Born, Whys
    <2> QED BY <2>1, <2>2, StopAllType DEF Born, TypeOK
  <1>6. CASE ExitGroup
    <2>1. StopAll(Ending, "exit") /\ "exit" \in Whys
      BY <1>6 DEF ExitGroup, Whys
    <2> QED BY <1>6, <2>1, StopAllType DEF ExitGroup, TypeOK
  <1>7. CASE \E t \in Tids : Die(t)
    <2>1. PICK t \in Tids : Die(t)
      BY <1>7
    <2>2. state' \in [Tids -> States]
      BY <2>1 DEF Die, TypeOK, States
    <2> QED BY <2>1, <2>2 DEF Die, TypeOK
  <1>8. CASE \E t \in Tids : Write(t)
    BY <1>8 DEF Write, UserStep, TypeOK
  <1>9. CASE OtherChild
    BY <1>9 DEF OtherChild, TypeOK
  <1> QED BY <1>1, <1>2, <1>3, <1>4, <1>5, <1>6, <1>7, <1>8, <1>9 DEF Kernel

LEMMA HandlersType == ASSUME TypeOK, Handlers PROVE TypeOK'
  <1> USE DEF kernel, priv
  <1>1. CASE handle_trap
    BY <1>1, WaitFrameType, PushStack DEF handle_trap, WaitFrame, TypeOK
  <1>2. CASE waitpidNone
    BY <1>2, PopStack DEF waitpidNone, Top, TypeOK
  <1>3. CASE \E t \in Tids : waitpid(t)
    <2>1. PICK t \in Tids : waitpid(t)
      BY <1>3
    <2>2. stack # <<>> /\ Tail(stack) \in Seq(Frames)
      BY <2>1, StackType DEF waitpid, Top
    <2>3. CASE Reportable(t) /\ seen' = seen \cup {t} /\ UNCHANGED <<state, host>>
               /\ stack' = <<[pc |-> "got", tid |-> t, ev |-> why[t]]>> \o Tail(stack)
      <3>1. [pc |-> "got", tid |-> t, ev |-> why[t]] \in Frames
        BY DEF Frames, TypeOK
      <3>2. stack' \in Seq(Frames)
        BY <2>2, <2>3, <3>1, PushStack
      <3> QED BY <2>1, <2>3, <3>2 DEF waitpid, TypeOK
    <2>4. CASE state' = [state EXCEPT ![t] = "gone"] /\ UNCHANGED <<seen, stack, host>>
      BY <2>1, <2>4 DEF waitpid, TypeOK, States
    <2>5. CASE host' = "assert_wait" /\ UNCHANGED <<state, seen, stack>>
      BY <2>1, <2>5 DEF waitpid, TypeOK, Ends
    <2> QED BY <2>1, <2>3, <2>4, <2>5 DEF waitpid
  <1>4. ASSUME stack # <<>>, NEW T, ContAndLoop(T), UNCHANGED priv PROVE TypeOK'
    BY <1>4, ContAndLoopType DEF TypeOK
  <1>5. ASSUME NEW how \in Ends, Fail(how) PROVE TypeOK'
    BY <1>5, FailType
  <1>6. CASE handleSeccompEvent
    <2>1. stack # <<>>
      BY <1>6 DEF handleSeccompEvent, Got, Top
    <2>2. CASE Goto("vfs") /\ UNCHANGED <<kernel, boot, sigchld, priv, unread, host, stops>>
      <3>1. stack' \in Seq(Frames)
        BY <2>1, <2>2, StackType
      <3> QED BY <2>2, <3>1 DEF TypeOK
    <2> QED BY <1>4, <1>5, <1>6, <2>1, <2>2 DEF handleSeccompEvent, Ends
  <1>7. CASE finishSeccompEvent
    BY <1>4, <1>5, <1>7 DEF finishSeccompEvent, Top, Ends
  <1>8. CASE handleExecEvent
    <2>1. stack # <<>>
      BY <1>8 DEF handleExecEvent, Got, Top
    <2>2. CASE /\ enteredMain' = TRUE /\ scratch' = "valid"
               /\ ContAndLoop({Caller.tid}) /\ UNCHANGED <<watching, exits, polling>>
      BY <2>1, <2>2, ContAndLoopType DEF TypeOK
    <2> QED BY <1>4, <1>5, <1>8, <2>1, <2>2 DEF handleExecEvent, Ends
  <1>9. CASE handleClone
    BY <1>4, <1>9 DEF handleClone, Got, Top
  <1>10. CASE handleTrapSignal
    BY <1>5, <1>10 DEF handleTrapSignal, Ends
  <1>11. ASSUME stack # <<>>, NEW sig, NEW T, releaseChild(sig, T), Loop,
                exits' \in Nat, UNCHANGED <<boot, sigchld, unread, host, stops>>
         PROVE  TypeOK'
    <2>1. stack' \in Seq(Frames)
      BY <1>11, StackType
    <2> QED BY <1>11, <2>1, ReleaseType DEF TypeOK
  <1>12. CASE handleExitEvent
    <2>1. stack # <<>> /\ exits + 1 \in Nat /\ exits \in Nat
      BY <1>12 DEF handleExitEvent, Got, Top, TypeOK
    <2> QED BY <1>4, <1>11, <1>12, <2>1 DEF handleExitEvent
  <1>13. CASE handleSignalStop
    <2>1. stack # <<>> /\ exits \in Nat
      BY <1>13 DEF handleSignalStop, Got, Top, TypeOK
    <2> QED BY <1>4, <1>11, <1>13, <2>1 DEF handleSignalStop
  <1> QED BY <1>1, <1>2, <1>3, <1>6, <1>7, <1>8, <1>9, <1>10, <1>12, <1>13
          DEF Handlers

LEMMA TypeStep == ASSUME TypeOK, [Next]_vars PROVE TypeOK'
  <1>1. CASE Kernel
    BY <1>1, KernelType
  <1>2. CASE Handlers
    BY <1>2, HandlersType
  <1>3. CASE spawn
    <2>1. Main \in Tids /\ "user" \in States /\ {"setpgid", "raise", "exec"} \subseteq Boots
      BY DEF Tids, States, Boots
    <2> QED BY <1>3, <2>1 DEF spawn, TypeOK
  <1>4. CASE kill
    BY <1>4, ReleaseType DEF kill, TypeOK
  <1>5. CASE onReadReady
    BY <1>5 DEF onReadReady, TypeOK, kernel, priv
  <1>6. CASE UNCHANGED vars
    BY <1>6 DEF vars, kernel, priv, TypeOK
  <1> QED BY <1>1, <1>2, <1>3, <1>4, <1>5, <1>6 DEF Next

-----------------------------------------------------------------------------
(* Every thread whose stop has been seen is held.                          *)

\* The kernel never turns a seen thread back into a stopped one.
LEMMA KernelKeeps ==
  ASSUME TypeOK, Kernel
  PROVE  /\ stack' = stack /\ host' = host
         /\ \A t \in seen' : t \in seen /\ (Stopped(t)' => Stopped(t))
  <1> USE DEF Quiet, kernel, priv
  <1>1. ASSUME NEW T, NEW w, StopAll(T, w), traced' = traced
        PROVE  \A t \in seen' : t \in seen /\ (Stopped(t)' => Stopped(t))
    BY <1>1 DEF StopAll, Stopped, TypeOK
  <1>2. ASSUME UNCHANGED <<seen, traced>>,
               \A t \in Tids : state'[t] = "stopped" => state[t] = "stopped"
        PROVE  \A t \in seen' : t \in seen /\ (Stopped(t)' => Stopped(t))
    BY <1>2 DEF Stopped, TypeOK
  <1>3. CASE Boot
    BY <1>1, <1>2, <1>3 DEF Boot
  <1>4. CASE \E t \in Tids : Trap(t) \/ Signal(t) \/ Exit(t)
    BY <1>1, <1>4 DEF Trap, Signal, Exit, UserStep
  <1>5. CASE Exec \/ ExitGroup
    BY <1>1, <1>5 DEF Exec, ExitGroup
  <1>6. CASE \E t \in Tids, k \in Kids : Clone(t, k)
    <2>1. PICK u \in Tids, k \in Kids : Clone(u, k)
      BY <1>6
    <2>2. k \in Tids /\ u # k
      BY <2>1 DEF Clone, UserStep, Tids
    <2>3. ASSUME NEW t \in seen' PROVE t \in seen /\ (Stopped(t)' => Stopped(t))
      <3>1. t \in seen /\ t # u /\ t \in Tids
        BY <2>1, <2>3 DEF Clone, TypeOK
      <3>2. CASE t = k
        BY <2>1, <2>2, <3>1, <3>2 DEF Clone, Stopped, TypeOK
      <3>3. CASE t # k
        BY <2>1, <2>2, <3>1, <3>3 DEF Clone, Stopped, TypeOK
      <3> QED BY <3>1, <3>2, <3>3
    <2> QED BY <2>1, <2>3 DEF Clone
  <1>7. CASE \E k \in Kids : Born(k)
    BY <1>1, <1>7 DEF Born
  <1>8. CASE \E t \in Tids : Die(t)
    <2>1. PICK u \in Tids : Die(u)
      BY <1>8
    <2>2. \A t \in Tids : state'[t] = "stopped" => state[t] = "stopped"
      BY <2>1 DEF Die, TypeOK
    <2> QED BY <1>2, <2>1, <2>2 DEF Die
  <1>9. CASE (\E t \in Tids : Write(t)) \/ OtherChild
    BY <1>2, <1>9 DEF Write, OtherChild, UserStep
  <1> QED BY <1>3, <1>4, <1>5, <1>6, <1>7, <1>8, <1>9 DEF Kernel

\* Continuing a set of threads leaves none of them stopped and stops no other.
LEMMA ContinuedKeeps ==
  ASSUME TypeOK, NEW T, state' = Continued(T), traced' = traced
  PROVE  \A t \in Tids : Stopped(t)' => Stopped(t) /\ t \notin T
  BY DEF Continued, After, Stopped, TypeOK

LEMMA ReleaseKeeps ==
  ASSUME TypeOK, NEW sig, NEW T, releaseChild(sig, T)
  PROVE  /\ seen' \subseteq seen
         /\ \A t \in seen' : Stopped(t)' => Stopped(t) /\ t \notin T /\ t # Main
  <1> DEFINE hit == Stopped(Main)
             others == IF hit /\ sig = "SIGKILL" THEN Ending \ {Main} ELSE {}
             st(t) == IF t = Main /\ hit
                        THEN IF sig = "SIGKILL" THEN "dying" ELSE After(t)
                      ELSE IF t \in others THEN IF t \in T THEN "dying" ELSE "stopped"
                      ELSE Continued(T)[t]
  <1>1. /\ traced' = IF hit THEN traced \ {Main} ELSE traced
        /\ state' = [t \in Tids |-> st(t)]
        /\ seen' = seen \ others
    BY DEF releaseChild
  <1>2. ASSUME NEW t \in seen', Stopped(t)'
        PROVE  Stopped(t) /\ t \notin T /\ t # Main
    <2>1. t \in Tids /\ t \notin others /\ t \in traced' /\ state'[t] = "stopped"
      BY <1>1, <1>2 DEF TypeOK, Stopped
    <2>2. ~(t = Main /\ hit) /\ t \in traced
      BY <1>1, <2>1
    <2>3. Continued(T)[t] = "stopped"
      BY <1>1, <2>1, <2>2
    <2>4. state[t] = "stopped" /\ ~(t \in T /\ Stopped(t))
      BY <2>1, <2>3 DEF Continued, After
    <2> QED BY <2>1, <2>2, <2>4 DEF Stopped
  <1> QED BY <1>1, <1>2

\* What a step of a handler leaves on the stack, given that the threads still
\* stopped are not the one its top frame holds.
LEMMA LoopHolds ==
  ASSUME TypeOK, StopsHeld, host = "up", stack # <<>>, Loop, seen' \subseteq seen,
         \A t \in seen' : Stopped(t)' => Stopped(t) /\ t # Caller.tid
  PROVE  StopsHeld'
  <1>1. stack \in Seq(Frames) /\ stack' = <<WaitFrame>> \o Tail(stack)
    BY DEF TypeOK, Loop, WaitFrame
  <1>2. ASSUME NEW t \in seen', Stopped(t)' PROVE HeldBy(stack', t)
    <2>1. HeldBy(stack, t) /\ t # Caller.tid
      BY <1>2 DEF StopsHeld, HeldBy
    <2>2. ~Holds(Head(stack), t)
      BY <2>1 DEF Holds, Caller
    <2> QED BY <1>1, <2>1, <2>2, ReplaceHeld, WaitFrameType
  <1> QED BY <1>2 DEF StopsHeld, HeldBy

LEMMA SameHolds ==
  ASSUME StopsHeld, UNCHANGED <<stack, host>>, seen' \subseteq seen,
         \A t \in seen' : Stopped(t)' => Stopped(t)
  PROVE  StopsHeld'
  BY DEF StopsHeld

LEMMA waitpidHolds ==
  ASSUME TypeOK, StopsHeld, NEW u \in Tids, waitpid(u)
  PROVE  StopsHeld'
  <1>1. host = "up" /\ stack # <<>> /\ stack \in Seq(Frames)
        /\ Head(stack).pc = "wait" /\ traced' = traced
    BY DEF waitpid, Top, TypeOK
  <1>2. CASE /\ Reportable(u) /\ seen' = seen \cup {u} /\ UNCHANGED <<state, host>>
             /\ stack' = <<[pc |-> "got", tid |-> u, ev |-> why[u]]>> \o Tail(stack)
    <2> DEFINE f == [pc |-> "got", tid |-> u, ev |-> why[u]]
    <2>1. f \in Frames
      BY DEF Frames, TypeOK
    <2>2. ASSUME NEW t \in seen', Stopped(t)' PROVE HeldBy(stack', t)
      <3>1. CASE t = u
        <4>1. Holds(f, t)
          BY <3>1 DEF Holds
        <4>2. Tail(stack) \in Seq(Frames)
          BY <1>1, PopStack
        <4> QED BY <1>2, <2>1, <4>1, <4>2, TopHeld
      <3>2. CASE t # u
        <4>1. t \in seen /\ Stopped(t)
          BY <1>1, <1>2, <2>2, <3>2 DEF Stopped
        <4>2. HeldBy(stack, t)
          BY <1>1, <4>1 DEF StopsHeld, HeldBy
        <4>3. ~Holds(Head(stack), t)
          BY <1>1 DEF Holds
        <4> QED BY <1>1, <1>2, <2>1, <4>2, <4>3, ReplaceHeld
      <3> QED BY <3>1, <3>2
    <2> QED BY <2>2 DEF StopsHeld, HeldBy
  <1>3. CASE state' = [state EXCEPT ![u] = "gone"] /\ UNCHANGED <<seen, stack, host>>
    <2>1. \A t \in seen' : Stopped(t)' => Stopped(t)
      BY <1>1, <1>3 DEF Stopped, TypeOK
    <2> QED BY <1>3, <2>1, SameHolds
  <1>4. CASE host' = "assert_wait"
    BY <1>4 DEF StopsHeld
  <1> QED BY <1>2, <1>3, <1>4 DEF waitpid

LEMMA HandlersHold == ASSUME TypeOK, StopsHeld, Handlers PROVE StopsHeld'
  <1> USE DEF kernel, priv
  <1>1. CASE handle_trap
    <2>1. stack \in Seq(Frames) /\ stack' = <<WaitFrame>> \o stack /\ host' = host
          /\ UNCHANGED kernel
      BY <1>1 DEF handle_trap, WaitFrame, TypeOK
    <2>2. ASSUME host' = "up", NEW t \in seen', Stopped(t)' PROVE HeldBy(stack', t)
      <3>1. HeldBy(stack, t)
        BY <2>1, <2>2 DEF StopsHeld, HeldBy, Stopped
      <3> QED BY <2>1, <3>1, PushHeld, WaitFrameType
    <2> QED BY <2>2 DEF StopsHeld, HeldBy
  <1>2. CASE waitpidNone
    <2>1. stack \in Seq(Frames) /\ stack # <<>> /\ stack' = Tail(stack) /\ host' = host
          /\ UNCHANGED kernel /\ Head(stack).pc = "wait"
      BY <1>2 DEF waitpidNone, Top, TypeOK
    <2>2. ASSUME host' = "up", NEW t \in seen', Stopped(t)' PROVE HeldBy(stack', t)
      <3>1. HeldBy(stack, t)
        BY <2>1, <2>2 DEF StopsHeld, HeldBy, Stopped
      <3>2. ~Holds(Head(stack), t)
        BY <2>1 DEF Holds
      <3> QED BY <2>1, <3>1, <3>2, PopHeld
    <2> QED BY <2>2 DEF StopsHeld, HeldBy
  <1>3. CASE \E t \in Tids : waitpid(t)
    BY <1>3, waitpidHolds
  <1>4. ASSUME host = "up", stack # <<>>, NEW T, Caller.tid \in T, ContAndLoop(T)
        PROVE  StopsHeld'
    <2>1. \A t \in seen' : Stopped(t)' => Stopped(t) /\ t # Caller.tid
      BY <1>4, ContinuedKeeps DEF ContAndLoop, TypeOK
    <2> QED BY <1>4, <2>1, LoopHolds DEF ContAndLoop
  <1>5. ASSUME NEW how \in Ends, Fail(how) PROVE StopsHeld'
    BY <1>5 DEF Fail, StopsHeld, Ends
  <1>6. CASE handleSeccompEvent
    <2>1. host = "up" /\ stack # <<>> /\ stack \in Seq(Frames) /\ Head(stack).pc = "got"
      BY <1>6 DEF handleSeccompEvent, Got, Top, TypeOK
    <2>2. CASE Goto("vfs") /\ UNCHANGED <<kernel, host>>
      <3> DEFINE f == [pc |-> "vfs", tid |-> Caller.tid, ev |-> Caller.ev]
      <3>1. f \in Frames /\ stack' = <<f>> \o Tail(stack)
        BY <2>1, <2>2, StackType DEF Goto, Frames
      <3>2. ASSUME NEW t \in seen', Stopped(t)' PROVE HeldBy(stack', t)
        <4>1. HeldBy(stack, t)
          BY <2>1, <2>2, <3>2 DEF StopsHeld, HeldBy, Stopped
        <4>2. Holds(Head(stack), t) => Holds(f, t)
          BY DEF Holds, Caller
        <4> QED BY <2>1, <3>1, <4>1, <4>2, ReplaceHeld
      <3> QED BY <3>2 DEF StopsHeld, HeldBy
    <2> QED BY <1>4, <1>5, <1>6, <2>1, <2>2 DEF handleSeccompEvent, Ends
  <1>7. CASE finishSeccompEvent
    BY <1>4, <1>5, <1>7 DEF finishSeccompEvent, Top, Ends
  <1>8. CASE handleExecEvent
    BY <1>4, <1>5, <1>8 DEF handleExecEvent, Got, Top, Ends
  <1>9. CASE handleClone
    BY <1>4, <1>9 DEF handleClone, Got, Top
  <1>10. CASE handleTrapSignal
    BY <1>5, <1>10 DEF handleTrapSignal, Ends
  <1>11. ASSUME host = "up", stack # <<>>, NEW sig, NEW T, releaseChild(sig, T), Loop,
                Caller.tid \in T \cup {Main}
         PROVE  StopsHeld'
    <2>1. seen' \subseteq seen
          /\ \A t \in seen' : Stopped(t)' => Stopped(t) /\ t # Caller.tid
      BY <1>11, ReleaseKeeps
    <2> QED BY <1>11, <2>1, LoopHolds
  <1>12. CASE handleExitEvent
    BY <1>4, <1>11, <1>12 DEF handleExitEvent, Got, Top
  <1>13. CASE handleSignalStop
    BY <1>4, <1>11, <1>13 DEF handleSignalStop, Got, Top
  <1> QED BY <1>1, <1>2, <1>3, <1>6, <1>7, <1>8, <1>9, <1>10, <1>12, <1>13
          DEF Handlers

LEMMA HeldStep == ASSUME TypeOK, StopsHeld, [Next]_vars PROVE StopsHeld'
  <1>1. CASE Kernel
    BY <1>1, KernelKeeps, SameHolds
  <1>2. CASE Handlers
    BY <1>2, HandlersHold
  <1>3. CASE spawn
    <2>1. \A t \in seen' : ~Stopped(t)'
      BY <1>3 DEF spawn, Stopped, TypeOK, Tids
    <2> QED BY <1>3, <2>1, SameHolds DEF spawn
  <1>4. CASE kill
    BY <1>4, ReleaseKeeps, SameHolds DEF kill
  <1>5. CASE onReadReady \/ UNCHANGED vars
    BY <1>5, SameHolds DEF onReadReady, vars, kernel, priv, Stopped
  <1> QED BY <1>1, <1>2, <1>3, <1>4, <1>5 DEF Next

-----------------------------------------------------------------------------
(* No stop is left without a wakeup.                                       *)

LEMMA UnbornStep == ASSUME TypeOK, Unborn, [Next]_vars PROVE Unborn'
  <1> SUFFICES ASSUME state'[Main] = "none" PROVE \A t \in Tids : state'[t] = "none"
    BY DEF Unborn
  <1> USE DEF kernel, priv, Quiet
  <1>0. Main \in Tids /\ Kids \subseteq Tids
    BY DEF Tids
  <1>1. ASSUME NEW T, state' = Continued(T) PROVE state' = state
    <2>1. state[Main] = "none"
      BY <1>0, <1>1 DEF Continued, After
    <2>2. \A t \in Tids : state[t] = "none"
      BY <2>1 DEF Unborn
    <2> QED BY <1>1, <2>2 DEF Continued, Stopped, TypeOK
  <1>2. ASSUME NEW sig, NEW T, releaseChild(sig, T) PROVE state' = state
    <2>1. state[Main] = "none"
      BY <1>0, <1>2 DEF releaseChild, Continued, After
    <2>2. \A t \in Tids : state[t] = "none"
      BY <2>1 DEF Unborn
    <2>3. ~Stopped(Main)
      BY <1>0, <2>2 DEF Stopped
    <2>4. state' = [t \in Tids |-> Continued(T)[t]]
      BY <1>2, <2>3 DEF releaseChild
    <2> QED BY <2>2, <2>4 DEF Continued, Stopped, TypeOK
  <1>3. ASSUME NEW T, NEW w, StopAll(T, w), T # {}, \A t \in T : state[t] # "none" /\ t \in Tids
        PROVE  FALSE
    <2>1. state'[Main] = state[Main]
      BY <1>0, <1>3 DEF StopAll
    <2>2. \A t \in Tids : state[t] = "none"
      BY <2>1 DEF Unborn
    <2> QED BY <1>3, <2>2
  <1>4. CASE Kernel
    <2>1. CASE Boot
      BY <1>0, <1>3, <2>1 DEF Boot, Unborn
    <2>2. CASE \E t \in Tids : Trap(t) \/ Signal(t) \/ Exit(t)
      BY <1>3, <2>2 DEF Trap, Signal, Exit, UserStep
    <2>3. CASE Exec
      <3>1. StopAll({Main}, "exec") /\ state[Main] = "user"
        BY <2>3 DEF Exec, UserStep
      <3>2. {Main} # {} /\ \A t \in {Main} : state[t] # "none" /\ t \in Tids
        BY <1>0, <3>1
      <3> QED BY <1>3, <3>1, <3>2
    <2>4. CASE \E t \in Tids, k \in Kids : Clone(t, k)
      <3>1. PICK t \in Tids, k \in Kids : Clone(t, k)
        BY <2>4
      <3>2. state[Main] = "none"
        BY <1>0, <3>1 DEF Clone, TypeOK
      <3> QED BY <3>1, <3>2 DEF Clone, UserStep, Unborn
    <2>5. CASE \E k \in Kids : Born(k)
      BY <1>0, <1>3, <2>5 DEF Born
    <2>6. CASE ExitGroup
      <3>1. \A t \in Ending : state[t] # "none" /\ t \in Tids
        BY DEF Ending, Live
      <3> QED BY <1>3, <2>6, <3>1 DEF ExitGroup
    <2>7. CASE \E t \in Tids : Die(t)
      <3>1. PICK t \in Tids : Die(t)
        BY <2>7
      <3>2. state[Main] = "none"
        BY <1>0, <3>1 DEF Die, TypeOK
      <3> QED BY <3>1, <3>2 DEF Die, Unborn
    <2>8. CASE (\E t \in Tids : Write(t)) \/ OtherChild
      BY <2>8 DEF Write, OtherChild, Unborn
    <2> QED BY <1>4, <2>1, <2>2, <2>3, <2>4, <2>5, <2>6, <2>7, <2>8 DEF Kernel
  <1>5. CASE \E t \in Tids : waitpid(t)
    <2>1. PICK t \in Tids : waitpid(t)
      BY <1>5
    <2>2. state[Main] = "none"
      BY <1>0, <2>1 DEF waitpid, TypeOK
    <2>3. \A u \in Tids : state[u] = "none"
      BY <2>2 DEF Unborn
    <2> QED BY <2>1, <2>3 DEF waitpid, Reportable, Reapable, Stopped
  <1>6. state' = state => \A t \in Tids : state'[t] = "none"
    BY DEF Unborn
  <1>7. CASE Handlers
    BY <1>1, <1>2, <1>5, <1>6, <1>7
       DEF Handlers, handle_trap, waitpidNone, handleSeccompEvent, finishSeccompEvent,
           handleExecEvent, handleClone, handleTrapSignal, handleExitEvent,
           handleSignalStop, ContAndLoop, Fail
  <1>8. CASE spawn
    BY <1>0, <1>8 DEF spawn, TypeOK
  <1>9. CASE kill
    BY <1>2, <1>6, <1>9 DEF kill
  <1>10. CASE onReadReady \/ UNCHANGED vars
    BY <1>6, <1>10 DEF onReadReady, vars
  <1> QED BY <1>4, <1>7, <1>8, <1>9, <1>10 DEF Next

LEMMA WakeupStep ==
  ASSUME TypeOK, Unborn, NoLostWakeup, [Next]_vars
  PROVE  NoLostWakeup'
  <1> SUFFICES ASSUME host' = "up", watching', stack' = <<>>, ~sigchld'
               PROVE  \A t \in Tids : ~Reportable(t)' /\ ~Reapable(t)'
    BY DEF NoLostWakeup
  <1> USE DEF kernel, priv, Quiet
  <1>1. ASSUME UNCHANGED <<state, seen, traced, host, watching, stack, sigchld>>
        PROVE  \A t \in Tids : ~Reportable(t)' /\ ~Reapable(t)'
    BY <1>1 DEF NoLostWakeup, Reportable, Reapable, Stopped
  <1>2. CASE Kernel
    <2>1. CASE Boot
      BY <1>1, <2>1 DEF Boot, StopAll
    <2>2. CASE \E t \in Tids : Trap(t) \/ Signal(t) \/ Exit(t)
      BY <2>2 DEF Trap, Signal, Exit, StopAll
    <2>3. CASE Exec \/ ExitGroup
      BY <2>3 DEF Exec, ExitGroup, StopAll
    <2>4. CASE \E t \in Tids, k \in Kids : Clone(t, k)
      BY <2>4 DEF Clone
    <2>5. CASE \E k \in Kids : Born(k)
      BY <2>5 DEF Born, StopAll
    <2>6. CASE (\E t \in Tids : Die(t)) \/ OtherChild
      BY <2>6 DEF Die, OtherChild
    <2>7. CASE \E t \in Tids : Write(t)
      BY <1>1, <2>7 DEF Write
    <2> QED BY <1>2, <2>1, <2>2, <2>3, <2>4, <2>5, <2>6, <2>7 DEF Kernel
  <1>3. CASE spawn
    <2>1. \A t \in Tids : state'[t] \in {"none", "user"}
      BY <1>3 DEF spawn, Unborn, TypeOK
    <2> QED BY <2>1 DEF Reportable, Reapable, Stopped
  <1>4. CASE waitpidNone
    BY <1>4 DEF waitpidNone, Reportable, Reapable, Stopped
  <1>5. Loop \/ Goto("vfs") => stack' # <<>> \/ stack = <<>>
    <2>1. ASSUME stack # <<>>, Loop \/ Goto("vfs") PROVE stack' # <<>>
      <3>1. PICK f \in Frames : stack' = <<f>> \o Tail(stack)
        BY <2>1, StackType, WaitFrameType DEF Loop, Goto, WaitFrame, Frames
      <3> QED BY <2>1, <3>1, StackType, PushStack
    <2> QED BY <2>1
  <1>6. CASE Handlers
    <2>1. CASE handle_trap
      <3>1. stack' = <<WaitFrame>> \o stack /\ stack \in Seq(Frames)
        BY <2>1 DEF handle_trap, WaitFrame, TypeOK
      <3> QED BY <3>1, PushStack, WaitFrameType
    <2>2. CASE \E t \in Tids : waitpid(t)
      <3>1. PICK t \in Tids : waitpid(t)
        BY <2>2
      <3>2. stack # <<>> /\ [pc |-> "got", tid |-> t, ev |-> why[t]] \in Frames
            /\ Tail(stack) \in Seq(Frames)
        BY <3>1, StackType DEF waitpid, Top, Frames, TypeOK
      <3>3. stack' # <<>>
        BY <3>1, <3>2, PushStack DEF waitpid
      <3> QED BY <3>3
    <2>3. CASE ~(handle_trap \/ waitpidNone \/ \E t \in Tids : waitpid(t))
      <3>1. stack # <<>>
        BY <1>6, <2>3 DEF Handlers, handleSeccompEvent, finishSeccompEvent,
           handleExecEvent, handleClone, handleTrapSignal, handleExitEvent,
           handleSignalStop, Got, Top
      <3>2. Loop \/ Goto("vfs") \/ host' \in Ends
        BY <1>6, <2>3 DEF Handlers, handleSeccompEvent, finishSeccompEvent,
           handleExecEvent, handleClone, handleTrapSignal, handleExitEvent,
           handleSignalStop, ContAndLoop, Fail, Ends
      <3> QED BY <1>5, <3>1, <3>2 DEF Ends
    <2> QED BY <1>4, <2>1, <2>2, <2>3
  <1>7. CASE kill
    BY <1>7 DEF kill, releaseChild
  <1>8. CASE onReadReady \/ UNCHANGED vars
    BY <1>1, <1>8 DEF onReadReady, vars
  <1> QED BY <1>2, <1>3, <1>6, <1>7, <1>8 DEF Next

-----------------------------------------------------------------------------
(* The scratch area is known before a handler runs.                        *)

Calling(s) == \E i \in 1 .. Len(s) : s[i].pc = "vfs"
MainFirst ==
  /\ enteredMain => scratch # "unset"
  /\ Calling(stack) => enteredMain

LEMMA PushCalling ==
  ASSUME NEW s \in Seq(Frames), NEW f \in Frames, Calling(<<f>> \o s), f.pc # "vfs"
  PROVE  Calling(s)
  <1>1. PICK i \in 1 .. Len(<<f>> \o s) : (<<f>> \o s)[i].pc = "vfs"
    BY DEF Calling
  <1>2. i # 1
    BY <1>1, PushStack
  <1>3. Len(s) \in Nat /\ i - 1 \in 1 .. Len(s) /\ (<<f>> \o s)[i - 1 + 1] = s[i - 1]
    BY <1>1, <1>2, PushStack
  <1> QED BY <1>1, <1>3 DEF Calling

LEMMA PopCalling ==
  ASSUME NEW s \in Seq(Frames), s # <<>>, Calling(Tail(s))
  PROVE  Calling(s)
  <1>1. PICK i \in 1 .. Len(Tail(s)) : Tail(s)[i].pc = "vfs"
    BY DEF Calling
  <1>2. i + 1 \in 1 .. Len(s) /\ s[i + 1] = Tail(s)[i]
    BY <1>1, PopStack
  <1> QED BY <1>1, <1>2 DEF Calling

LEMMA LoopCalling ==
  ASSUME TypeOK, stack # <<>>, Loop, Calling(stack')
  PROVE  Calling(stack)
  <1>1. stack' = <<WaitFrame>> \o Tail(stack) /\ stack \in Seq(Frames)
    BY DEF Loop, WaitFrame, TypeOK
  <1>2. Tail(stack) \in Seq(Frames) /\ WaitFrame.pc # "vfs"
    BY <1>1, PopStack DEF WaitFrame
  <1>3. Calling(Tail(stack))
    BY <1>1, <1>2, PushCalling, WaitFrameType
  <1> QED BY <1>1, <1>3, PopCalling

LEMMA MainFirstStep == ASSUME TypeOK, MainFirst, [Next]_vars PROVE MainFirst'
  <1> USE DEF kernel, priv, Quiet
  <1>1. ASSUME enteredMain => enteredMain' /\ (scratch # "unset" => scratch' # "unset"),
               enteredMain' # enteredMain => scratch' # "unset",
               Calling(stack') => Calling(stack) \/ enteredMain
        PROVE  MainFirst'
    BY <1>1 DEF MainFirst, Calling, TypeOK
  <1>2. CASE Kernel
    <2>1. CASE Exec
      BY <1>1, <2>1 DEF Exec
    <2>2. CASE ~Exec
      BY <1>1, <1>2, <2>2 DEF Kernel, Boot, ExitGroup, OtherChild, Trap, Signal, Exit, Die,
                              Write, Clone, Born
    <2> QED BY <2>1, <2>2
  <1>3. CASE handle_trap
    <2>1. stack' = <<WaitFrame>> \o stack /\ stack \in Seq(Frames) /\ WaitFrame.pc # "vfs"
      BY <1>3 DEF handle_trap, WaitFrame, TypeOK
    <2>2. Calling(stack') => Calling(stack)
      BY <2>1, PushCalling, WaitFrameType
    <2> QED BY <1>1, <1>3, <2>2 DEF handle_trap
  <1>4. CASE waitpidNone
    <2>1. Calling(stack') => Calling(stack)
      BY <1>4, PopCalling DEF waitpidNone, Top, TypeOK
    <2> QED BY <1>1, <1>4, <2>1 DEF waitpidNone
  <1>5. ASSUME NEW t \in Tids, waitpid(t) PROVE MainFirst'
    <2> DEFINE f == [pc |-> "got", tid |-> t, ev |-> why[t]]
    <2>1. stack # <<>> /\ stack \in Seq(Frames) /\ f \in Frames /\ f.pc # "vfs"
      BY <1>5 DEF waitpid, Top, TypeOK, Frames
    <2>2. Tail(stack) \in Seq(Frames)
      BY <2>1, PopStack
    <2>3. Calling(<<f>> \o Tail(stack)) => Calling(stack)
      BY <2>1, <2>2, PushCalling, PopCalling
    <2>4. stack' = <<f>> \o Tail(stack) \/ stack' = stack
      BY <1>5 DEF waitpid
    <2>5. UNCHANGED priv
      BY <1>5 DEF waitpid
    <2> QED BY <1>1, <2>3, <2>4, <2>5
  <1>6. CASE handleSeccompEvent
    <2>1. stack # <<>>
      BY <1>6 DEF handleSeccompEvent, Got, Top
    <2>2. CASE Loop
      BY <1>1, <1>6, <2>1, <2>2, LoopCalling DEF handleSeccompEvent, Fail
    <2>3. CASE enteredMain
      BY <1>1, <1>6, <2>3 DEF handleSeccompEvent, Fail
    <2> QED BY <1>6, <2>2, <2>3 DEF handleSeccompEvent, ContAndLoop
  <1>7. CASE handleExecEvent
    <2>1. stack # <<>> /\ (Loop \/ UNCHANGED stack)
      BY <1>7 DEF handleExecEvent, Got, Top, ContAndLoop, Fail
    <2>2. Calling(stack') => Calling(stack)
      BY <2>1, LoopCalling
    <2> QED BY <1>1, <1>7, <2>2 DEF handleExecEvent, Fail
  <1>8. CASE finishSeccompEvent \/ handleClone \/ handleTrapSignal \/ handleExitEvent
             \/ handleSignalStop
    <2>1. stack # <<>> /\ (Loop \/ UNCHANGED stack)
      BY <1>8 DEF finishSeccompEvent, handleClone, handleTrapSignal, handleExitEvent,
                  handleSignalStop, Got, Top, ContAndLoop, Fail
    <2>2. Calling(stack') => Calling(stack)
      BY <2>1, LoopCalling
    <2>3. UNCHANGED <<enteredMain, scratch>>
      BY <1>8 DEF finishSeccompEvent, handleClone, handleTrapSignal, handleExitEvent,
                  handleSignalStop, releaseChild, Fail
    <2> QED BY <1>1, <2>2, <2>3
  <1>9. CASE spawn \/ kill \/ onReadReady \/ UNCHANGED vars
    BY <1>1, <1>9 DEF spawn, kill, onReadReady, releaseChild, vars
  <1> QED BY <1>2, <1>3, <1>4, <1>5, <1>6, <1>7, <1>8, <1>9 DEF Next, Handlers

-----------------------------------------------------------------------------
(* A program with one thread that nothing ends from outside.               *)

OneThread == Kids = {} /\ Env \cap {"kill", "exit_group"} = {}

\* The invocations that have the thread's stop: there is one at most, it knows
\* what the thread stopped for, and meanwhile the thread stays where it is.
Busy(frame) == frame.pc \in {"got", "vfs"}
Idle(s)     == \A i \in 1 .. Len(s) : ~Busy(s[i])
One(s)      == \A i, j \in 1 .. Len(s) : Busy(s[i]) /\ Busy(s[j]) => i = j
Knows(frame) == frame.tid = Main /\ frame.ev = why[Main] /\ (frame.pc = "vfs" => frame.ev = "seccomp")
Known(s)    == \A i \in 1 .. Len(s) : Busy(s[i]) => Knows(s[i])

Alone ==
  /\ RegistersReachable
  /\ ExitReported
  /\ state[Main] \in {"user", "stopped"} => Main \in traced
  /\ One(stack) /\ Known(stack)
  /\ Idle(stack) \/ (Stopped(Main) /\ Main \in seen)

LEMMA PushIdle ==
  ASSUME NEW s \in Seq(Frames), NEW f \in Frames, ~Busy(f)
  PROVE  /\ One(s) => One(<<f>> \o s)
         /\ Known(s) => Known(<<f>> \o s)
         /\ Idle(s) => Idle(<<f>> \o s)
  <1> DEFINE p == <<f>> \o s
  <1>1. ASSUME NEW i \in 1 .. Len(p), Busy(p[i])
        PROVE  i - 1 \in 1 .. Len(s) /\ p[i] = s[i - 1]
    <2>1. i # 1
      BY <1>1, PushStack
    <2>2. Len(s) \in Nat /\ i - 1 \in 1 .. Len(s) /\ p[i - 1 + 1] = s[i - 1]
      BY <2>1, PushStack
    <2> QED BY <2>2
  <1>2. One(s) => One(p)
    <2> SUFFICES ASSUME One(s), NEW i \in 1 .. Len(p), NEW j \in 1 .. Len(p),
                        Busy(p[i]), Busy(p[j])
                 PROVE  i = j
      BY DEF One
    <2>1. i - 1 = j - 1
      BY <1>1 DEF One
    <2> QED BY <2>1
  <1>3. Known(s) => Known(p)
    BY <1>1 DEF Known
  <1>4. Idle(s) => Idle(p)
    BY <1>1 DEF Idle
  <1> QED BY <1>2, <1>3, <1>4

LEMMA PopIdle ==
  ASSUME NEW s \in Seq(Frames), s # <<>>
  PROVE  /\ One(s) => One(Tail(s))
         /\ Known(s) => Known(Tail(s))
         /\ Idle(s) => Idle(Tail(s))
         /\ One(s) /\ Busy(Head(s)) => Idle(Tail(s))
  <1>1. \A i \in 1 .. Len(Tail(s)) : i + 1 \in 1 .. Len(s) /\ Tail(s)[i] = s[i + 1]
    BY PopStack
  <1>2. One(s) => One(Tail(s))
    <2> SUFFICES ASSUME One(s), NEW i \in 1 .. Len(Tail(s)), NEW j \in 1 .. Len(Tail(s)),
                        Busy(Tail(s)[i]), Busy(Tail(s)[j])
                 PROVE  i = j
      BY DEF One
    <2>1. i + 1 = j + 1
      BY <1>1 DEF One
    <2> QED BY <2>1
  <1>3. Known(s) => Known(Tail(s))
    BY <1>1 DEF Known
  <1>4. Idle(s) => Idle(Tail(s))
    BY <1>1 DEF Idle
  <1>5. ASSUME One(s), Busy(Head(s)), NEW i \in 1 .. Len(Tail(s)), Busy(Tail(s)[i])
        PROVE  FALSE
    <2>1. 1 \in 1 .. Len(s) /\ Busy(s[1]) /\ Busy(s[i + 1]) /\ i + 1 # 1
      BY <1>1, <1>5, PopStack
    <2> QED BY <1>1, <1>5, <2>1 DEF One
  <1> QED BY <1>2, <1>3, <1>4, <1>5 DEF Idle

\* The stop of the thread goes to the invocation on top.
LEMMA TopBusy ==
  ASSUME NEW s \in Seq(Frames), NEW f \in Frames, Idle(s), Busy(f) => Knows(f)
  PROVE  One(<<f>> \o s) /\ Known(<<f>> \o s)
  <1> DEFINE p == <<f>> \o s
  <1>1. ASSUME NEW i \in 1 .. Len(p), Busy(p[i])
        PROVE  i = 1 /\ p[i] = f
    <2>1. CASE i # 1
      <3>1. Len(s) \in Nat /\ i - 1 \in 1 .. Len(s) /\ p[i - 1 + 1] = s[i - 1]
        BY <2>1, PushStack
      <3> QED BY <1>1, <3>1 DEF Idle
    <2> QED BY <2>1, PushStack
  <1> QED BY <1>1 DEF One, Known

LEMMA LoopAlone ==
  ASSUME TypeOK, One(stack), stack # <<>>, Busy(Caller), Loop
  PROVE  Idle(stack')
  <1>1. stack \in Seq(Frames) /\ Tail(stack) \in Seq(Frames) /\ stack' = <<WaitFrame>> \o Tail(stack)
    BY PopStack DEF TypeOK, Loop, WaitFrame
  <1>2. ~Busy(WaitFrame)
    BY DEF Busy, WaitFrame
  <1>3. Idle(Tail(stack))
    BY <1>1, PopIdle DEF Caller
  <1> QED BY <1>1, <1>2, <1>3, PushIdle, WaitFrameType

LEMMA IdleAlone == ASSUME NEW s, Idle(s) PROVE One(s) /\ Known(s)
  BY DEF Idle, One, Known

\* While nobody is busy with it the thread may go anywhere but out unreported.
LEMMA IdleStep ==
  ASSUME TypeOK, Idle(stack), UNCHANGED <<stack, host, exits>>, Alone,
         state'[Main] \in {"user", "stopped"} => Main \in traced',
         state'[Main] \in {"dying", "zombie", "gone"}
           <=> state[Main] \in {"dying", "zombie", "gone"}
  PROVE  Alone'
  <1>1. Idle(stack')
    BY DEF Idle
  <1>2. One(stack)' /\ Known(stack)' /\ Idle(stack)'
    BY <1>1 DEF Idle, One, Known
  <1>3. RegistersReachable' /\ ExitReported'
    BY DEF Alone, RegistersReachable, ExitReported
  <1> QED BY <1>2, <1>3 DEF Alone

LEMMA SameAlone ==
  ASSUME TypeOK, Alone, UNCHANGED <<kernel, stack, exits>>, host' # "regs"
  PROVE  Alone'
  BY DEF Alone, RegistersReachable, ExitReported, One, Known, Knows, Idle, Stopped, kernel

LEMMA KernelAlone == ASSUME TypeOK, OneThread, Alone, Kernel PROVE Alone'
  <1> USE DEF kernel, priv, Quiet
  <1>1. Tids = {Main} /\ Kids = {}
    BY DEF OneThread, Tids
  <1>2. UNCHANGED <<stack, host, exits>>
    BY <1>1 DEF Kernel, Boot, Exec, ExitGroup, OtherChild, Trap, Signal, Exit, Die, Write, Clone, Born
  <1>3. state[Main] # "stopped" => Idle(stack)
    BY DEF Alone, Stopped
  <1>4. ASSUME state[Main] = "user", traced' = traced,
               StopAll({Main}, why'[Main]) \/ state' = state
        PROVE  Alone'
    <2>1. Main \in traced /\ Idle(stack)
      BY <1>3, <1>4 DEF Alone
    <2>2. state'[Main] \in {"user", "stopped"}
      BY <1>1, <1>4, <2>1 DEF StopAll
    <2> QED BY <1>2, <1>4, <2>1, <2>2, IdleStep
  <1>5. CASE Boot
    BY <1>1, <1>4, <1>5 DEF Boot, StopAll
  <1>6. CASE Exec
    BY <1>1, <1>4, <1>6 DEF Exec, UserStep, StopAll
  <1>7. CASE OtherChild
    BY <1>2, <1>7, SameAlone DEF OtherChild, Alone, RegistersReachable
  <1>8. CASE \E t \in Tids : Trap(t) \/ Signal(t) \/ Exit(t) \/ Write(t)
    BY <1>1, <1>4, <1>8, ZenonT(30) DEF Trap, Signal, Exit, Write, UserStep, StopAll
  <1>9. CASE \E t \in Tids : Die(t)
    <2>1. state[Main] = "dying" /\ state'[Main] = "zombie"
      BY <1>1, <1>9 DEF Die, TypeOK
    <2> QED BY <1>2, <1>3, <2>1, IdleStep
  <1>10. ~ExitGroup
    BY DEF ExitGroup, OneThread
  <1> QED BY <1>1, <1>5, <1>6, <1>7, <1>8, <1>9, <1>10 DEF Kernel

\* The thread leaves its stop, and the invocation that had it goes back to wait.
LEMMA LetGo ==
  ASSUME TypeOK, OneThread, Alone, stack # <<>>, Busy(Caller), Loop, host' = host,
         traced' \subseteq traced, state'[Main] \in {"user", "dying"},
         state'[Main] = "user" => traced' = traced /\ exits' = exits,
         state'[Main] = "dying" => exits' = exits + 1
  PROVE  Alone'
  <1>1. Idle(stack')
    BY LoopAlone DEF Alone
  <1>2. One(stack)' /\ Known(stack)' /\ Idle(stack)'
    BY <1>1 DEF Idle, One, Known
  <1>3. Stopped(Main)
    <2>1. stack[1] = Caller /\ 1 \in 1 .. Len(stack)
      BY PopStack DEF TypeOK, Caller
    <2> QED BY <2>1 DEF Alone, Idle
  <1>4. exits = 0 /\ Main \in traced
    BY <1>3 DEF Alone, ExitReported, Stopped
  <1>5. RegistersReachable' /\ ExitReported'
    BY <1>4 DEF Alone, RegistersReachable, ExitReported
  <1> QED BY <1>2, <1>4, <1>5 DEF Alone

LEMMA ContAlone ==
  ASSUME TypeOK, OneThread, Alone, stack # <<>>, Busy(Caller), Caller.ev # "exit", exits' = exits,
         NEW T, ContAndLoop(T), Caller.tid \in T
  PROVE  Alone'
  <1>1. stack[1] = Caller /\ 1 \in 1 .. Len(stack)
    BY PopStack DEF TypeOK, Caller
  <1>2. Knows(Caller) /\ Stopped(Main) /\ Main \in Tids
    BY <1>1 DEF Alone, Known, Idle, Tids
  <1>3. state'[Main] = "user"
    BY <1>2 DEF ContAndLoop, Continued, After, Knows
  <1> QED BY <1>3, LetGo DEF ContAndLoop

LEMMA waitpidAlone ==
  ASSUME TypeOK, OneThread, Alone, NEW t \in Tids, waitpid(t)
  PROVE  Alone'
  <1> USE DEF kernel, priv
  <1>1. t = Main /\ stack # <<>> /\ stack \in Seq(Frames) /\ host = "up"
    BY DEF OneThread, Tids, waitpid, Top, TypeOK
  <1>2. CASE Reportable(t) /\ seen' = seen \cup {t}
             /\ stack' = <<[pc |-> "got", tid |-> t, ev |-> why[t]]>> \o Tail(stack)
             /\ UNCHANGED <<state, host>>
    <2> DEFINE f == [pc |-> "got", tid |-> t, ev |-> why[t]]
    <2>1. Idle(stack) /\ Stopped(Main)
      BY <1>1, <1>2 DEF Reportable, Alone
    <2>2. Tail(stack) \in Seq(Frames) /\ Idle(Tail(stack)) /\ f \in Frames
      BY <1>1, <2>1, PopStack, PopIdle DEF Frames, TypeOK
    <2>3. Knows(f)
      BY <1>1 DEF Knows
    <2>4. One(stack') /\ Known(stack')
      BY <1>2, <2>2, <2>3, TopBusy
    <2>5. One(stack)' /\ Known(stack)'
      BY <2>4 DEF One, Known, Knows, waitpid
    <2>6. Stopped(Main)' /\ Main \in seen'
      BY <1>1, <1>2, <2>1 DEF waitpid, Stopped
    <2> QED BY <1>2, <2>5, <2>6 DEF Alone, RegistersReachable, ExitReported, waitpid
  <1>3. CASE host' = "assert_wait" /\ UNCHANGED <<state, seen, stack>>
    BY <1>3, SameAlone DEF waitpid
  <1> QED BY <1>1, <1>2, <1>3 DEF waitpid

\* What the invocation on top knows when it is about to act.
LEMMA CallerKnows ==
  ASSUME TypeOK, OneThread, Alone, stack # <<>>, Busy(Caller)
  PROVE  /\ Caller.tid = Main /\ Caller.ev = why[Main] /\ Stopped(Main) /\ Main \in seen
         /\ Caller.pc = "vfs" => Caller.ev = "seccomp"
  <1>1. stack[1] = Caller /\ 1 \in 1 .. Len(stack)
    BY PopStack DEF TypeOK, Caller
  <1> QED BY <1>1 DEF Alone, Known, Idle, Knows

LEMMA HandlersAlone == ASSUME TypeOK, OneThread, Alone, Handlers PROVE Alone'
  <1> USE DEF kernel, priv
  <1>1. CASE handle_trap
    <2>1. stack \in Seq(Frames) /\ stack' = <<WaitFrame>> \o stack /\ ~Busy(WaitFrame)
          /\ UNCHANGED <<kernel, exits, host>>
      BY <1>1 DEF handle_trap, WaitFrame, Busy, TypeOK
    <2>2. One(stack') /\ Known(stack') /\ (Idle(stack) => Idle(stack'))
      BY <2>1, PushIdle, WaitFrameType DEF Alone
    <2> QED BY <2>1, <2>2 DEF Alone, RegistersReachable, ExitReported, One, Known, Knows,
                              Idle, Stopped
  <1>2. CASE waitpidNone
    <2>1. stack \in Seq(Frames) /\ stack # <<>> /\ stack' = Tail(stack)
          /\ UNCHANGED <<kernel, exits, host>>
      BY <1>2 DEF waitpidNone, Top, TypeOK
    <2>2. One(stack') /\ Known(stack') /\ (Idle(stack) => Idle(stack'))
      BY <2>1, PopIdle DEF Alone
    <2> QED BY <2>1, <2>2 DEF Alone, RegistersReachable, ExitReported, One, Known, Knows,
                              Idle, Stopped
  <1>3. CASE \E t \in Tids : waitpid(t)
    BY <1>3, waitpidAlone
  <1>4. CASE handleSeccompEvent
    <2>1. stack # <<>> /\ Busy(Caller) /\ Caller.ev = "seccomp" /\ Caller.pc = "got"
      BY <1>4 DEF handleSeccompEvent, Got, Top, Busy, Caller
    <2>2. Caller.tid = Main /\ Caller.ev = why[Main] /\ Stopped(Main) /\ Main \in seen
      BY <2>1, CallerKnows
    <2>3. CASE ContAndLoop({Caller.tid}) /\ UNCHANGED priv
      BY <2>1, <2>3, ContAlone
    <2>4. CASE Goto("vfs") /\ UNCHANGED <<kernel, boot, sigchld, priv, unread, host, stops>>
      <3> DEFINE f == [pc |-> "vfs", tid |-> Caller.tid, ev |-> Caller.ev]
      <3>1. stack \in Seq(Frames) /\ Tail(stack) \in Seq(Frames) /\ Caller \in Frames
        BY <2>1, PopStack DEF TypeOK, Caller
      <3>2. f \in Frames /\ Knows(f)
        BY <2>1, <2>2, <3>1 DEF Frames, Knows
      <3>3. Idle(Tail(stack))
        BY <2>1, <3>1, PopIdle DEF Alone, Caller
      <3>4. One(stack') /\ Known(stack')
        BY <2>4, <3>1, <3>2, <3>3, TopBusy DEF Goto
      <3>5. One(stack)' /\ Known(stack)'
        BY <2>4, <3>4 DEF One, Known, Knows
      <3> QED BY <2>2, <2>4, <3>5 DEF Alone, RegistersReachable, ExitReported, Stopped
    <2> QED BY <1>4, <2>2, <2>3, <2>4 DEF handleSeccompEvent
  <1>5. CASE finishSeccompEvent
    <2>1. stack # <<>> /\ Busy(Caller) /\ Caller.pc = "vfs"
      BY <1>5 DEF finishSeccompEvent, Top, Busy, Caller
    <2>2. Caller.tid = Main /\ Stopped(Main) /\ Caller.ev # "exit"
      BY <2>1, CallerKnows
    <2> QED BY <1>5, <2>1, <2>2, ContAlone DEF finishSeccompEvent
  <1>6. CASE handleExecEvent
    <2>1. stack # <<>> /\ Busy(Caller) /\ Caller.ev # "exit"
      BY <1>6 DEF handleExecEvent, Got, Top, Busy, Caller
    <2>2. Caller.tid = Main /\ Stopped(Main)
      BY <2>1, CallerKnows
    <2>3. ContAndLoop({Caller.tid}) /\ exits' = exits
      BY <1>6, <2>2 DEF handleExecEvent
    <2> QED BY <2>1, <2>3, ContAlone
  <1>7. CASE handleClone
    <2>1. stack # <<>> /\ Busy(Caller) /\ Caller.ev # "exit"
      BY <1>7 DEF handleClone, Got, Top, Busy, Caller
    <2> QED BY <1>7, <2>1, ContAlone DEF handleClone
  <1>8. CASE handleTrapSignal
    BY <1>8, SameAlone DEF handleTrapSignal, Fail
  <1>9. CASE handleExitEvent
    <2>1. stack # <<>> /\ Busy(Caller) /\ Caller.ev = "exit"
      BY <1>9 DEF handleExitEvent, Got, Top, Busy, Caller
    <2>2. Caller.tid = Main /\ why[Main] = "exit" /\ Stopped(Main) /\ Main \in Tids
      BY <2>1, CallerKnows DEF Tids
    <2>3. releaseChild("none", {}) /\ Loop /\ exits' = exits + 1 /\ host' = host
      BY <1>9, <2>2 DEF handleExitEvent
    <2>4. state'[Main] = "dying" /\ traced' \subseteq traced
      BY <2>2, <2>3 DEF releaseChild, After
    <2> QED BY <2>1, <2>3, <2>4, LetGo
  <1>10. CASE handleSignalStop
    <2>1. stack # <<>> /\ Busy(Caller) /\ Caller.ev # "exit"
      BY <1>10 DEF handleSignalStop, Got, Top, Busy, Caller
    <2>2. ContAndLoop({Caller.tid}) /\ UNCHANGED priv
      BY <1>10 DEF handleSignalStop, OneThread
    <2> QED BY <2>1, <2>2, ContAlone
  <1> QED BY <1>1, <1>2, <1>3, <1>4, <1>5, <1>6, <1>7, <1>8, <1>9, <1>10 DEF Handlers

LEMMA AloneStep == ASSUME TypeOK, OneThread, Alone, [Next]_vars PROVE Alone'
  <1> USE DEF kernel, priv
  <1>1. CASE Kernel
    BY <1>1, KernelAlone
  <1>2. CASE Handlers
    BY <1>2, HandlersAlone
  <1>3. CASE spawn
    <2>1. state[Main] = "none" /\ state'[Main] = "user" /\ Main \in traced'
          /\ UNCHANGED <<stack, host, exits>>
      BY <1>3 DEF spawn, TypeOK, Tids
    <2>2. Idle(stack)
      BY <2>1 DEF Alone, Stopped
    <2> QED BY <2>1, <2>2, IdleStep
  <1>4. ~kill
    BY DEF kill, OneThread
  <1>5. CASE onReadReady \/ UNCHANGED vars
    BY <1>5, SameAlone DEF onReadReady, vars, Alone, RegistersReachable
  <1> QED BY <1>1, <1>2, <1>3, <1>4, <1>5 DEF Next

-----------------------------------------------------------------------------
(* The steps of the abstract tracer.                                       *)

\* A trap signal that is no ptrace event ends the host, which the abstract
\* tracer does not.
OneQuietThread == OneThread /\ "sigtrap" \notin Env

Handling(s) == \E i \in 1 .. Len(s) : s[i].pc = "vfs" /\ s[i].tid = Main

\* The phase a thread in state st is in, which stopped for w if it is stopped.
PhaseIn(st, w, s) ==
  CASE st = "none" -> "none"
    [] st \in {"user", "born"} -> "running"
    [] st = "stopped" /\ w # "seccomp" -> "event"
    [] st = "stopped" /\ w = "seccomp" -> IF Handling(s) THEN "handling" ELSE "trapped"
    [] OTHER -> "ended"

LEMMA Phases ==
  ASSUME NEW w, NEW s
  PROVE  /\ PhaseIn("none", w, s) = "none" /\ PhaseIn("user", w, s) = "running"
         /\ w # "seccomp" => PhaseIn("stopped", w, s) = "event"
         /\ w = "seccomp" /\ Handling(s) => PhaseIn("stopped", w, s) = "handling"
         /\ w = "seccomp" /\ ~Handling(s) => PhaseIn("stopped", w, s) = "trapped"
         /\ \A st \in {"dying", "zombie", "gone"} : PhaseIn(st, w, s) = "ended"
  <1>1. PhaseIn("none", w, s) = "none"
    BY DEF PhaseIn
  <1>2. PhaseIn("user", w, s) = "running"
    BY DEF PhaseIn
  <1>3. w # "seccomp" => PhaseIn("stopped", w, s) = "event"
    BY DEF PhaseIn
  <1>4. w = "seccomp" => PhaseIn("stopped", w, s) = IF Handling(s) THEN "handling" ELSE "trapped"
    BY DEF PhaseIn
  <1>5. ASSUME NEW st \in {"dying", "zombie", "gone"} PROVE PhaseIn(st, w, s) = "ended"
    BY DEF PhaseIn
  <1> QED BY <1>1, <1>2, <1>3, <1>4, <1>5

LEMMA HandlingBusy == \A s : Idle(s) => ~Handling(s)
  BY DEF Idle, Handling, Busy

LEMMA PushHandling ==
  ASSUME NEW s \in Seq(Frames), NEW f \in Frames
  PROVE  Handling(<<f>> \o s) <=> Handling(s) \/ (f.pc = "vfs" /\ f.tid = Main)
  <1> DEFINE p == <<f>> \o s
  <1>1. /\ Len(s) \in Nat /\ Len(p) = Len(s) + 1 /\ p[1] = f
        /\ \A i \in 1 .. Len(s) : p[i + 1] = s[i]
    BY PushStack
  <1> HIDE DEF p
  <1>2. \A i \in 1 .. Len(p) : i = 1 \/ (i - 1 \in 1 .. Len(s) /\ p[i] = s[i - 1])
    <2> SUFFICES ASSUME NEW i \in 1 .. Len(p), i # 1
                 PROVE  i - 1 \in 1 .. Len(s) /\ p[i] = s[i - 1]
      OBVIOUS
    <2>1. i - 1 \in 1 .. Len(s) /\ (i - 1) + 1 = i
      BY <1>1
    <2>2. p[(i - 1) + 1] = s[i - 1]
      BY <1>1, <2>1
    <2> QED BY <2>1, <2>2
  <1>3. 1 \in 1 .. Len(p) /\ \A i \in 1 .. Len(s) : i + 1 \in 1 .. Len(p)
    BY <1>1
  <1>4. Handling(p) <=> Handling(s) \/ (f.pc = "vfs" /\ f.tid = Main)
    BY <1>1, <1>2, <1>3, SMTT(60) DEF Handling
  <1> QED BY <1>4 DEF p

LEMMA PopHandling ==
  ASSUME NEW s \in Seq(Frames), s # <<>>, Head(s).pc # "vfs"
  PROVE  Handling(Tail(s)) <=> Handling(s)
  <1>1. /\ Len(s) \in Nat /\ Len(Tail(s)) = Len(s) - 1 /\ Head(s) = s[1]
        /\ \A i \in 1 .. Len(s) - 1 : Tail(s)[i] = s[i + 1]
    BY PopStack
  <1>2. \A i \in 1 .. Len(s) : i = 1 \/ (i - 1 \in 1 .. Len(Tail(s)) /\ s[i] = Tail(s)[i - 1])
    BY <1>1
  <1>3. \A i \in 1 .. Len(Tail(s)) : i + 1 \in 1 .. Len(s)
    BY <1>1
  <1> QED BY <1>1, <1>2, <1>3 DEF Handling

Phase == PhaseIn(state[Main], why[Main], stack)

LEMMA KernelPhase ==
  ASSUME TypeOK, OneThread, Alone, Kernel
  PROVE  /\ UNCHANGED <<enteredMain, exits, host>>
         /\ Phase' = Phase \/ (Phase = "running" /\ Phase' \in {"trapped", "event"})
  <1> USE DEF kernel, priv, Quiet
  <1>1. Tids = {Main} /\ Kids = {} /\ state[Main] \in States /\ why[Main] \in Whys
    BY DEF OneThread, Tids, TypeOK
  <1>2. UNCHANGED <<stack, enteredMain, exits, host>>
    BY <1>1 DEF Kernel, Boot, Exec, ExitGroup, OtherChild, Trap, Signal, Exit, Die, Write, Clone, Born
  <1>3. ASSUME state[Main] = "user", NEW w, StopAll({Main}, w)
        PROVE  Phase = "running" /\ Phase' \in {"trapped", "event"}
    <2>1. Main \in traced /\ Idle(stack)
      BY <1>3 DEF Alone, Stopped
    <2>2. state'[Main] = "stopped" /\ why'[Main] = w
      BY <1>1, <1>3, <2>1 DEF StopAll
    <2>3. ~Handling(stack')
      BY <1>2, <2>1, HandlingBusy
    <2> QED BY <1>3, <2>2, <2>3, Phases DEF Phase
  <1>4. ASSUME UNCHANGED <<state, why>> PROVE Phase' = Phase
    BY <1>2, <1>4 DEF Phase
  <1>5. CASE Boot
    BY <1>3, <1>4, <1>2, <1>5 DEF Boot
  <1>6. CASE Exec
    BY <1>2, <1>3, <1>6 DEF Exec, UserStep
  <1>7. CASE OtherChild
    BY <1>2, <1>4, <1>7 DEF OtherChild
  <1>8. CASE \E t \in Tids : Trap(t) \/ Signal(t) \/ Exit(t)
    BY <1>1, <1>2, <1>3, <1>8 DEF Trap, Signal, Exit, UserStep
  <1>9. CASE \E t \in Tids : Write(t)
    BY <1>2, <1>4, <1>9 DEF Write
  <1>10. CASE \E t \in Tids : Die(t)
    <2>1. state[Main] = "dying" /\ state'[Main] = "zombie"
      BY <1>1, <1>10 DEF Die, TypeOK
    <2> QED BY <1>2, <2>1, Phases DEF Phase
  <1>11. ~ExitGroup
    BY DEF ExitGroup, OneThread
  <1> QED BY <1>1, <1>5, <1>6, <1>7, <1>8, <1>9, <1>10, <1>11 DEF Kernel

\* The phase, seen from the invocation on top that has the thread.
LEMMA CallerPhase ==
  ASSUME TypeOK, OneThread, Alone, stack # <<>>, Busy(Caller)
  PROVE  /\ Caller.pc = "got" /\ Caller.ev = "seccomp" => Phase = "trapped"
         /\ Caller.ev # "seccomp" => Phase = "event"
         /\ Caller.pc = "vfs" => Phase = "handling"
  <1>1. stack[1] = Caller /\ 1 \in 1 .. Len(stack)
    BY PopStack DEF TypeOK, Caller
  <1>2. /\ Caller.tid = Main /\ Caller.ev = why[Main] /\ state[Main] = "stopped"
        /\ Caller.pc = "vfs" => Caller.ev = "seccomp"
    BY CallerKnows DEF Stopped
  <1>3. Caller.pc = "got" => ~Handling(stack)
    BY <1>1 DEF Alone, One, Busy, Handling
  <1>4. Caller.pc = "vfs" => Handling(stack)
    BY <1>1, <1>2 DEF Handling
  <1> QED BY <1>2, <1>3, <1>4, Phases DEF Phase

LEMMA ContPhase ==
  ASSUME TypeOK, OneThread, Alone, stack # <<>>, Busy(Caller), Caller.ev # "exit",
         NEW T, ContAndLoop(T), Caller.tid \in T
  PROVE  Phase' = "running"
  <1>1. Caller.tid = Main /\ Caller.ev = why[Main] /\ Stopped(Main) /\ Main \in Tids
    BY CallerKnows DEF Tids
  <1>2. state'[Main] = "user"
    BY <1>1 DEF ContAndLoop, Continued, After
  <1> QED BY <1>2, Phases DEF Phase

\* What a step of the event loop is for the program.
HandlerSteps ==
  \/ Phase' = Phase /\ UNCHANGED <<enteredMain, exits, host>>
  \/ /\ Phase = "trapped" /\ enteredMain /\ Phase' = "handling"
     /\ UNCHANGED <<enteredMain, exits, host>>
  \/ /\ Phase = "handling" \/ (Phase = "trapped" /\ ~enteredMain) \/ Phase = "event"
     /\ Phase' = "running" /\ UNCHANGED <<exits, host>>
     /\ enteredMain' = enteredMain \/ (Phase = "event" /\ enteredMain' = TRUE)
  \/ /\ Phase = "event" /\ Phase' = "ended" /\ exits' = exits + 1
     /\ UNCHANGED <<enteredMain, host>>
  \/ /\ Phase = "ended" /\ Phase' = "ended" /\ host' # "up"
     /\ UNCHANGED <<enteredMain, exits>>

LEMMA HandlersPhase ==
  ASSUME TypeOK, OneThread, Alone, why[Main] # "sigtrap", Handlers
  PROVE  host = "up" /\ HandlerSteps
  <1> USE DEF kernel, priv
  <1>a. host = "up" /\ stack \in Seq(Frames)
    BY DEF Handlers, handle_trap, Looping, waitpidNone, waitpid, handleSeccompEvent, finishSeccompEvent,
           handleExecEvent, handleClone, handleTrapSignal, handleExitEvent, handleSignalStop, Got, Top, TypeOK
  <1>1. CASE handle_trap
    <2>1. stack' = <<WaitFrame>> \o stack /\ UNCHANGED <<state, why, enteredMain, exits, host>>
      BY <1>1 DEF handle_trap, WaitFrame
    <2>2. Handling(stack') <=> Handling(stack)
      <3>1. WaitFrame.pc # "vfs"
        BY DEF WaitFrame
      <3> QED BY <1>a, <2>1, <3>1, WaitFrameType, PushHandling
    <2>3. Phase' = Phase
      BY <2>1, <2>2 DEF Phase, PhaseIn
    <2> QED BY <1>a, <2>1, <2>3 DEF HandlerSteps
  <1>2. CASE waitpidNone
    <2>1. /\ stack # <<>> /\ Head(stack).pc = "wait" /\ stack' = Tail(stack)
          /\ UNCHANGED <<state, why, enteredMain, exits, host>>
      BY <1>2 DEF waitpidNone, Top
    <2>2. Handling(stack') <=> Handling(stack)
      BY <1>a, <2>1, PopHandling
    <2>3. Phase' = Phase
      BY <2>1, <2>2 DEF Phase, PhaseIn
    <2> QED BY <1>a, <2>1, <2>3 DEF HandlerSteps
  <1>3. CASE \E t \in Tids : waitpid(t)
    <2>1. PICK t \in Tids : waitpid(t)
      BY <1>3
    <2>2. /\ t = Main /\ stack # <<>> /\ Head(stack).pc = "wait"
          /\ UNCHANGED <<why, enteredMain, exits>>
      BY <2>1 DEF OneThread, Tids, waitpid, Top
    <2>3. CASE /\ Reportable(t) /\ UNCHANGED <<state, host>>
               /\ stack' = <<[pc |-> "got", tid |-> t, ev |-> why[t]]>> \o Tail(stack)
      <3>1. Tail(stack) \in Seq(Frames) /\ [pc |-> "got", tid |-> t, ev |-> why[t]] \in Frames
        BY <1>a, <2>2, PopStack DEF Frames, TypeOK
      <3>2. Handling(stack') <=> Handling(stack)
        BY <1>a, <2>2, <2>3, <3>1, PopHandling, PushHandling, ZenonT(30)
      <3>3. Phase' = Phase
        BY <2>2, <2>3, <3>2 DEF Phase, PhaseIn
      <3> QED BY <1>a, <2>2, <2>3, <3>3 DEF HandlerSteps
    <2>4. CASE Reapable(t) /\ host' = "assert_wait" /\ UNCHANGED <<state, seen, stack>>
      <3>1. state[Main] = "zombie" /\ state' = state
        BY <2>2, <2>4 DEF Reapable
      <3>2. Phase = "ended" /\ Phase' = "ended"
        BY <3>1, Phases DEF Phase
      <3> QED BY <1>a, <2>2, <2>4, <3>2 DEF HandlerSteps
    <2> QED BY <2>1, <2>2, <2>3, <2>4 DEF waitpid
  <1>4. CASE handleSeccompEvent
    <2>1. stack # <<>> /\ Busy(Caller) /\ Caller.ev = "seccomp" /\ Caller.pc = "got"
      BY <1>4 DEF handleSeccompEvent, Got, Top, Busy, Caller
    <2>2. Phase = "trapped"
      BY <2>1, CallerPhase
    <2>3. CASE ~enteredMain /\ ContAndLoop({Caller.tid}) /\ UNCHANGED priv
      <3>1. Phase' = "running"
        BY <2>1, <2>3, ContPhase
      <3> QED BY <1>a, <2>2, <2>3, <3>1 DEF HandlerSteps, ContAndLoop
    <2>4. CASE enteredMain /\ Goto("vfs")
               /\ UNCHANGED <<kernel, boot, sigchld, priv, unread, host, stops>>
      <3> DEFINE f == [pc |-> "vfs", tid |-> Caller.tid, ev |-> Caller.ev]
      <3>1. Caller.tid = Main /\ Caller.ev = why[Main] /\ state[Main] = "stopped"
        BY <2>1, CallerKnows DEF Stopped
      <3>2. Tail(stack) \in Seq(Frames) /\ f \in Frames /\ f.pc = "vfs" /\ f.tid = Main
        BY <1>a, <2>1, <3>1, PopStack DEF Frames, Caller
      <3>3. stack' = <<f>> \o Tail(stack)
        BY <2>4 DEF Goto
      <3> HIDE DEF f
      <3>4. Handling(stack')
        BY <3>2, <3>3, PushHandling
      <3>5. Phase' = "handling"
        BY <2>1, <2>4, <3>1, <3>4, Phases DEF Phase
      <3> QED BY <1>a, <2>2, <2>4, <3>5 DEF HandlerSteps
    <2>5. Stopped(Caller.tid)
      BY <2>1, CallerKnows
    <2> QED BY <1>4, <2>3, <2>4, <2>5 DEF handleSeccompEvent
  <1>5. CASE finishSeccompEvent
    <2>1. stack # <<>> /\ Busy(Caller) /\ Caller.pc = "vfs"
      BY <1>5 DEF finishSeccompEvent, Top, Busy, Caller
    <2>2. Caller.tid = Main /\ Stopped(Main) /\ Caller.ev # "exit" /\ Phase = "handling"
      BY <2>1, CallerKnows, CallerPhase
    <2>3. ContAndLoop({Caller.tid}) /\ UNCHANGED priv
      BY <1>5, <2>2 DEF finishSeccompEvent
    <2>4. Phase' = "running"
      BY <2>1, <2>2, <2>3, ContPhase
    <2> QED BY <1>a, <2>2, <2>3, <2>4 DEF HandlerSteps, ContAndLoop
  <1>6. CASE handleExecEvent
    <2>1. stack # <<>> /\ Busy(Caller) /\ Caller.ev = "exec"
      BY <1>6 DEF handleExecEvent, Got, Top, Busy, Caller
    <2>2. Caller.tid = Main /\ Stopped(Main) /\ Phase = "event"
      BY <2>1, CallerKnows, CallerPhase
    <2>3. /\ ContAndLoop({Caller.tid}) /\ exits' = exits
          /\ enteredMain' = enteredMain \/ enteredMain' = TRUE
      BY <1>6, <2>2 DEF handleExecEvent
    <2>4. Phase' = "running"
      BY <2>1, <2>3, ContPhase
    <2> QED BY <1>a, <2>2, <2>3, <2>4 DEF HandlerSteps, ContAndLoop
  <1>7. CASE handleClone
    <2>1. stack # <<>> /\ Busy(Caller) /\ Caller.ev = "clone"
      BY <1>7 DEF handleClone, Got, Top, Busy, Caller
    <2>2. Phase = "event"
      BY <2>1, CallerPhase
    <2>3. PICK T : ContAndLoop(T) /\ Caller.tid \in T /\ UNCHANGED priv
      BY <1>7 DEF handleClone
    <2>4. Phase' = "running"
      BY <2>1, <2>3, ContPhase
    <2> QED BY <1>a, <2>2, <2>3, <2>4 DEF HandlerSteps, ContAndLoop
  <1>8. ~handleTrapSignal
    <2> SUFFICES ASSUME handleTrapSignal PROVE FALSE
      OBVIOUS
    <2>1. stack # <<>> /\ Busy(Caller) /\ Caller.ev = "sigtrap"
      BY DEF handleTrapSignal, Got, Top, Busy, Caller
    <2> QED BY <2>1, CallerKnows
  <1>9. CASE handleExitEvent
    <2>1. stack # <<>> /\ Busy(Caller) /\ Caller.ev = "exit"
      BY <1>9 DEF handleExitEvent, Got, Top, Busy, Caller
    <2>2. /\ Caller.tid = Main /\ why[Main] = "exit" /\ Stopped(Main) /\ Main \in Tids
          /\ Phase = "event"
      BY <2>1, CallerKnows, CallerPhase DEF Tids
    <2>3. releaseChild("none", {}) /\ exits' = exits + 1 /\ host' = host
      BY <1>9, <2>2 DEF handleExitEvent
    <2>4. state'[Main] = "dying" /\ enteredMain' = enteredMain
      BY <2>2, <2>3 DEF releaseChild, After
    <2>5. Phase' = "ended"
      BY <2>4, Phases DEF Phase
    <2> QED BY <1>a, <2>2, <2>3, <2>4, <2>5 DEF HandlerSteps
  <1>10. CASE handleSignalStop
    <2>1. stack # <<>> /\ Busy(Caller) /\ Caller.ev \in {"signal", "birth"}
      BY <1>10 DEF handleSignalStop, Got, Top, Busy, Caller
    <2>2. ContAndLoop({Caller.tid}) /\ UNCHANGED priv
      BY <1>10 DEF handleSignalStop, OneThread
    <2>3. Phase = "event" /\ Phase' = "running"
      BY <2>1, <2>2, CallerPhase, ContPhase
    <2> QED BY <1>a, <2>2, <2>3 DEF HandlerSteps, ContAndLoop
  <1> QED BY <1>a, <1>1, <1>2, <1>3, <1>4, <1>5, <1>6, <1>7, <1>8, <1>9, <1>10 DEF Handlers

NoTrap == why[Main] # "sigtrap"

LEMMA NoTrapStep == ASSUME TypeOK, OneQuietThread, NoTrap, [Next]_vars PROVE NoTrap'
  <1> USE DEF kernel, priv, Quiet, NoTrap
  <1>1. Tids = {Main} /\ Kids = {} /\ "sigtrap" \notin Env
    BY DEF OneQuietThread, OneThread, Tids
  <1>2. ASSUME NEW T, NEW w \in {"signal", "exec", "seccomp", "birth", "exit"}, StopAll(T, w)
        PROVE  NoTrap'
    BY <1>1, <1>2 DEF StopAll
  <1>3. ASSUME NEW sig, NEW T, releaseChild(sig, T) PROVE NoTrap'
    BY <1>1, <1>3 DEF releaseChild
  <1>4. CASE Kernel
    BY <1>1, <1>2, <1>4 DEF Kernel, Boot, Exec, ExitGroup, OtherChild, Trap, Signal, Exit,
                            Die, Write, Clone, Born
  <1>5. CASE handleExitEvent
    BY <1>3, <1>5 DEF handleExitEvent, ContAndLoop
  <1>6. CASE handleSignalStop
    BY <1>3, <1>6 DEF handleSignalStop, ContAndLoop
  <1>7. CASE \/ handle_trap \/ waitpidNone \/ \E t \in Tids : waitpid(t)
             \/ handleSeccompEvent \/ finishSeccompEvent \/ handleExecEvent
             \/ handleClone \/ handleTrapSignal
    BY <1>7 DEF handle_trap, waitpidNone, waitpid, handleSeccompEvent, finishSeccompEvent,
                handleExecEvent, handleClone, handleTrapSignal, ContAndLoop, Fail
  <1>8. CASE spawn \/ kill \/ onReadReady \/ UNCHANGED vars
    BY <1>3, <1>8 DEF spawn, kill, onReadReady, vars
  <1> QED BY <1>4, <1>5, <1>6, <1>7, <1>8 DEF Next, Handlers

-----------------------------------------------------------------------------
(* The theorems.                                                           *)

LEMMA InitInv == Init => IInv
  <1> SUFFICES ASSUME Init PROVE IInv
    OBVIOUS
  <1>1. TypeOK
    <2>1. state \in [Tids -> States] /\ why \in [Tids -> Whys]
          /\ newborn \in [Tids -> Kids \cup {NoTid}]
      BY DEF Init, States, Whys
    <2>2. boot \in Boots /\ scratch \in {"unset", "valid", "stale"}
      BY DEF Init, Boots
    <2>3. stack \in Seq(Frames) /\ exits \in Nat /\ unread \in Nat /\ stops \in Nat
      BY DEF Init
    <2>4. /\ seen \subseteq Tids /\ traced \subseteq Tids /\ host \in {"up"} \cup Ends
          /\ sigchld \in BOOLEAN /\ watching \in BOOLEAN /\ polling \in BOOLEAN
          /\ enteredMain \in BOOLEAN
      BY DEF Init
    <2> QED BY <2>1, <2>2, <2>3, <2>4 DEF TypeOK
  <1>2. stack = <<>> /\ seen = {} /\ watching = FALSE /\ \A t \in Tids : state[t] = "none"
    BY DEF Init
  <1> QED BY <1>1, <1>2 DEF IInv, Unborn, StopsHeld, NoLostWakeup

LEMMA InvStep == IInv /\ [Next]_vars => IInv'
  BY TypeStep, UnbornStep, HeldStep, WakeupStep DEF IInv

\* The invariant below holds of every behaviour: handle_trap, the handlers it
\* calls, releaseChild and the kernel preserve it together.
THEOREM Invariance == Spec => []IInv
  <1> QED BY InitInv, InvStep, PTL DEF Spec

\* Type correctness, for any number of threads and events (the state of
\* SandboxPrivate and of the kernel's threads).
THEOREM TypeCorrect == Spec => []TypeOK
  <1>1. IInv => TypeOK
    BY DEF IInv
  <1> QED BY <1>1, Invariance, PTL

\* No stopped thread is forgotten: every one that waitpid has returned is held
\* by an invocation of handle_trap, however deeply they nest.
THEOREM NoStopForgotten == Spec => []StopsHeld
  <1>1. IInv => StopsHeld
    BY DEF IInv
  <1> QED BY <1>1, Invariance, PTL

\* SIGCHLDs that merge lose nothing: with no invocation of handle_trap running
\* or due, there is no stop and no ended thread to wait for.
THEOREM SignalsMergeSafely == Spec => []NoLostWakeup
  <1>1. IInv => NoLostWakeup
    BY DEF IInv
  <1> QED BY <1>1, Invariance, PTL

\* No handler of a system call runs before the scratch area it writes to has
\* been found, though every exec but the first leaves it alone and handlers
\* nest (handleSeccompEvent, handleExecEvent).
THEOREM ScratchFoundFirst == Spec => []ScratchFound
  <1>1. Init => MainFirst
    BY DEF Init, MainFirst, Calling
  <1>2. TypeOK /\ MainFirst /\ [Next]_vars => MainFirst'
    BY MainFirstStep
  <1>3. TypeOK /\ MainFirst => ScratchFound
    <2> SUFFICES ASSUME TypeOK, MainFirst, stack # <<>>, Caller.pc = "vfs"
                 PROVE  scratch # "unset"
      BY DEF ScratchFound
    <2>1. Caller = stack[1] /\ 1 \in 1 .. Len(stack)
      BY PopStack DEF TypeOK, Caller
    <2> QED BY <2>1 DEF MainFirst, Calling
  <1> QED BY <1>1, <1>2, <1>3, TypeCorrect, PTL DEF Spec

LEMMA AloneAlways == ASSUME OneThread PROVE Spec => []Alone
  <1>1. Init => Alone
    BY DEF Init, Alone, RegistersReachable, ExitReported, One, Known, Idle, Tids
  <1>2. TypeOK /\ Alone /\ [Next]_vars => Alone'
    BY AloneStep
  <1> QED BY <1>1, <1>2, TypeCorrect, PTL DEF Spec

\* With one thread, which nothing ends from outside, GETREGS before a handler
\* and SETREGS after its answer find the thread where it stopped, whatever the
\* event loop runs in between (handleSeccompEvent).
THEOREM RegistersStayReachable == ASSUME OneThread PROVE Spec => []RegistersReachable
  <1>1. Alone => RegistersReachable
    BY DEF Alone
  <1> QED BY <1>1, AloneAlways, PTL

\* With one thread, which nothing ends from outside, handleExit has been called
\* once if the thread has left its exit stop, and not before (handle_trap).
THEOREM ExitReportedOnce == ASSUME OneThread PROVE Spec => []ExitReported
  <1>1. Alone => ExitReported
    BY DEF Alone
  <1> QED BY <1>1, AloneAlways, PTL


\* A program of one thread, which nothing ends from outside and no trap signal
\* stops, is held and let go as TracedProgram says: a call made after exec has
\* been through its handler when the program goes on, and its end is reported in
\* the step that releases it (handle_trap and what it calls).
THEOREM OneThreadIsTraced == ASSUME OneQuietThread PROVE Spec => Program!Spec
  <1> DEFINE phase == CASE state[Main] = "none" -> "none"
                        [] state[Main] \in {"user", "born"} -> "running"
                        [] state[Main] = "stopped" /\ why[Main] # "seccomp" -> "event"
                        [] state[Main] = "stopped" /\ why[Main] = "seccomp" ->
                             IF \E i \in 1 .. Len(stack) :
                                  stack[i].pc = "vfs" /\ stack[i].tid = Main
                               THEN "handling" ELSE "trapped"
                        [] OTHER -> "ended"
             pvars == <<phase, enteredMain, exits, host = "up">>
  <1>1. OneThread
    BY DEF OneQuietThread
  <1>2. phase = Phase /\ phase' = Phase'
    BY DEF Phase, PhaseIn, Handling
  <1>3. Init => Program!Init
    <2> SUFFICES ASSUME Init PROVE phase = "none" /\ enteredMain = FALSE /\ exits = 0 /\ (host = "up") = TRUE
      BY DEF Program!Init
    <2>1. state[Main] = "none"
      BY DEF Init, Tids
    <2> QED BY <2>1 DEF Init
  <1>4. ASSUME TypeOK, Alone, NoTrap, [Next]_vars
        PROVE  Program!Next \/ UNCHANGED <<Phase, enteredMain, exits, host>>
    <2>1. CASE Kernel
      <3>1. /\ UNCHANGED <<enteredMain, exits, host>>
            /\ Phase' = Phase \/ (Phase = "running" /\ Phase' \in {"trapped", "event"})
        BY <1>1, <1>4, <2>1, KernelPhase
      <3>2. CASE Phase = "running" /\ Phase' \in {"trapped", "event"}
        <4>1. Program!Stop
          BY <1>2, <3>1, <3>2 DEF Program!Stop
        <4> QED BY <4>1 DEF Program!Next
      <3> QED BY <3>1, <3>2
    <2>2. CASE Handlers
      <3>1. host = "up" /\ HandlerSteps
        BY <1>1, <1>4, <2>2, HandlersPhase DEF NoTrap
      <3>2. CASE /\ Phase = "trapped" /\ enteredMain /\ Phase' = "handling"
                 /\ UNCHANGED <<enteredMain, exits, host>>
        <4>1. Program!Handle
          BY <1>2, <3>1, <3>2 DEF Program!Handle
        <4> QED BY <4>1 DEF Program!Next
      <3>3. CASE /\ Phase = "handling" \/ (Phase = "trapped" /\ ~enteredMain) \/ Phase = "event"
                 /\ Phase' = "running" /\ UNCHANGED <<exits, host>>
                 /\ enteredMain' = enteredMain \/ (Phase = "event" /\ enteredMain' = TRUE)
        <4>1. Program!Release
          BY <1>2, <3>1, <3>3 DEF Program!Release
        <4> QED BY <4>1 DEF Program!Next
      <3>4. CASE /\ Phase = "event" /\ Phase' = "ended" /\ exits' = exits + 1
                 /\ UNCHANGED <<enteredMain, host>>
        <4>1. Program!End
          BY <1>2, <3>1, <3>4 DEF Program!End
        <4> QED BY <4>1 DEF Program!Next
      <3>5. CASE /\ Phase = "ended" /\ Phase' = "ended" /\ host' # "up"
                 /\ UNCHANGED <<enteredMain, exits>>
        <4>1. Program!Leave
          BY <1>2, <3>1, <3>5 DEF Program!Leave
        <4> QED BY <4>1 DEF Program!Next
      <3> QED BY <3>1, <3>2, <3>3, <3>4, <3>5 DEF HandlerSteps
    <2>3. CASE spawn
      <3>1. state[Main] = "none" /\ state'[Main] = "user" /\ UNCHANGED <<enteredMain, exits, host>>
        BY <1>4, <2>3 DEF spawn, TypeOK, Tids, priv
      <3>2. Phase = "none" /\ Phase' = "running"
        BY <3>1, Phases DEF Phase
      <3>3. Program!Start
        BY <1>2, <3>1, <3>2 DEF Program!Start
      <3> QED BY <3>3 DEF Program!Next
    <2>4. ~kill
      BY <1>1 DEF kill, OneThread
    <2>5. CASE onReadReady \/ UNCHANGED vars
      <3>1. UNCHANGED <<state, why, stack, enteredMain, exits, host>>
        BY <2>5 DEF onReadReady, vars, kernel, priv
      <3>2. Phase' = Phase
        BY <3>1 DEF Phase
      <3> QED BY <3>1, <3>2
    <2> QED BY <1>4, <2>1, <2>2, <2>3, <2>4, <2>5 DEF Next
  <1>5. TypeOK /\ Alone /\ NoTrap /\ [Next]_vars => [Program!Next]_pvars
    <2> SUFFICES ASSUME TypeOK, Alone, NoTrap, [Next]_vars
                 PROVE  Program!Next \/ pvars' = pvars
      OBVIOUS
    <2>1. CASE UNCHANGED <<Phase, enteredMain, exits, host>>
      <3>1. phase' = phase /\ UNCHANGED <<enteredMain, exits, host>>
        BY <1>2, <2>1
      <3> QED BY <3>1
    <2> QED BY <1>4, <2>1
  <1>6. Init => NoTrap
    BY DEF Init, Tids, NoTrap
  <1>7. TypeOK /\ NoTrap /\ [Next]_vars => NoTrap'
    BY NoTrapStep
  <1>8. Spec => []Alone
    BY <1>1, AloneAlways
  <1>9. Spec => Program!Init /\ [][Program!Next]_pvars
    <2> HIDE DEF pvars
    <2> QED BY <1>3, <1>5, <1>6, <1>7, <1>8, TypeCorrect, PTL DEF Spec
  <1> QED BY <1>9, PTL DEF Program!Spec, Program!vars

=============================================================================
