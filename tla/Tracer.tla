------------------------------- MODULE Tracer -------------------------------
(***************************************************************************)
(* The tracer of one sandbox (src/src/sandbox.cpp): spawn and traceChild,  *)
(* the SIGCHLD callback handle_trap with the handlers it calls,            *)
(* releaseChild and kill, together with the kernel's side of ptrace and    *)
(* the sandboxed program that drives it.                                   *)
(*                                                                         *)
(* The host is one thread running an event loop.  handle_trap runs from    *)
(* that loop and polls waitpid until it says 0; a system call handler      *)
(* inside it spins the loop again (CodiusNodeFilesystem::doVFS), which may *)
(* start another handle_trap, so invocations form a stack.  The sandboxed  *)
(* threads and the kernel run in parallel with all of that.                *)
(***************************************************************************)
EXTENDS Integers, Sequences

CONSTANTS
  Main,      \* the thread fork() made: priv->pid
  Kids,      \* threads it may clone
  NoTid,     \* not a thread
  Env,       \* what the environment does, a subset of Events
  MaxStops,  \* bound: events of the sandboxed program
  MaxWrites  \* bound: chunks of output not read yet

Events == {"signal", "sigtrap", "exec", "clone", "exit", "exit_group", "kill",
           "write", "other_child"}

ASSUME TidsAssumption   == Main \notin Kids /\ NoTid \notin Kids \cup {Main}
ASSUME EnvAssumption    == Env \subseteq Events
ASSUME BoundsAssumption == MaxStops \in Nat /\ MaxWrites \in Nat

Tids == {Main} \cup Kids

VARIABLES
  state,       \* what the kernel has each thread do
  why,         \* the event a stopped thread stopped for
  newborn,     \* the thread made by a clone: the event's message
  seen,        \* stopped threads whose stop waitpid has returned
  traced,      \* threads the host traces
  boot,        \* how far the child has come in execChild
  sigchld,     \* a SIGCHLD is pending; any number of them coalesce
  watching,    \* priv->signal is started
  stack,       \* invocations of handle_trap, innermost first
  enteredMain, \* SandboxPrivate::entered_main
  scratch,     \* SandboxPrivate::scratchAddr: is it that of the program?
  exits,       \* calls of handleExit
  polling,     \* the sockets of ipcSockets exist and are polled
  unread,      \* output of the child not read from its socket
  host,        \* "up", or how the host process ended
  stops        \* events so far, for the bound

kernel == <<state, why, newborn, seen, traced>>
priv   == <<watching, enteredMain, scratch, exits, polling>>
vars   == <<kernel, boot, sigchld, priv, stack, unread, host, stops>>

\* The child is "none" before fork, a new thread "born" before its first stop;
\* "dying" has left its exit stop, "zombie" can be waited for, "gone" has been.
States == {"none", "born", "user", "stopped", "dying", "zombie", "gone"}

\* What waitpid's status says.  A new thread's first stop is a SIGSTOP, told
\* apart here from other signals because nothing is lost if it is skipped.
Whys  == {"seccomp", "exec", "clone", "exit", "sigtrap", "signal", "birth"}
Boots == {"setpgid", "raise", "exec", "done"}
Ends  == {"regs", "assert_trap", "assert_wait"}

\* pc of an invocation: about to call waitpid; holding its result; or waiting
\* in the nested event loop of a system call handler.
Frames == [pc : {"wait", "got", "vfs"}, tid : Tids \cup {NoTid},
           ev : Whys \cup {"none"}]

TypeOK ==
  /\ state \in [Tids -> States]
  /\ why \in [Tids -> Whys]
  /\ newborn \in [Tids -> Kids \cup {NoTid}]
  /\ seen \subseteq Tids /\ traced \subseteq Tids
  /\ boot \in Boots
  /\ sigchld \in BOOLEAN /\ watching \in BOOLEAN /\ polling \in BOOLEAN
  /\ enteredMain \in BOOLEAN
  /\ scratch \in {"unset", "valid", "stale"}
  /\ stack \in Seq(Frames)
  /\ exits \in Nat /\ unread \in Nat /\ stops \in Nat
  /\ host \in {"up"} \cup Ends

-----------------------------------------------------------------------------
(* The kernel (external), as far as the code relies on it.                 *)

Stopped(t) == t \in traced /\ state[t] = "stopped"
Live(t)    == state[t] \in {"born", "user", "stopped"}
InGroup    == boot # "setpgid"
MayStop    == stops < MaxStops

\* A set of threads stops for w; those that are not traced cannot, and of
\* the events only the end of the thread concerns them.
StopAll(T, w) ==
  /\ state' = [t \in Tids |-> IF t \notin T THEN state[t]
                              ELSE IF t \in traced THEN "stopped" ELSE "dying"]
  /\ why' = [t \in Tids |-> IF t \in T THEN w ELSE why[t]]
  /\ seen' = seen \ T
  /\ sigchld' = TRUE

\* A thread leaves a stop by PTRACE_CONT or PTRACE_DETACH; for a thread that
\* is not stopped both fail with ESRCH and nobody looks.
After(t) == IF why[t] = "exit" THEN "dying" ELSE "user"
Continued(T) == [t \in Tids |-> IF t \in T /\ Stopped(t) THEN After(t)
                                ELSE state[t]]

UserStep(t) == host = "up" /\ state[t] = "user" /\ MayStop /\ stops' = stops + 1

Quiet == UNCHANGED <<priv, stack, unread, host>>

\* The child on its way to execve (execChild).  setpgid comes first; the
\* SIGSTOP it raises is reported unless traceChild's waitpid took it.
Boot ==
  /\ host = "up" /\ state[Main] = "user"
  /\ \/ /\ boot = "setpgid" /\ boot' = "raise"
        /\ UNCHANGED <<state, why, seen, sigchld>>
     \/ boot = "raise" /\ boot' = "exec" /\ StopAll({Main}, "signal")
     \/ boot = "exec"  /\ boot' = "done" /\ StopAll({Main}, "exec")
  /\ UNCHANGED <<newborn, traced, stops>> /\ Quiet

Trap(t) ==
  /\ UserStep(t) /\ t \in traced /\ boot \in {"exec", "done"}
  /\ StopAll({t}, "seccomp")
  /\ UNCHANGED <<newborn, traced, boot>> /\ Quiet

\* A signal, or a SIGTRAP, which is not a ptrace event.
Signal(t) ==
  /\ UserStep(t) /\ t \in traced /\ boot = "done"
  /\ \/ "signal" \in Env /\ StopAll({t}, "signal")
     \/ "sigtrap" \in Env /\ StopAll({t}, "sigtrap")
  /\ UNCHANGED <<newborn, traced, boot>> /\ Quiet

\* The program replaces itself while it has no other thread: its old stack,
\* and the environment in it, are gone.
Exec ==
  /\ "exec" \in Env /\ UserStep(Main) /\ Main \in traced /\ boot = "done"
  /\ \A k \in Kids : ~Live(k)
  /\ StopAll({Main}, "exec")
  /\ scratch' = IF scratch = "valid" THEN "stale" ELSE scratch
  /\ UNCHANGED <<newborn, traced, boot, watching, enteredMain, exits, polling,
                 stack, unread, host>>

\* The new thread is traced from birth.
Clone(t, k) ==
  /\ "clone" \in Env /\ UserStep(t) /\ t \in traced /\ boot = "done"
  /\ state[k] = "none"
  /\ state' = [state EXCEPT ![t] = "stopped", ![k] = "born"]
  /\ why' = [why EXCEPT ![t] = "clone"]
  /\ newborn' = [newborn EXCEPT ![t] = k]
  /\ seen' = seen \ {t}
  /\ traced' = traced \cup {k}
  /\ sigchld' = TRUE
  /\ UNCHANGED boot /\ Quiet

Born(k) ==
  /\ host = "up" /\ state[k] = "born"
  /\ StopAll({k}, "birth")
  /\ UNCHANGED <<newborn, traced, boot, stops>> /\ Quiet

\* One thread ends, or all of them: exit_group, a fatal signal, a SIGKILL from
\* anywhere, which reaches stopped threads too.
Exit(t) ==
  /\ "exit" \in Env /\ UserStep(t) /\ boot \in {"exec", "done"}
  /\ StopAll({t}, "exit")
  /\ UNCHANGED <<newborn, traced, boot>> /\ Quiet

Ending == {t \in Tids : Live(t) /\ ~(state[t] = "stopped" /\ why[t] = "exit")}

ExitGroup ==
  /\ "exit_group" \in Env /\ host = "up" /\ MayStop /\ stops' = stops + 1
  /\ Live(Main) /\ Ending # {} /\ boot = "done"
  /\ StopAll(Ending, "exit")
  /\ UNCHANGED <<newborn, traced, boot>> /\ Quiet

Die(t) ==
  /\ host = "up" /\ state[t] = "dying"
  /\ state' = [state EXCEPT ![t] = "zombie"]
  /\ sigchld' = TRUE
  /\ UNCHANGED <<why, newborn, seen, traced, boot, stops>> /\ Quiet

Write(t) ==
  /\ "write" \in Env /\ UserStep(t) /\ boot = "done" /\ unread < MaxWrites
  /\ unread' = unread + 1
  /\ UNCHANGED <<kernel, boot, sigchld, priv, stack, host>>

\* SIGCHLD for a child process that is not the sandbox.
OtherChild ==
  /\ "other_child" \in Env /\ host = "up" /\ ~sigchld
  /\ sigchld' = TRUE
  /\ UNCHANGED <<kernel, boot, priv, stack, unread, host, stops>>

-----------------------------------------------------------------------------
(* The host.                                                               *)

\* fork, then traceChild.  The child's PTRACE_TRACEME and the parent's
\* PTRACE_ATTACH race: either one takes effect, and the waitpid takes the stop
\* of ATTACH, before or after setpgid, or the one the child raises.
spawn ==
  /\ host = "up" /\ state[Main] = "none"
  /\ state' = [state EXCEPT ![Main] = "user"]
  /\ traced' = {Main}
  /\ boot' \in {"setpgid", "raise", "exec"}
  /\ watching' = TRUE
  /\ polling' = TRUE
  /\ UNCHANGED <<why, newborn, seen, sigchld, enteredMain, scratch, exits, stack,
                 unread, host, stops>>

\* The event loop runs callbacks: the outer one, or one nested in a handler.
Looping == host = "up" /\ (stack # <<>> => Head(stack).pc = "vfs")

Top(pc) == host = "up" /\ stack # <<>> /\ Head(stack).pc = pc
Caller  == Head(stack)
Goto(pc) == stack' = <<[pc |-> pc, tid |-> Caller.tid, ev |-> Caller.ev]>>
                     \o Tail(stack)
Loop     == stack' = <<[pc |-> "wait", tid |-> NoTid, ev |-> "none"]>> \o Tail(stack)
Fail(how) == host' = how /\ UNCHANGED <<kernel, boot, sigchld, priv, stack, unread, stops>>

handle_trap ==
  /\ Looping /\ watching /\ sigchld
  /\ sigchld' = FALSE
  /\ stack' = <<[pc |-> "wait", tid |-> NoTid, ev |-> "none"]>> \o stack
  /\ UNCHANGED <<kernel, boot, priv, unread, host, stops>>

\* What waitpid(-pid, WNOHANG | __WALL) may return.  A process can be waited
\* for when its last thread has been.
Reportable(t) == Stopped(t) /\ t \notin seen
Reapable(t)   == /\ state[t] = "zombie"
                 /\ t = Main => \A k \in Kids : state[k] \in {"none", "gone"}

\* Before setpgid the group does not exist: waitpid says -1, the status is
\* still 0 and the loop goes round, which is the absence of a step here.
waitpid(t) ==
  /\ Top("wait") /\ InGroup
  /\ \/ /\ Reportable(t)
        /\ seen' = seen \cup {t}
        /\ stack' = <<[pc |-> "got", tid |-> t, ev |-> why[t]]>> \o Tail(stack)
        /\ UNCHANGED <<state, host>>
     \/ /\ Reapable(t) /\ t # Main
        /\ state' = [state EXCEPT ![t] = "gone"]
        /\ UNCHANGED <<seen, stack, host>>
     \/ /\ Reapable(t) /\ t = Main
        /\ host' = "assert_wait"
        /\ UNCHANGED <<state, seen, stack>>
  /\ UNCHANGED <<why, newborn, traced, boot, sigchld, priv, unread, stops>>

\* Mutant of waitpidNone: the callback handles one event and returns.
waitpidNone_Early ==
  /\ Top("wait") /\ InGroup
  /\ stack' = Tail(stack)
  /\ UNCHANGED <<kernel, boot, sigchld, priv, unread, host, stops>>

waitpidNone ==
  /\ Top("wait") /\ InGroup
  /\ \A t \in Tids : ~Reportable(t) /\ ~Reapable(t)
  /\ stack' = Tail(stack)
  /\ UNCHANGED <<kernel, boot, sigchld, priv, unread, host, stops>>

Got(ev) == Top("got") /\ Caller.ev = ev

\* PTRACE_CONT of the thread the event came from, and back to waitpid.
ContAndLoop(T) ==
  /\ state' = Continued(T)
  /\ Loop
  /\ UNCHANGED <<why, newborn, seen, traced, boot, sigchld, unread, host, stops>>

\* Mutant of handleSeccompEvent: the thread is continued before its handler.
handleSeccompEvent_ContFirst ==
  /\ Got("seccomp")
  /\ \/ ~enteredMain /\ ContAndLoop({Caller.tid}) /\ UNCHANGED priv
     \/ /\ enteredMain /\ Goto("vfs")
        /\ state' = Continued({Caller.tid})
        /\ UNCHANGED <<why, newborn, seen, traced, boot, sigchld, priv, unread,
                       host, stops>>

\* Mutant of handleSeccompEvent: the test of entered_main is inverted.
handleSeccompEvent_Inverted ==
  /\ Got("seccomp")
  /\ \/ enteredMain /\ ContAndLoop({Caller.tid}) /\ UNCHANGED priv
     \/ ~enteredMain /\ Goto("vfs")
        /\ UNCHANGED <<kernel, boot, sigchld, priv, unread, host, stops>>

\* Before the program's main the call is let through; GETREGS fails when the
\* thread is not stopped any more.
handleSeccompEvent ==
  /\ Got("seccomp")
  /\ \/ ~enteredMain /\ ContAndLoop({Caller.tid}) /\ UNCHANGED priv
     \/ /\ enteredMain /\ Stopped(Caller.tid) /\ Goto("vfs")
        /\ UNCHANGED <<kernel, boot, sigchld, priv, unread, host, stops>>
     \/ enteredMain /\ ~Stopped(Caller.tid) /\ Fail("regs")

\* Mutant of finishSeccompEvent: the call is restarted, not continued.
finishSeccompEvent_Restarts ==
  /\ Top("vfs")
  /\ Goto("got")
  /\ UNCHANGED <<kernel, boot, sigchld, priv, unread, host, stops>>

\* The handlers have returned, after any number of turns of the nested loop:
\* SETREGS and PTRACE_CONT.
finishSeccompEvent ==
  /\ Top("vfs")
  /\ \/ Stopped(Caller.tid) /\ ContAndLoop({Caller.tid}) /\ UNCHANGED priv
     \/ ~Stopped(Caller.tid) /\ Fail("regs")

\* Mutant of handleExecEvent: entered_main is set, the address is not looked up.
handleExecEvent_NoScratch ==
  /\ Got("exec")
  /\ enteredMain' = TRUE
  /\ ContAndLoop({Caller.tid})
  /\ UNCHANGED <<watching, scratch, exits, polling>>

\* The scratch buffer is looked up at the first exec only.
handleExecEvent ==
  /\ Got("exec")
  /\ \/ /\ ~enteredMain /\ Stopped(Caller.tid)
        /\ enteredMain' = TRUE
        /\ scratch' = "valid"
        /\ ContAndLoop({Caller.tid})
        /\ UNCHANGED <<watching, exits, polling>>
     \/ ~enteredMain /\ ~Stopped(Caller.tid) /\ Fail("regs")
     \/ enteredMain /\ ContAndLoop({Caller.tid}) /\ UNCHANGED priv

\* Mutant of handleClone: only the new thread is continued.
handleClone_ForgetsParent ==
  /\ Got("clone")
  /\ ContAndLoop({newborn[Caller.tid]})
  /\ UNCHANGED priv

\* The message of the event is the new thread, unless the thread has since
\* come to its exit stop, whose message is an exit status.
handleClone ==
  /\ Got("clone")
  /\ ContAndLoop({Caller.tid}
       \cup (IF why[Caller.tid] = "clone" THEN {newborn[Caller.tid]} ELSE {}))
  /\ UNCHANGED priv

handleTrapSignal == Got("sigtrap") /\ Fail("assert_trap")

\* releaseChild(sig): only the main thread is detached, and only when it is
\* stopped.  A SIGKILL that arrives ends the other threads too.  T are the
\* threads the calling handler continues afterwards.
releaseChild(sig, T) ==
  /\ watching' = FALSE
  /\ polling' = FALSE
  /\ LET hit    == Stopped(Main)
         others == IF hit /\ sig = "SIGKILL" THEN Ending \ {Main} ELSE {} IN
     /\ traced' = IF hit THEN traced \ {Main} ELSE traced
     /\ state' = [t \in Tids |->
          IF t = Main /\ hit  THEN IF sig = "SIGKILL" THEN "dying" ELSE After(t)
          ELSE IF t \in others THEN IF t \in T THEN "dying" ELSE "stopped"
          ELSE Continued(T)[t]]
     /\ why' = [t \in Tids |-> IF t \in others THEN "exit" ELSE why[t]]
     /\ seen' = seen \ others
  /\ UNCHANGED <<newborn, enteredMain, scratch>>

\* Mutant of handleExitEvent: the child is released, not reported.
handleExitEvent_Unreported ==
  /\ Got("exit")
  /\ releaseChild("none", {})
  /\ Loop
  /\ UNCHANGED <<boot, sigchld, exits, unread, host, stops>>

\* The main thread's exit event, and another thread's.
handleExitEvent ==
  /\ Got("exit")
  /\ \/ /\ Caller.tid = Main
        /\ exits' = exits + 1
        /\ releaseChild("none", {})
        /\ Loop
        /\ UNCHANGED <<boot, sigchld, unread, host, stops>>
     \/ /\ Caller.tid # Main
        /\ ContAndLoop({Caller.tid})
        /\ UNCHANGED priv

\* The signal is emitted and passed on.  A listener may call kill().
handleSignalStop ==
  /\ \E ev \in {"signal", "birth"} : Got(ev)
  /\ \/ ContAndLoop({Caller.tid}) /\ UNCHANGED priv
     \/ /\ "kill" \in Env
        /\ releaseChild("SIGKILL", {Caller.tid})
        /\ Loop
        /\ UNCHANGED <<boot, sigchld, exits, unread, host, stops>>

\* Sandbox::kill, called from a callback of the event loop.
kill ==
  /\ "kill" \in Env /\ Looping /\ state[Main] # "none"
  /\ releaseChild("SIGKILL", {})
  /\ UNCHANGED <<boot, sigchld, exits, stack, unread, host, stops>>

\* Mutant of onReadReady: it reads when nothing has been written.
onReadReady_Unready ==
  /\ Looping /\ polling
  /\ unread' = unread - 1
  /\ UNCHANGED <<kernel, boot, sigchld, priv, stack, host, stops>>

\* NodeIPC::onReadReady: what there is, is read.
onReadReady ==
  /\ Looping /\ polling /\ unread > 0
  /\ unread' = 0
  /\ UNCHANGED <<kernel, boot, sigchld, priv, stack, host, stops>>

-----------------------------------------------------------------------------

Init ==
  /\ state = [t \in Tids |-> "none"]
  /\ why = [t \in Tids |-> "signal"]
  /\ newborn = [t \in Tids |-> NoTid]
  /\ seen = {} /\ traced = {}
  /\ boot = "setpgid"
  /\ sigchld = FALSE /\ watching = FALSE
  /\ stack = <<>>
  /\ enteredMain = FALSE /\ scratch = "unset"
  /\ exits = 0
  /\ polling = FALSE /\ unread = 0
  /\ host = "up"
  /\ stops = 0

Kernel ==
  \/ Boot \/ Exec \/ ExitGroup \/ OtherChild
  \/ \E t \in Tids : Trap(t) \/ Signal(t) \/ Exit(t) \/ Die(t) \/ Write(t)
  \/ \E t \in Tids, k \in Kids : Clone(t, k)
  \/ \E k \in Kids : Born(k)

\* What the event loop and the handlers on the stack do.
Handlers ==
  \/ handle_trap \/ waitpidNone \/ \E t \in Tids : waitpid(t)
  \/ handleSeccompEvent \/ finishSeccompEvent \/ handleExecEvent
  \/ handleClone \/ handleTrapSignal \/ handleExitEvent \/ handleSignalStop

Next == Kernel \/ Handlers \/ spawn \/ kill \/ onReadReady

Spec == Init /\ [][Next]_vars

\* The host runs its loop and its handlers; a thread that is starting or ending
\* is scheduled.  Every call that is handled gets its answer, and doVFS looks
\* at the promise whenever the nested loop comes back to it, which other
\* callbacks in between delay but do not undo: hence strong fairness there.
\* No thread is obliged to make a call or to exit.
Fairness ==
  /\ WF_vars(Handlers) /\ SF_vars(finishSeccompEvent) /\ WF_vars(onReadReady)
  /\ WF_vars(Boot)
  /\ \A k \in Kids : WF_vars(Born(k))
  /\ \A t \in Tids : WF_vars(Die(t))

FairSpec == Spec /\ Fairness

-----------------------------------------------------------------------------
(* Properties.                                                             *)

Holds(frame, t) == frame.pc \in {"got", "vfs"} /\ frame.tid = t

\* A thread whose stop waitpid has returned is in the hands of an invocation
\* of handle_trap on the stack, so that some PTRACE_CONT is still to come: no
\* nesting of handlers, clone, exit or kill forgets a stopped thread.
StopsHeld ==
  host = "up" =>
    \A t \in seen : Stopped(t) => \E i \in 1 .. Len(stack) : Holds(stack[i], t)

\* Any number of stops share one SIGCHLD.  When no invocation is running and
\* none is due, there is nothing left to wait for: the loop of handle_trap
\* drains what the signals have merged.
NoLostWakeup ==
  host = "up" /\ watching /\ stack = <<>> /\ ~sigchld
    => \A t \in Tids : ~Reportable(t) /\ ~Reapable(t)

\* A thread does not stay stopped, whatever the others do, as long as the
\* sandbox is being traced.
AllStopsHandled ==
  \A t \in Tids : Stopped(t) ~> ~Stopped(t) \/ ~watching \/ host # "up"

\* handle_trap returns to the event loop, once the threads are quiet.
CallbackReturns == stack # <<>> ~> stack = <<>> \/ host # "up"

\* The end of the child is reported, once, before the child is let go of
\* (handle_trap's PTRACE_EVENT_EXIT branch; main.js documents event "exit").
ExitReported == exits = (IF state[Main] \in {"dying", "zombie", "gone"} THEN 1 ELSE 0)

\* The registers of a trapped call can be read and written when its handler
\* starts and when it has its answer, turns of the event loop later.
RegistersReachable == host # "regs"

\* No system call handler runs before the scratch buffer it may write to has
\* been found in the program's environment.
ScratchFound == stack # <<>> /\ Caller.pc = "vfs" => scratch # "unset"

\* What the program sees of its tracer when it has one thread.
Program == INSTANCE TracedProgram WITH
  phase   <- CASE state[Main] = "none" -> "none"
               [] state[Main] \in {"user", "born"} -> "running"
               [] state[Main] = "stopped" /\ why[Main] # "seccomp" -> "event"
               [] state[Main] = "stopped" /\ why[Main] = "seccomp" ->
                    IF \E i \in 1 .. Len(stack) :
                         stack[i].pc = "vfs" /\ stack[i].tid = Main
                      THEN "handling" ELSE "trapped"
               [] OTHER -> "ended",
  inMain  <- enteredMain,
  reports <- exits,
  alive   <- host = "up"

\* With one thread, and nothing that ends it from outside, the tracer holds
\* and releases the program as the abstract tracer does.
ImplementsTracedProgram == Program!FairSpec

\* The end of the child never reaches the loop through waitpid's exit status,
\* as the assertion in handle_trap says (src/src/sandbox.cpp:590).
ChildNeverReaped == host # "assert_wait"

=============================================================================
