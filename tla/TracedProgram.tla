---------------------------- MODULE TracedProgram ----------------------------
(***************************************************************************)
(* What a single-threaded program sees of the tracer: it is started once,  *)
(* stopped at a system call or another event, and let go again; a call     *)
(* made after the program's exec has been through its handler when the     *)
(* program goes on; and its end is reported in the step that releases it.  *)
(***************************************************************************)
EXTENDS Naturals

VARIABLES
  phase,    \* what the program is doing
  inMain,   \* it has been through its exec
  reports,  \* reports of its end
  alive     \* the tracer is there

vars == <<phase, inMain, reports, alive>>

Init == phase = "none" /\ inMain = FALSE /\ reports = 0 /\ alive = TRUE

Start == phase = "none" /\ phase' = "running" /\ UNCHANGED <<inMain, reports, alive>>

Stop == /\ phase = "running" /\ phase' \in {"trapped", "event"}
        /\ UNCHANGED <<inMain, reports, alive>>

Handle == /\ alive /\ phase = "trapped" /\ inMain
          /\ phase' = "handling"
          /\ UNCHANGED <<inMain, reports, alive>>

Release ==
  /\ alive
  /\ \/ phase = "handling"
     \/ phase = "trapped" /\ ~inMain
     \/ phase = "event"
  /\ phase' = "running"
  /\ inMain' \in IF phase = "event" THEN {inMain, TRUE} ELSE {inMain}
  /\ UNCHANGED <<reports, alive>>

End == /\ alive /\ phase = "event"
       /\ phase' = "ended" /\ reports' = reports + 1
       /\ UNCHANGED <<inMain, alive>>

\* The tracer may give up only when nothing is left to trace.
Leave == alive /\ phase = "ended" /\ alive' = FALSE /\ UNCHANGED <<phase, inMain, reports>>

Next == Start \/ Stop \/ Handle \/ Release \/ End \/ Leave

Spec == Init /\ [][Next]_vars

\* A stopped program is let go.
FairSpec == Spec /\ WF_vars(Handle \/ Release \/ End)

=============================================================================
