---------------------------- MODULE AgentPromise ----------------------------
(***************************************************************************)
(* What LaunchAgent.sh relies on in an agent's container: it waits for a   *)
(* message or is refused by the queue, works on at most one message,       *)
(* writes at most one report and only while it works, and once it has a    *)
(* message it ends.  Agent implements this; Launch uses it.                *)
(***************************************************************************)
VARIABLES
    phase,   \* of the container
    plot     \* does temp-plot.html exist in the container?

vars == <<phase, plot>>

Init == phase = "waiting" /\ plot = FALSE

Take == phase = "waiting" /\ phase' = "working" /\ UNCHANGED plot

Refused == phase = "waiting" /\ phase' = "gone" /\ UNCHANGED plot

WriteReport == phase = "working" /\ ~plot /\ plot' = TRUE /\ UNCHANGED phase

End == phase = "working" /\ phase' = "gone" /\ UNCHANGED plot

Next == Take \/ Refused \/ WriteReport \/ End

SafeSpec == Init /\ [][Next]_vars

\* An agent that has its message ends whatever the application does.
Spec == SafeSpec /\ WF_vars(End)
=============================================================================
