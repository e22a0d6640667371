----------------------------- MODULE MCLaunch ------------------------------
(* An instance of Launch for TLC. *)
EXTENDS Launch

CONSTANTS p1, p2, job1, job2

MCFaultSets == {{}, {"build", "rmi"}, {"build", "rmi", "interrupt"}}
MCNoFaults == {{}}
MCCleanUpFails == {{"rmi"}}

\* Two packages, two jobs of one of them, the empty command, the cache and debug mode.
Ask(package, job, useCache, debugMode) ==
    [package |-> package, job |-> job, useCache |-> useCache, debugMode |-> debugMode]
MCAsked == {Ask(p1, job1, TRUE, FALSE), Ask(p1, job1, TRUE, TRUE),
            Ask(p1, job2, TRUE, FALSE), Ask(p2, job1, FALSE, FALSE), Ask(p2, EmptyJob, FALSE, FALSE)}
=============================================================================
