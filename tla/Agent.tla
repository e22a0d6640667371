------------------------------- MODULE Agent -------------------------------
(***************************************************************************)
(* The instrumentation agent, rightsize/agent/agent.py: PID 1 of the       *)
(* application container.  It takes one message from the queue, starts the *)
(* application and the test it names, samples the application maxSnapshots *)
(* times into a ring of snapshotSize slots, kills both processes, writes   *)
(* the performance report (temp-plot.html) and exits.                      *)
(*                                                                         *)
(* The application, its descendants and the test are processes of their    *)
(* own: they start and end between any two steps of the agent.  A sample   *)
(* keeps the fields the report uses; the four netstat counters, which the  *)
(* code treats alike, are one counter.  The field `at' numbers the samples *)
(* for the properties; no guard reads it.                                  *)
(***************************************************************************)
EXTENDS Integers, Sequences, FiniteSets, Functions

CONSTANTS
    Commands,     \* command lines, the empty one included
    Empty,        \* the empty command line
    None,         \* Python's None
    Files,        \* commands whose first word names a file of the container
    Runnable,     \* commands that Popen can start
    Configs,      \* contents agent.yaml may have
    Descendants,  \* processes the application may fork
    Loads,        \* CPU percentages a process may show
    Sizes,        \* resident set sizes of a live application, in bytes
    PacketMoves   \* numbers of packets that may move between two samples

ASSUME ConfigsAssumption ==
    /\ Configs \subseteq [snapshotSize : Nat, maxSnapshots : Nat]
    /\ Configs # {}
ASSUME CommandsAssumption ==
    /\ Empty \in Commands /\ None \notin Commands
    /\ None \notin [at : Nat, cpu : Nat, memory : Nat, packets : Nat]
    /\ Files \subseteq Commands /\ Runnable \subseteq Files \ {Empty}
ASSUME ReadingsAssumption ==
    /\ Loads \subseteq Nat /\ Loads # {}
    /\ Sizes \subseteq Nat \ {0} /\ Sizes # {}
    /\ PacketMoves \subseteq Nat /\ PacketMoves # {}

VARIABLES
    pc,               \* the agent's control point
    msgdict,          \* the message taken from the queue
    config,           \* agent.yaml as loaded
    Application,      \* the application process
    Test,             \* the test process
    forked,           \* live processes the application has forked
    readable,         \* does netstat print the lines the agent greps for?
    packets,          \* the kernel's packet counter
    toMeasure,        \* children of this iteration still to be measured
    total_cpu_percent,
    snapshots,
    currentSnapshot,
    firstSnapshot,
    logs,             \* the log files that exist
    report,           \* temp-plot.html and the printed totals
    container         \* docker's state of the container

loopVars == <<toMeasure, total_cpu_percent>>
ringVars == <<config, snapshots, currentSnapshot, firstSnapshot>>
fileVars == <<logs, report>>
procVars == <<Application, Test, forked>>
hostVars == <<readable, packets, container>>
agentVars == <<pc, msgdict, loopVars, ringVars, fileVars>>
vars == <<agentVars, procVars, hostVars>>

Messages == [Application : Commands \cup {None}, Test : Commands]
NoMessage == [Application |-> None, Test |-> Empty]
Snapshot == [at : Nat, cpu : Nat, memory : Nat, packets : Nat]

ProcessStates == {"absent", "running", "ended"}
Ended == {"exited", "crashed"}
Sampling == {"loop", "measure", "report", "remove"}

\* Popen objects are never waited for, so a process that ends stays a zombie:
\* its pid is still valid and SIGKILL to it succeeds and does nothing.
Kill(process) == IF process = "running" THEN "ended" ELSE process

TypeOK ==
    /\ pc \in {"blpop", "start", "test", "config"} \cup Sampling \cup Ended
    /\ msgdict \in Messages
    /\ config \in [snapshotSize : Nat, maxSnapshots : Nat]
    /\ Application \in ProcessStates /\ Test \in ProcessStates
    /\ forked \subseteq Descendants /\ toMeasure \subseteq Descendants
    /\ readable \in BOOLEAN
    /\ packets \in Nat /\ total_cpu_percent \in Nat /\ currentSnapshot \in Nat
    /\ snapshots \in Seq(Snapshot)
    /\ firstSnapshot \in Snapshot \cup {None}
    /\ logs \subseteq {"app.log", "test.log"}
    /\ report # None => /\ report.cpuData \in Seq(Nat) /\ report.memoryData \in Seq(Nat)
                        /\ report.packetData \in Seq(Nat) /\ report.totalPackets \in Int
    /\ container \in {"running", "exited"}
-----------------------------------------------------------------------------
Init ==
    /\ pc = "blpop"
    /\ msgdict = NoMessage
    /\ config = [snapshotSize |-> 0, maxSnapshots |-> 0]
    /\ Application = "absent" /\ Test = "absent"
    /\ forked = {} /\ toMeasure = {}
    /\ readable \in BOOLEAN
    /\ packets = 0 /\ total_cpu_percent = 0 /\ currentSnapshot = 0
    /\ snapshots = <<>>
    /\ firstSnapshot = None
    /\ logs = {}
    /\ report = None
    /\ container = "running"

\* main: BLPOP with no timeout returns the next message of the queue...
Receive(m) ==
    /\ pc = "blpop"
    /\ msgdict' = m
    /\ pc' = "start"
    /\ UNCHANGED <<loopVars, ringVars, fileVars, procVars, hostVars>>

\* ... or raises, because redis does not accept connections (yet).
ConnectionError ==
    /\ pc = "blpop"
    /\ pc' = "crashed"
    /\ UNCHANGED <<msgdict, loopVars, ringVars, fileVars, procVars, hostVars>>
-----------------------------------------------------------------------------
(* ProcessMessage, up to the sampling loop.                                *)

\* magic.from_file raises when a command's first word is not a file.
MagicRaises(m) == \/ m.Application \notin {None, Empty} \cup Files
                  \/ m.Test \notin {Empty} \cup Files

\* The ways ProcessMessage ends before the application is started: magic
\* raises, the early return for None, and Popen raising on a command that is
\* empty or cannot be executed (both log files are open by then).
StartNothing ==
    /\ pc = "start"
    /\ \/ /\ MagicRaises(msgdict)
          /\ pc' = "crashed" /\ logs' = logs
       \/ /\ ~MagicRaises(msgdict) /\ msgdict.Application = None
          /\ pc' = "exited" /\ logs' = logs
       \/ /\ ~MagicRaises(msgdict) /\ msgdict.Application # None
          /\ msgdict.Application \notin Runnable
          /\ pc' = "crashed" /\ logs' = {"app.log", "test.log"}
    /\ UNCHANGED <<msgdict, loopVars, ringVars, report, procVars, hostVars>>

StartApplication ==
    /\ pc = "start"
    /\ ~MagicRaises(msgdict)
    /\ msgdict.Application \in Runnable
    /\ logs' = {"app.log", "test.log"}
    /\ Application' = "running"
    /\ pc' = "test"
    /\ UNCHANGED <<msgdict, loopVars, ringVars, report, Test, forked, hostVars>>

\* Popen of the test; when it raises, the application is already running.
StartTest ==
    /\ pc = "test"
    /\ \/ /\ msgdict.Test = Empty
          /\ pc' = "config" /\ Test' = Test
       \/ /\ msgdict.Test \in Runnable
          /\ pc' = "config" /\ Test' = "running"
       \/ /\ msgdict.Test \notin Runnable \cup {Empty}
          /\ pc' = "crashed" /\ Test' = Test
    /\ UNCHANGED <<msgdict, loopVars, ringVars, fileVars, Application, forked, hostVars>>

LoadConfig(c) ==
    /\ pc = "config"
    /\ config' = c
    /\ snapshots' = <<>> /\ currentSnapshot' = 0 /\ firstSnapshot' = None
    /\ pc' = "loop"
    /\ UNCHANGED <<msgdict, loopVars, fileVars, procVars, hostVars>>
-----------------------------------------------------------------------------
(* The sampling loop.                                                      *)

\* Variant: the application measures itself among its descendants.
ChildrenAndSelf == forked \cup {msgdict.Application}

\* children(recursive=True): a forked process stops being a descendant of the
\* application when the application ends, because it is re-parented.
Children == IF Application = "running" THEN forked ELSE {}

BeginSnapshot ==
    /\ pc = "loop"
    /\ currentSnapshot < config.maxSnapshots
    /\ total_cpu_percent' = 0
    /\ toMeasure' = Children
    /\ pc' = "measure"
    /\ UNCHANGED <<msgdict, ringVars, fileVars, procVars, hostVars>>

\* Variant: the exception about a child that has gone is not caught.
MeasureUncaught(c) ==
    /\ pc = "measure"
    /\ c \in toMeasure
    /\ \/ /\ c \in forked
          /\ \E load \in Loads : total_cpu_percent' = total_cpu_percent + load
          /\ pc' = pc
       \/ /\ c \notin forked
          /\ total_cpu_percent' = total_cpu_percent
          /\ pc' = "crashed"
    /\ toMeasure' = toMeasure \ {c}
    /\ UNCHANGED <<msgdict, ringVars, fileVars, procVars, hostVars>>

\* cpu_percent(interval=0.05) of one child; it raises NoSuchProcess when the
\* child has gone since the list was made, and the loop continues.
MeasureChild(c) ==
    /\ pc = "measure"
    /\ c \in toMeasure
    /\ \/ /\ c \in forked
          /\ \E load \in Loads : total_cpu_percent' = total_cpu_percent + load
       \/ /\ c \notin forked
          /\ total_cpu_percent' = total_cpu_percent
    /\ toMeasure' = toMeasure \ {c}
    /\ UNCHANGED <<pc, msgdict, ringVars, fileVars, procVars, hostVars>>

\* Variant: the list is taken for full one sample early.
StoreEarly(ring, n, size, sndict) ==
    IF n < size THEN Append(ring, sndict)
    ELSE [ring EXCEPT ![(n % size) + 1] = sndict]

\* The sample goes to the end of the list until the list is full, and then to
\* index currentSnapshot % snapshotSize (Python's index k is element k + 1).
Store(ring, n, size, sndict) ==
    IF n <= size THEN Append(ring, sndict)
    ELSE [ring EXCEPT ![(n % size) + 1] = sndict]

\* A zombie has no memory: statm reads 0.
Rss == IF Application = "running" THEN Sizes ELSE {0}

TakeSnapshot ==
    /\ pc = "measure"
    /\ toMeasure = {}
    /\ \E rss \in Rss, moved \in PacketMoves :
         LET n == currentSnapshot + 1
             sndict == [at |-> n, cpu |-> total_cpu_percent, memory |-> rss,
                        packets |-> packets + moved]
         IN /\ packets' = packets + moved
            /\ currentSnapshot' = n
            /\ \/ /\ config.snapshotSize > 0
                  /\ snapshots' = Store(snapshots, n, config.snapshotSize, sndict)
                  /\ firstSnapshot' = IF firstSnapshot = None THEN sndict ELSE firstSnapshot
                  /\ pc' = "loop"
               \/ /\ config.snapshotSize = 0    \* ZeroDivisionError
                  /\ pc' = "crashed"
                  /\ UNCHANGED <<snapshots, firstSnapshot>>
    /\ UNCHANGED <<msgdict, loopVars, config, fileVars, procVars, readable, container>>

\* Variant: the application is waited for.
ApplicationDone == currentSnapshot >= config.maxSnapshots /\ Application = "ended"
LoopDone == currentSnapshot >= config.maxSnapshots

\* Variant: the test is left running.
TestLeft == Test
TestKilled == IF msgdict.Test # Empty THEN Kill(Test) ELSE Test

KillProcesses ==
    /\ pc = "loop" /\ LoopDone
    /\ Application' = Kill(Application)
    /\ Test' = TestKilled
    /\ pc' = "report"
    /\ UNCHANGED <<msgdict, loopVars, ringVars, fileVars, forked, hostVars>>
-----------------------------------------------------------------------------
(* ComputePerformanceReport.                                               *)

\* Variant: the count is turned into the index of the sample counted last.
LastAppended(ring, n) == ring[((n - 1) % Len(ring)) + 1]

LastSnapshot(ring, n) == ring[(n % Len(ring)) + 1]

MeanOf(series) == SumFunction(series) \div Len(series)

\* meanMemory divides integers, which Python 2 rounds down; meanCpu divides
\* floats, so it is kept as numerator and denominator (the number of cores,
\* a factor of every sample, is left out).
ReportOf(ring, first, n) ==
    LET Series(f) == [i \in 1..Len(ring) |-> ring[i][f]]
    IN [cpuData |-> Series("cpu"), memoryData |-> Series("memory"),
        packetData |-> Series("packets"),
        meanCpu |-> <<SumFunction(Series("cpu")), Len(ring)>>,
        meanMemory |-> MeanOf(Series("memory")),
        totalPackets |-> LastSnapshot(ring, n).packets - first.packets]

\* Division by len(snapshots) raises when there is no sample, and int('')
\* raises when netstat printed none of the lines; neither writes the file.
ComputePerformanceReport ==
    /\ pc = "report"
    /\ \/ /\ snapshots # <<>> /\ readable
          /\ report' = ReportOf(snapshots, firstSnapshot, currentSnapshot)
          /\ pc' = "remove"
       \/ /\ snapshots = <<>> \/ ~readable
          /\ report' = report
          /\ pc' = "crashed"
    /\ UNCHANGED <<msgdict, loopVars, ringVars, logs, procVars, hostVars>>

RemoveLogs ==
    /\ pc = "remove"
    /\ logs' = {}
    /\ pc' = "exited"
    /\ UNCHANGED <<msgdict, loopVars, ringVars, report, procVars, hostVars>>
-----------------------------------------------------------------------------
(* The other processes of the container (external).                        *)

ApplicationEnds ==
    /\ Application = "running" /\ Application' = "ended"
    /\ UNCHANGED <<agentVars, Test, forked, hostVars>>

TestEnds ==
    /\ Test = "running" /\ Test' = "ended"
    /\ UNCHANGED <<agentVars, Application, forked, hostVars>>

Fork(c) ==
    /\ Application = "running" /\ c \notin forked
    /\ forked' = forked \cup {c}
    /\ UNCHANGED <<agentVars, Application, Test, hostVars>>

ForkedEnds(c) ==
    /\ c \in forked
    /\ forked' = forked \ {c}
    /\ UNCHANGED <<agentVars, Application, Test, hostVars>>

\* The kernel ends every process of a container whose PID 1 has ended.
ContainerExits ==
    /\ pc \in Ended /\ container = "running"
    /\ container' = "exited"
    /\ Application' = Kill(Application) /\ Test' = Kill(Test) /\ forked' = {}
    /\ UNCHANGED <<agentVars, readable, packets>>

AgentStep ==
    \/ StartNothing \/ StartApplication \/ StartTest
    \/ \E c \in Configs : LoadConfig(c)
    \/ BeginSnapshot
    \/ \E c \in Descendants : MeasureChild(c)
    \/ TakeSnapshot \/ KillProcesses \/ ComputePerformanceReport \/ RemoveLogs
    \/ ContainerExits

Environment ==
    \/ \E m \in Messages : Receive(m)
    \/ ConnectionError
    \/ ApplicationEnds \/ TestEnds
    \/ \E c \in Descendants : Fork(c) \/ ForkedEnds(c)

Next == AgentStep \/ Environment

\* The agent is a running process none of whose calls blocks for ever once
\* BLPOP has returned; nothing is assumed of the application or of the test.
Spec == Init /\ [][Next]_vars /\ WF_vars(AgentStep)
-----------------------------------------------------------------------------
(* Properties.                                                             *)

Retained == {snapshots[i].at : i \in 1..Len(snapshots)}

\* Which samples the ring holds after n of them: all of them while they fit;
\* once they do not, the newest ones, except that the very first sample is
\* kept until number 2 * snapshotSize takes index 0 (the code fills from index
\* 0 but wraps round to index 1), at the cost of the sample a ring that wraps to
\* its oldest slot would still have.
Window(n, size) ==
    IF n <= size THEN 1..n
    ELSE IF n < 2 * size THEN {1} \cup (n - size + 2)..n
    ELSE (n - size + 1)..n

\* At every iteration of the sampling loop and in the report, the ring holds
\* exactly the samples of the window, each of them once: no slot is lost,
\* filled twice or left stale by the modular index of agent.py:129-132.
RetainedWindow ==
    pc \in Sampling =>
      /\ Retained = Window(currentSnapshot, config.snapshotSize)
      /\ \A i, j \in 1..Len(snapshots) : snapshots[i].at = snapshots[j].at => i = j

\* The packet totals the report prints (agent.py:31-41): when the ring wraps they
\* span the whole run, from the first sample to the newest one, which carries the
\* counter's current value.  With a ring that every sample fits in, which the shipped
\* agent.yaml has, the sample taken for the last one is the first one, so the totals
\* are 0 whatever the traffic was.
TotalPackets ==
    report # None =>
      report.totalPackets = IF config.maxSnapshots > config.snapshotSize
                            THEN packets - firstSnapshot.packets ELSE 0

\* What no agent can work with: redis does not answer, a command cannot be run,
\* agent.yaml asks for no sample or for a ring without slots, netstat prints none of
\* the lines the agent looks for.
CannotWork ==
    \/ msgdict = NoMessage
    \/ msgdict.Application \notin Runnable \/ msgdict.Test \notin Runnable \cup {Empty}
    \/ config \in Configs /\ (config.snapshotSize = 0 \/ config.maxSnapshots = 0)
    \/ ~readable

\* An agent that died of an exception, wherever that was raised, has left no
\* temp-plot.html for LaunchAgent.sh to copy out of the container, and died of what it
\* was given: a descendant that ends between children() and its measurement, or the
\* application or the test that end first, never kill it (agent.py:114-118, 137-139).
\* One that has left the file has killed the application and the test before.
ReportOnlyFromACompleteRun ==
    /\ pc = "crashed" => report = None /\ CannotWork
    /\ report # None => /\ Application = "ended" /\ Test # "running"
                        /\ Len(report.cpuData) = currentSnapshot \/
                             Len(report.cpuData) = config.snapshotSize
                        /\ currentSnapshot = config.maxSnapshots

\* The container as LaunchAgent.sh sees it: an agent that redis refused is
\* still waiting when its container goes.
Phase == IF container = "exited" THEN "gone"
         ELSE IF pc = "blpop" \/ (pc = "crashed" /\ msgdict = NoMessage) THEN "waiting"
         ELSE "working"

Promise == INSTANCE AgentPromise WITH phase <- Phase, plot <- (report # None)

\* The agent keeps the promise that Launch is built on: it takes one message,
\* writes at most one report, before its container exits and never after, and
\* its container exits.
KeepsPromise == Promise!Spec
-----------------------------------------------------------------------------
(* The inductive invariant behind RetainedWindow and TotalPackets.         *)

\* The sample that next overwrites the one numbered `at' in slot i.
NextWrite(at, i, size) ==
    IF at > size THEN at + size ELSE IF i = 1 THEN 2 * size ELSE size + i - 1

\* Slot i holds a sample that was written there and not overwritten since.
SlotOK(sndict, i, n, size) ==
    /\ sndict.at \in 1..n
    /\ sndict.at <= size => sndict.at = i
    /\ sndict.at > size => sndict.at % size = i - 1
    /\ n < NextWrite(sndict.at, i, size)

RingOK(ring, n, size) ==
    /\ ring \in Seq(Snapshot)
    /\ Len(ring) = IF n <= size THEN n ELSE size
    /\ \A i \in 1..Len(ring) : SlotOK(ring[i], i, n, size)

\* The newest sample carries the current counter, the first one is kept apart.
EndsOK ==
    /\ \A i \in 1..Len(snapshots) :
         /\ snapshots[i].at = currentSnapshot => snapshots[i].packets = packets
         /\ snapshots[i].at = 1 => snapshots[i] = firstSnapshot
    /\ currentSnapshot = 0 <=> firstSnapshot = None

IInv ==
    /\ TypeOK
    /\ pc \in Sampling => /\ config \in Configs
                          /\ currentSnapshot <= config.maxSnapshots
                          /\ RingOK(snapshots, currentSnapshot, config.snapshotSize)
                          /\ EndsOK
    /\ pc = "measure" => currentSnapshot < config.maxSnapshots
    /\ pc \in {"report", "remove"} => currentSnapshot = config.maxSnapshots
    /\ report # None => pc \in {"remove", "exited"}

\* Behind KeepsPromise: past its start the agent has a command it could run, and
\* the container outlives its PID 1 by no step of the agent.
PhaseInv ==
    /\ pc \in {"test", "config"} \cup Sampling => msgdict.Application \in Runnable
    /\ container = "exited" => pc \in Ended

\* Behind ReportOnlyFromACompleteRun: which processes there are at which point, that
\* nothing starts one again after they were killed, and that the agent waits for a
\* message it has not got.
ProcessInv ==
    /\ pc = "blpop" => msgdict = NoMessage
    /\ pc \in {"test", "config"} \cup Sampling => Application # "absent"
    /\ Test = "running" => msgdict.Test # Empty /\ pc \notin {"blpop", "start", "test"}
    /\ pc \in {"report", "remove"} => Application = "ended" /\ Test # "running"
=============================================================================
