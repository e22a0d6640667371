------------------------------- MODULE Launch -------------------------------
(***************************************************************************)
(* One analysis after another on one host: comments_handler of             *)
(* rightsize/httpserver/server.py calls rightsize/LaunchAgent.sh, which    *)
(* builds the images, runs the application once for each CPU set, waits    *)
(* for the agent's container to exit, copies its report to                 *)
(* temp-plot.<runId>.html and at last removes every container; the handler *)
(* then reads and removes the plots.                                       *)
(*                                                                         *)
(* docker-compose, docker and redis are external and modelled as the       *)
(* script uses them.  The agent is the abstraction that AgentPromise       *)
(* states and Agent implements; client.py pushes its message once.  The    *)
(* fields `by' and `run' of messages and reports say which analysis and    *)
(* which iteration of it they stem from (0: none), for the properties; no  *)
(* guard reads them.                                                       *)
(***************************************************************************)
EXTENDS Integers, Sequences, FiniteSets, SequencesExt

CONSTANTS
    Packages,     \* names of packages (appPackage)
    NoName,       \* the empty image name
    Jobs,         \* pairs of an application command and a test command
    EmptyJob,     \* the pair whose application command is empty
    Asked,        \* the requests considered
    Swallowed,    \* the pair whose application command is "-m<package>"
    Runnable,     \* pairs the agent can run
    None,
    NumCores,     \* lines of /proc/cpuinfo
    Project,      \* docker-compose's project name: the directory of the script
    FaultSets,    \* the sets of external failures considered
    MaxLaunches   \* bound on the number of analyses

ASSUME NamesAssumption ==
    /\ NoName \notin Packages /\ EmptyJob \in Jobs /\ Swallowed \notin Jobs
    /\ Runnable \subseteq Jobs \ {EmptyJob}
    /\ None \notin Jobs \cup {Swallowed}
ASSUME HostAssumption ==
    /\ NumCores \in Nat \ {0} /\ MaxLaunches \in Nat
    /\ FaultSets \subseteq SUBSET {"build", "rmi", "interrupt"}

VARIABLES
    pc,        \* control point of the script and of the handler that calls it
    request,   \* what the browser asked for
    opts,      \* what the script understood
    launch,    \* number of the analysis
    runId,
    cache,     \* server.cache
    plots,     \* temp-plot.<n>.html in the server's directory
    images,    \* tagged images, by image name
    app,       \* the application's containers, by image name
    test,      \* the client's containers, by image name
    redis,     \* the redis container
    queue,     \* the redis list 'queue'
    waiting,   \* agents blocked in BLPOP, longest first
    written,   \* reports agents have written in this analysis
    status,    \* exit status of the script
    faults,    \* the external failures that may happen in this behaviour
    response   \* what the handler answered

scriptVars == <<pc, request, opts, launch, runId, cache, plots, images, status, response>>
dockerVars == <<app, test, redis, queue, waiting, written>>
vars == <<scriptVars, dockerVars, faults>>

Names == Packages \cup {NoName}
Commands == Jobs \cup {Swallowed}

\* The CPU sets tried, in order: none on a host with another number of cores.
CPUSET ==
    CASE NumCores = 8 -> <<0..0, 0..1, 0..3, 0..7>>
      [] NumCores = 4 -> <<0..0, 0..1, 0..2, 0..3>>
      [] NumCores = 1 -> <<0..0, 0..0, 0..0, 0..0>>
      [] OTHER        -> <<>>

CpuSets == {CPUSET[k] : k \in DOMAIN CPUSET} \cup {0..0}
PlotIds == 0..4

Requests == [package : Packages, job : Jobs, useCache : BOOLEAN, debugMode : BOOLEAN]
ASSUME AskedAssumption == Asked \subseteq Requests
Options == [image : Names, job : Commands, useCache : BOOLEAN, singleRun : BOOLEAN]
Messages == [job : Commands, by : 1..MaxLaunches]
Reports == [image : Names, job : Commands, cpus : CpuSets, by : 1..MaxLaunches, run : 0..5]
ASSUME ReportsAssumption == None \notin Reports

NoContainer == [state |-> "none", cpus |-> 0..0, msg |-> None, plot |-> None]
NoClient == [state |-> "none", job |-> None, by |-> 0]
AgentStates == {"none", "starting", "waiting", "working", "exited"}

TypeOK ==
    /\ pc \in {"idle", "build", "loop", "poll", "attached", "clean", "done"}
    /\ request \in Requests \cup {None} /\ opts \in Options \cup {None}
    /\ launch \in 0..MaxLaunches /\ runId \in 0..5
    /\ cache \in [Packages -> Jobs \cup {None}]
    /\ plots \in [PlotIds -> Reports \cup {None}]
    /\ images \in [Names -> [app : BOOLEAN, test : Commands \cup {None}]]
    /\ app \in [Names -> [state : AgentStates, cpus : CpuSets,
                          msg : Messages \cup {None}, plot : Reports \cup {None}]]
    /\ test \in [Names -> [state : {"none", "running", "exited"},
                           job : Commands \cup {None}, by : 0..MaxLaunches]]
    /\ redis \in {"none", "stopped", "starting", "ready"}
    /\ queue \in Seq(Messages) /\ waiting \in Seq(Names)
    /\ written \subseteq Reports
    /\ status \in {0, 1} /\ faults \in FaultSets
    /\ response \in Seq(Reports)
-----------------------------------------------------------------------------
Init ==
    /\ pc = "idle" /\ request = None /\ opts = None /\ launch = 0 /\ runId = 0
    /\ cache = [p \in Packages |-> None]
    /\ plots = [k \in PlotIds |-> None]
    /\ images = [i \in Names |-> [app |-> FALSE, test |-> None]]
    /\ app = [i \in Names |-> NoContainer]
    /\ test = [i \in Names |-> NoClient]
    /\ redis = "none" /\ queue = <<>> /\ waiting = <<>> /\ written = {}
    /\ status = 0 /\ response = <<>>
    /\ faults \in FaultSets
-----------------------------------------------------------------------------
(* The handler's first half and the script up to the build.                *)

\* getopts: an empty -a takes the next argument, -m<package>, as its value.
ParseArgs(r, cached) ==
    [image |-> IF r.job = EmptyJob THEN NoName ELSE r.package,
     job |-> IF r.job = EmptyJob THEN Swallowed ELSE r.job,
     useCache |-> cached, singleRun |-> r.debugMode]

\* Old plots are removed when there is one numbered 0.
RemoveOldPlots(files) == IF files[0] # None THEN [k \in PlotIds |-> None] ELSE files

\* Variant: any entry for the package counts as a hit.
NameHit(r) == r.useCache /\ cache[r.package] # None
CacheHit(r) == r.useCache /\ cache[r.package] = r.job

\* The cache entry is written before the script is run.
Analyze(r) ==
    /\ pc = "idle" /\ launch < MaxLaunches
    /\ request' = r
    /\ opts' = ParseArgs(r, CacheHit(r))
    /\ cache' = [cache EXCEPT ![r.package] = r.job]
    /\ plots' = RemoveOldPlots(plots)
    /\ launch' = launch + 1 /\ runId' = 1
    /\ written' = {} /\ response' = <<>>
    /\ pc' = IF CacheHit(r) THEN "loop" ELSE "build"
    /\ UNCHANGED <<images, status, app, test, redis, queue, waiting>>

\* What docker-compose has built of an image, given what it manages to build.
Built(image, done, job) ==
    [app |-> image.app \/ "app" \in done, test |-> IF "test" \in done THEN job ELSE image.test]

Builds == IF "build" \in faults THEN SUBSET {"app", "test"} ELSE {{"app", "test"}}

\* docker-compose build; nobody looks at its status.
Build ==
    /\ pc = "build"
    /\ \E done \in Builds :
         images' = [images EXCEPT ![opts.image] = Built(@, done, opts.job)]
    /\ pc' = "loop"
    /\ UNCHANGED <<request, opts, launch, runId, cache, plots, status, response, dockerVars>>
-----------------------------------------------------------------------------
(* docker-compose up.                                                      *)

\* A container whose image or configuration changed is made anew, one that is
\* stopped is started as it is, one that runs is left alone.
UpApplication(container, cpus) ==
    IF container.state = "none" \/ container.cpus # cpus
    THEN [state |-> "starting", cpus |-> cpus, msg |-> None, plot |-> None]
    ELSE IF container.state = "exited"
    THEN [container EXCEPT !.state = "starting", !.msg = None]
    ELSE container

UpClient(container, job) ==
    IF container.state # "running" \/ container.job # job
    THEN [state |-> "running", job |-> job, by |-> launch]
    ELSE container

\* redis and the client are pinned to CPU 1, which the host must have.
Startable == NumCores > 1

\* The agents that still wait when the container of i is gone.
Without(agents, i) ==
    IF \E k \in DOMAIN agents : agents[k] = i
    THEN RemoveAt(agents, CHOOSE k \in DOMAIN agents : agents[k] = i) ELSE agents

StartContainers(i, cpus) ==
    /\ redis' = IF redis \in {"none", "stopped"} THEN "starting" ELSE redis
    /\ app' = [app EXCEPT ![i] = UpApplication(@, cpus)]
    /\ test' = [test EXCEPT ![i] = UpClient(@, images'[i].test)]
    /\ waiting' = IF app'[i].state = "starting" THEN Without(waiting, i) ELSE waiting
    /\ UNCHANGED <<queue, written>>

\* Missing images are built first; when that or redis fails, nothing is started.  Where
\* the script goes on when the containers are up, and when they are not.
Up(cpus, started, failed) ==
    LET i == opts.image
        missing == {s \in {"app", "test"} : IF s = "app" THEN ~images[i].app
                                            ELSE images[i].test = None}
    IN \E done \in SUBSET missing :
         /\ done = missing \/ "build" \in faults
         /\ images' = [images EXCEPT ![i] = Built(@, done, opts.job)]
         /\ IF done = missing /\ Startable THEN StartContainers(i, cpus) /\ pc' = started
                                          ELSE UNCHANGED dockerVars /\ pc' = failed

\* One iteration's docker-compose up -d; nobody looks at its status.
UpDetached ==
    /\ pc = "loop" /\ ~opts.singleRun /\ runId <= Len(CPUSET)
    /\ Up(CPUSET[runId], "poll", "poll")
    /\ UNCHANGED <<request, opts, launch, runId, cache, plots, status, response>>

\* Debug mode: docker-compose up in the foreground, which lasts while any
\* container runs, and redis always does; when it fails, the script goes on.
UpAttached ==
    /\ pc = "loop" /\ opts.singleRun
    /\ Up(0..0, "attached", "clean")
    /\ UNCHANGED <<request, opts, launch, runId, cache, plots, status, response>>
-----------------------------------------------------------------------------
(* The containers (external, but for agent.py and client.py).              *)

RedisReady ==
    /\ redis = "starting" /\ redis' = "ready"
    /\ UNCHANGED <<scriptVars, app, test, queue, waiting, written>>

\* agent.py:21-22: connect and BLPOP; no retry when redis refuses.
AgentConnects(i) ==
    /\ app[i].state = "starting"
    /\ \/ /\ redis # "ready"
          /\ app' = [app EXCEPT ![i].state = "exited"]
          /\ UNCHANGED <<queue, waiting>>
       \/ /\ redis = "ready" /\ queue # <<>>
          /\ app' = [app EXCEPT ![i].state = "working", ![i].msg = Head(queue)]
          /\ queue' = Tail(queue) /\ UNCHANGED waiting
       \/ /\ redis = "ready" /\ queue = <<>>
          /\ app' = [app EXCEPT ![i].state = "waiting"]
          /\ waiting' = Append(waiting, i) /\ UNCHANGED queue
    /\ UNCHANGED <<scriptVars, test, redis, written>>

\* client.py: RPUSH, which redis hands to the agent that has waited longest.
ClientPushes(i) ==
    LET m == [job |-> test[i].job, by |-> test[i].by]
    IN /\ test[i].state = "running"
       /\ test' = [test EXCEPT ![i].state = "exited"]
       /\ \/ /\ redis # "ready"
             /\ UNCHANGED <<app, queue, waiting>>
          \/ /\ redis = "ready" /\ waiting # <<>>
             /\ app' = [app EXCEPT ![Head(waiting)].state = "working", ![Head(waiting)].msg = m]
             /\ waiting' = Tail(waiting) /\ UNCHANGED queue
          \/ /\ redis = "ready" /\ waiting = <<>>
             /\ queue' = Append(queue, m) /\ UNCHANGED <<app, waiting>>
       /\ UNCHANGED <<scriptVars, redis, written>>

\* The agent ends: with a report of its run, or of an exception without one.
AgentEnds(i) ==
    LET r == [image |-> i, job |-> app[i].msg.job, cpus |-> app[i].cpus,
              by |-> app[i].msg.by, run |-> IF pc = "poll" THEN runId ELSE 0]
    IN /\ app[i].state = "working"
       /\ \/ /\ app[i].msg.job \in Runnable
             /\ app' = [app EXCEPT ![i].state = "exited", ![i].plot = r]
             /\ written' = written \cup {r}
          \/ /\ app' = [app EXCEPT ![i].state = "exited"]
             /\ UNCHANGED written
       /\ UNCHANGED <<scriptVars, test, redis, queue, waiting>>
-----------------------------------------------------------------------------
(* The rest of the script, and of the handler.                             *)

\* Variant: the name is that of another project's container.
AgentExitedElsewhere(i) == Project = "rightsize" /\ app[i].state = "exited"

\* The script looks for a container of the project "sampleagent".
AgentExited(i) == Project = "sampleagent" /\ app[i].state = "exited"

\* Variant: the plots are numbered from 0.
PlotFromZero == runId - 1
PlotNumber == runId

\* docker cp; it fails when the container has no report, and nobody looks.
CopyPlot ==
    LET plot == app[opts.image].plot
    IN /\ pc = "poll" /\ AgentExited(opts.image)
       /\ plots' = [plots EXCEPT ![PlotNumber] = IF plot # None THEN plot ELSE @]
       /\ runId' = runId + 1
       /\ pc' = "loop"
       /\ UNCHANGED <<request, opts, launch, cache, images, status, response, dockerVars>>

\* Variant: redis is left running for the next analysis.
KeepRedis == UNCHANGED <<redis, queue, waiting>>
RemoveRedis == redis' = "none" /\ queue' = <<>> /\ waiting' = <<>>

\* Every container of the host is stopped and removed.  The status of the
\* script is that of its last command, which removes untagged images.
CleanUp ==
    /\ \/ pc = "clean"
       \/ pc = "loop" /\ ~opts.singleRun /\ runId > Len(CPUSET)
    /\ app' = [i \in Names |-> NoContainer]
    /\ test' = [i \in Names |-> NoClient]
    /\ RemoveRedis
    /\ status' \in IF "rmi" \in faults THEN {0, 1} ELSE {0}
    /\ pc' = "done"
    /\ UNCHANGED <<request, opts, launch, runId, cache, plots, images, written, response>>

\* The handler goes through the sorted names of the directory's files.
ReadPlot(read, plot) == IF plot = None THEN read ELSE Append(read, plot)
ReadPlots(files) ==
    ReadPlot(ReadPlot(ReadPlot(ReadPlot(ReadPlot(<<>>, files[0]), files[1]), files[2]), files[3]), files[4])

\* It reads the plots in order and removes them, or answers nothing and leaves
\* them.
Respond ==
    /\ pc = "done"
    /\ \/ /\ status = 0
          /\ response' = ReadPlots(plots)
          /\ plots' = [k \in PlotIds |-> None]
       \/ /\ status # 0
          /\ UNCHANGED <<response, plots>>
    /\ pc' = "idle"
    /\ UNCHANGED <<request, opts, launch, runId, cache, images, status, dockerVars>>

\* Ctrl-C at LaunchServer.sh, and a restart: the server and the script are gone,
\* the containers and the files stay.  Only docker-compose in the foreground stops
\* its containers, redis with its list saved; agents that wait on redis then end.
Interrupt ==
    /\ "interrupt" \in faults /\ pc # "idle"
    /\ pc' = "idle"
    /\ \/ /\ pc # "attached"
          /\ UNCHANGED dockerVars
       \/ /\ pc = "attached"
          /\ redis' = IF redis = "none" THEN redis ELSE "stopped"
          /\ app' = [i \in Names |->
                       IF app[i].state = "waiting" \/ (i = opts.image /\ app[i].state # "none")
                       THEN [app[i] EXCEPT !.state = "exited"] ELSE app[i]]
          /\ test' = [test EXCEPT ![opts.image].state = IF @ = "running" THEN "exited" ELSE @]
          /\ waiting' = <<>>
          /\ UNCHANGED <<queue, written>>
    /\ UNCHANGED <<request, opts, launch, runId, cache, plots, images, status, response>>

Script == Build \/ UpDetached \/ UpAttached \/ CopyPlot \/ CleanUp \/ Respond

Next ==
    /\ \/ \E r \in Asked : Analyze(r)
       \/ Script
       \/ RedisReady
       \/ \E i \in Names : AgentConnects(i) \/ ClientPushes(i) \/ AgentEnds(i)
       \/ Interrupt
    /\ UNCHANGED faults

\* The script and the containers are running processes.  That an agent with a
\* message ends is what AgentPromise states.  Requests and Ctrl-C are free.
Fairness ==
    /\ WF_vars(Script /\ UNCHANGED faults) /\ WF_vars(RedisReady /\ UNCHANGED faults)
    /\ \A i \in Names : /\ WF_vars(AgentConnects(i) /\ UNCHANGED faults)
                        /\ WF_vars(ClientPushes(i) /\ UNCHANGED faults)
                        /\ WF_vars(AgentEnds(i) /\ UNCHANGED faults)

Spec == Init /\ [][Next]_vars /\ Fairness
-----------------------------------------------------------------------------
(* Properties.                                                             *)

\* The state is of its type, and a report the agent wrote in an iteration is the one in
\* that iteration's temp-plot file when the handler reads the files: neither the
\* polling loop nor the re-created container loses or shifts one
\* (LaunchAgent.sh:82-102), and the answer is in ascending order of CPU cores,
\* whichever are missing.
ReportDelivered ==
    /\ TypeOK
    /\ pc = "done" => \A r \in written : r.image = opts.image /\ r.run # 0 => plots[r.run] = r
    /\ \A j, k \in DOMAIN response : j < k => Cardinality(response[j].cpus) < Cardinality(response[k].cpus)

\* Where builds and the clean-up succeed and nobody interrupts, an answer holds
\* measurements of the package and of the commands that were asked for, never those of
\* another analysis, although redis may refuse agents and clients and agents may die.
AnswerIsOwn ==
    faults = {} => \A k \in DOMAIN response : /\ response[k].image = request.package
                                            /\ response[k].job = request.job

\* Unless an analysis was interrupted, the queue never carries a message over to
\* another one, although agents and clients that redis refuses leave messages behind
\* or never send theirs.
NoForeignMessage ==
    "interrupt" \notin faults =>
      /\ \A k \in DOMAIN queue : queue[k].by = launch
      /\ \A i \in Names : app[i].state = "working" => app[i].msg.by = launch

\* The agent waits for a message nobody will send: its client was refused.
Deserted == app[opts.image].state = "waiting" /\ queue = <<>> /\ test[opts.image].state # "running"

\* Every iteration ends: no wake-up is lost between BLPOP, RPUSH, the agent's end and
\* the poll.  There are two exceptions: an agent that is deserted, a finding
\* (AgentExits), and a container that was never made because a build failed and nobody
\* looked.  This is of a script run in a directory "sampleagent", whose name
\* LaunchAgent.sh:90 has; what happens where LaunchServer.sh runs it is ExitIsSeen.
IterationEnds ==
    (Project = "sampleagent" /\ "interrupt" \notin faults /\ pc = "poll")
      ~> (pc # "poll" \/ Deserted \/ (faults # {} /\ app[opts.image].state = "none"))

\* LaunchAgent.sh:86, "Wait for agent container to exit, and then graph": the script
\* goes on once the container has exited, whatever the name of its directory.  Refuted
\* where the directory is the one LaunchServer.sh:1-4 changes to.
ExitIsSeen ==
    (faults = {} /\ pc = "poll" /\ app[opts.image].state = "exited") ~> pc # "poll"

\* The same line takes it that the container exits: where nothing outside fails, the
\* agent of an iteration ends.  Refuted: client.py:11 is refused by a redis that is
\* not ready and its message is lost, and BLPOP (agent.py:22) has no timeout.
AgentExits ==
    (faults = {} /\ pc = "poll" /\ app[opts.image].state # "none") ~> (pc # "poll" \/ app[opts.image].state = "exited")

\* README.md:11: the tests that are specified are run and what was measured of that
\* application is answered, also after an analysis whose clean-up failed.  Refuted: a
\* copy that fails (LaunchAgent.sh:96) leaves the other application's plot in its place.
AnswerAfterFailure ==
    "build" \notin faults => \A k \in DOMAIN response : response[k].image = request.package
=============================================================================
