---------------------------- MODULE LaunchProofs ----------------------------
(***************************************************************************)
(* Theorems about Launch, for every set of packages and of commands, every *)
(* number of cores, every set of requests and of failures, and any number  *)
(* of analyses one after another.                                          *)
(***************************************************************************)
EXTENDS Launch, FiniteSetTheorems, SequenceTheorems, TLAPS

-----------------------------------------------------------------------------
(* The inductive invariant.                                                *)

\* While an analysis is under way there are a request, what the script understood
\* of it and a number of the iteration; a polling script has a CPU set.
ControlInv ==
    /\ pc # "idle" => /\ launch \in 1..MaxLaunches /\ runId \in 1..5
                      /\ request \in Requests /\ opts \in Options
    /\ pc = "poll" => runId \in DOMAIN CPUSET

\* A container was started from images that had been built, a running client and
\* a working agent have a message, and a report in a container is its agent's own.
ContainerInv ==
    \A i \in Names :
        /\ app[i].state # "none" => Startable /\ images[i].app /\ images[i].test # None
        /\ app[i].state = "working" => app[i].msg \in Messages
        /\ app[i].plot # None => /\ app[i].state # "none"
                                 /\ app[i].plot.cpus = app[i].cpus /\ app[i].plot.image = i
                                 /\ app[i].plot.job \in Runnable
        /\ test[i].state = "running" => test[i].job \in Commands /\ test[i].by \in 1..MaxLaunches

\* The agents that redis knows to wait do wait, each of them once.
WaitingInv ==
    /\ \A k \in DOMAIN waiting : app[waiting[k]].state = "waiting"
    /\ \A j, k \in DOMAIN waiting : waiting[j] = waiting[k] => j = k

\* The agent that the script polls, if there is one, runs on the CPU set of the
\* iteration; so does the one whose report is in the iteration's file.
PlotsInv ==
    /\ pc = "poll" /\ app[opts.image].state # "none" => app[opts.image].cpus = CPUSET[runId]
    /\ plots[0] = None
    /\ \A k \in 1..4 : plots[k] # None => Startable /\ k \in DOMAIN CPUSET /\ plots[k].cpus = CPUSET[k]

\* A report of an iteration is in its file, or the iteration is not over and the
\* report is in the container, whose agent has exited.
DeliveryInv ==
    pc # "idle" => \A r \in written : r.image = opts.image /\ r.run # 0 =>
        \/ r.run < runId /\ plots[r.run] = r
        \/ pc = "poll" /\ r.run = runId /\ app[r.image].state = "exited" /\ app[r.image].plot = r

Ascending(s) == \A j, k \in DOMAIN s : j < k => Cardinality(s[j].cpus) < Cardinality(s[k].cpus)

\* No container is left when an analysis begins and when it ends.
MessageInv ==
    "interrupt" \notin faults =>
        /\ \A k \in DOMAIN queue : queue[k].by = launch
        /\ \A i \in Names : /\ app[i].state = "working" => app[i].msg.by = launch
                            /\ test[i].state = "running" => test[i].by = launch
        /\ pc \in {"idle", "build", "done"} =>
              queue = <<>> /\ \A i \in Names : app[i].state = "none" /\ test[i].state = "none"

\* Without failures the client's image holds the command that the cache names.
CacheOwn ==
    /\ status = 0
    /\ pc # "idle" => opts = ParseArgs(request, opts.useCache) /\ cache[request.package] = request.job
    /\ \A p \in Packages : cache[p] \in Jobs \ {EmptyJob} =>
          images[p].test = cache[p] \/ (pc = "build" /\ opts.image = p)
    /\ images[NoName].test \in {None, Swallowed}
    /\ pc \in {"loop", "poll", "attached"} => images[opts.image].test \in {None, opts.job}

\* Clients, messages and agents all belong to the analysis under way.
RunOwn ==
    /\ \A k \in DOMAIN queue : queue[k].job = opts.job
    /\ \A i \in Names : /\ app[i].state # "none" => i = opts.image
                        /\ app[i].state = "working" => app[i].msg.job = opts.job
                        /\ app[i].plot # None => app[i].plot.job = opts.job
                        /\ test[i].state = "running" => test[i].job = opts.job

\* So do the plots, and the answer.
PlotOwn ==
    /\ pc \in {"idle", "build"} => \A k \in PlotIds : plots[k] = None
    /\ \A k \in PlotIds : plots[k] # None => /\ plots[k].image = opts.image
                                             /\ plots[k].job = opts.job /\ plots[k].job \in Runnable
    /\ \A k \in DOMAIN response : response[k].image = request.package /\ response[k].job = request.job

OwnInv == faults = {} => CacheOwn /\ RunOwn /\ PlotOwn

DeliveredInv ==
    TypeOK /\ ControlInv /\ ContainerInv /\ WaitingInv /\ PlotsInv /\ DeliveryInv /\ Ascending(response)

-----------------------------------------------------------------------------
(* The CPU sets, and the lists.                                            *)

LEMMA CpuSetsTried ==
    /\ Len(CPUSET) \in 0..4 /\ DOMAIN CPUSET = 1..Len(CPUSET)
    /\ \A k \in DOMAIN CPUSET : CPUSET[k] \in CpuSets
    /\ 0..0 \in CpuSets
  <1>1. CASE NumCores = 8
    BY <1>1 DEF CPUSET, CpuSets
  <1>2. CASE NumCores = 4
    BY <1>2 DEF CPUSET, CpuSets
  <1>3. CASE NumCores = 1
    BY <1>3 DEF CPUSET, CpuSets
  <1>4. CASE NumCores \notin {8, 4, 1}
    BY <1>4 DEF CPUSET, CpuSets
  <1> QED BY <1>1, <1>2, <1>3, <1>4

\* Where containers start, each iteration has more cores than the one before.
LEMMA MoreCores ==
    ASSUME Startable
    PROVE  /\ \A k \in DOMAIN CPUSET : Cardinality(CPUSET[k]) \in Nat
           /\ \A j, k \in DOMAIN CPUSET : j < k => Cardinality(CPUSET[j]) < Cardinality(CPUSET[k])
  <1>1. \A n \in 0..7 : Cardinality(0..n) = n + 1
    BY FS_Interval
  <1>2. /\ Cardinality(0..0) = 1 /\ Cardinality(0..1) = 2 /\ Cardinality(0..2) = 3
        /\ Cardinality(0..3) = 4 /\ Cardinality(0..7) = 8
    BY <1>1
  <1>3. CASE NumCores = 8
    <2>1. CPUSET = <<0..0, 0..1, 0..3, 0..7>>
      BY <1>3 DEF CPUSET
    <2>2. /\ DOMAIN CPUSET = 1..4 /\ CPUSET[1] = 0..0 /\ CPUSET[2] = 0..1
          /\ CPUSET[3] = 0..3 /\ CPUSET[4] = 0..7
      BY <2>1
    <2> QED BY <1>2, <2>2
  <1>4. CASE NumCores = 4
    <2>1. CPUSET = <<0..0, 0..1, 0..2, 0..3>>
      BY <1>4 DEF CPUSET
    <2>2. /\ DOMAIN CPUSET = 1..4 /\ CPUSET[1] = 0..0 /\ CPUSET[2] = 0..1
          /\ CPUSET[3] = 0..2 /\ CPUSET[4] = 0..3
      BY <2>1
    <2> QED BY <1>2, <2>2
  <1>5. CASE NumCores \notin {8, 4}
    <2>1. CPUSET = <<>>
      BY <1>5, HostAssumption DEF CPUSET, Startable
    <2> QED BY <2>1
  <1> QED BY <1>3, <1>4, <1>5

\* The container of i is gone from the list, and nobody else's.
LEMMA WithoutOne ==
    ASSUME NEW s \in Seq(Names), NEW i \in Names,
           \A j, k \in DOMAIN s : s[j] = s[k] => j = k
    PROVE  LET t == Without(s, i) IN
           /\ t \in Seq(Names)
           /\ \A k \in DOMAIN t : t[k] # i /\ \E j \in DOMAIN s : t[k] = s[j]
           /\ \A j, k \in DOMAIN t : t[j] = t[k] => j = k
  <1>1. CASE ~\E k \in DOMAIN s : s[k] = i
    BY <1>1 DEF Without
  <1>2. CASE \E k \in DOMAIN s : s[k] = i
    <2> DEFINE n == CHOOSE k \in DOMAIN s : s[k] = i
    <2>1. n \in DOMAIN s /\ s[n] = i
      BY <1>2
    <2> HIDE DEF n
    <2> DEFINE a == SubSeq(s, 1, n - 1)
               b == SubSeq(s, n + 1, Len(s))
    <2>2. n \in 1..Len(s) /\ Len(s) \in Nat /\ DOMAIN s = 1..Len(s)
      BY <2>1, LenProperties
    <2>3. a \in Seq(Names) /\ Len(a) = n - 1 /\ \A k \in 1..(n - 1) : a[k] = s[k]
      BY <2>2
    <2>4. b \in Seq(Names) /\ Len(b) = Len(s) - n /\ \A k \in 1..(Len(s) - n) : b[k] = s[n + k]
      <3>1. n + 1 \in Int /\ Len(s) \in Int /\ \A k \in (n + 1)..Len(s) : s[k] \in Names
        BY <2>2, ElementOfSeq
      <3>2. /\ b \in Seq(Names) /\ Len(b) = IF n + 1 <= Len(s) THEN Len(s) - (n + 1) + 1 ELSE 0
            /\ \A k \in 1..(Len(s) - (n + 1) + 1) : b[k] = s[n + 1 + k - 1]
        BY <3>1, SubSeqProperties
      <3> HIDE DEF b
      <3>3. Len(s) - (n + 1) + 1 = Len(s) - n
        BY <2>2
      <3>4. Len(b) = Len(s) - n
        <4> DEFINE l == Len(s)
        <4>1. Len(b) = IF n + 1 <= l THEN l - (n + 1) + 1 ELSE 0
          BY <3>2
        <4>2. l \in Nat /\ n \in Nat /\ n <= l
          BY <2>2
        <4> HIDE DEF l
        <4>3. Len(b) = l - n
          BY <4>1, <4>2
        <4> QED BY <4>3 DEF l
      <3>5. ASSUME NEW k \in 1..(Len(s) - n) PROVE b[k] = s[n + k]
        <4>1. n + 1 + k - 1 = n + k
          BY <2>2
        <4> QED BY <3>2, <3>3, <4>1
      <3> QED BY <3>2, <3>4, <3>5
    <2>5. Without(s, i) = a \o b
      BY <1>2 DEF Without, RemoveAt, n
    <2> HIDE DEF a, b
    <2> DEFINE t == a \o b
    <2>6. /\ t \in Seq(Names) /\ Len(t) = Len(s) - 1 /\ DOMAIN t = 1..(Len(s) - 1)
          /\ \A k \in DOMAIN t : t[k] = IF k < n THEN s[k] ELSE s[k + 1]
      <3>0. a \in Seq(Names) /\ b \in Seq(Names)
        BY <2>3, <2>4
      <3>1. /\ t \in Seq(Names) /\ Len(t) = Len(a) + Len(b)
            /\ \A k \in 1..(Len(a) + Len(b)) : t[k] = IF k <= Len(a) THEN a[k] ELSE b[k - Len(a)]
        BY <3>0, ConcatProperties
      <3> HIDE DEF t
      <3>2. DOMAIN t = 1..(Len(s) - 1) /\ Len(t) = Len(s) - 1
        BY <2>2, <2>3, <2>4, <3>1
      <3>3. ASSUME NEW k \in 1..(Len(s) - 1) PROVE t[k] = IF k < n THEN s[k] ELSE s[k + 1]
        <4>1. CASE k < n
          <5>1. k \in 1..(n - 1) /\ k <= Len(a) /\ k \in 1..(Len(a) + Len(b))
            BY <2>2, <2>3, <2>4, <4>1
          <5>2. t[k] = a[k]
            BY <3>1, <5>1
          <5> QED BY <2>3, <4>1, <5>1, <5>2
        <4>2. CASE k >= n
          <5>1. k - (n - 1) \in 1..(Len(s) - n) /\ k \in 1..(Len(a) + Len(b)) /\ ~(k <= Len(a))
            <6> DEFINE l == Len(s)
            <6>1. l \in Nat /\ n \in 1..l /\ k \in 1..(l - 1) /\ Len(a) = n - 1 /\ Len(b) = l - n
              BY <2>2, <2>3, <2>4
            <6> HIDE DEF l
            <6>2. k - (n - 1) \in 1..(l - n) /\ k \in 1..(Len(a) + Len(b)) /\ ~(k <= Len(a))
              BY <4>2, <6>1
            <6> QED BY <6>2 DEF l
          <5>3. t[k] = b[k - (n - 1)]
            BY <2>3, <3>1, <5>1
          <5>2. n + (k - (n - 1)) = k + 1 /\ ~(k < n)
            BY <2>2, <4>2
          <5> QED BY <2>4, <4>2, <5>1, <5>2, <5>3
        <4> QED BY <2>2, <4>1, <4>2
      <3> QED BY <3>1, <3>2, <3>3
    <2> HIDE DEF t
    <2>7. \A k \in DOMAIN t : t[k] # i /\ \E j \in DOMAIN s : t[k] = s[j]
      BY <2>1, <2>2, <2>6
    <2>8. \A j, k \in DOMAIN t : t[j] = t[k] => j = k
      BY <2>2, <2>6
    <2> QED BY <2>5, <2>6, <2>7, <2>8 DEF t
  <1> QED BY <1>1, <1>2

\* One more plot, of more cores than all those read.
LEMMA ReadPlotAscending ==
    ASSUME NEW read \in Seq(Reports), Ascending(read), NEW plot \in Reports \cup {None},
           plot # None => \A k \in DOMAIN read : Cardinality(read[k].cpus) < Cardinality(plot.cpus)
    PROVE  LET t == ReadPlot(read, plot) IN
           /\ t \in Seq(Reports) /\ Ascending(t)
           /\ \A k \in DOMAIN t : (\E j \in DOMAIN read : t[k] = read[j]) \/ (t[k] = plot /\ plot # None)
  <1>1. CASE plot = None
    BY <1>1 DEF ReadPlot
  <1>2. CASE plot # None
    <2> DEFINE t == Append(read, plot)
    <2>1. /\ t \in Seq(Reports) /\ DOMAIN t = 1..(Len(read) + 1) /\ t[Len(read) + 1] = plot
          /\ DOMAIN read = 1..Len(read) /\ Len(read) \in Nat
          /\ \A k \in DOMAIN read : t[k] = read[k]
      BY <1>2
    <2> HIDE DEF t
    <2>2. Ascending(t)
      <3> SUFFICES ASSUME NEW j \in DOMAIN t, NEW k \in DOMAIN t, j < k
                   PROVE  Cardinality(t[j].cpus) < Cardinality(t[k].cpus)
        BY DEF Ascending
      <3>1. j \in DOMAIN read
        BY <2>1
      <3>2. CASE k \in DOMAIN read
        BY <2>1, <3>1, <3>2 DEF Ascending
      <3>3. CASE k = Len(read) + 1
        BY <1>2, <2>1, <3>1, <3>3
      <3> QED BY <2>1, <3>2, <3>3
    <2>3. \A k \in DOMAIN t : (\E j \in DOMAIN read : t[k] = read[j]) \/ t[k] = plot
      BY <2>1
    <2> QED BY <1>2, <2>1, <2>2, <2>3 DEF t, ReadPlot
  <1> QED BY <1>1, <1>2

-----------------------------------------------------------------------------
(* Every step keeps the reports where the handler finds them.              *)

AppRecords == [state : AgentStates, cpus : CpuSets, msg : Messages \cup {None}, plot : Reports \cup {None}]
TestRecords == [state : {"none", "running", "exited"}, job : Commands \cup {None}, by : 0..MaxLaunches]
ImageRecords == [app : BOOLEAN, test : Commands \cup {None}]

LEMMA Types ==
    ASSUME TypeOK
    PROVE  /\ app \in [Names -> AppRecords] /\ test \in [Names -> TestRecords]
           /\ images \in [Names -> ImageRecords] /\ plots \in [PlotIds -> Reports \cup {None}]
           /\ queue \in Seq(Messages) /\ waiting \in Seq(Names) /\ written \subseteq Reports
  BY DEF TypeOK, AppRecords, TestRecords, ImageRecords

LEMMA InitDelivered == Init => DeliveredInv
  <1> SUFFICES ASSUME Init PROVE DeliveredInv
    OBVIOUS
  <1>1. TypeOK
    <2>1. app \in [Names -> AppRecords]
      BY CpuSetsTried DEF Init, NoContainer, AppRecords, AgentStates
    <2>2. test \in [Names -> TestRecords]
      BY HostAssumption DEF Init, NoClient, TestRecords
    <2>3. images \in [Names -> ImageRecords]
      BY DEF Init, ImageRecords
    <2> QED BY <2>1, <2>2, <2>3, HostAssumption DEF Init, TypeOK, AppRecords, TestRecords, ImageRecords, PlotIds
  <1>2. ControlInv /\ DeliveryInv
    BY DEF Init, ControlInv, DeliveryInv
  <1>3. ContainerInv
    BY DEF Init, ContainerInv, NoContainer, NoClient
  <1>4. WaitingInv /\ Ascending(response)
    BY DEF Init, WaitingInv, Ascending
  <1>5. PlotsInv
    BY DEF Init, PlotsInv, PlotIds
  <1> QED BY <1>1, <1>2, <1>3, <1>4, <1>5 DEF DeliveredInv

\* What the script understands.
LEMMA ParsedOptions ==
    ASSUME NEW r \in Requests, NEW cached \in BOOLEAN
    PROVE  ParseArgs(r, cached) \in Options
  BY DEF ParseArgs, Requests, Options, Names, Commands

LEMMA AnalyzeDelivered ==
    ASSUME DeliveredInv, NEW r \in Asked, Analyze(r), UNCHANGED faults
    PROVE  DeliveredInv'
  <1> USE DEF DeliveredInv
  <1>1. r \in Requests /\ CacheHit(r) \in BOOLEAN
    BY AskedAssumption DEF CacheHit, Requests
  <1>2. opts' \in Options /\ request' \in Requests /\ launch' \in 1..MaxLaunches /\ runId' = 1
    BY <1>1, ParsedOptions, HostAssumption DEF Analyze, TypeOK
  <1>3. plots' = plots
    BY DEF Analyze, PlotsInv, RemoveOldPlots
  <1>4. cache' \in [Packages -> Jobs \cup {None}]
    BY <1>1 DEF Analyze, TypeOK, Requests
  <1>5. TypeOK'
    BY <1>2, <1>3, <1>4 DEF Analyze, TypeOK
  <1>6. ControlInv'
    BY <1>2 DEF Analyze, ControlInv
  <1>7. ContainerInv' /\ WaitingInv' /\ DeliveryInv' /\ Ascending(response)'
    BY DEF Analyze, ContainerInv, WaitingInv, DeliveryInv, Ascending
  <1>8. PlotsInv'
    BY <1>3 DEF Analyze, PlotsInv
  <1> QED BY <1>5, <1>6, <1>7, <1>8

\* What is built stays built.
LEMMA BuiltImage ==
    ASSUME NEW image \in ImageRecords, NEW done \in SUBSET {"app", "test"}, NEW job \in Commands
    PROVE  /\ Built(image, done, job) \in ImageRecords
           /\ image.app => Built(image, done, job).app
           /\ image.test # None => Built(image, done, job).test # None
           /\ "app" \in done => Built(image, done, job).app
           /\ "test" \in done => Built(image, done, job).test = job /\ Built(image, done, job).test # None
           /\ "test" \notin done => Built(image, done, job).test = image.test
  BY NamesAssumption DEF Built, ImageRecords, Commands

LEMMA BuildDelivered ==
    ASSUME DeliveredInv, Build, UNCHANGED faults
    PROVE  DeliveredInv'
  <1> USE DEF DeliveredInv
  <1>1. opts.image \in Names /\ opts.job \in Commands
    BY DEF Build, ControlInv, Options
  <1>2. PICK done \in Builds : images' = [images EXCEPT ![opts.image] = Built(@, done, opts.job)]
    BY DEF Build
  <1>3. done \in SUBSET {"app", "test"}
    BY <1>2 DEF Builds
  <1>4. images' \in [Names -> ImageRecords]
    BY <1>1, <1>2, <1>3, BuiltImage, Types
  <1>5. TypeOK'
    BY <1>4 DEF Build, TypeOK, ImageRecords, dockerVars
  <1>6. \A i \in Names : /\ images[i].app => images'[i].app
                         /\ images[i].test # None => images'[i].test # None
    <2> SUFFICES ASSUME NEW i \in Names
                 PROVE  /\ images[i].app => images'[i].app
                        /\ images[i].test # None => images'[i].test # None
      OBVIOUS
    <2>1. CASE i = opts.image
      <3>1. images'[i] = Built(images[i], done, opts.job) /\ images[i] \in ImageRecords
        BY <1>1, <1>2, <2>1, Types
      <3> DEFINE image == images[i]
                 built == images'[i]
      <3>2. image \in ImageRecords /\ opts.job \in Commands /\ built = Built(image, done, opts.job)
        BY <1>1, <3>1
      <3> HIDE DEF image, built
      <3>3. (image.app => built.app) /\ (image.test # None => built.test # None)
        BY <1>3, <3>2, BuiltImage
      <3> QED BY <3>3 DEF image, built
    <2>2. CASE i # opts.image
      BY <1>1, <1>2, <2>2, Types
    <2> QED BY <2>1, <2>2
  <1>7. ContainerInv'
    BY <1>6 DEF Build, ContainerInv, dockerVars
  <1>8. ControlInv' /\ WaitingInv' /\ PlotsInv' /\ DeliveryInv' /\ Ascending(response)'
    BY DEF Build, ControlInv, WaitingInv, PlotsInv, DeliveryInv, Ascending, dockerVars
  <1> QED BY <1>5, <1>7, <1>8

\* docker-compose up: the container of the agent is that of the CPU set, and redis
\* has forgotten the agent that waited in the one it replaces.
LEMMA UpSteps ==
    ASSUME DeliveredInv, pc = "loop", NEW cpus \in CpuSets, NEW started, NEW failed, Up(cpus, started, failed)
    PROVE  /\ images' \in [Names -> ImageRecords] /\ app' \in [Names -> AppRecords]
           /\ test' \in [Names -> TestRecords] /\ redis' \in {"none", "stopped", "starting", "ready"}
           /\ queue' = queue /\ written' = written /\ waiting' \in Seq(Names)
           /\ app'[opts.image].state # "none" => app'[opts.image].cpus = cpus
           /\ \A i \in Names \ {opts.image} : images'[i] = images[i] /\ app'[i] = app[i] /\ test'[i] = test[i]
           /\ ContainerInv' /\ WaitingInv'
  <1> USE DEF DeliveredInv
  <1> DEFINE i == opts.image
             missing == {s \in {"app", "test"} : IF s = "app" THEN ~images[i].app
                                                ELSE images[i].test = None}
  <1>1. i \in Names /\ opts.job \in Commands /\ launch \in 1..MaxLaunches
    BY DEF ControlInv, Options
  <1>2. PICK done \in SUBSET missing :
          /\ images' = [images EXCEPT ![i] = Built(@, done, opts.job)]
          /\ IF done = missing /\ Startable THEN StartContainers(i, cpus) ELSE UNCHANGED dockerVars
    BY DEF Up
  <1>3. /\ app \in [Names -> AppRecords] /\ test \in [Names -> TestRecords]
        /\ images \in [Names -> ImageRecords] /\ waiting \in Seq(Names)
        /\ redis \in {"none", "stopped", "starting", "ready"}
    BY Types DEF TypeOK
  <1>4. images'[i] = Built(images[i], done, opts.job) /\ done \in SUBSET {"app", "test"}
    BY <1>1, <1>2, <1>3
  <1>5. /\ images'[i] \in ImageRecords
        /\ images[i].app => images'[i].app
        /\ images[i].test # None => images'[i].test # None
        /\ "app" \in done => images'[i].app
        /\ "test" \in done => images'[i].test # None
    <2> DEFINE image == images[i]
               built == images'[i]
               job == opts.job
    <2>1. image \in ImageRecords /\ job \in Commands /\ built = Built(image, done, job)
      BY <1>1, <1>3, <1>4
    <2> HIDE DEF image, built, job
    <2>2. /\ built \in ImageRecords
          /\ image.app => built.app
          /\ image.test # None => built.test # None
          /\ "app" \in done => built.app
          /\ "test" \in done => built.test # None
      BY <1>4, <2>1, BuiltImage
    <2> QED BY <2>2 DEF image, built
  <1>6. images' \in [Names -> ImageRecords] /\ \A k \in Names \ {i} : images'[k] = images[k]
    BY <1>1, <1>2, <1>3, <1>4, <1>5
  <1>7. CASE done = missing /\ Startable
    <2>1. StartContainers(i, cpus)
      BY <1>2, <1>7
    <2>2. images'[i].app /\ images'[i].test # None
      <3>1. images[i].app \/ "app" \in done
        BY <1>7
      <3>2. images[i].test # None \/ "test" \in done
        BY <1>7
      <3> QED BY <1>5, <3>1, <3>2
    <2>3. app'[i] = UpApplication(app[i], cpus) /\ \A k \in Names \ {i} : app'[k] = app[k]
      BY <1>1, <1>3, <2>1 DEF StartContainers
    <2>4. /\ app'[i] \in AppRecords /\ app'[i].state # "none" /\ app'[i].cpus = cpus
          /\ app'[i].state = "starting" \/ app'[i] = app[i]
          /\ app'[i].plot # None => app'[i].plot = app[i].plot /\ app'[i].cpus = app[i].cpus
      <3>1. app[i] \in AppRecords
        BY <1>1, <1>3
      <3>2. CASE app[i].state = "none" \/ app[i].cpus # cpus
        <4>1. app'[i] = [state |-> "starting", cpus |-> cpus, msg |-> None, plot |-> None]
          BY <2>3, <3>2 DEF UpApplication
        <4> QED BY <4>1 DEF AppRecords, AgentStates
      <3>3. CASE app[i].cpus = cpus /\ app[i].state = "exited"
        <4>1. app'[i] = [app[i] EXCEPT !.state = "starting", !.msg = None]
          BY <2>3, <3>3 DEF UpApplication
        <4> QED BY <3>1, <3>3, <4>1 DEF AppRecords, AgentStates
      <3>4. CASE app[i].cpus = cpus /\ app[i].state \notin {"none", "exited"}
        <4>1. app'[i] = app[i]
          BY <2>3, <3>4 DEF UpApplication
        <4> QED BY <3>1, <3>4, <4>1
      <3> QED BY <3>2, <3>3, <3>4
    <2>5. test'[i] = UpClient(test[i], images'[i].test) /\ \A k \in Names \ {i} : test'[k] = test[k]
      BY <1>1, <1>3, <2>1 DEF StartContainers
    <2>6. images'[i].test \in Commands
      BY <1>5, <2>2 DEF ImageRecords
    <2>7. /\ test'[i] \in TestRecords
          /\ test'[i].state = "running" => test'[i].job \in Commands /\ test'[i].by \in 1..MaxLaunches
      <3>1. test[i] \in TestRecords
        BY <1>1, <1>3
      <3>2. CASE test'[i] = [state |-> "running", job |-> images'[i].test, by |-> launch]
        BY <1>1, <2>6, <3>2, HostAssumption DEF TestRecords
      <3>3. CASE test'[i] = test[i]
        BY <1>1, <3>1, <3>3 DEF ContainerInv
      <3> QED BY <2>5, <3>2, <3>3 DEF UpClient
    <2>8. app' \in [Names -> AppRecords] /\ test' \in [Names -> TestRecords]
      BY <1>1, <1>3, <2>1, <2>3, <2>4, <2>5, <2>7 DEF StartContainers
    <2>9. redis' \in {"none", "stopped", "starting", "ready"} /\ queue' = queue /\ written' = written
      BY <1>3, <2>1 DEF StartContainers
    <2>10. ContainerInv'
      <3> SUFFICES ASSUME NEW k \in Names
                   PROVE  /\ app'[k].state # "none" => Startable /\ images'[k].app /\ images'[k].test # None
                          /\ app'[k].state = "working" => app'[k].msg \in Messages
                          /\ app'[k].plot # None => /\ app'[k].state # "none"
                                                    /\ app'[k].plot.cpus = app'[k].cpus /\ app'[k].plot.image = k
                                                    /\ app'[k].plot.job \in Runnable
                          /\ test'[k].state = "running" => test'[k].job \in Commands /\ test'[k].by \in 1..MaxLaunches
        BY DEF ContainerInv, Startable
      <3>1. CASE k # i
        BY <1>6, <2>3, <2>5, <3>1 DEF ContainerInv
      <3>2. CASE k = i
        <4>1. app'[k].state = "working" => app'[k].msg \in Messages
          BY <1>1, <2>4, <3>2 DEF ContainerInv
        <4>2. app'[k].plot # None => /\ app'[k].plot.cpus = app'[k].cpus /\ app'[k].plot.image = k
                                     /\ app'[k].plot.job \in Runnable
          BY <1>1, <2>4, <3>2 DEF ContainerInv
        <4> QED BY <1>7, <2>2, <2>4, <2>7, <3>2, <4>1, <4>2
      <3> QED BY <3>1, <3>2
    <2>11. waiting' \in Seq(Names) /\ WaitingInv'
      <3>1. CASE app'[i].state = "starting"
        <4>1. waiting' = Without(waiting, i)
          BY <2>1, <3>1 DEF StartContainers
        <4>2. \A j, k \in DOMAIN waiting : waiting[j] = waiting[k] => j = k
          BY DEF WaitingInv
        <4>3. /\ waiting' \in Seq(Names)
              /\ \A k \in DOMAIN waiting' : waiting'[k] # i /\ \E j \in DOMAIN waiting : waiting'[k] = waiting[j]
              /\ \A j, k \in DOMAIN waiting' : waiting'[j] = waiting'[k] => j = k
          BY <1>1, <1>3, <4>1, <4>2, WithoutOne
        <4>4. ASSUME NEW k \in DOMAIN waiting' PROVE app'[waiting'[k]].state = "waiting"
          <5>1. PICK j \in DOMAIN waiting : waiting'[k] = waiting[j]
            BY <4>3
          <5>2. waiting[j] \in Names /\ waiting[j] # i
            BY <1>3, <4>3, <5>1, ElementOfSeq, LenProperties
          <5> QED BY <2>3, <5>1, <5>2 DEF WaitingInv
        <4> QED BY <4>3, <4>4 DEF WaitingInv
      <3>2. CASE app'[i].state # "starting"
        <4>1. waiting' = waiting /\ app'[i] = app[i]
          BY <2>1, <2>4, <3>2 DEF StartContainers
        <4>2. \A k \in DOMAIN waiting : waiting[k] \in Names
          BY <1>3, ElementOfSeq, LenProperties
        <4>3. \A k \in DOMAIN waiting : app'[waiting[k]] = app[waiting[k]]
          BY <2>3, <4>1, <4>2
        <4> QED BY <1>3, <4>1, <4>3 DEF WaitingInv
      <3> QED BY <3>1, <3>2
    <2> QED BY <1>6, <2>3, <2>4, <2>5, <2>8, <2>9, <2>10, <2>11
  <1>8. CASE ~(done = missing /\ Startable)
    <2>1. UNCHANGED <<app, test, redis, queue, waiting, written>>
      BY <1>2, <1>8 DEF dockerVars
    <2>2. app[i].state = "none"
      <3>1. CASE ~Startable
        BY <1>1, <3>1 DEF ContainerInv
      <3>2. CASE done # missing
        <4>1. missing # {}
          BY <1>2, <3>2
        <4>2. ~images[i].app \/ images[i].test = None
          BY <4>1
        <4> QED BY <1>1, <4>2 DEF ContainerInv
      <3> QED BY <1>8, <3>1, <3>2
    <2>3. ContainerInv'
      BY <1>1, <1>6, <2>1, <2>2 DEF ContainerInv, Startable
    <2>4. WaitingInv'
      BY <2>1 DEF WaitingInv
    <2> QED BY <1>3, <1>6, <2>1, <2>2, <2>3, <2>4
  <1> QED BY <1>7, <1>8

LEMMA UpDelivered ==
    ASSUME DeliveredInv, UpDetached \/ UpAttached, UNCHANGED faults
    PROVE  DeliveredInv'
  <1> USE DEF DeliveredInv
  <1> DEFINE cpus == IF opts.singleRun THEN 0..0 ELSE CPUSET[runId]
  <1>1. pc = "loop" /\ runId \in 1..5 /\ opts.image \in Names
    BY DEF UpDetached, UpAttached, ControlInv, Options
  <1> DEFINE started == IF opts.singleRun THEN "attached" ELSE "poll"
             failed == IF opts.singleRun THEN "clean" ELSE "poll"
  <1>2. Up(cpus, started, failed) /\ pc' \in IF opts.singleRun THEN {"attached", "clean"} ELSE {"poll"}
    BY DEF UpDetached, UpAttached, Up
  <1>3. ~opts.singleRun => runId \in DOMAIN CPUSET
    BY <1>1, CpuSetsTried DEF UpDetached, UpAttached
  <1>4. cpus \in CpuSets
    BY <1>3, CpuSetsTried
  <1>5. UNCHANGED <<request, opts, launch, runId, cache, plots, status, response>>
    BY DEF UpDetached, UpAttached
  <1> HIDE DEF cpus, started, failed
  <1>6. /\ images' \in [Names -> ImageRecords] /\ app' \in [Names -> AppRecords]
        /\ test' \in [Names -> TestRecords] /\ redis' \in {"none", "stopped", "starting", "ready"}
        /\ queue' = queue /\ written' = written /\ waiting' \in Seq(Names)
        /\ app'[opts.image].state # "none" => app'[opts.image].cpus = cpus
        /\ ContainerInv' /\ WaitingInv'
    BY <1>1, <1>2, <1>4, UpSteps
  <1>7. TypeOK'
    BY <1>2, <1>5, <1>6 DEF TypeOK, AppRecords, TestRecords, ImageRecords
  <1>8. ControlInv'
    BY <1>1, <1>2, <1>3, <1>5 DEF ControlInv
  <1>9. PlotsInv'
    BY <1>2, <1>5, <1>6 DEF PlotsInv, cpus
  <1>10. DeliveryInv'
    BY <1>1, <1>5, <1>6 DEF DeliveryInv
  <1>11. Ascending(response)'
    BY <1>5 DEF Ascending
  <1> QED BY <1>6, <1>7, <1>8, <1>9, <1>10, <1>11

LEMMA RedisReadyDelivered ==
    ASSUME DeliveredInv, RedisReady, UNCHANGED faults
    PROVE  DeliveredInv'
  <1> USE DEF DeliveredInv, RedisReady, scriptVars
  <1>1. TypeOK'
    BY DEF TypeOK
  <1>2. ControlInv' /\ WaitingInv' /\ DeliveryInv' /\ PlotsInv' /\ Ascending(response)'
    BY DEF ControlInv, WaitingInv, DeliveryInv, PlotsInv, Ascending
  <1>3. ContainerInv'
    BY DEF ContainerInv
  <1> QED BY <1>1, <1>2, <1>3

\* An agent that was not done goes on: its container and its report stay.
LEMMA AgentGoesOn ==
    ASSUME DeliveredInv, UNCHANGED <<scriptVars, written, faults>>,
           NEW a \in Names, app[a].state \in {"starting", "waiting"},
           NEW c \in AppRecords, c.state # "none" /\ c.cpus = app[a].cpus /\ c.plot = app[a].plot,
           c.state = "working" => c.msg \in Messages,
           app' = [app EXCEPT ![a] = c],
           \A i \in Names : test'[i] = test[i] \/ test'[i].state = "exited"
    PROVE  ControlInv' /\ ContainerInv' /\ PlotsInv' /\ DeliveryInv' /\ Ascending(response)'
  <1> USE DEF DeliveredInv, scriptVars
  <1>1. app \in [Names -> AppRecords]
    BY Types
  <1>2. app'[a] = c /\ \A i \in Names \ {a} : app'[i] = app[i]
    BY <1>1
  <1>3. ControlInv' /\ Ascending(response)'
    BY DEF ControlInv, Ascending
  <1>4. ContainerInv'
    <2> SUFFICES ASSUME NEW k \in Names
                 PROVE  /\ app'[k].state # "none" => Startable /\ images[k].app /\ images[k].test # None
                        /\ app'[k].state = "working" => app'[k].msg \in Messages
                        /\ app'[k].plot # None => /\ app'[k].state # "none"
                                                  /\ app'[k].plot.cpus = app'[k].cpus /\ app'[k].plot.image = k
                                                  /\ app'[k].plot.job \in Runnable
                        /\ test'[k].state = "running" => test'[k].job \in Commands /\ test'[k].by \in 1..MaxLaunches
      BY DEF ContainerInv, Startable
    <2>1. test'[k].state = "running" => test'[k].job \in Commands /\ test'[k].by \in 1..MaxLaunches
      BY DEF ContainerInv
    <2>2. CASE k = a
      BY <1>2, <2>1, <2>2 DEF ContainerInv
    <2>3. CASE k # a
      BY <1>2, <2>1, <2>3 DEF ContainerInv
    <2> QED BY <2>2, <2>3
  <1>5. PlotsInv'
    <2>1. pc = "poll" => opts.image \in Names
      BY DEF ControlInv, Options
    <2>2. pc = "poll" /\ app'[opts.image].state # "none" => app'[opts.image].cpus = CPUSET[runId]
      BY <1>2, <2>1 DEF PlotsInv
    <2> QED BY <2>2 DEF PlotsInv
  <1>6. DeliveryInv'
    <2> SUFFICES ASSUME pc # "idle", NEW r \in written, r.image = opts.image, r.run # 0
                 PROVE  \/ r.run < runId /\ plots[r.run] = r
                        \/ pc = "poll" /\ r.run = runId /\ app'[r.image].state = "exited" /\ app'[r.image].plot = r
      BY DEF DeliveryInv
    <2>1. r.image \in Names
      BY DEF ControlInv, Options
    <2> QED BY <1>2, <2>1 DEF DeliveryInv
  <1> QED BY <1>3, <1>4, <1>5, <1>6

LEMMA AgentConnectsDelivered ==
    ASSUME DeliveredInv, NEW i \in Names, AgentConnects(i), UNCHANGED faults
    PROVE  DeliveredInv'
  <1> USE DEF DeliveredInv
  <1>1. /\ app \in [Names -> AppRecords] /\ test \in [Names -> TestRecords]
        /\ queue \in Seq(Messages) /\ waiting \in Seq(Names) /\ app[i] \in AppRecords
    BY Types
  <1>2. UNCHANGED <<scriptVars, written, faults, test, redis>> /\ app[i].state = "starting"
    BY DEF AgentConnects
  <1>3. \A k \in DOMAIN waiting : waiting[k] \in Names \ {i}
    BY <1>1, <1>2, ElementOfSeq, LenProperties DEF WaitingInv
  <1>4. ASSUME NEW c \in AppRecords, c.state # "none" /\ c.cpus = app[i].cpus /\ c.plot = app[i].plot,
               c.state = "working" => c.msg \in Messages,
               app' = [app EXCEPT ![i] = c], queue' \in Seq(Messages), waiting' \in Seq(Names), WaitingInv'
        PROVE  DeliveredInv'
    <2>1. ControlInv' /\ ContainerInv' /\ PlotsInv' /\ DeliveryInv' /\ Ascending(response)'
      BY <1>2, <1>4, AgentGoesOn
    <2>2. app' \in [Names -> AppRecords]
      BY <1>1, <1>4
    <2>3. TypeOK'
      BY <1>2, <1>4, <2>2 DEF TypeOK, AppRecords, scriptVars
    <2> QED BY <1>4, <2>1, <2>3
  <1>5. CASE /\ redis # "ready"
             /\ app' = [app EXCEPT ![i].state = "exited"]
             /\ UNCHANGED <<queue, waiting>>
    <2> DEFINE c == [app[i] EXCEPT !.state = "exited"]
    <2>1. c \in AppRecords /\ c.state = "exited" /\ c.cpus = app[i].cpus /\ c.plot = app[i].plot
      BY <1>1 DEF AppRecords, AgentStates
    <2>2. app' = [app EXCEPT ![i] = c]
      BY <1>1, <1>5
    <2> HIDE DEF c
    <2>3. WaitingInv'
      BY <1>1, <1>3, <1>5, <2>2 DEF WaitingInv
    <2> QED BY <1>1, <1>4, <1>5, <2>1, <2>2, <2>3
  <1>6. CASE /\ redis = "ready" /\ queue # <<>>
             /\ app' = [app EXCEPT ![i].state = "working", ![i].msg = Head(queue)]
             /\ queue' = Tail(queue) /\ UNCHANGED waiting
    <2> DEFINE c == [app[i] EXCEPT !.state = "working", !.msg = Head(queue)]
    <2>1. Head(queue) \in Messages /\ Tail(queue) \in Seq(Messages)
      BY <1>1, <1>6
    <2>2. c \in AppRecords /\ c.state = "working" /\ c.cpus = app[i].cpus /\ c.plot = app[i].plot /\ c.msg \in Messages
      BY <1>1, <2>1 DEF AppRecords, AgentStates
    <2>3. app' = [app EXCEPT ![i] = c]
      BY <1>1, <1>6
    <2> HIDE DEF c
    <2>4. WaitingInv'
      BY <1>1, <1>3, <1>6, <2>3 DEF WaitingInv
    <2> QED BY <1>1, <1>4, <1>6, <2>1, <2>2, <2>3, <2>4
  <1>7. CASE /\ redis = "ready" /\ queue = <<>>
             /\ app' = [app EXCEPT ![i].state = "waiting"]
             /\ waiting' = Append(waiting, i) /\ UNCHANGED queue
    <2> DEFINE c == [app[i] EXCEPT !.state = "waiting"]
    <2>1. c \in AppRecords /\ c.state = "waiting" /\ c.cpus = app[i].cpus /\ c.plot = app[i].plot
      BY <1>1 DEF AppRecords, AgentStates
    <2>2. app' = [app EXCEPT ![i] = c]
      BY <1>1, <1>7
    <2> HIDE DEF c
    <2>3. /\ waiting' \in Seq(Names) /\ DOMAIN waiting' = 1..(Len(waiting) + 1) /\ Len(waiting) \in Nat
          /\ DOMAIN waiting = 1..Len(waiting)
          /\ waiting'[Len(waiting) + 1] = i /\ \A k \in DOMAIN waiting : waiting'[k] = waiting[k]
      BY <1>1, <1>7
    <2>4. WaitingInv'
      <3>1. ASSUME NEW k \in DOMAIN waiting' PROVE app'[waiting'[k]].state = "waiting"
        <4>1. CASE k \in DOMAIN waiting
          BY <1>1, <1>3, <2>2, <2>3, <4>1 DEF WaitingInv
        <4>2. CASE k = Len(waiting) + 1
          BY <1>1, <2>1, <2>2, <2>3, <4>2
        <4> QED BY <2>3, <4>1, <4>2
      <3>2. ASSUME NEW j \in DOMAIN waiting', NEW k \in DOMAIN waiting', waiting'[j] = waiting'[k] PROVE j = k
        <4>1. CASE j \in DOMAIN waiting /\ k \in DOMAIN waiting
          BY <2>3, <3>2, <4>1 DEF WaitingInv
        <4>2. CASE j \notin DOMAIN waiting \/ k \notin DOMAIN waiting
          BY <1>3, <2>3, <3>2, <4>2
        <4> QED BY <4>1, <4>2
      <3> QED BY <3>1, <3>2 DEF WaitingInv
    <2> QED BY <1>1, <1>4, <1>7, <2>1, <2>2, <2>3, <2>4
  <1> QED BY <1>5, <1>6, <1>7 DEF AgentConnects

LEMMA ClientPushesDelivered ==
    ASSUME DeliveredInv, NEW i \in Names, ClientPushes(i), UNCHANGED faults
    PROVE  DeliveredInv'
  <1> USE DEF DeliveredInv
  <1> DEFINE m == [job |-> test[i].job, by |-> test[i].by]
  <1>1. /\ app \in [Names -> AppRecords] /\ test \in [Names -> TestRecords]
        /\ queue \in Seq(Messages) /\ waiting \in Seq(Names)
    BY Types
  <1>2. UNCHANGED <<scriptVars, written, faults, redis>> /\ test[i].state = "running"
    BY DEF ClientPushes
  <1>3. test' = [test EXCEPT ![i].state = "exited"]
    BY DEF ClientPushes
  <1>4. m \in Messages
    BY <1>2 DEF ContainerInv, Messages
  <1>5. test' \in [Names -> TestRecords] /\ \A k \in Names : test'[k] = test[k] \/ test'[k].state = "exited"
    BY <1>1, <1>3 DEF TestRecords
  <1>6. CASE waiting = <<>> \/ redis # "ready"
    <2>1. UNCHANGED <<app, waiting>> /\ queue' \in {queue, Append(queue, m)}
      BY <1>6 DEF ClientPushes
    <2>2. queue' \in Seq(Messages)
      BY <1>1, <1>4, <2>1
    <2>3. TypeOK'
      BY <1>2, <1>5, <2>1, <2>2 DEF TypeOK, TestRecords, scriptVars
    <2>4. ControlInv' /\ WaitingInv' /\ PlotsInv' /\ DeliveryInv' /\ Ascending(response)'
      BY <1>2, <2>1 DEF ControlInv, WaitingInv, PlotsInv, DeliveryInv, Ascending, scriptVars
    <2>5. ContainerInv'
      BY <1>2, <1>5, <2>1 DEF ContainerInv, scriptVars
    <2> QED BY <2>3, <2>4, <2>5
  <1>7. CASE waiting # <<>> /\ redis = "ready"
    <2> DEFINE a == Head(waiting)
               c == [app[a] EXCEPT !.state = "working", !.msg = m]
    <2>1. /\ app' = [app EXCEPT ![a].state = "working", ![a].msg = m]
          /\ waiting' = Tail(waiting) /\ queue' = queue
      BY <1>7 DEF ClientPushes
    <2>2. /\ a \in Names /\ 1 \in DOMAIN waiting /\ waiting[1] = a
          /\ DOMAIN waiting = 1..Len(waiting) /\ Len(waiting) \in Nat
          /\ waiting' \in Seq(Names) /\ DOMAIN waiting' = 1..(Len(waiting) - 1)
          /\ \A k \in DOMAIN waiting' : waiting'[k] = waiting[k + 1]
      BY <1>1, <1>7, <2>1
    <2>3. app[a].state = "waiting" /\ app[a] \in AppRecords
      BY <1>1, <2>2 DEF WaitingInv
    <2> HIDE DEF a, m
    <2>4. /\ c \in AppRecords /\ c.state = "working" /\ c.cpus = app[a].cpus /\ c.plot = app[a].plot
          /\ c.msg \in Messages
      BY <1>4, <2>3 DEF AppRecords, AgentStates
    <2>5. app' = [app EXCEPT ![a] = c]
      BY <1>1, <2>1, <2>2
    <2> HIDE DEF c
    <2>6. ControlInv' /\ ContainerInv' /\ PlotsInv' /\ DeliveryInv' /\ Ascending(response)'
      BY <1>2, <1>5, <2>2, <2>3, <2>4, <2>5, AgentGoesOn
    <2>7. app' \in [Names -> AppRecords]
      BY <1>1, <2>2, <2>4, <2>5
    <2>8. TypeOK'
      BY <1>2, <1>5, <2>1, <2>2, <2>7 DEF TypeOK, AppRecords, TestRecords, scriptVars
    <2>9. WaitingInv'
      <3>1. ASSUME NEW k \in DOMAIN waiting' PROVE app'[waiting'[k]].state = "waiting"
        <4>1. k + 1 \in DOMAIN waiting /\ waiting'[k] = waiting[k + 1] /\ k + 1 # 1
          BY <2>2
        <4>2. waiting[k + 1] \in Names /\ waiting[k + 1] # a
          BY <1>1, <2>2, <4>1, ElementOfSeq DEF WaitingInv
        <4> QED BY <1>1, <2>2, <2>5, <4>1, <4>2 DEF WaitingInv
      <3>2. ASSUME NEW j \in DOMAIN waiting', NEW k \in DOMAIN waiting', waiting'[j] = waiting'[k] PROVE j = k
        <4>1. j + 1 \in DOMAIN waiting /\ k + 1 \in DOMAIN waiting /\ waiting[j + 1] = waiting[k + 1]
          BY <2>2, <3>2
        <4>2. j + 1 = k + 1
          BY <4>1 DEF WaitingInv
        <4> QED BY <2>2, <4>2
      <3> QED BY <3>1, <3>2 DEF WaitingInv
    <2> QED BY <2>6, <2>8, <2>9
  <1> QED BY <1>6, <1>7

LEMMA AgentEndsDelivered ==
    ASSUME DeliveredInv, NEW i \in Names, AgentEnds(i), UNCHANGED faults
    PROVE  DeliveredInv'
  <1> USE DEF DeliveredInv
  <1> DEFINE r == [image |-> i, job |-> app[i].msg.job, cpus |-> app[i].cpus,
                   by |-> app[i].msg.by, run |-> IF pc = "poll" THEN runId ELSE 0]
  <1>1. /\ app \in [Names -> AppRecords] /\ waiting \in Seq(Names) /\ app[i] \in AppRecords
        /\ written \subseteq Reports /\ runId \in 0..5
    BY Types DEF TypeOK
  <1>2. UNCHANGED <<scriptVars, faults, test, redis, queue, waiting>> /\ app[i].state = "working"
    BY DEF AgentEnds
  <1>3. /\ r \in Reports /\ r # None /\ r.image = i /\ r.cpus = app[i].cpus /\ r.job = app[i].msg.job
        /\ r.run = IF pc = "poll" THEN runId ELSE 0
    <2>1. app[i].msg \in Messages
      BY <1>2 DEF ContainerInv
    <2>2. r \in Reports
      BY <1>1, <2>1 DEF Reports, Messages, AppRecords
    <2> QED BY <2>2, ReportsAssumption
  <1>4. \/ /\ r.job \in Runnable
           /\ app' = [app EXCEPT ![i].state = "exited", ![i].plot = r]
           /\ written' = written \cup {r}
        \/ app' = [app EXCEPT ![i].state = "exited"] /\ written' = written
    BY DEF AgentEnds
  <1> HIDE DEF r
  <1>5. /\ app' \in [Names -> AppRecords] /\ app'[i].state = "exited" /\ app'[i].cpus = app[i].cpus
        /\ \/ r.job \in Runnable /\ app'[i].plot = r /\ written' = written \cup {r}
           \/ app'[i].plot = app[i].plot /\ written' = written
        /\ \A k \in Names \ {i} : app'[k] = app[k]
    BY <1>1, <1>3, <1>4 DEF AppRecords, AgentStates
  <1>6. TypeOK'
    BY <1>1, <1>2, <1>3, <1>5 DEF TypeOK, AppRecords, scriptVars
  <1>7. ControlInv' /\ Ascending(response)'
    BY <1>2 DEF ControlInv, Ascending, scriptVars
  <1>8. ContainerInv'
    <2>1. app'[i].plot # None => /\ app'[i].plot.cpus = app'[i].cpus /\ app'[i].plot.image = i
                                 /\ app'[i].plot.job \in Runnable
      BY <1>3, <1>5 DEF ContainerInv
    <2>2. UNCHANGED <<images, test>>
      BY <1>2 DEF scriptVars
    <2> QED BY <1>2, <1>5, <2>1, <2>2 DEF ContainerInv, Startable
  <1>9. WaitingInv'
    <2>1. \A k \in DOMAIN waiting : waiting[k] \in Names \ {i}
      BY <1>1, <1>2, ElementOfSeq, LenProperties DEF WaitingInv
    <2> QED BY <1>2, <1>5, <2>1 DEF WaitingInv
  <1>10. PlotsInv'
    <2>1. pc = "poll" => opts.image \in Names
      BY DEF ControlInv, Options
    <2>2. pc = "poll" /\ app'[opts.image].state # "none" => app'[opts.image].cpus = CPUSET[runId]
      BY <1>2, <1>5, <2>1 DEF PlotsInv
    <2> QED BY <1>2, <2>2 DEF PlotsInv, scriptVars
  <1>11. DeliveryInv'
    <2>0. UNCHANGED <<pc, opts, runId, plots>>
      BY <1>2 DEF scriptVars
    <2> SUFFICES ASSUME pc # "idle", NEW w \in written', w.image = opts.image, w.run # 0
                 PROVE  \/ w.run < runId /\ plots[w.run] = w
                        \/ pc = "poll" /\ w.run = runId /\ app'[w.image].state = "exited" /\ app'[w.image].plot = w
      BY <2>0 DEF DeliveryInv
    <2>1. w.image \in Names
      BY DEF ControlInv, Options
    <2>2. CASE w \in written
      BY <1>2, <1>5, <2>1, <2>2 DEF DeliveryInv
    <2>3. CASE w \notin written
      BY <1>3, <1>5, <2>3
    <2> QED BY <2>2, <2>3
  <1> QED BY <1>6, <1>7, <1>8, <1>9, <1>10, <1>11

LEMMA CopyPlotDelivered ==
    ASSUME DeliveredInv, CopyPlot, UNCHANGED faults
    PROVE  DeliveredInv'
  <1> USE DEF DeliveredInv
  <1> DEFINE i == opts.image
             plot == app[i].plot
  <1>1. /\ pc = "poll" /\ pc' = "loop" /\ runId' = runId + 1 /\ app[i].state = "exited"
        /\ plots' = [plots EXCEPT ![runId] = IF plot # None THEN plot ELSE @]
        /\ UNCHANGED <<request, opts, launch, cache, images, status, response, app, test, redis, queue,
                       waiting, written>>
    BY DEF CopyPlot, AgentExited, PlotNumber, dockerVars
  <1>2. /\ app \in [Names -> AppRecords] /\ plots \in [PlotIds -> Reports \cup {None}]
        /\ written \subseteq Reports
    BY Types
  <1>3. i \in Names /\ runId \in 1..4 /\ runId \in DOMAIN CPUSET /\ app[i] \in AppRecords
    BY <1>1, <1>2, CpuSetsTried DEF ControlInv, Options
  <1>4. plot # None => /\ plot \in Reports /\ Startable
                       /\ plot.cpus = CPUSET[runId] /\ plot.image = i
    BY <1>1, <1>3 DEF AppRecords, ContainerInv, PlotsInv
  <1> HIDE DEF plot, i
  <1>5. /\ plots' \in [PlotIds -> Reports \cup {None}]
        /\ \A k \in PlotIds \ {runId} : plots'[k] = plots[k]
        /\ plots'[runId] = IF plot # None THEN plot ELSE plots[runId]
    BY <1>1, <1>2, <1>3, <1>4 DEF PlotIds
  <1>6. TypeOK'
    BY <1>1, <1>3, <1>5 DEF TypeOK
  <1>7. ControlInv'
    BY <1>1, <1>3 DEF ControlInv
  <1>8. ContainerInv' /\ WaitingInv' /\ Ascending(response)'
    BY <1>1 DEF ContainerInv, WaitingInv, Ascending
  <1>9. PlotsInv'
    <2>1. plots'[0] = None
      BY <1>3, <1>5 DEF PlotsInv, PlotIds
    <2>2. ASSUME NEW k \in 1..4, plots'[k] # None
          PROVE  Startable /\ k \in DOMAIN CPUSET /\ plots'[k].cpus = CPUSET[k]
      BY <1>3, <1>4, <1>5, <2>2 DEF PlotsInv, PlotIds
    <2> QED BY <1>1, <2>1, <2>2 DEF PlotsInv, Startable
  <1>10. DeliveryInv'
    <2> SUFFICES ASSUME NEW r \in written, r.image = opts.image, r.run # 0
                 PROVE  r.run < runId + 1 /\ plots'[r.run] = r
      BY <1>1 DEF DeliveryInv
    <2>1. r \in Reports /\ r.run \in 0..5 /\ r # None
      BY <1>2, ReportsAssumption DEF Reports
    <2>2. CASE r.run < runId /\ plots[r.run] = r
      BY <1>3, <1>5, <2>1, <2>2 DEF PlotIds
    <2>3. CASE r.run = runId /\ app[r.image].plot = r
      <3>1. plot = r
        BY <2>3 DEF plot, i
      <3> QED BY <1>3, <1>5, <2>1, <2>3, <3>1
    <2> QED BY <1>1, <2>2, <2>3 DEF DeliveryInv
  <1> QED BY <1>6, <1>7, <1>8, <1>9, <1>10

LEMMA CleanUpDelivered ==
    ASSUME DeliveredInv, CleanUp, UNCHANGED faults
    PROVE  DeliveredInv'
  <1> USE DEF DeliveredInv
  <1>1. app' \in [Names -> AppRecords] /\ test' \in [Names -> TestRecords]
    BY CpuSetsTried, HostAssumption DEF CleanUp, NoContainer, NoClient, AppRecords, TestRecords, AgentStates
  <1>2. status' \in {0, 1} /\ redis' = "none" /\ queue' = <<>> /\ waiting' = <<>> /\ pc' = "done" /\ pc \in {"loop", "clean"}
    BY DEF CleanUp, RemoveRedis
  <1>3. UNCHANGED <<request, opts, launch, runId, cache, plots, images, written, response>>
    BY DEF CleanUp
  <1>4. TypeOK'
    BY <1>1, <1>2, <1>3 DEF TypeOK, AppRecords, TestRecords
  <1>5. ControlInv' /\ Ascending(response)' /\ WaitingInv' /\ PlotsInv'
    BY <1>2, <1>3 DEF ControlInv, Ascending, WaitingInv, PlotsInv
  <1>6. ContainerInv'
    BY DEF CleanUp, NoContainer, NoClient, ContainerInv
  <1>7. DeliveryInv'
    BY <1>2, <1>3 DEF DeliveryInv
  <1> QED BY <1>4, <1>5, <1>6, <1>7

\* What has been read after n plots, in the order of the files.
ReadUpTo(files, read, n) ==
    /\ read \in Seq(Reports) /\ Ascending(read)
    /\ \A k \in DOMAIN read : \E j \in 1..n : j \in DOMAIN CPUSET /\ read[k] = files[j] /\ files[j] # None

LEMMA ReadNext ==
    ASSUME NEW files \in [PlotIds -> Reports \cup {None}],
           \A k \in 1..4 : files[k] # None => Startable /\ k \in DOMAIN CPUSET /\ files[k].cpus = CPUSET[k],
           NEW n \in 1..4, NEW read, ReadUpTo(files, read, n - 1)
    PROVE  ReadUpTo(files, ReadPlot(read, files[n]), n)
  <1> DEFINE plot == files[n]
             t == ReadPlot(read, plot)
  <1>1. plot \in Reports \cup {None} /\ read \in Seq(Reports) /\ Ascending(read)
    BY DEF ReadUpTo, PlotIds
  <1>2. ASSUME plot # None, NEW k \in DOMAIN read
        PROVE  Cardinality(read[k].cpus) < Cardinality(plot.cpus)
    <2>1. PICK j \in 1..(n - 1) : j \in DOMAIN CPUSET /\ read[k] = files[j] /\ files[j] # None
      BY DEF ReadUpTo
    <2>2. Startable /\ n \in DOMAIN CPUSET /\ plot.cpus = CPUSET[n] /\ read[k].cpus = CPUSET[j] /\ j < n
      BY <1>2, <2>1
    <2> QED BY <2>1, <2>2, MoreCores
  <1> HIDE DEF plot
  <1>3. /\ t \in Seq(Reports) /\ Ascending(t)
        /\ \A k \in DOMAIN t : (\E j \in DOMAIN read : t[k] = read[j]) \/ (t[k] = plot /\ plot # None)
    BY <1>1, <1>2, ReadPlotAscending
  <1> HIDE DEF t
  <1>4. ASSUME NEW k \in DOMAIN t
        PROVE  \E j \in 1..n : j \in DOMAIN CPUSET /\ t[k] = files[j] /\ files[j] # None
    <2>1. CASE \E j \in DOMAIN read : t[k] = read[j]
      <3>1. PICK l \in DOMAIN read : t[k] = read[l]
        BY <2>1
      <3>2. PICK j \in 1..(n - 1) : j \in DOMAIN CPUSET /\ read[l] = files[j] /\ files[j] # None
        BY DEF ReadUpTo
      <3>3. j \in 1..n
        BY <3>2
      <3> QED BY <3>1, <3>2, <3>3
    <2>2. CASE t[k] = plot /\ plot # None
      BY <2>2 DEF plot
    <2> QED BY <1>3, <2>1, <2>2
  <1> QED BY <1>3, <1>4 DEF ReadUpTo, t, plot

LEMMA ReadAll ==
    ASSUME NEW files \in [PlotIds -> Reports \cup {None}], files[0] = None,
           \A k \in 1..4 : files[k] # None => Startable /\ k \in DOMAIN CPUSET /\ files[k].cpus = CPUSET[k]
    PROVE  ReadUpTo(files, ReadPlots(files), 4)
  <1> DEFINE s0 == ReadPlot(<<>>, files[0])
             s1 == ReadPlot(s0, files[1])
             s2 == ReadPlot(s1, files[2])
             s3 == ReadPlot(s2, files[3])
             s4 == ReadPlot(s3, files[4])
  <1>1. s0 = <<>>
    BY DEF ReadPlot
  <1> HIDE DEF s0
  <1>2. ReadUpTo(files, s0, 1 - 1)
    <2>1. s0 \in Seq(Reports) /\ DOMAIN s0 = {}
      BY <1>1
    <2> QED BY <2>1 DEF ReadUpTo, Ascending
  <1>3. ReadUpTo(files, s1, 2 - 1)
    BY <1>2, ReadNext
  <1> HIDE DEF s1
  <1>4. ReadUpTo(files, s2, 3 - 1)
    BY <1>3, ReadNext
  <1> HIDE DEF s2
  <1>5. ReadUpTo(files, s3, 4 - 1)
    BY <1>4, ReadNext
  <1> HIDE DEF s3
  <1>6. ReadUpTo(files, s4, 4)
    BY <1>5, ReadNext
  <1> QED BY <1>6 DEF s0, s1, s2, s3, ReadPlots

LEMMA RespondDelivered ==
    ASSUME DeliveredInv, Respond, UNCHANGED faults
    PROVE  DeliveredInv' /\ (status = 0 => ReadUpTo(plots, response', 4))
  <1> USE DEF DeliveredInv
  <1>1. UNCHANGED <<request, opts, launch, runId, cache, images, status, app, test, redis, queue,
                    waiting, written>> /\ pc' = "idle"
    BY DEF Respond, dockerVars
  <1>2. ReadUpTo(plots, ReadPlots(plots), 4)
    BY Types, ReadAll DEF PlotsInv
  <1>3. /\ response' \in Seq(Reports) /\ Ascending(response')
        /\ status = 0 => response' = ReadPlots(plots)
    BY <1>2 DEF Respond, TypeOK, ReadUpTo
  <1>4. plots' \in [PlotIds -> Reports \cup {None}] /\ PlotsInv'
    <2>1. plots' = plots \/ plots' = [k \in PlotIds |-> None]
      BY DEF Respond
    <2> QED BY <1>1, <2>1, Types DEF PlotsInv, PlotIds
  <1>5. TypeOK'
    BY <1>1, <1>3, <1>4 DEF TypeOK
  <1>6. ControlInv' /\ ContainerInv' /\ WaitingInv' /\ DeliveryInv'
    BY <1>1 DEF ControlInv, ContainerInv, WaitingInv, DeliveryInv
  <1>7. Ascending(response)'
    BY <1>3 DEF Ascending
  <1> QED BY <1>2, <1>3, <1>4, <1>5, <1>6, <1>7

LEMMA InterruptDelivered ==
    ASSUME DeliveredInv, Interrupt, UNCHANGED faults
    PROVE  DeliveredInv'
  <1> USE DEF DeliveredInv
  <1>1. UNCHANGED <<request, opts, launch, runId, cache, plots, images, status, response>> /\ pc' = "idle"
        /\ pc # "idle"
    BY DEF Interrupt
  <1>2. ControlInv' /\ DeliveryInv' /\ Ascending(response)' /\ PlotsInv'
    BY <1>1 DEF ControlInv, DeliveryInv, Ascending, PlotsInv
  <1>3. CASE UNCHANGED dockerVars
    <2>1. TypeOK'
      BY <1>1, <1>3 DEF TypeOK, dockerVars
    <2>2. ContainerInv' /\ WaitingInv'
      BY <1>1, <1>3 DEF ContainerInv, WaitingInv, dockerVars
    <2> QED BY <1>2, <2>1, <2>2
  <1>4. CASE /\ redis' = IF redis = "none" THEN redis ELSE "stopped"
             /\ app' = [i \in Names |->
                       IF app[i].state = "waiting" \/ (i = opts.image /\ app[i].state # "none")
                       THEN [app[i] EXCEPT !.state = "exited"] ELSE app[i]]
             /\ test' = [test EXCEPT ![opts.image].state = IF @ = "running" THEN "exited" ELSE @]
             /\ waiting' = <<>>
             /\ UNCHANGED <<queue, written>>
    <2>1. app \in [Names -> AppRecords] /\ test \in [Names -> TestRecords] /\ opts.image \in Names
      BY <1>1, Types DEF ControlInv, Options
    <2>2. ASSUME NEW i \in Names
          PROVE  /\ app'[i] \in AppRecords
                 /\ app'[i] = app[i] \/ (app[i].state # "none" /\ app'[i].state = "exited"
                                         /\ app'[i].cpus = app[i].cpus /\ app'[i].plot = app[i].plot)
      <3>1. app[i] \in AppRecords
        BY <2>1
      <3>2. app'[i] = app[i] \/ (app[i].state # "none" /\ app'[i] = [app[i] EXCEPT !.state = "exited"])
        BY <1>4
      <3> QED BY <3>1, <3>2 DEF AppRecords, AgentStates
    <2>3. app' \in [Names -> AppRecords]
      BY <1>4, <2>2
    <2>4. test' \in [Names -> TestRecords] /\ \A i \in Names : test'[i] = test[i] \/ test'[i].state = "exited"
      <3> DEFINE name == opts.image
                 x == IF test[name].state = "running" THEN "exited" ELSE test[name].state
                 rec == [test[name] EXCEPT !.state = x]
      <3>1. name \in Names /\ test[name] \in TestRecords /\ test' = [test EXCEPT ![name] = rec]
        BY <1>4, <2>1
      <3>2. rec \in TestRecords /\ (rec = test[name] \/ rec.state = "exited")
        BY <3>1 DEF TestRecords
      <3> HIDE DEF rec, name
      <3> QED BY <2>1, <3>1, <3>2
    <2>5. TypeOK'
      <3>1. TypeOK /\ UNCHANGED <<queue, written>> /\ waiting' = <<>>
        BY <1>1, <1>4
      <3>2. redis' \in {"none", "stopped", "starting", "ready"}
        BY <1>4, <3>1 DEF TypeOK
      <3> QED BY <1>1, <2>3, <2>4, <3>1, <3>2 DEF TypeOK, AppRecords, TestRecords
    <2>6. ContainerInv'
      <3> SUFFICES ASSUME NEW i \in Names
                   PROVE  /\ app'[i].state # "none" => Startable /\ images'[i].app /\ images'[i].test # None
                          /\ app'[i].state = "working" => app'[i].msg \in Messages
                          /\ app'[i].plot # None => /\ app'[i].state # "none"
                                                    /\ app'[i].plot.cpus = app'[i].cpus /\ app'[i].plot.image = i
                                                    /\ app'[i].plot.job \in Runnable
                          /\ test'[i].state = "running" => test'[i].job \in Commands /\ test'[i].by \in 1..MaxLaunches
        BY DEF ContainerInv, Startable
      <3>1. images' = images /\ ContainerInv
        BY <1>1
      <3> QED BY <2>2, <2>4, <3>1 DEF ContainerInv
    <2>7. WaitingInv'
      BY <1>4 DEF WaitingInv
    <2> QED BY <1>2, <2>5, <2>6, <2>7
  <1> QED BY <1>3, <1>4 DEF Interrupt

LEMMA DeliveredStep == DeliveredInv /\ [Next]_vars => DeliveredInv'
  <1> SUFFICES ASSUME DeliveredInv, [Next]_vars PROVE DeliveredInv'
    OBVIOUS
  <1>1. CASE UNCHANGED vars
    <2> USE <1>1 DEF vars, scriptVars, dockerVars
    <2>1. TypeOK'
      BY DEF DeliveredInv, TypeOK
    <2>2. ContainerInv' /\ WaitingInv'
      BY DEF DeliveredInv, ContainerInv, WaitingInv
    <2>3. ControlInv' /\ PlotsInv' /\ DeliveryInv' /\ Ascending(response)'
      BY DEF DeliveredInv, ControlInv, PlotsInv, DeliveryInv, Ascending
    <2> QED BY <2>1, <2>2, <2>3 DEF DeliveredInv
  <1>2. CASE UNCHANGED faults /\ \E r \in Asked : Analyze(r)
    BY <1>2, AnalyzeDelivered
  <1>3. CASE UNCHANGED faults /\ Script
    BY <1>3, BuildDelivered, UpDelivered, CopyPlotDelivered, CleanUpDelivered, RespondDelivered DEF Script
  <1>4. CASE UNCHANGED faults /\ RedisReady
    BY <1>4, RedisReadyDelivered
  <1>5. CASE UNCHANGED faults /\ \E i \in Names : AgentConnects(i) \/ ClientPushes(i) \/ AgentEnds(i)
    BY <1>5, AgentConnectsDelivered, ClientPushesDelivered, AgentEndsDelivered
  <1>6. CASE UNCHANGED faults /\ Interrupt
    BY <1>6, InterruptDelivered
  <1> QED BY <1>1, <1>2, <1>3, <1>4, <1>5, <1>6 DEF Next

\* Every report that an agent wrote in an iteration is in the file of that
\* iteration when the handler reads the files, and the answer is in ascending order
\* of cores (LaunchAgent.sh:82-102, server.py:51-57).
THEOREM ReportDeliveredHolds == Spec => []ReportDelivered
  <1>1. DeliveredInv => ReportDelivered
    <2> SUFFICES ASSUME DeliveredInv PROVE ReportDelivered
      OBVIOUS
    <2>1. pc = "done" => \A r \in written : r.image = opts.image /\ r.run # 0 => plots[r.run] = r
      BY DEF DeliveredInv, DeliveryInv
    <2> QED BY <2>1 DEF DeliveredInv, ReportDelivered, Ascending
  <1> QED BY <1>1, InitDelivered, DeliveredStep, PTL DEF Spec

-----------------------------------------------------------------------------
(* Messages stay within their analysis.                                    *)

Quiet == {"idle", "build", "done"}

LEMMA MessageStep ==
    DeliveredInv /\ MessageInv /\ [Next]_vars => MessageInv'
  <1> SUFFICES ASSUME DeliveredInv, MessageInv, [Next]_vars, "interrupt" \notin faults'
               PROVE  /\ \A k \in DOMAIN queue' : queue'[k].by = launch'
                      /\ \A i \in Names : /\ app'[i].state = "working" => app'[i].msg.by = launch'
                                          /\ test'[i].state = "running" => test'[i].by = launch'
                      /\ pc' \in Quiet =>
                            queue' = <<>> /\ \A i \in Names : app'[i].state = "none" /\ test'[i].state = "none"
    BY DEF MessageInv, Quiet
  <1>0. "interrupt" \notin faults
    BY DEF Next, vars
  <1>1. /\ \A k \in DOMAIN queue : queue[k].by = launch
        /\ \A i \in Names : /\ app[i].state = "working" => app[i].msg.by = launch
                            /\ test[i].state = "running" => test[i].by = launch
        /\ pc \in Quiet => queue = <<>> /\ \A i \in Names : app[i].state = "none" /\ test[i].state = "none"
    BY <1>0 DEF MessageInv, Quiet
  <1>2. /\ app \in [Names -> AppRecords] /\ test \in [Names -> TestRecords]
        /\ queue \in Seq(Messages) /\ waiting \in Seq(Names)
    BY Types DEF DeliveredInv
  <1>3. CASE UNCHANGED <<pc, launch, app, test, queue>>
    BY <1>1, <1>3
  <1>4. ASSUME NEW r \in Asked, Analyze(r) PROVE UNCHANGED <<app, test, queue>> /\ pc = "idle"
    BY <1>4 DEF Analyze
  <1>5. ASSUME Build PROVE UNCHANGED <<app, test, queue, launch>> /\ pc' = "loop"
    BY <1>5 DEF Build, dockerVars
  <1>6. CASE UpDetached \/ UpAttached
    <2> DEFINE cpus == IF opts.singleRun THEN 0..0 ELSE CPUSET[runId]
               started == IF opts.singleRun THEN "attached" ELSE "poll"
               failed == IF opts.singleRun THEN "clean" ELSE "poll"
               i == opts.image
    <2>1. Up(cpus, started, failed) /\ launch' = launch /\ pc' \notin Quiet
      BY <1>6 DEF UpDetached, UpAttached, Up, Quiet
    <2>2. CASE UNCHANGED dockerVars
      BY <1>1, <2>1, <2>2 DEF dockerVars
    <2>3. CASE StartContainers(i, cpus)
      <3>1. i \in Names
        BY <1>6 DEF UpDetached, UpAttached, DeliveredInv, ControlInv, Options
      <3>2. /\ app' = [app EXCEPT ![i] = UpApplication(@, cpus)]
            /\ test' = [test EXCEPT ![i] = UpClient(@, images'[i].test)] /\ queue' = queue
        BY <2>3 DEF StartContainers
      <3> HIDE DEF i, cpus
      <3>3. app'[i] = app[i] \/ app'[i].state = "starting"
        BY <1>2, <3>1, <3>2 DEF UpApplication, AppRecords
      <3>4. test'[i] = test[i] \/ test'[i].by = launch
        BY <1>2, <3>1, <3>2 DEF UpClient
      <3>5. \A k \in Names \ {i} : app'[k] = app[k] /\ test'[k] = test[k]
        BY <1>2, <3>1, <3>2
      <3> QED BY <1>1, <2>1, <3>2, <3>3, <3>4, <3>5
    <2> QED BY <2>1, <2>2, <2>3 DEF Up
  <1>7. CASE \E i \in Names : AgentConnects(i)
    <2>1. PICK i \in Names : AgentConnects(i)
      BY <1>7
    <2>2. UNCHANGED <<pc, launch, test>> /\ pc \notin Quiet
      BY <1>1, <2>1 DEF AgentConnects, scriptVars
    <2>3. CASE queue # <<>> /\ queue' = Tail(queue) /\ app' = [app EXCEPT ![i].state = "working", ![i].msg = Head(queue)]
      <3>1. /\ 1 \in DOMAIN queue /\ Head(queue) = queue[1]
            /\ \A k \in DOMAIN queue' : k + 1 \in DOMAIN queue /\ queue'[k] = queue[k + 1]
        BY <1>2, <2>3
      <3>2. app'[i].msg = Head(queue) /\ \A k \in Names \ {i} : app'[k] = app[k]
        BY <1>2, <2>3 DEF AppRecords
      <3> QED BY <1>1, <2>2, <3>1, <3>2
    <2>4. CASE queue' = queue /\ \E s \in {"exited", "waiting"} : app' = [app EXCEPT ![i].state = s]
      <3>1. app'[i].state # "working" /\ \A k \in Names \ {i} : app'[k] = app[k]
        BY <1>2, <2>4 DEF AppRecords
      <3> QED BY <1>1, <2>2, <2>4, <3>1
    <2> QED BY <2>1, <2>3, <2>4 DEF AgentConnects
  <1>8. CASE \E i \in Names : ClientPushes(i)
    <2>1. PICK i \in Names : ClientPushes(i)
      BY <1>8
    <2> DEFINE m == [job |-> test[i].job, by |-> test[i].by]
    <2>2. UNCHANGED <<pc, launch>> /\ pc \notin Quiet /\ m.by = launch
          /\ test' = [test EXCEPT ![i].state = "exited"]
      BY <1>1, <2>1 DEF ClientPushes, scriptVars
    <2>3. test'[i].state = "exited" /\ \A k \in Names \ {i} : test'[k] = test[k]
      BY <1>2, <2>2 DEF TestRecords
    <2>4. UNCHANGED <<app, queue>> \/ (waiting # <<>> /\ queue' = queue
               /\ app' = [app EXCEPT ![Head(waiting)].state = "working", ![Head(waiting)].msg = m])
             \/ (app' = app /\ queue' = Append(queue, m))
      BY <2>1 DEF ClientPushes
    <2> HIDE DEF m
    <2>5. CASE UNCHANGED <<app, queue>>
      BY <1>1, <2>2, <2>3, <2>5
    <2>6. CASE waiting # <<>> /\ queue' = queue
               /\ app' = [app EXCEPT ![Head(waiting)].state = "working", ![Head(waiting)].msg = m]
      <3> DEFINE a == Head(waiting)
      <3>1. a \in Names
        BY <1>2, <2>6
      <3> HIDE DEF a
      <3>2. app' = [app EXCEPT ![a].state = "working", ![a].msg = m]
        BY <2>6 DEF a
      <3>3. app'[a].msg = m /\ \A k \in Names \ {a} : app'[k] = app[k]
        BY <1>2, <3>1, <3>2 DEF AppRecords
      <3> QED BY <1>1, <2>2, <2>3, <2>6, <3>3
    <2>7. CASE app' = app /\ queue' = Append(queue, m)
      <3>1. \A k \in DOMAIN queue' : queue'[k] = m \/ (k \in DOMAIN queue /\ queue'[k] = queue[k])
        BY <1>2, <2>7
      <3> QED BY <1>1, <2>2, <2>3, <2>7, <3>1
    <2> QED BY <2>4, <2>5, <2>6, <2>7
  <1>9. CASE \E i \in Names : AgentEnds(i)
    <2>1. PICK i \in Names : AgentEnds(i)
      BY <1>9
    <2>2. UNCHANGED <<pc, launch, test, queue>> /\ pc \notin Quiet
      BY <1>1, <2>1 DEF AgentEnds, scriptVars
    <2>3. app'[i].state = "exited" /\ \A k \in Names \ {i} : app'[k] = app[k]
      BY <1>2, <2>1 DEF AgentEnds, AppRecords
    <2> QED BY <1>1, <2>2, <2>3
  <1>10. ASSUME CopyPlot PROVE UNCHANGED <<app, test, queue, launch>> /\ pc' = "loop"
    BY <1>10 DEF CopyPlot, dockerVars
  <1>11. CASE CleanUp
    BY <1>11 DEF CleanUp, RemoveRedis, NoContainer, NoClient
  <1>12. ASSUME Respond PROVE UNCHANGED <<app, test, queue, launch>> /\ pc = "done"
    BY <1>12 DEF Respond, dockerVars
  <1>13. ~Interrupt
    BY <1>0 DEF Interrupt
  <1>14. CASE \E r \in Asked : Analyze(r)
    BY <1>1, <1>4, <1>14 DEF Quiet
  <1>15. CASE Build \/ CopyPlot
    BY <1>1, <1>5, <1>10, <1>15 DEF Quiet
  <1>16. CASE Respond
    BY <1>1, <1>12, <1>16 DEF Quiet
  <1>17. CASE RedisReady \/ UNCHANGED vars
    <2>1. UNCHANGED <<pc, launch, app, test, queue>>
      BY <1>17 DEF RedisReady, vars, scriptVars, dockerVars
    <2> QED BY <1>3, <2>1
  <1> QED BY <1>6, <1>7, <1>8, <1>9, <1>11, <1>13, <1>14, <1>15, <1>16, <1>17 DEF Next, Script

\* Unless an analysis was interrupted, no message reaches an agent of another one.
THEOREM NoForeignMessageHolds == Spec => []NoForeignMessage
  <1>1. Init => MessageInv
    BY DEF Init, MessageInv, NoContainer, NoClient
  <1>2. MessageInv => NoForeignMessage
    BY DEF MessageInv, NoForeignMessage
  <1> QED BY <1>1, <1>2, InitDelivered, DeliveredStep, MessageStep, PTL DEF Spec

-----------------------------------------------------------------------------
(* Without failures, an answer is about what was asked for.                *)

\* An image for a command that was there is not built again.
LEMMA UpImage ==
    ASSUME DeliveredInv, pc = "loop", NEW cpus, NEW started, NEW failed, Up(cpus, started, failed)
    PROVE  /\ images'[opts.image].test \in {images[opts.image].test, opts.job}
           /\ images[opts.image].test # None => images'[opts.image].test = images[opts.image].test
           /\ \/ UNCHANGED dockerVars
              \/ StartContainers(opts.image, cpus) /\ images'[opts.image].test # None
  <1> DEFINE i == opts.image
             missing == {s \in {"app", "test"} : IF s = "app" THEN ~images[i].app
                                                ELSE images[i].test = None}
  <1>1. i \in Names /\ opts.job \in Commands /\ images \in [Names -> ImageRecords] /\ None \notin Commands
    BY Types, NamesAssumption DEF DeliveredInv, ControlInv, Options, Commands
  <1>2. PICK done \in SUBSET missing :
          /\ images' = [images EXCEPT ![i] = Built(@, done, opts.job)]
          /\ IF done = missing /\ Startable THEN StartContainers(i, cpus) ELSE UNCHANGED dockerVars
    BY DEF Up
  <1>3. images'[i].test = IF "test" \in done THEN opts.job ELSE images[i].test
    BY <1>1, <1>2 DEF Built
  <1>4. images[i].test # None => "test" \notin done
    OBVIOUS
  <1>5. done = missing => images[i].test # None \/ "test" \in done
    OBVIOUS
  <1> HIDE DEF i, missing
  <1>6. done = missing => images'[i].test # None
    BY <1>1, <1>3, <1>5
  <1> QED BY <1>2, <1>3, <1>4, <1>6 DEF i

\* In which steps the cache, the options and the images change.
LEMMA CacheOwnStep ==
    ASSUME DeliveredInv, CacheOwn, faults = {}, [Next]_vars
    PROVE  CacheOwn'
  <1>0. /\ images \in [Names -> ImageRecords] /\ NoName \in Names /\ Packages \subseteq Names
        /\ cache \in [Packages -> Jobs \cup {None}]
    BY Types DEF DeliveredInv, Names, TypeOK
  <1>1. CASE UNCHANGED <<status, pc, opts, request, cache, images>>
    BY <1>1 DEF CacheOwn
  <1>2. CASE \E r \in Asked : Analyze(r)
    <2>1. PICK r \in Asked : Analyze(r)
      BY <1>2
    <2>2. r \in Requests /\ r.package \in Packages /\ r.job \in Jobs
      BY AskedAssumption DEF Requests
    <2> DEFINE hit == CacheHit(r)
    <2>3. /\ request' = r /\ opts' = ParseArgs(r, hit) /\ images' = images /\ status' = status
          /\ pc' = IF hit THEN "loop" ELSE "build"
          /\ cache' = [cache EXCEPT ![r.package] = r.job]
      BY <2>1 DEF Analyze
    <2>4. hit => cache[r.package] = r.job
      BY DEF CacheHit
    <2> HIDE DEF hit
    <2>5. opts'.useCache = hit /\ (r.job # EmptyJob => opts'.image = r.package /\ opts'.job = r.job)
          /\ (r.job = EmptyJob => opts'.image = NoName /\ opts'.job = Swallowed)
      BY <2>3 DEF ParseArgs
    <2>6. cache'[r.package] = r.job /\ \A p \in Packages \ {r.package} : cache'[p] = cache[p]
      BY <1>0, <2>2, <2>3
    <2>7. pc = "idle"
      BY <2>1 DEF Analyze
    <2>8. ASSUME NEW p \in Packages, cache'[p] \in Jobs \ {EmptyJob}
          PROVE  images[p].test = cache'[p] \/ (pc' = "build" /\ opts'.image = p)
      <3>1. CASE p # r.package
        BY <2>6, <2>7, <2>8, <3>1 DEF CacheOwn
      <3>2. CASE p = r.package /\ hit
        BY <2>4, <2>6, <2>7, <2>8, <3>2 DEF CacheOwn
      <3>3. CASE p = r.package /\ ~hit
        BY <2>3, <2>5, <2>6, <2>8, <3>3
      <3> QED BY <3>1, <3>2, <3>3
    <2>9. pc' = "loop" => images[opts'.image].test \in {None, opts'.job}
      <3>1. CASE r.job = EmptyJob
        BY <2>5, <3>1 DEF CacheOwn
      <3>2. CASE r.job # EmptyJob /\ hit
        BY <2>2, <2>4, <2>5, <2>7, <3>2 DEF CacheOwn
      <3> QED BY <2>3, <3>1, <3>2
    <2>10. pc' \in {"loop", "build"}
      BY <2>3
    <2> QED BY <2>3, <2>5, <2>6, <2>8, <2>9, <2>10 DEF CacheOwn
  <1>3. CASE Build
    <2> DEFINE i == opts.image
    <2>1. /\ pc = "build" /\ pc' = "loop" /\ UNCHANGED <<request, opts, cache, status>>
          /\ i \in Names /\ opts = ParseArgs(request, opts.useCache) /\ request \in Requests
          /\ cache[request.package] = request.job
      BY <1>3 DEF Build, DeliveredInv, ControlInv, Options, CacheOwn
    <2>2. images' = [images EXCEPT ![i] = Built(@, {"app", "test"}, opts.job)]
      BY <1>3 DEF Build, Builds
    <2>3. images'[i].test = opts.job /\ \A k \in Names \ {i} : images'[k] = images[k]
      BY <1>0, <2>1, <2>2 DEF Built
    <2>4. \/ request.job = EmptyJob /\ i = NoName /\ opts.job = Swallowed
          \/ request.job # EmptyJob /\ i = request.package /\ opts.job = request.job /\ i \in Packages
      BY <2>1 DEF ParseArgs, Requests
    <2> HIDE DEF i
    <2>5. ASSUME NEW p \in Packages, cache[p] \in Jobs \ {EmptyJob} PROVE images'[p].test = cache[p]
      <3>1. CASE p = i
        BY <2>1, <2>3, <2>4, <3>1, NamesAssumption
      <3>2. CASE p # i
        BY <1>0, <2>3, <2>5, <3>2 DEF CacheOwn, i
      <3> QED BY <3>1, <3>2
    <2>6. images'[NoName].test \in {None, Swallowed}
      BY <1>0, <2>3, <2>4, NamesAssumption DEF CacheOwn
    <2> QED BY <2>1, <2>3, <2>5, <2>6 DEF CacheOwn, i
  <1>4. CASE UpDetached \/ UpAttached
    <2> DEFINE cpus == IF opts.singleRun THEN 0..0 ELSE CPUSET[runId]
               started == IF opts.singleRun THEN "attached" ELSE "poll"
               failed == IF opts.singleRun THEN "clean" ELSE "poll"
               i == opts.image
    <2>1. /\ Up(cpus, started, failed) /\ pc = "loop" /\ pc' \in {"poll", "attached", "clean"}
          /\ UNCHANGED <<request, opts, cache, status>>
      BY <1>4 DEF UpDetached, UpAttached, Up
    <2>2. i \in Names /\ opts = ParseArgs(request, opts.useCache) /\ request \in Requests
      BY <2>1 DEF DeliveredInv, ControlInv, Options, CacheOwn
    <2>3. /\ images'[i].test \in {images[i].test, opts.job}
          /\ images[i].test # None => images'[i].test = images[i].test
      BY <2>1, UpImage
    <2>4. \A k \in Names \ {i} : images'[k] = images[k]
      BY <1>0, <2>1, <2>2 DEF Up
    <2>5. ASSUME NEW p \in Packages, cache[p] \in Jobs \ {EmptyJob} PROVE images'[p].test = cache[p]
      <3>1. images[p].test = cache[p] /\ cache[p] # None
        BY <2>1, <2>5, NamesAssumption DEF CacheOwn
      <3> QED BY <1>0, <2>3, <2>4, <3>1
    <2>6. images'[NoName].test \in {None, Swallowed}
      <3>1. i = NoName => opts.job = Swallowed
        BY <2>2, NamesAssumption DEF ParseArgs, Requests
      <3> QED BY <1>0, <2>3, <2>4, <3>1 DEF CacheOwn
    <2>7. images'[i].test \in {None, opts.job}
      BY <2>1, <2>3 DEF CacheOwn
    <2> QED BY <2>1, <2>5, <2>6, <2>7 DEF CacheOwn
  <1>5. CASE CopyPlot
    BY <1>5 DEF CopyPlot, CacheOwn
  <1>6. CASE CleanUp
    BY <1>6 DEF CleanUp, CacheOwn
  <1>7. CASE Respond
    BY <1>7 DEF Respond, CacheOwn
  <1>8. ~Interrupt
    BY DEF Interrupt
  <1>9. CASE RedisReady \/ (\E i \in Names : AgentConnects(i) \/ ClientPushes(i) \/ AgentEnds(i)) \/ UNCHANGED vars
    <2>1. UNCHANGED <<status, pc, opts, request, cache, images>>
      BY <1>9 DEF RedisReady, AgentConnects, ClientPushes, AgentEnds, vars, scriptVars
    <2> QED BY <1>1, <2>1
  <1> QED BY <1>2, <1>3, <1>4, <1>5, <1>6, <1>7, <1>8, <1>9 DEF Next, Script

LEMMA RunOwnStep ==
    ASSUME DeliveredInv, MessageInv, CacheOwn, RunOwn, faults = {}, [Next]_vars
    PROVE  RunOwn'
  <1>0. /\ app \in [Names -> AppRecords] /\ test \in [Names -> TestRecords]
        /\ queue \in Seq(Messages) /\ waiting \in Seq(Names)
    BY Types DEF DeliveredInv
  <1>1. CASE UNCHANGED <<opts, app, test, queue>>
    BY <1>1 DEF RunOwn
  <1>2. CASE \E r \in Asked : Analyze(r)
    <2>1. UNCHANGED <<app, test, queue>> /\ pc = "idle"
      BY <1>2 DEF Analyze
    <2>2. queue = <<>> /\ \A i \in Names : app[i].state = "none" /\ test[i].state = "none"
      BY <2>1 DEF MessageInv
    <2>3. \A i \in Names : app[i].plot = None
      BY <2>2 DEF DeliveredInv, ContainerInv
    <2> QED BY <2>1, <2>2, <2>3 DEF RunOwn
  <1>3. CASE UpDetached \/ UpAttached
    <2> DEFINE cpus == IF opts.singleRun THEN 0..0 ELSE CPUSET[runId]
               started == IF opts.singleRun THEN "attached" ELSE "poll"
               failed == IF opts.singleRun THEN "clean" ELSE "poll"
               i == opts.image
    <2>1. Up(cpus, started, failed) /\ opts' = opts /\ pc = "loop"
      BY <1>3 DEF UpDetached, UpAttached
    <2>2. i \in Names
      BY <2>1 DEF DeliveredInv, ControlInv, Options
    <2>3. CASE UNCHANGED dockerVars
      BY <1>1, <2>1, <2>3 DEF dockerVars
    <2>4. CASE StartContainers(i, cpus) /\ images'[i].test # None
      <3>1. images'[i].test = opts.job
        <4>1. images[i].test \in {None, opts.job}
          BY <2>1 DEF CacheOwn
        <4> QED BY <2>1, <2>4, <4>1, UpImage
      <3>2. /\ app' = [app EXCEPT ![i] = UpApplication(@, cpus)]
            /\ test' = [test EXCEPT ![i] = UpClient(@, opts.job)] /\ queue' = queue
        BY <2>4, <3>1 DEF StartContainers
      <3>3. app[i] \in AppRecords /\ test[i] \in TestRecords
        BY <1>0, <2>2
      <3> HIDE DEF i, cpus
      <3>4. /\ app'[i] = app[i] \/ app'[i].state = "starting"
            /\ app'[i].plot \in {app[i].plot, None}
        BY <1>0, <2>2, <3>2, <3>3 DEF UpApplication, AppRecords
      <3>5. test'[i] = test[i] \/ test'[i].job = opts.job
        BY <1>0, <2>2, <3>2 DEF UpClient
      <3>6. \A k \in Names \ {i} : app'[k] = app[k] /\ test'[k] = test[k]
        BY <1>0, <2>2, <3>2
      <3>7. ASSUME NEW k \in Names
            PROVE  /\ app'[k].state # "none" => k = opts.image
                   /\ app'[k].state = "working" => app'[k].msg.job = opts.job
                   /\ app'[k].plot # None => app'[k].plot.job = opts.job
                   /\ test'[k].state = "running" => test'[k].job = opts.job
        <4>1. CASE k = i
          BY <3>4, <3>5, <4>1 DEF RunOwn, i
        <4>2. CASE k # i
          BY <3>6, <4>2 DEF RunOwn
        <4> QED BY <4>1, <4>2
      <3> QED BY <2>1, <3>2, <3>7 DEF RunOwn
    <2> QED BY <2>1, <2>3, <2>4, UpImage
  <1>4. CASE \E i \in Names : AgentConnects(i)
    <2>1. PICK i \in Names : AgentConnects(i)
      BY <1>4
    <2>2. UNCHANGED <<opts, test>> /\ app[i].state = "starting"
      BY <2>1 DEF AgentConnects, scriptVars
    <2>3. CASE queue # <<>> /\ queue' = Tail(queue) /\ app' = [app EXCEPT ![i].state = "working", ![i].msg = Head(queue)]
      <3>1. /\ 1 \in DOMAIN queue /\ Head(queue) = queue[1]
            /\ \A k \in DOMAIN queue' : k + 1 \in DOMAIN queue /\ queue'[k] = queue[k + 1]
        BY <1>0, <2>3
      <3>2. app'[i].msg = Head(queue) /\ app'[i].plot = app[i].plot /\ \A k \in Names \ {i} : app'[k] = app[k]
        BY <1>0, <2>3 DEF AppRecords
      <3> QED BY <2>2, <3>1, <3>2 DEF RunOwn
    <2>4. CASE queue' = queue /\ \E s \in {"exited", "waiting"} : app' = [app EXCEPT ![i].state = s]
      <3>1. /\ app'[i].state # "working" /\ app'[i].plot = app[i].plot
            /\ \A k \in Names \ {i} : app'[k] = app[k]
        BY <1>0, <2>4 DEF AppRecords
      <3> QED BY <2>2, <2>4, <3>1 DEF RunOwn
    <2> QED BY <2>1, <2>3, <2>4 DEF AgentConnects
  <1>5. CASE \E i \in Names : ClientPushes(i)
    <2>1. PICK i \in Names : ClientPushes(i)
      BY <1>5
    <2> DEFINE m == [job |-> test[i].job, by |-> test[i].by]
    <2>2. opts' = opts /\ m.job = opts.job /\ test' = [test EXCEPT ![i].state = "exited"]
      BY <2>1 DEF ClientPushes, scriptVars, RunOwn
    <2>3. test'[i].state = "exited" /\ \A k \in Names \ {i} : test'[k] = test[k]
      BY <1>0, <2>2 DEF TestRecords
    <2>4. UNCHANGED <<app, queue>> \/ (waiting # <<>> /\ queue' = queue
               /\ app' = [app EXCEPT ![Head(waiting)].state = "working", ![Head(waiting)].msg = m])
             \/ (app' = app /\ queue' = Append(queue, m))
      BY <2>1 DEF ClientPushes
    <2> HIDE DEF m
    <2>5. CASE UNCHANGED <<app, queue>>
      BY <2>2, <2>3, <2>5 DEF RunOwn
    <2>6. CASE waiting # <<>> /\ queue' = queue
               /\ app' = [app EXCEPT ![Head(waiting)].state = "working", ![Head(waiting)].msg = m]
      <3> DEFINE a == Head(waiting)
      <3>1. a \in Names /\ 1 \in DOMAIN waiting /\ waiting[1] = a
        BY <1>0, <2>6
      <3>2. app[a].state = "waiting"
        BY <3>1 DEF DeliveredInv, WaitingInv
      <3> HIDE DEF a
      <3>3. app' = [app EXCEPT ![a].state = "working", ![a].msg = m]
        BY <2>6 DEF a
      <3>4. app'[a].msg = m /\ app'[a].plot = app[a].plot /\ \A k \in Names \ {a} : app'[k] = app[k]
        BY <1>0, <3>1, <3>3 DEF AppRecords
      <3>5. a = opts.image
        BY <3>1, <3>2 DEF RunOwn
      <3>6. ASSUME NEW k \in Names
            PROVE  /\ app'[k].state # "none" => k = opts.image
                   /\ app'[k].state = "working" => app'[k].msg.job = opts.job
                   /\ app'[k].plot # None => app'[k].plot.job = opts.job
        <4>1. CASE k = a
          BY <2>2, <3>1, <3>4, <3>5, <4>1 DEF RunOwn
        <4>2. CASE k # a
          BY <3>4, <4>2 DEF RunOwn
        <4> QED BY <4>1, <4>2
      <3>7. \A k \in Names : test'[k].state = "running" => test'[k].job = opts.job
        BY <2>3 DEF RunOwn
      <3>8. opts' = opts /\ queue' = queue
        BY <2>2, <2>6
      <3> QED BY <3>6, <3>7, <3>8 DEF RunOwn
    <2>7. CASE app' = app /\ queue' = Append(queue, m)
      <3>1. \A k \in DOMAIN queue' : queue'[k] = m \/ (k \in DOMAIN queue /\ queue'[k] = queue[k])
        BY <1>0, <2>7
      <3>2. \A k \in DOMAIN queue' : queue'[k].job = opts.job
        BY <2>2, <3>1 DEF RunOwn
      <3> QED BY <2>2, <2>3, <2>7, <3>2 DEF RunOwn
    <2> QED BY <2>4, <2>5, <2>6, <2>7
  <1>6. CASE \E i \in Names : AgentEnds(i)
    <2>1. PICK i \in Names : AgentEnds(i)
      BY <1>6
    <2>2. UNCHANGED <<opts, test, queue>> /\ app[i].state = "working"
      BY <2>1 DEF AgentEnds, scriptVars
    <2>3. /\ app'[i].state = "exited" /\ \A k \in Names \ {i} : app'[k] = app[k]
          /\ app'[i].plot = app[i].plot \/ app'[i].plot.job = app[i].msg.job
      BY <1>0, <2>1 DEF AgentEnds, AppRecords
    <2> QED BY <2>2, <2>3 DEF RunOwn
  <1>7. CASE CleanUp
    BY <1>7 DEF CleanUp, RemoveRedis, NoContainer, NoClient, RunOwn
  <1>8. ~Interrupt
    BY DEF Interrupt
  <1>9. CASE Build \/ CopyPlot \/ Respond \/ RedisReady \/ UNCHANGED vars
    <2>1. UNCHANGED <<opts, app, test, queue>>
      BY <1>9 DEF Build, CopyPlot, Respond, RedisReady, vars, scriptVars, dockerVars
    <2> QED BY <1>1, <2>1
  <1> QED BY <1>2, <1>3, <1>4, <1>5, <1>6, <1>7, <1>8, <1>9 DEF Next, Script

LEMMA PlotOwnStep ==
    ASSUME DeliveredInv, CacheOwn, RunOwn, PlotOwn, faults = {}, [Next]_vars
    PROVE  PlotOwn'
  <1>0. faults' = faults
    BY DEF Next, vars
  <1>1. CASE UNCHANGED <<pc, opts, request, plots, response>>
    BY <1>1 DEF PlotOwn
  <1>2. CASE \E r \in Asked : Analyze(r)
    <2>1. pc = "idle" /\ response' = <<>> /\ plots' = plots
      BY <1>2 DEF Analyze, DeliveredInv, PlotsInv, RemoveOldPlots
    <2> QED BY <2>1 DEF PlotOwn
  <1>3. CASE Build
    BY <1>3 DEF Build, PlotOwn
  <1>4. CASE UpDetached
    <2>1. pc' = "poll" /\ UNCHANGED <<opts, request, plots, response>>
      BY <1>4 DEF UpDetached, Up
    <2> QED BY <2>1 DEF PlotOwn
  <1>5. CASE UpAttached
    <2>1. pc' \in {"attached", "clean"} /\ UNCHANGED <<opts, request, plots, response>>
      BY <1>5 DEF UpAttached, Up
    <2> QED BY <2>1 DEF PlotOwn
  <1>6. CASE CopyPlot
    <2> DEFINE i == opts.image
               plot == app[i].plot
    <2>1. /\ pc' = "loop" /\ UNCHANGED <<request, opts, response>>
          /\ plots' = [plots EXCEPT ![runId] = IF plot # None THEN plot ELSE @]
      BY <1>6 DEF CopyPlot, PlotNumber
    <2>2. plots \in [PlotIds -> Reports \cup {None}] /\ i \in Names
      BY <1>6, Types DEF CopyPlot, DeliveredInv, ControlInv, Options
    <2>3. plot # None => plot.image = i /\ plot.job = opts.job /\ plot.job \in Runnable
      BY <2>2 DEF DeliveredInv, ContainerInv, RunOwn
    <2> HIDE DEF plot
    <2>4. \A k \in PlotIds : plots'[k] = plots[k] \/ (plots'[k] = plot /\ plot # None)
      BY <2>1, <2>2
    <2> QED BY <2>1, <2>3, <2>4 DEF PlotOwn
  <1>7. CASE CleanUp
    BY <1>7 DEF CleanUp, PlotOwn
  <1>8. CASE Respond
    <2>1. status = 0 /\ pc = "done" /\ plots' = [k \in PlotIds |-> None] /\ UNCHANGED <<opts, request>>
      BY <1>8 DEF Respond, CacheOwn
    <2>2. ReadUpTo(plots, response', 4)
      BY <1>0, <1>8, <2>1, RespondDelivered
    <2>3. opts = ParseArgs(request, opts.useCache)
      BY <2>1 DEF CacheOwn
    <2>4. ASSUME NEW k \in DOMAIN response'
          PROVE  response'[k].image = request.package /\ response'[k].job = request.job
      <3>1. PICK j \in 1..4 : response'[k] = plots[j] /\ plots[j] # None
        BY <2>2 DEF ReadUpTo
      <3>2. plots[j].image = opts.image /\ plots[j].job = opts.job /\ opts.job \in Runnable
        BY <3>1 DEF PlotOwn, PlotIds
      <3>3. opts.job # Swallowed
        BY <3>2, NamesAssumption
      <3>4. opts.image = request.package /\ opts.job = request.job
        BY <2>3, <3>3 DEF ParseArgs
      <3> QED BY <3>1, <3>2, <3>4
    <2> QED BY <2>1, <2>4 DEF PlotOwn
  <1>9. ~Interrupt
    BY DEF Interrupt
  <1>10. CASE RedisReady \/ (\E i \in Names : AgentConnects(i) \/ ClientPushes(i) \/ AgentEnds(i)) \/ UNCHANGED vars
    <2>1. UNCHANGED <<pc, opts, request, plots, response>>
      BY <1>10 DEF RedisReady, AgentConnects, ClientPushes, AgentEnds, vars, scriptVars
    <2> QED BY <1>1, <2>1
  <1> QED BY <1>2, <1>3, <1>4, <1>5, <1>6, <1>7, <1>8, <1>9, <1>10 DEF Next, Script

\* Where builds and the clean-up succeed and nobody interrupts, an answer is about
\* the package and the commands of its request.
THEOREM AnswerIsOwnHolds == Spec => []AnswerIsOwn
  <1>1. Init => MessageInv /\ OwnInv
    <2> SUFFICES ASSUME Init PROVE MessageInv /\ OwnInv
      OBVIOUS
    <2>1. MessageInv
      BY DEF Init, MessageInv, NoContainer, NoClient
    <2>2. CacheOwn
      BY NamesAssumption DEF Init, CacheOwn, Names
    <2>3. RunOwn /\ PlotOwn
      BY DEF Init, RunOwn, PlotOwn, NoContainer, NoClient
    <2> QED BY <2>1, <2>2, <2>3 DEF OwnInv
  <1>2. DeliveredInv /\ MessageInv /\ OwnInv /\ [Next]_vars => OwnInv'
    <2> SUFFICES ASSUME DeliveredInv, MessageInv, OwnInv, [Next]_vars, faults' = {}
                 PROVE  CacheOwn' /\ RunOwn' /\ PlotOwn'
      BY DEF OwnInv
    <2>1. faults = {}
      BY DEF Next, vars
    <2> QED BY <2>1, CacheOwnStep, RunOwnStep, PlotOwnStep DEF OwnInv
  <1>3. OwnInv => AnswerIsOwn
    BY DEF OwnInv, PlotOwn, AnswerIsOwn
  <1> QED BY <1>1, <1>2, <1>3, InitDelivered, DeliveredStep, MessageStep, PTL DEF Spec

=============================================================================
