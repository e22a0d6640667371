# A TLA+ verification project for AppFit

AppFit runs an application in a container under an instrumentation agent, once
for each of four CPU sets, and recommends the smallest one whose mean CPU usage
stays below 70%. Its repository also holds Redis 3.0 (`sampleapps/redis-stable`):
the application it is meant to analyse, and the server whose list carries its
messages. This directory holds TLA+ models of both, the TLC runs that check them
on small instances and TLAPS proofs for all instances.

## The system

| component | source | state | operations |
|---|---|---|---|
| agent | `rightsize/agent/agent.py`, `agent.yaml` | the message, the ring of samples, `currentSnapshot`, `firstSnapshot`, log files, `temp-plot.html` | take a message, start application and test, sample, kill, report |
| client | `rightsize/agent/client.py` | none | push one message to the redis list `queue` |
| launch script | `rightsize/LaunchAgent.sh`, `docker-compose.yml` | templates, `runId`, `temp-plot.<n>.html` | build, `up` for each CPU set, poll, copy the report, remove all containers |
| server, command cache | `rightsize/httpserver/*.py` | files in its directory, `downloads/server.cache` | `analytics`, `fetchcache`, `upload`; load, `exists`, `add_entry` |
| browser page | `rightsize/httpserver/app/*.jsx` | current tab, `analyze` flag, form state, results | edit, analyze, change tab, show results |
| redis: clients | `networking.c`, `blocked.c`, `pubsub.c`, `ae.c` | query and reply buffers, lists of blocked, unblocked and closing clients, subscribers | accept, read, execute, reply, block, pause, publish, close |
| redis: keyspace, commands, transactions | `db.c`, `object.c`, `t_*.c`, `multi.c`, `sort.c`, `redis.c` | databases, times to live, watched keys, ready keys | every writing command, MULTI/EXEC/WATCH, BLPOP and friends, expiry, eviction |
| redis: persistence | `aof.c`, `rdb.c`, `bio.c` | append only file and its buffer, snapshot, `dirty`, children | feed, flush, fsync, rewrite, save, load, shut down |
| redis: replication | `replication.c` | backlog, offsets, state of each slave, the cached master | PSYNC, full synchronization, SLAVEOF, ACK, WAIT, timeouts |
| redis: Sentinel | `sentinel.c` | view of master, slaves and Sentinels, votes, epochs, failover state, saved file | monitor, ask, vote, hello, fail over, reset |
| redis: cluster bus | `cluster.c` | view of nodes, slots and epochs, failure reports, votes, `nodes.conf` | ping, FAIL, UPDATE, elections, FAILOVER FORCE/TAKEOVER |
| redis: slot migration | `cluster.c`, `redis-trib.rb` | keys of a slot, importing and migrating states, cached sockets | SETSLOT, MIGRATE, RESTORE, ASKING, redirections, reshard, fix |
| redis: data structures | `t_zset.c`, `dict.c`, `intset.c`, `ziplist.c` | the structures themselves, cursors and iterators | insert, delete, range, rank, rehash, scan, cascade |

The page posts to the server; the `analytics` handler consults the cache, adds
its entry and runs the script; the script starts three containers (agent,
client, redis) for each CPU set; client and agent meet in the redis list; the
script sees only the container's status and the file it leaves; the handler
reads whatever `temp-plot` files it finds in the order of their names. Inside
Redis one thread runs everything but fsyncs and children: sockets fill the
query buffers of `Clients`, whose commands change the keyspace, which feeds the
append only file and the slaves; Sentinels and the cluster bus change who is a
master, redis-trib which master has a slot.

What is hard about it, and what makes each part correct:

* agent: the application's processes start and end while they are measured. The
  ring keeps the samples it should, the report comes of a complete run and of
  the samples kept, the agent ends whatever the application does;
* script, client, queue: containers start in any order and do not retry a
  refused connection, no command of the script is checked, and files,
  containers, images and cache entries outlive their analysis. A report that was
  written is delivered in its place, nothing reaches another analysis, every
  iteration ends;
* clients: requests and replies are cut anywhere, and a client may be closed by
  others while it is in a list. Requests run in order, the stream of replies is
  whole, no list holds a client that is gone;
* keyspace: a command is rewritten before it is propagated, expiry, eviction and
  served clients change keys in between. The followers get the same keyspace, a
  transaction runs on what its client watched, no wake-up is lost;
* persistence: partial writes, late fsyncs, children that end late, a loss of
  power anywhere. The file is the data, a crash leaves the data after a command;
* replication: links break at any unit, roles change, saves are shared. Slave
  plus stream is master, WAIT counts only who has the write;
* Sentinel, cluster bus: votes and epochs over crashes and partitions. One leader
  of an epoch, newer configurations win, the views agree in the end;
* slot migration: clients in the middle of it, sockets that fail, redis-trib
  stopped anywhere. A key has one copy and who follows redirections finds it;
* data structures: long sequences of operations around encodings, levels, length
  fields and rehashing. They answer as the set or sequence they stand for.

## Modules

`Agent` models `agent.py` with the other processes of the container. Each
statement that another process can come between is an action: `Receive`
(`main`), `StartNothing`, `StartApplication`, `StartTest`, `LoadConfig`,
`BeginSnapshot`, `MeasureChild`, `TakeSnapshot`, `KillProcesses`,
`ComputePerformanceReport`, `RemoveLogs`. Exceptions are transitions to
`"crashed"` at the statement that raises. A sample keeps the CPU sum, the
resident size and one of the four packet counters (the code treats them alike);
its number `at` is a history field. Python 2's integer division is kept for the
mean memory, the mean CPU is kept as a fraction. The application, its
descendants, the test, the container's end and the connection are external.
`CannotWork` lists the inputs an agent may die of (no message, a command that cannot
be started, settings of 0, files it cannot read); `ReportOnlyFromACompleteRun` says
that it dies of nothing else, in particular not of a process that ends while it is
measured.

`AgentPromise` is the abstract specification of a container: wait, take a message
or be refused, write at most one report while working, end. `Agent!KeepsPromise`
states that `Agent` implements it, with `Phase` as the mapping.

`Launch` models a sequence of analyses on one host: the `analytics` handler
(`Analyze`, `Respond`), `LaunchAgent.sh` (`ParseArgs`, `RemoveOldPlots`,
`Build`, `UpDetached`, `UpAttached`, `CopyPlot`, `CleanUp`), `client.py`
(`ClientPushes`), the agent as promised (`AgentConnects`, `AgentEnds`) and, as
external, docker-compose and redis: a container is re-created when its
configuration changed and restarted as it is otherwise, `up` builds missing
images, a message goes to the agent that has waited longest, BLPOP has no
timeout. A job stands for an application command with its test command; a
message and a report carry the analysis they stem from. The variable `faults`,
chosen at the start, says which failures of the outside a behaviour has: a build
of either image, the final `docker rmi`, Ctrl-C. Refused connections and agents
that end without a report are always possible. What a package holds is not
modelled, so an application image either exists or not, while a client's image
is the job it was built with. An `up` that fails returns, and the script goes on to
its clean-up. `Project` is the name docker-compose gives the project, that of the
directory: the poll asks for a container of `sampleagent`. `up` is one step: the containers' own steps
interleave freely after it, which covers a start in any order.

The Redis modules follow one convention: a server (a Sentinel, a node) is single
threaded, so a handler, a command or a call of the cron is one action, and it is
composed, as in the code, of operators named after the code's functions that
take the record of the server and return it changed.

`Clients` has the sockets' tokens (a header line, a byte of an argument, its
CRLF, an inline request), the query buffer with its large-argument case, the
static reply buffer and the list of reply nodes, output limits, the unblocked and
closing lists, CLIENT PAUSE and KILL, BLPOP on one queue, Pub/Sub, `maxclients`,
and the order of `beforeSleep`, `serverCron`, reads and writes. A client freed
while it is listed twice (see the findings) is read by the code after its memory
was released; the model lets nothing happen then and `twice` marks it.

`Sentinel` watches one master and its slaves. Time is a choice, except that an
instance that is down does not answer. A command acts at once or is lost, and so
is its reply. `disk` is the configuration file, which a crash goes back to.

`Cluster` has the bus: `Receive` handles every packet that carries a header
(PING, PONG, FAIL, UPDATE, votes), `ReceiveAuthRequest` the request for votes, which
alone is kept as it was sent; `Step` is the cron with elections and the operator's
commands; `Restart` goes back to `nodes.conf`. The header of a demoted master's
packet carries the epoch of its new master and raises what the receiver knows of
the sender before slots are compared, so the epoch of a slot does not only grow in
each view; that is why no such property is stated.

`ClusterSlots` follows one slot: `Command` and `askingCommand` are clients sent
by `getNodeByQuery`, `TribSetslot` and `TribMigrate` what redis-trib sends
(`TribStops` anywhere, `Fix` later), `TargetExecutes`, `MigrateReads`,
`MigrateFails`, `LateExecutes` the two ends of a MIGRATE whose socket may break or
time out, `Ping` the claims of the bus. With one acknowledged key the code reads
`argv[2]` past its vector (a finding); the model closes no socket then. `Payload`
keeps the time to live of a key, which the code carries over from the last key of the
first attempt when it tries again. `SavedEpochs` is what `nodes.conf` may hold of
`currentEpoch` at a `Restart`: an epoch heard in a header is not saved by itself.

`Replication` sends units (a SELECT, a PING, two halves of a write) over links
that may break at each; chains, SLAVEOF both ways, saves for slaves from disk or
diskless, the backlog and its release, acknowledgements and WAIT.

`Persistence` has the file with what was synced of it, the buffer, the queue of
background fsyncs, the rewriting child with its pipes, the saving child, and
`Crash`: a loss of power keeps any prefix that is at least what was synced, and the
children die with the server.

`Objects` (values and encodings), `Commands` (each command as a step of a server
record, and `Proc`, the command table) and `Keyspace` (clients, transactions,
blocked clients, clocks, expiry cycle, propagation) go together. A slave and an
append only file execute the stream by the same `Commands`, later by `Lag`.

`SortedSets`, `Dict`, `Intset` and `Ziplist` are the structures, the first with
both encodings side by side; `MCStructures` runs them, one at a time. A lexicographic
range whose bounds differ by 1 the wrong way passes the test for empty ranges, as in the
code, and is found empty later. The elements of an intset are widened in place, last
one first (`BackToFront`, `Widened`). A safe iterator stops the rehashing from its first
`dictNext` on (`Iterators`). A ziplist has all three sizes of a string's header and all
sizes of an integer; the ranges of the integers are scaled down.

`MC*` modules give values to the constants; most list scenes, that is, an initial
situation with how often each disturbance may happen, so that every scene is
explored completely. `AgentProofs`, `LaunchProofs`, `SentinelProofs`,
`ClusterProofs`, `PersistenceProofs` and `ReplicationProofs` hold the proofs about the
modules they are named after, `StructuresProofs` those about `Intset` and `Dict`;
`ReplicationLinkProofs` has the lemmas
about one slave and its master that the last one rests on. Definitions
introduced by a comment "Variant" are plausible mistakes in the code; replacing the definition that
follows by one of them must break the property the manifest names, which shows
that the property depends on the code.

## Runs

| run | checks | shows |
|---|---|---|
| `agent` | `TypeOK`, `RetainedWindow`, `TotalPackets`, `ReportOnlyFromACompleteRun`, `KeepsPromise` | every message, exception and interleaving; rings of 0 to 3 slots, 0 to 5 samples |
| `launch` | `ReportDelivered`, `AnswerIsOwn`, `NoForeignMessage`, `IterationEnds` | two analyses of two packages and two jobs, without faults, with failing builds and clean-up, with Ctrl-C |
| `clients` | `TypeOK`, `QueuedOnce`, `StreamIntact`, `InOrder`, `SubscriptionsMatch` | thirteen scenes of two or three clients with buffers of a few bytes |
| `keyspace` | `FollowersAgree`, `WatchedUnchanged`, `ObjectsWellFormed`, `NoMissedWakeup` | eight scenarios, one for each type, for keys with eviction, transactions, blocked clients |
| `persistence` | `FileFollows`, `Durable`, `DirtyHonest` | ten scenes: rewrites, saves, disk errors, losses of power, changes of configuration |
| `replication` | `LinkConsistent`, `WaitHonest` | seven scenes of two or three servers |
| `sentinel` | `VotesOnce`, `OneLeaderOfTheCurrentEpoch`, `PromotedWhileReconfiguring`, `ConfigurationsGetNewer` | two Sentinels, a master, two slaves, two disturbances |
| `cluster` | `ElectedOnce`, `SlaveServesNoSlots`, `SettledAgreement` | four nodes, four scenes of partitions, crashes, forced failovers and takeovers |
| `cluster_slots` | `ReadsLatest`, `AskIsServed`, `OneCopy` | three masters, two keys, six scenes |
| `structures` | `SkiplistWellFormed`, `EncodingsAgree`, `DictWellFormed`, `ScanReturnsAll`, `IteratorExact`, `IntsetExact`, `ZiplistExact` | every sequence of operations on small structures |
| `cluster_election` | `ElectedOnce` violated | votes are not saved: after a crash of the voters two slaves win one epoch |
| `cluster_slots_epoch` | `MovedKeysStay` violated | an importer that has not heard of the last epoch loses the slot and deletes the keys |

A run that is violated checks what a comment or a message of the repository says, and a
finding of the manifest quotes it; the passing run of the same module has the property
with the excuse.

The other excuses have the same form. Each is a formula without the excuse, with a
configuration of its own that is not among the manifest's runs; TLC finds each
violated, and a finding quotes the line it contradicts.

| formula | command | what the counterexample shows |
|---|---|---|
| `ExitIsSeen` | `tlc -config LaunchProject.cfg MCLaunch` | where `LaunchServer.sh` starts the script, in `rightsize`, the poll never sees the agent's container exit |
| `AgentExits` | `tlc -config LaunchClient.cfg MCLaunch` | the client is refused by a redis that is not ready, its message is lost and the agent waits for ever |
| `AnswerAfterFailure` | `tlc -config LaunchStale.cfg MCLaunch` | after an analysis whose last command failed, the next one answers with a plot of the other application |
| `PauseKeepsClients` | `tlc -config ClientsPause.cfg MCClients` | a client that sends on during a pause, with a large argument complete, is freed |
| `WatchersAreTold` | `tlc -config KeyspaceWatch.cfg MCKeyspace` | MOVE changes a watched key and the EXEC of the client that watches it runs |
| `ChildrenReaped` | `tlc -config PersistenceChildren.cfg MCPersistence` | turning the append only file off takes the end of a BGSAVE child, which the server then waits for for ever |
| `WaitCountsHolders` | `tlc -config ReplicationWait.cfg MCReplication` | of a write made before there was a backlog, WAIT counts a slave that still loads |
| `ElectionSafety` | `tlc -config SentinelElection.cfg MCSentinel` | three Sentinels, two epochs: one whose epoch was overtaken is elected with a vote of the next |
| `RetryIsClean` | `tlc -config ClusterSlotsRetry.cfg MCClusterSlots` | MIGRATE sends its keys again although the target has executed the first RESTORE |
| `SocketsIdle` | `tlc -config ClusterSlotsSocket.cfg MCClusterSlots` | a MIGRATE that times out half-way leaves its socket in the cache with replies to come |
| `ScanGuarantee` | `tlc -config StructuresScan.cfg MCStructures` | the table shrinks between two calls of SCAN and a key is missed |
| `NeverTorn` | `tlc -config StructuresZiplist.cfg MCStructures` | an insert before a forced large length field cuts the end of the list |

Bounds. A ring wraps twice within 5 samples of 2 slots, and the proofs remove
the bound. Two analyses are enough for one to leave something to another; four
cores give the real list of four CPU sets. Redis's sizes are constants and made
small so that limits are reached: reply chunks of 3 bytes, a backlog of 4 units,
compact encodings of 2 elements, integers of 1, 3, 5, 7 and 15 bits in a ziplist for
the five sizes, tables of 1 to 8 buckets, skip lists of 3 levels. Two Sentinels with quorum 2, and four nodes, are
the smallest with a majority that one crash or partition decides. Counters
(`MaxEpoch`, `left`, `may`, `MaxDisturbances`, `MaxLaunches`, `MaxLen`,
`MaxQueue`, `MaxEntries`) bound what is otherwise unbounded. In `Sentinel` the
symmetry `Alike` permutes the Sentinels, which nothing orders. `CHECK_DEADLOCK
FALSE` where the bounded environment runs out or the system really stops: an agent
exits, the script may poll for ever.

Fairness. `Agent` assumes weak fairness of the agent's steps only: after BLPOP
none of its calls blocks, each is bounded by an interval or a short command;
nothing is assumed of the application or of the test. `Launch` assumes it of the
script, of redis becoming ready and of each container's own step; that a
working agent ends is `AgentPromise`'s fairness, checked for `Agent` by
`KeepsPromise`. Requests and Ctrl-C are never assumed. The Redis modules state no
fairness: "in the end" is said as what holds when no packet brings news
(`SettledAgreement`) or when no client is left waiting (`NoMissedWakeup`).

Limits of what holds. `AnswerIsOwn` holds when builds and clean-up succeed and
nobody interrupts; plots of a failed analysis or the image of a failed build
otherwise answer the next one (`LaunchStale.cfg`). `NoForeignMessage` and `IterationEnds`
do not survive Ctrl-C: a left-over agent may take the next analysis's message.
`IterationEnds` is of a script run in a directory called `sampleagent`, the name its poll
has, and says so; in `rightsize`, where `LaunchServer.sh` runs it, no iteration ends by
itself (`ExitIsSeen`, `LaunchProject.cfg`). Two ways for the poll to go on for ever are
named in the formula: an agent that waits for a message nobody will send (`Deserted`;
`AgentExits`, `LaunchClient.cfg`), and an application container that was never made
because its build failed.
`TotalPackets` says that the totals are 0 with the shipped `agent.yaml`.
`OneLeaderOfTheCurrentEpoch` needs a quorum that is a majority of all Sentinels
or that no SENTINEL RESET happened (`MajorityNeeded`): a Sentinel that forgot the
others elects itself with a quorum of 1, and TLC finds two leaders of an epoch
with three disturbances. `ConfigurationsGetNewer` is about Sentinels that were not
reset, and excuses one whose own failover is older than the configuration it has
heard of (`Overtaken`, a finding). The
properties of Redis name what they excuse, each a finding of the manifest: partial
resynchronizations wrongly accepted (`LinkConsistent`), a write whose offset is 0
because there was no backlog (`WaitHonest`, `ReplicationWait.cfg`), a leader whose
epoch was overtaken (`OneLeaderOfTheCurrentEpoch`, `SentinelElection.cfg`), a snapshot replaced by
an old child (`DirtyHonest`), keys of a failed MIGRATE and stale epochs
(`ReadsLatest`, `OneCopy`; what such a MIGRATE leaves is `ClusterSlotsRetry.cfg` and
`ClusterSlotsSocket.cfg`), a time to live dropped by INCRBYFLOAT
(`FollowersAgree`), MOVE, and keys that expire or are evicted (`WatchedUnchanged`,
`KeyspaceWatch.cfg`), SORT ... STORE over a
list (`NoMissedWakeup`), a shrinking table (`ScanReturnsAll`), a cut list
(`ZiplistExact`), a client listed twice (`QueuedOnce`).

Coarser than the code: in `Replication` a close ends a connection on both sides, so the
half-open client that the master keeps until `repl-timeout`, and with it a slave counted
twice by WAIT, is not reached. In `Persistence` a server that was killed, not its
machine, finds its file as it wrote it, and the file counts as synced from the restart
on. In `Intset` what would be read from overwritten bytes is taken as 0. In `SortedSets`
the difference of two members stands for what `memcmp` returns.

## Proofs

Twenty-one theorems, for every value of the constants that satisfies the named
assumptions of the module: sets of any size, finite where the code counts their
members, bounds that are any natural number. An invariant a run checks is seldom
inductive, so each module of proofs strengthens it first. TLC has checked the
strengthened invariants of `Agent`, `Cluster`, `Persistence` and `Replication` on the
runs' instances before they were proved. Each proof has one step per action and, where
an action is composed of the code's functions, one lemma per function.

`AgentProofs` (`TypeCorrect`, `RetainedWindowHolds`, `TotalPacketsHolds`,
`ReportOnlyFromACompleteRunHolds`, `AgentKeepsPromise`). `RetainedWindow` is not
inductive: which samples the ring holds does not say in which slots, and the next
write goes by slot. `IInv` adds `RingOK`: slot i holds a sample that was written
there (its number is i, or i - 1 modulo the size) and has not yet come to its
`NextWrite`. The lemmas `AppendKeepsRing` and `WrapKeepsRing` carry it over
`Store`, from facts on remainders proved first; `RingHoldsWindow` and
`WrappedSample` read the window and the newest sample's slot off it. `EndsOK` ties
the newest sample to the packet counter and the first one to `firstSnapshot`,
which the totals need: with `maxSnapshots > snapshotSize` they span the run,
otherwise, as shipped, they are 0 for ever. `ProcessInv` says which processes are
alive at each statement, so that a report is known to come after the kills.
`AgentKeepsPromise` is the safety part of the refinement, `Spec =>
Promise!SafeSpec`.

`LaunchProofs` (`ReportDeliveredHolds`, `NoForeignMessageHolds`,
`AnswerIsOwnHolds`). That a report gets to the answer involves everything on its
way: `DeliveryInv` says that a report of the analysis is in the file of its
iteration or, in the iteration under way, in the container that exited, and it is
kept only with `ContainerInv` (a container's report is its agent's, on its CPU
set), `WaitingInv` (redis lists each waiting agent once), `PlotsInv` (file k is of
CPU set k) and `ControlInv`. `MessageInv` says that no container and no message is
left between analyses, which is what Ctrl-C breaks. `OwnInv` follows the command
from the request to the cache, the client's image, the message, the report and the
files. `MoreCores` gives the ascending order of the answer.

`SentinelProofs` (`PromotedWhileReconfiguringHolds`, `VotesOnceHolds`,
`OneLeaderHolds`, `ConfigurationsGetNewerHolds`, an action property). `SentinelInv`
has the types and `RecordOK`: marks of told slaves exist only while slaves are
reconfigured, a promoted slave exists from the selection on, and the epoch of the
last vote in memory is the saved one, which is why a crash does not allow a second
vote. `VoteInv` adds that no vote that is known anywhere, also from a reply that
came late, is for an epoch beyond the voter's last one. For one leader, `ElectionInv` says that a
leader of an epoch has a majority that decided for it (`Decided`): `LeaderDecides`
derives it from the count in `sentinelGetLeader`, `DecidedStays` keeps it, and two
majorities share a Sentinel (`MajoritiesMeet`, by cardinalities). `PeersInv` (who
was not reset knows all the others) gives the count its meaning.

`ClusterProofs` (`SlaveServesNoSlotsHolds`). The invariant needs what is on disk
(`ConfOK`: a node restarts from it) and what is in flight (`RequestOK`), and that
no epoch a node knows of exceeds its current one (`ViewOK`). The latter rests on
`clusterGetMaxEpoch` being a maximum over a finite set: `MaxOfNaturals` proves it
by a smallest set without one, which replaces the induction.

`PersistenceProofs`, the snapshots (`DirtyHonestHolds`). While a child saves, `dirty` is right
only with what it will be once the child has ended, so `SaveOK` also says what the
child has: `dirty` is never behind `dirty_before_bgsave`, and where they are equal
the child has the data of now. The half about the append only file consists of
lemmas that it leaves all this alone (`SameSave`).

`PersistenceProofs`, loading and rewriting (`RewriteLoads`). What
`loadAppendOnlyFile` and the rewrite compute for every file is proved without the library's induction theorems: a least
counterexample (`LeastNatural`, from the well-foundedness of `<`) gives induction on
sequences and intervals for a *set* G of good ones (`SequencesInduction`,
`IntervalInduction`). That the recursive functions exist is proved the same way
(`LoadLoopExists` and its like), so that `LoadFacts` can say what one more unit does.
From there: a load is typed; a well-formed file, that is one whose halves of writes
are together, loads without an error, a torn half at its end aside, and what is kept
of it loads to the same (`LoadWellFormed`, `LoadTruncated`); `Tracks` follows the
data, the open transaction and the selected database over each kind of command; and
a rewrite, with its commands of at most so many items and the count each announces,
gives the data back.

`PersistenceProofs`, the append only file (`FileFollowsHolds`, `DurableHolds`).
Neither is inductive: the file alone does not follow the data, it does so only with the buffer, and the
child's file only with what is in the pipe and in the rewrite buffer. `AppendInv`
is therefore about `Stream` (file and buffer) and `Content` (what the child has, is
being sent and will be sent); flushing, partial writes and the pipe only move the
border inside them, a command appends to both (`FedLog`), and a rewrite that ends
replaces one by the other (`ReplacedRight`). Both hold the data and the database
the next command will assume selected. `Near` says of every length between what was
synced and the end that this much loads to the data after some command; under
"always" only commands from the last answered one on count (`Answered`), and there
everything written is synced whenever the server is up. What a start keeps of a torn
file is again such a file (`LoadPart`), so the invariant survives crashes. The attempt found
that `FileFollows` may fail once the server is down: a resynchronization whose
`stopAppendOnly` meets a write error under "always" exits with the new data in
memory and in the snapshot and the old file. It is now stated for a server that
runs; a scene of the run reaches the case.
`SizesAssumption` (at least one database, at least one item per command) and
`ScenesAssumption` (the bounds of a scene are natural numbers) are all that is
assumed.

`StructuresProofs`, intsets (`IntsetExactHolds`). `IntsetInv` adds to `IntsetExact` that every
value held fits the encoding, without which an upgrade would not know on which side of
the others the new value goes (`WiderIsOutside`) and `Cut` would change a value
(`CutKeeps`). `WidenedKeeps` is why the upgrade may work in place: back to front, the new
place of an element lies beyond every element still to be read. The binary search is a loop of at most as many rounds as there are
elements; `SearchInv` is its loop invariant: everything left of `min` is smaller,
everything right of `max` greater, and what is between them has become shorter by one
in each round (`BinarySearchExact`). The widths are constants, ordered as
`WidthsAssumption` says; the values clients add are of the widest type
(`NumbersAssumption`).

`StructuresProofs`, dictionaries (`DictWellFormedHolds`, `IteratorExactHolds`). A
dictionary with the keys K is `Whole` when it has one table with them, or two with a
part each, nothing below `rehashidx` in the old one (`Halfway`) and `rehashidx` inside
it. A rehash moves entry by entry and bucket by bucket, and in between only `Halfway`
holds: `MoveEntryKeeps`, `MoveBucketKeeps` and `RoundKeeps` carry it through the loops,
and `NotDone` gives what the assertion of `dictRehash` says, that a table with entries
left has a bucket at or beyond `rehashidx` that is not empty. The keys K are the
same before and after; adding and deleting change them by the one key (`AddKeeps`,
`DeleteKeeps`), from what `Link` and `Unlink` do to one chain. `IteratorExact` is not
inductive: it says nothing of where the keys are that are still to come. `IterOK` says
that every key not yet returned is ahead of the iterator (in the rest of its chain, in
a later bucket, or in the second table), that none it has returned is, and that the
chain it holds is in its bucket and does not have the current entry. It survives an
addition because no key changes its bucket while an iterator is under way (`Extended`), which is what
`dictRehashStep` refusing to move is for (before the first step keys may move, and all of
them are ahead: `UnstartedIterOK`), and a deletion because only the current entry
may go (`Reduced`). `KeysAssumption` (a key is the number it hashes to) and
`LimitsAssumption` (an initial size and a number of visits of at least 1) are all that is
assumed; the force ratio and the minimal fill are arbitrary.

`ReplicationProofs` (`LinkConsistentHolds`). For any number of servers, in any chains
of masters and slaves, with a backlog of any size. `LinkConsistent` speaks of connected
slaves only, and what they are is decided while they are not. `WInv` therefore says, by
the state of the slave, what its connection holds: nothing yet, the request, the
answer to PSYNC (`PsyncPipe`), the file and what follows it (`TransferPipe`), or units
of the stream. The last case is `Follow`: what is on the wire and in the master's
buffer takes the slave to the master's data (`Arrives`), in the database the master has
selected; and it is the end of one stream (`Stream`), whose last units are in the
backlog at the places their offsets say. A slave without a link keeps as much in its
cached master: `Resumes` says that the missing part exists, and that a backlog that
reaches back as far has it. That is what a partial resynchronization needs, and `Known`
(a run id that is told is one the master has had) is why a restarted master cannot be
taken for the earlier one. For a master there are three kinds of steps: it goes on by
some units (`Moves`), it is the same to those without a link (`Keeps`), or it begins
something new, and then the run id differs, the backlog starts beyond every offset told
so far, or `reused` is set (`Severs`). `PairOK` is kept by each of them and by each step
of the slave; this is `ReplicationLinkProofs`. `ReplicationProofs` puts the pairs
together: a step of one server changes the links to its slaves and the one to its
master, and no other (`StepOfOne`). The ring is read back by `BacklogOK`, which says
for each offset in which place its unit is. One case needs a statement of its own: the
backlog is created only after the first slave was told its offset, so in between the
slave is one ahead of the master (`getPsyncInitialOffset`); the same unit is what keeps
slaves of the time before the backlog from continuing, since writes were not counted
then. `SizesAssumption` (a backlog of at least one unit, 0 among the
databases), `NoneAssumption` and `ScenesAssumption` (nobody is his own slave at first;
the bounds of a scene are natural numbers) are all that is assumed. What
`LinkConsistent` excuses, the theorem excuses: slaves continued by a master whose offset
went back under one run id (`reused`), or at an offset counted after SYNC (`pre`); both
are findings.

Only model-checked:

* liveness (the fairness in `KeepsPromise`, `IterationEnds`): TLAPS has no support
  for fairness;
* the means of a report: they say what a fold over a ring returns;
* `WaitHonest`: it needs, beyond `LinkConsistent`, which write ends at which offset of
  the stream, for every slave and every acknowledgement on its way;
* `ScanReturnsAll`: what a cursor stands for is in its reversed bits, a fold over the
  width of a number, and in powers of 2;
* `Clients`, `Keyspace`, `SortedSets`: they use recursive operators, which the prover
  does not accept;
* `ZiplistExact`: its cascade is a loop over offsets that are sums over the entries; the
  invariant of the loop is still to be written down;
* `ElectedOnce`: false in general (run `cluster_election`), and where nobody
  crashes it depends on views of the cluster's size that agree;
* `SettledAgreement`: it says that no packet brings news, about every pair of nodes;
* `ReadsLatest`, `AskIsServed`, `OneCopy`: their invariants need the order of
  epochs and of redis-trib's commands in every scene, and are still to be found.

## Plan

1. Agent, its promise, its proofs; the script with docker and the queue (done).
2. Redis: Sentinel, cluster bus, slot migration, replication, persistence,
   keyspace and commands, clients, data structures (done).
3. Proofs of the agent, the script, Sentinel, the cluster bus, the snapshots, the
   append only file, intsets, dictionaries and replication (done).
4. Proofs about replication: the offsets of writes, for `WaitHonest`; about
   `ClusterSlots`, for `AskIsServed`; about `Ziplist`.
5. The cache file as truncate and dump with two handler threads; the page with its
   tabs and batched `setState`; `Launch` shown to implement what the page relies on.

## Not modelled

AppFit: `testForm.jsx` (a static form), `processTree.py` (does not compile, unused),
`server.js`, `.rb`, `.go`, `.php`, `.pl` (tutorial left-overs), `bundle.js`
(generated), `spinner.js` (third-party), unused Dockerfiles and supervisor files,
the UDP sample (one request, one answer). In the script: the stand-alone option
`-b`, and what awk makes of `&` and quotes in a command. In the agent: the fields
`files`, `system-cpu` and `system-memory`, which no result depends on.

Redis: the Lua interpreter, CONFIG and INFO, bit operations and HyperLogLog, the
formats of the two files (Persistence keeps the sequence of what they hold),
strings, memory and sockets, the command line tools, bundled libraries. Within the
modelled parts: line lengths inside a header, and slaves and monitors among the
clients (`Clients`); TILT beyond a reply that says no, scripts, MONITOR, REMOVE and
SET (`Sentinel`); handshakes, FORGET, slave migration, offsets of a polite manual
failover (`Cluster`); `no-appendfsync-on-rewrite`, incremental fsync, and the
moment between rename and fsync of a rewritten file under "always"
(`Persistence`); `min-slaves-to-write` and the script cache (`Replication`);
replies, notifications and the LRU estimate (`Keyspace`).
