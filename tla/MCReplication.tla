--------------------------- MODULE MCReplication ---------------------------
EXTENDS Replication

\* What may happen in a scene, how often.
Left(servers, writes_, pings, breaks, slaveofs, crashes, saves, fails, frees, diskless) ==
  [servers |-> servers, writes |-> writes_, pings |-> pings, breaks |-> breaks, slaveofs |-> slaveofs, crashes |-> crashes,
   saves |-> saves, fails |-> fails, frees |-> frees, diskless |-> diskless]

Star == ("a" :> None @@ "b" :> "a" @@ "c" :> "a")
Chain == ("a" :> None @@ "b" :> "a" @@ "c" :> "b")

\* A lost connection and a backlog that may be freed; the same without disks; a save
\* that two slaves share, that fails; a slave of a slave; roles that change, a crash.
MCScenes ==
  {[master |-> Star,  left |-> Left({"a", "b"},      2, 1, 2, 0, 0, 0, 0, 1, FALSE)],
   [master |-> Star,  left |-> Left({"a", "b"},      2, 0, 2, 0, 0, 0, 1, 0, TRUE)],
   [master |-> Star,  left |-> Left({"a", "b", "c"}, 1, 0, 0, 0, 0, 1, 1, 0, FALSE)],
   [master |-> Star,  left |-> Left({"a", "b", "c"}, 1, 0, 0, 0, 0, 1, 0, 0, TRUE)],
   [master |-> Chain, left |-> Left({"a", "b", "c"}, 2, 0, 1, 0, 0, 0, 0, 0, FALSE)],
   [master |-> Chain, left |-> Left({"a", "b", "c"}, 1, 0, 0, 1, 0, 0, 0, 0, FALSE)],
   [master |-> Star,  left |-> Left({"a", "b"},      2, 0, 0, 1, 1, 1, 0, 0, FALSE)]}
============================================================================
