--------------------------- MODULE MCPersistence ---------------------------
EXTENDS Persistence

Left(writes, txs, flushes, saves, rewrites, configs, resyncs, ticks, fails, crashes, shutdowns) ==
  [writes |-> writes, txs |-> txs, flushes |-> flushes, saves |-> saves, rewrites |-> rewrites, configs |-> configs,
   resyncs |-> resyncs, ticks |-> ticks, fails |-> fails, crashes |-> crashes, shutdowns |-> shutdowns]
Scene(appendonly, appendfsync, saveparams, bounds) ==
  [appendonly |-> appendonly, appendfsync |-> appendfsync, saveparams |-> saveparams, left |-> bounds]

\* Writes, a transaction and FLUSHALL against rewrites and losses of power; the flush once a
\* second; everything once; the file turned on and off; snapshots only; a resynchronization.
MCScenes ==
  {Scene(TRUE,  "always",   FALSE, Left(3, 1, 0, 0, 1, 0, 0, 0, 0, 1, 0)),
   Scene(TRUE,  "always",   FALSE, Left(2, 1, 1, 0, 1, 0, 0, 0, 0, 1, 0)),
   Scene(TRUE,  "everysec", FALSE, Left(2, 0, 0, 0, 1, 0, 0, 2, 1, 0, 0)),
   Scene(TRUE,  "everysec", TRUE,  Left(1, 0, 1, 1, 1, 0, 0, 0, 0, 1, 1)),
   Scene(TRUE,  "always",   TRUE,  Left(2, 0, 0, 1, 0, 2, 0, 0, 1, 0, 0)),
   Scene(FALSE, "always",   TRUE,  Left(2, 0, 1, 1, 0, 0, 1, 0, 1, 1, 1)),
   Scene(FALSE, "everysec", FALSE, Left(2, 0, 0, 0, 1, 1, 0, 1, 0, 0, 0)),
   Scene(TRUE,  "no",       FALSE, Left(1, 0, 0, 1, 1, 0, 1, 0, 0, 0, 0)),
   \* a resynchronization that gives up on a write error
   Scene(TRUE,  "always",   FALSE, Left(1, 0, 0, 0, 1, 0, 1, 0, 1, 1, 0)),
   \* the file is turned on, and off again, while a snapshot is saved
   Scene(FALSE, "everysec", FALSE, Left(1, 0, 0, 1, 0, 2, 0, 0, 0, 0, 0))}
============================================================================
