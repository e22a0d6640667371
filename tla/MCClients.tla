----------------------------- MODULE MCClients ------------------------------
(* Two or three clients with requests that meet; the buffers are a few      *)
(* bytes.                                                                   *)
EXTENDS Clients

Line(name) == [inline |-> TRUE, argv |-> <<name>>, size |-> 1]
Blank == [inline |-> TRUE, argv |-> <<>>, size |-> 1]
Bulk(argv) == [inline |-> FALSE, argv |-> argv, size |-> 1]
Big(argv) == [inline |-> FALSE, argv |-> argv, size |-> 2]

Wrong(inline, argv) == [inline |-> inline, argv |-> argv, size |-> -1]

None == [normal |-> 0, pubsub |-> 0]
Left(closes, timeouts, ticks) ==
  [accepts |-> [c \in Clients |-> IF c = "c" THEN 0 ELSE 1], closes |-> closes, timeouts |-> timeouts, ticks |-> ticks]
Scene(a, b) ==
  [input |-> [c \in Clients |-> CASE c = "a" -> a [] c = "b" -> b [] OTHER -> <<Line("push")>>],
   maxclients |-> 2, hard |-> None, soft |-> None, left |-> Left(0, 0, 0)]

\* A large argument arrives while the clients are paused.
PauseScenes == {Scene(<<Line("pause")>>, <<Big(<<"get">>), Line("get")>>)}

MCScenes ==
  {\* messages meet unsubscribe and a connection that ends
   [Scene(<<Bulk(<<"subscribe", "x">>), Line("unsubscribe")>>, <<Bulk(<<"publish", "x", "m">>), Line("get")>>)
      EXCEPT !.left = Left(1, 0, 0)],
   [Scene(<<Bulk(<<"psubscribe", "*">>), Bulk(<<"psubscribe", "x">>), Bulk(<<"punsubscribe", "*">>)>>,
          <<Bulk(<<"publish", "x", "m">>)>>) EXCEPT !.left = Left(1, 0, 0)],
   Scene(<<Bulk(<<"subscribe", "x">>), Line("get"), Line("punsubscribe"), Bulk(<<"unsubscribe", "x">>), Line("unsubscribe")>>,
         <<Line("pubsub"), Line("get")>>),
   \* blocked clients, their timeouts, and who closes them
   [Scene(<<Line("blpop"), Line("get")>>, <<Line("push"), Line("blpop"), Line("empty")>>) EXCEPT !.left = Left(1, 2, 0)],
   [Scene(<<Line("blpop"), Line("get")>>, <<Line("slaveof"), Blank, Line("quit"), Line("get")>>) EXCEPT !.left = Left(1, 1, 0)],
   [Scene(<<Line("get"), Line("blpop"), Line("get")>>, <<Bulk(<<"kill", "a">>), Bulk(<<"kill", "b">>), Line("get")>>)
      EXCEPT !.left = Left(0, 1, 0)],
   \* a pause and requests that wait for its end
   [Scene(<<Line("pause"), Line("get"), Line("blpop")>>, <<Line("get"), Line("push")>>) EXCEPT !.left = Left(1, 1, 0)],
   \* limits of the replies and of the requests
   [Scene(<<Line("get"), Line("get"), Line("get")>>, <<Bulk(<<"kill", "a">>)>>)
      EXCEPT !.hard.normal = 8, !.soft.normal = 4, !.left = Left(0, 0, 2)],
   [Scene(<<Bulk(<<"subscribe", "x">>)>>, <<Bulk(<<"publish", "x", "m">>), Bulk(<<"publish", "x", "m">>), Line("get")>>)
      EXCEPT !.hard.pubsub = 8, !.left = Left(1, 0, 0)],
   Scene(<<Big(<<"get">>), Line("blpop"), Bulk(<<"get", "k", "l">>)>>, <<Wrong(TRUE, <<>>), Line("get")>>),
   Scene(<<Line("get"), Wrong(FALSE, <<>>), Line("get")>>, <<Wrong(FALSE, <<"get">>), Line("get")>>),
   [Scene(<<Line("blpop")>>, <<Line("quit")>>) EXCEPT !.left.accepts = [c \in Clients |-> 1], !.left.closes = 1]}
  \cup PauseScenes
=============================================================================
