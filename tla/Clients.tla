------------------------------ MODULE Clients ------------------------------
(***************************************************************************)
(* The clients of a Redis server between their sockets and the commands:   *)
(* the query buffer and the protocol, the reply buffers, blocked, paused   *)
(* and closing clients (networking.c, blocked.c), Pub/Sub (pubsub.c) and   *)
(* the event loop that calls them (ae.c, serverCron and beforeSleep).      *)
(*                                                                         *)
(* The input is made of tokens: a header line, a byte of an argument, a    *)
(* CRLF after an argument, an inline request.  Replies are sequences of    *)
(* bytes.                                                                  *)
(***************************************************************************)
EXTENDS Integers, Sequences, FiniteSets, SequencesExt, TLC

CONSTANTS Clients, Channels,
          REDIS_REPLY_BUF,          \* bytes of the static buffer (REDIS_REPLY_CHUNK_BYTES)
          REDIS_REPLY_CHUNK_BYTES,  \* how large a node of the list may get
          EMBSTR_SIZE_LIMIT,
          REDIS_IOBUF_LEN,          \* tokens read at once
          REDIS_MBULK_BIG_ARG,
          REDIS_MAX_WRITE_PER_EVENT,
          client_max_querybuf_len,
          Scenes                    \* [input, maxclients, hard, soft: limits of a class, left]

VARIABLES cl,         \* cl[c]: the client, or NoClient
          server,     \* the lists of the server
          left, scene

vars == <<cl, server, left, scene>>

World == [cl |-> cl, server |-> server]
Become(w) == cl' = w.cl /\ server' = w.server
Spend(what) == left[what] > 0 /\ left' = [left EXCEPT ![what] = @ - 1]
SpendIf(cond, what) == IF cond THEN Spend(what) ELSE UNCHANGED left

NoClient == [up |-> FALSE]
NewClient ==
  [up |-> TRUE, flags |-> {}, querybuf |-> <<>>, multibulklen |-> 0, bulklen |-> -1, argv |-> <<>>,
   buf |-> <<>>, reply |-> <<>>, sentlen |-> 0, reply_bytes |-> 0, writable |-> FALSE, soft_since |-> 0,
   channels |-> {}, patterns |-> <<>>,
   \* what the peer has sent so far, was promised and has received; what was executed
   sent |-> 0, promised |-> <<>>, got |-> <<>>, done |-> <<>>]

Has(w, c, flag) == flag \in w.cl[c].flags
Alive(w) == {c \in Clients : w.cl[c].up}

\* listSearchKey and listDelNode: the first node with the value.
Without(list, x) ==
  LET i == SelectInSeq(list, LAMBDA y : y = x) IN IF i = 0 THEN list ELSE RemoveAt(list, i)

---------------------------------------------------------------------------
(* Replies *)

\* A node of the reply list; an EMBSTR object cannot be appended to, a NULL one stands
\* for a length that is not known yet.
Node(s) == [s |-> s, raw |-> Len(s) > EMBSTR_SIZE_LIMIT, null |-> FALSE]
NullNode == [s |-> <<>>, raw |-> FALSE, null |-> TRUE]

prepareClientToWrite(r) == [r EXCEPT !.writable = @ \/ (r.buf = <<>> /\ r.reply = <<>>)]

freeClientAsync(w, c) ==
  IF Has(w, c, "CLOSE_ASAP") THEN w
  ELSE [w EXCEPT !.cl[c].flags = @ \cup {"CLOSE_ASAP"}, !.server.clients_to_close = Append(@, c)]

getClientType(r) == IF "PUBSUB" \in r.flags THEN "pubsub" ELSE "normal"
getClientOutputBufferMemoryUsage(r) == r.reply_bytes + Len(r.reply)

\* The hard limit at once, the soft limit when time has passed since it was reached.
Exceeds(limit, r) == limit # 0 /\ getClientOutputBufferMemoryUsage(r) >= limit
asyncCloseClientOnOutputBufferLimitReached(w, c) ==
  LET r == w.cl[c]
      hard == Exceeds(scene.hard[getClientType(r)], r)
      soft == Exceeds(scene.soft[getClientType(r)], r)
      since == IF ~soft THEN 0 ELSE IF r.soft_since = 0 THEN w.server.time ELSE r.soft_since
      w1 == [w EXCEPT !.cl[c].soft_since = since]
  IN IF r.reply_bytes = 0 \/ Has(w, c, "CLOSE_ASAP") THEN w
     ELSE IF hard \/ (soft /\ w.server.time > since) THEN freeClientAsync(w1, c) ELSE w1

\* Variant: the static buffer is used although the list has older replies.
AlwaysBuffer(r, s) == Len(s) <= REDIS_REPLY_BUF - Len(r.buf)

addReplyToBuffer(r, s) == r.reply = <<>> /\ Len(s) <= REDIS_REPLY_BUF - Len(r.buf)

addReplyObjectToList(reply, s) ==
  IF reply # <<>> /\ ~Last(reply).null /\ Last(reply).raw /\ Len(Last(reply).s) + Len(s) <= REDIS_REPLY_CHUNK_BYTES
  THEN [reply EXCEPT ![Len(reply)].s = @ \o s] ELSE Append(reply, Node(s))

addReply(w, c, s) ==
  LET r == [prepareClientToWrite(w.cl[c]) EXCEPT !.promised = IF Has(w, c, "CLOSE_AFTER_REPLY") THEN @ ELSE @ \o s]
  IN IF Has(w, c, "CLOSE_AFTER_REPLY") THEN [w EXCEPT !.cl[c] = r]
     ELSE IF addReplyToBuffer(r, s) THEN [w EXCEPT !.cl[c] = [r EXCEPT !.buf = @ \o s]]
     ELSE asyncCloseClientOnOutputBufferLimitReached(
            [w EXCEPT !.cl[c] = [r EXCEPT !.reply = addReplyObjectToList(@, s), !.reply_bytes = @ + Len(s)]], c)

addReplies(w, c, pieces) == FoldLeft(LAMBDA v, s : addReply(v, c, s), w, pieces)
addReplyMultiBulk(w, c, items) == addReplies(w, c, <<<<ToString(Len(items))>>>> \o items)

\* A multi bulk whose length is sent before it is known.
addReplyDeferred(w, c, items) ==
  LET size == <<ToString(Len(items))>>
      first == prepareClientToWrite(w.cl[c])
      at == Len(first.reply) + 1
      w1 == addReplies([w EXCEPT !.cl[c] = [first EXCEPT !.reply = Append(@, NullNode), !.promised = @ \o size]], c, items)
      set == [w1 EXCEPT !.cl[c].reply[at] = [s |-> size, raw |-> TRUE, null |-> FALSE], !.cl[c].reply_bytes = @ + 1]
      glued == [set EXCEPT !.cl[c].reply = RemoveAt([@ EXCEPT ![at].s = size \o set.cl[c].reply[at + 1].s], at + 1)]
  IN asyncCloseClientOnOutputBufferLimitReached(IF Len(set.cl[c].reply) > at THEN glued ELSE set, c)

---------------------------------------------------------------------------
(* Blocked clients *)

blockClient(w, c) ==
  [w EXCEPT !.cl[c].flags = @ \cup {"BLOCKED"}, !.server.blocked_clients = @ + 1, !.server.waiting = Append(@, c)]

\* A client is queued again although it is in the list already.
Queue(w, c) ==
  [w EXCEPT !.cl[c].flags = @ \cup {"UNBLOCKED"}, !.server.unblocked_clients = Append(@, c),
            !.server.twice = @ \/ c \in ToSet(w.server.unblocked_clients)]

\* Variant: the client is not put in the list of unblocked clients.
UnblockQuietly(w, c) ==
  [w EXCEPT !.cl[c].flags = @ \ {"BLOCKED"}, !.server.blocked_clients = @ - 1, !.server.waiting = Without(@, c)]

\* Variant: the client is still counted as blocked.
UnblockUncounted(w, c) == Queue([w EXCEPT !.cl[c].flags = @ \ {"BLOCKED"}, !.server.waiting = Without(@, c)], c)

unblockClient(w, c) ==
  Queue([w EXCEPT !.cl[c].flags = @ \ {"BLOCKED"}, !.server.blocked_clients = @ - 1, !.server.waiting = Without(@, c)], c)

replyToBlockedClientTimedOut(w, c) == addReply(w, c, <<"nil">>)

disconnectAllBlockedClients(w) ==
  LET Disconnect(v, c) ==
        IF ~Has(v, c, "BLOCKED") THEN v
        ELSE [unblockClient(addReply(v, c, <<"-unblocked">>), c) EXCEPT !.cl[c].flags = @ \cup {"CLOSE_AFTER_REPLY"}]
  IN FoldLeft(Disconnect, w, w.server.clients)

pauseClients(w) == [w EXCEPT !.server.pause = "paused"]

\* When the time of the pause is over all clients are queued, the blocked ones excepted.
clientsArePaused(w) ==
  IF w.server.pause # "over" THEN w
  ELSE FoldLeft(LAMBDA v, c : IF Has(v, c, "BLOCKED") THEN v ELSE Queue(v, c),
                [w EXCEPT !.server.pause = "no"], w.server.clients)

---------------------------------------------------------------------------
(* Pub/Sub *)

Matches(pattern, ch) == pattern \in {"*", ch}
Subscriptions(r) == Cardinality(r.channels) + Len(r.patterns)
Notify(w, c, what, x) == addReplyMultiBulk(w, c, <<<<what>>, <<x>>, <<ToString(Subscriptions(w.cl[c]))>>>>)

pubsubSubscribeChannel(w, c, ch) ==
  Notify(IF ch \in w.cl[c].channels THEN w
         ELSE [w EXCEPT !.cl[c].channels = @ \cup {ch}, !.server.channels[ch] = Append(@, c)], c, "subscribe", ch)

pubsubUnsubscribeChannel(w, c, ch, notify) ==
  LET w1 == IF ch \notin w.cl[c].channels THEN w
            ELSE [w EXCEPT !.cl[c].channels = @ \ {ch}, !.server.channels[ch] = Without(@, c)]
  IN IF notify THEN Notify(w1, c, "unsubscribe", ch) ELSE w1

pubsubSubscribePattern(w, c, p) ==
  Notify(IF p \in ToSet(w.cl[c].patterns) THEN w
         ELSE [w EXCEPT !.cl[c].patterns = Append(@, p), !.server.patterns = Append(@, <<c, p>>)], c, "psubscribe", p)

\* Variant: the pattern is taken from the client only.
UnsubscribeHalf(w, c, p, notify) == [w EXCEPT !.cl[c].patterns = Without(@, p)]

pubsubUnsubscribePattern(w, c, p, notify) ==
  LET w1 == IF p \notin ToSet(w.cl[c].patterns) THEN w
            ELSE [w EXCEPT !.cl[c].patterns = Without(@, p), !.server.patterns = Without(@, <<c, p>>)]
  IN IF notify THEN Notify(w1, c, "punsubscribe", p) ELSE w1

pubsubUnsubscribeAllChannels(w, c, notify) ==
  IF notify /\ w.cl[c].channels = {} THEN Notify(w, c, "unsubscribe", "nil")
  ELSE FoldLeft(LAMBDA v, ch : pubsubUnsubscribeChannel(v, c, ch, notify), w, SetToSeq(w.cl[c].channels))

pubsubUnsubscribeAllPatterns(w, c, notify) ==
  IF notify /\ w.cl[c].patterns = <<>> THEN Notify(w, c, "punsubscribe", "nil")
  ELSE FoldLeft(LAMBDA v, p : pubsubUnsubscribePattern(v, c, p, notify), w, w.cl[c].patterns)

\* To the subscribers of the channel, then to the matching patterns.
pubsubPublishMessage(w, ch, m) ==
  LET w1 == FoldLeft(LAMBDA v, c : addReplyMultiBulk(v, c, <<<<"message">>, <<ch>>, m>>), w, w.server.channels[ch])
  IN FoldLeft(LAMBDA v, e : addReplyMultiBulk(v, e[1], <<<<"pmessage">>, <<e[2]>>, <<ch>>, m>>), w1,
              SelectSeq(w.server.patterns, LAMBDA e : Matches(e[2], ch)))
Receivers(w, ch) == Len(w.server.channels[ch]) + Len(SelectSeq(w.server.patterns, LAMBDA e : Matches(e[2], ch)))

---------------------------------------------------------------------------
(* The end of a client *)

\* Variant: the list of the unblocked clients is forgotten.
FreeListed(w, c) ==
  LET w1 == IF Has(w, c, "BLOCKED") THEN unblockClient(w, c) ELSE w
      w2 == pubsubUnsubscribeAllPatterns(pubsubUnsubscribeAllChannels(w1, c, FALSE), c, FALSE)
  IN [w2 EXCEPT !.cl[c] = NoClient, !.server.clients = Without(@, c), !.server.clients_to_close = Without(@, c)]

freeClient(w, c) ==
  LET w1 == IF Has(w, c, "BLOCKED") THEN unblockClient(w, c) ELSE w
      w2 == pubsubUnsubscribeAllPatterns(pubsubUnsubscribeAllChannels(w1, c, FALSE), c, FALSE)
  IN [w2 EXCEPT !.cl[c] = NoClient, !.server.clients = Without(@, c),
                !.server.unblocked_clients = IF Has(w2, c, "UNBLOCKED") THEN Without(@, c) ELSE @,
                !.server.clients_to_close = IF Has(w2, c, "CLOSE_ASAP") THEN Without(@, c) ELSE @]

freeClientsInAsyncFreeQueue(w) ==
  FoldLeft(LAMBDA v, c : [freeClient([v EXCEPT !.cl[c].flags = @ \ {"CLOSE_ASAP"}], c) EXCEPT !.server.clients_to_close = Tail(@)],
           w, w.server.clients_to_close)

---------------------------------------------------------------------------
(* Requests *)

\* A protocol error; the client is closed when it has the reply.
setProtocolError(w, c) ==
  [addReply(w, c, <<"-protocol">>) EXCEPT !.cl[c].flags = @ \cup {"CLOSE_AFTER_REPLY"}]

resetClient(w, c) == [w EXCEPT !.cl[c].argv = <<>>, !.cl[c].multibulklen = 0, !.cl[c].bulklen = -1]

\* The arguments of a multi bulk request, as far as they are there.
RECURSIVE Bulks(_)
Bulks(r) ==
  IF r.multibulklen = 0 THEN [r |-> r, result |-> "OK"]
  ELSE IF r.bulklen = -1
  THEN IF r.querybuf = <<>> THEN [r |-> r, result |-> "more"]
       ELSE IF Head(r.querybuf).t # "$" THEN [r |-> r, result |-> "error"]
       ELSE Bulks([r EXCEPT !.bulklen = Head(r.querybuf).n, !.querybuf = Tail(@)])
  ELSE IF Len(r.querybuf) < r.bulklen + 1 THEN [r |-> r, result |-> "more"]
  ELSE Bulks([r EXCEPT !.argv = Append(@, IF r.bulklen = 0 THEN "" ELSE Head(r.querybuf).x),
                       !.querybuf = SubSeq(@, r.bulklen + 2, Len(@)), !.bulklen = -1, !.multibulklen = @ - 1])

processMultibulkBuffer(r) ==
  IF r.multibulklen > 0 THEN Bulks(r)
  ELSE IF Head(r.querybuf).n > 1024 THEN [r |-> r, result |-> "error"]
  ELSE Bulks([r EXCEPT !.multibulklen = Head(r.querybuf).n, !.querybuf = Tail(@)])

processInlineBuffer(r) ==
  LET line == Head(r.querybuf)
  IN IF line.t = "unbalanced" THEN [r |-> r, result |-> "error"]
     ELSE [r |-> [r EXCEPT !.argv = IF line.x = "" THEN <<>> ELSE <<line.x>>, !.querybuf = Tail(@)], result |-> "OK"]

\* CLIENT KILL: another client is freed, the caller when it has the reply.
clientKill(w, c, other) ==
  IF ~w.cl[other].up THEN addReply(w, c, <<"-no such client">>)
  ELSE IF other = c THEN [addReply(w, c, <<"+OK">>) EXCEPT !.cl[c].flags = @ \cup {"CLOSE_AFTER_REPLY"}]
  ELSE addReply(freeClient(w, other), c, <<"+OK">>)

SetPubsub(w, c, on) == [w EXCEPT !.cl[c].flags = IF on THEN @ \cup {"PUBSUB"} ELSE @ \ {"PUBSUB"}]
StillSubscribed(w, c) == SetPubsub(w, c, Subscriptions(w.cl[c]) > 0)

\* A push serves the client that has waited longest.
ServeBlocked(w) ==
  IF w.server.waiting = <<>> THEN w
  ELSE LET c == Head(w.server.waiting) IN unblockClient(addReplies(w, c, <<<<"key">>, <<"item">>>>), c)

Execute(w, c, name, a) ==
  CASE name = "get" -> addReplies(w, c, <<<<"$3">>, <<"v1", "v2", "v3">>, <<"crlf">>>>)
    [] name = "empty" -> addReplies(w, c, <<<<"$0">>, <<>>, <<"crlf">>>>)
    [] name = "subscribe" -> SetPubsub(pubsubSubscribeChannel(w, c, a[2]), c, TRUE)
    [] name = "psubscribe" -> SetPubsub(pubsubSubscribePattern(w, c, a[2]), c, TRUE)
    [] name = "unsubscribe" -> StillSubscribed(IF Len(a) = 1 THEN pubsubUnsubscribeAllChannels(w, c, TRUE)
                                               ELSE pubsubUnsubscribeChannel(w, c, a[2], TRUE), c)
    [] name = "punsubscribe" -> StillSubscribed(IF Len(a) = 1 THEN pubsubUnsubscribeAllPatterns(w, c, TRUE)
                                                ELSE pubsubUnsubscribePattern(w, c, a[2], TRUE), c)
    [] name = "publish" -> addReply(pubsubPublishMessage(w, a[2], <<a[3], ".">>), c, <<ToString(Receivers(w, a[2]))>>)
    [] name = "pubsub" -> addReplyDeferred(w, c, [i \in 1..Cardinality({ch \in Channels : w.server.channels[ch] # <<>>}) |-> <<"channel">>])
    [] name = "blpop" -> blockClient(w, c)
    [] name = "push" -> ServeBlocked(addReply(w, c, <<"1">>))
    [] name = "kill" -> clientKill(w, c, a[2])
    [] name = "pause" -> addReply(pauseClients(w), c, <<"+OK">>)
    [] name = "slaveof" -> addReply(disconnectAllBlockedClients(w), c, <<"+OK">>)

PubsubCommands == {"subscribe", "psubscribe", "unsubscribe", "punsubscribe", "quit"}

processCommand(w0, c) ==
  LET a == w0.cl[c].argv
      w == [w0 EXCEPT !.cl[c].done = Append(@, a)]
  IN IF a = <<>> THEN resetClient(w, c)
     ELSE IF a[1] = "quit" THEN [addReply(w, c, <<"+OK">>) EXCEPT !.cl[c].flags = @ \cup {"CLOSE_AFTER_REPLY"}]
     ELSE resetClient(IF Has(w, c, "PUBSUB") /\ a[1] \notin PubsubCommands THEN addReply(w, c, <<"-context">>)
                      ELSE Execute(w, c, a[1], a), c)

RECURSIVE processInputBuffer(_, _)
processInputBuffer(w0, c) ==
  LET w == IF w0.cl[c].querybuf = <<>> THEN w0 ELSE clientsArePaused(w0)
      r == w.cl[c]
      p == IF r.multibulklen > 0 \/ Head(r.querybuf).t = "*" THEN processMultibulkBuffer(r) ELSE processInlineBuffer(r)
  IN IF r.querybuf = <<>> \/ w.server.pause # "no" \/ r.flags \cap {"BLOCKED", "CLOSE_AFTER_REPLY"} # {} THEN w
     ELSE CASE p.result = "more" -> [w EXCEPT !.cl[c] = p.r]
            [] p.result = "error" -> setProtocolError([w EXCEPT !.cl[c] = p.r], c)
            [] OTHER -> processInputBuffer(processCommand([w EXCEPT !.cl[c] = p.r], c), c)

\* A client that was freed while it was listed a second time is read after its end: of
\* what may happen then the model takes that nothing does.
RECURSIVE processUnblockedClients(_)
processUnblockedClients(w) ==
  IF w.server.unblocked_clients = <<>> THEN w
  ELSE LET c == Head(w.server.unblocked_clients)
           w1 == [w EXCEPT !.server.unblocked_clients = Tail(@)]
       IN processUnblockedClients(IF ~w1.cl[c].up THEN w1
                                  ELSE processInputBuffer([w1 EXCEPT !.cl[c].flags = @ \ {"UNBLOCKED"}], c))

---------------------------------------------------------------------------
(* The event loop *)

\* The tokens of a request; one that has no size is not a request of the protocol.
Encode(q) ==
  IF q.inline THEN <<[t |-> IF q.size < 0 THEN "unbalanced" ELSE "line", n |-> 0, x |-> IF q.argv = <<>> THEN "" ELSE q.argv[1]]>>
  ELSE IF q.size < 0 THEN <<[t |-> "*", n |-> IF q.argv = <<>> THEN 1025 ELSE 1, x |-> ""], [t |-> "byte", n |-> 0, x |-> ""]>>
  ELSE <<[t |-> "*", n |-> Len(q.argv), x |-> ""]>> \o
       FlattenSeq([i \in DOMAIN q.argv |->
         <<[t |-> "$", n |-> q.size, x |-> ""]>> \o [j \in 1..q.size |-> [t |-> "byte", n |-> 0, x |-> q.argv[i]]]
         \o <<[t |-> "crlf", n |-> 0, x |-> ""]>>])
Input(c) == FlattenSeq([i \in DOMAIN scene.input[c] |-> Encode(scene.input[c][i])])

\* An event that epoll reported for this iteration of the loop.
Fires(w, c, what) == <<c, what>> \in w.server.fired
Handled(w, c, what) == [w EXCEPT !.server.fired = @ \ {<<c, what>>}]

acceptCommonHandler(c) ==
  /\ ~cl[c].up /\ left.accepts[c] > 0 /\ left' = [left EXCEPT !.accepts[c] = @ - 1]
  /\ IF Cardinality(Alive(World)) + 1 > scene.maxclients THEN UNCHANGED <<cl, server>>
     ELSE Become([World EXCEPT !.cl[c] = NewClient, !.server.clients = Append(@, c)])
  /\ UNCHANGED scene

\* A large argument is read on its own, so that it need not be copied.
readlen(r) ==
  LET remaining == r.bulklen + 1 - Len(r.querybuf)
  IN IF r.multibulklen > 0 /\ r.bulklen >= REDIS_MBULK_BIG_ARG /\ remaining < REDIS_IOBUF_LEN THEN remaining ELSE REDIS_IOBUF_LEN

\* To read nothing looks like the end of the connection.
ReadsNothing(c) ==
  /\ cl[c].up /\ Fires(World, c, "r") /\ cl[c].sent < Len(Input(c)) /\ readlen(cl[c]) = 0
  /\ Become([freeClient(World, c) EXCEPT !.server.dropped = TRUE]) /\ UNCHANGED <<left, scene>>

readQueryFromClient(c) ==
  /\ cl[c].up /\ Fires(World, c, "r")
  /\ \E k \in 1..readlen(cl[c]) :
       /\ cl[c].sent + k <= Len(Input(c))
       /\ \E r \in {[cl[c] EXCEPT !.querybuf = @ \o SubSeq(Input(c), cl[c].sent + 1, cl[c].sent + k), !.sent = @ + k]} :
            IF Len(r.querybuf) > client_max_querybuf_len THEN Become(freeClient(World, c))
            ELSE Become(processInputBuffer(Handled([World EXCEPT !.cl[c] = r], c, "r"), c))
  /\ UNCHANGED <<left, scene>>

\* The peer closes the connection, or reading or writing fails.
ConnectionEnds(c) ==
  /\ cl[c].up /\ Spend("closes") /\ Become(freeClient(World, c)) /\ UNCHANGED scene

\* What write takes: bytes of the buffer, then of the list, node by node.
RECURSIVE Write(_, _, _)
Write(r, room, total) ==
  IF (r.buf = <<>> /\ r.reply = <<>>) \/ total > REDIS_MAX_WRITE_PER_EVENT THEN r
  ELSE LET o == IF r.buf # <<>> THEN r.buf ELSE Head(r.reply).s
           k == IF room < Len(o) - r.sentlen THEN room ELSE Len(o) - r.sentlen
           r1 == [r EXCEPT !.got = @ \o SubSeq(o, r.sentlen + 1, r.sentlen + k)]
       IN IF o = <<>> THEN Write([r EXCEPT !.reply = Tail(@)], room, total)
          ELSE IF k = 0 THEN r
          ELSE IF r.sentlen + k < Len(o) THEN [r1 EXCEPT !.sentlen = @ + k]
          ELSE IF r.buf # <<>> THEN Write([r1 EXCEPT !.buf = <<>>, !.sentlen = 0], room - k, total + k)
          ELSE Write([r1 EXCEPT !.reply = Tail(@), !.sentlen = 0, !.reply_bytes = @ - Len(o)], room - k, total + k)

sendReplyToClient(c) ==
  /\ cl[c].up /\ Fires(World, c, "w") /\ cl[c].writable
  /\ \E room \in 1..(1 + Len(cl[c].promised) - Len(cl[c].got)) : \E r \in {Write(cl[c], room, 0)} :
       LET w == Handled([World EXCEPT !.cl[c] = r], c, "w")
       IN IF r.buf # <<>> \/ r.reply # <<>> THEN Become(w)
          ELSE IF "CLOSE_AFTER_REPLY" \in r.flags THEN Become(freeClient(w, c))
          ELSE Become([w EXCEPT !.cl[c].writable = FALSE, !.cl[c].sentlen = 0])
  /\ UNCHANGED <<left, scene>>

\* clientsCron for a client, or for none: a blocked client times out, an idle one is freed.
clientsCronHandleTimeout(w, c) ==
  IF c \notin Clients THEN w
  ELSE IF Has(w, c, "BLOCKED") THEN unblockClient(replyToBlockedClientTimedOut(w, c), c)
  ELSE IF Has(w, c, "PUBSUB") THEN w ELSE freeClient(w, c)

serverCron(c) ==
  /\ c \in Clients => cl[c].up
  /\ SpendIf(c \in Clients, "timeouts")
  /\ \E w \in {clientsArePaused(freeClientsInAsyncFreeQueue(clientsCronHandleTimeout(World, c)))} :
       w # World /\ Become([w EXCEPT !.server.fired = {}])
  /\ UNCHANGED scene

beforeSleep ==
  /\ \E w \in {processUnblockedClients(World)} :
       \E fired \in {{<<c, "r">> : c \in Alive(w)} \cup {<<c, "w">> : c \in {d \in Alive(w) : w.cl[d].writable}}} :
         /\ server.unblocked_clients # <<>> \/ server.fired # fired
         /\ Become([w EXCEPT !.server.fired = fired])
  /\ UNCHANGED <<left, scene>>

TimePasses ==
  \/ server.pause = "paused" /\ server' = [server EXCEPT !.pause = "over"] /\ UNCHANGED <<cl, left, scene>>
  \/ Spend("ticks") /\ server' = [server EXCEPT !.time = @ + 1] /\ UNCHANGED <<cl, scene>>

---------------------------------------------------------------------------
Init ==
  /\ scene \in Scenes /\ left = scene.left
  /\ cl = [c \in Clients |-> NoClient]
  /\ server = [clients |-> <<>>, clients_to_close |-> <<>>, unblocked_clients |-> <<>>, waiting |-> <<>>, blocked_clients |-> 0,
               channels |-> [ch \in Channels |-> <<>>], patterns |-> <<>>, pause |-> "no", time |-> 1, fired |-> {},
               twice |-> FALSE, dropped |-> FALSE]

Next ==
  \/ \E c \in Clients : \/ acceptCommonHandler(c) \/ readQueryFromClient(c) \/ ReadsNothing(c) \/ ConnectionEnds(c)
                        \/ sendReplyToClient(c) \/ serverCron(c)
  \/ serverCron("none") \/ beforeSleep \/ TimePasses

Spec == Init /\ [][Next]_vars

---------------------------------------------------------------------------
(* Properties *)

Sum(reply) == FoldLeft(LAMBDA n, o : n + Len(o.s), 0, reply)
Pending(r) == LET all == r.buf \o FlattenSeq([i \in DOMAIN r.reply |-> r.reply[i].s]) IN SubSeq(all, r.sentlen + 1, Len(all))

\* The numbers the server keeps are what they count: the bytes of the reply list, the
\* blocked clients; no length is left open; and who has something to send, or is to be
\* closed after that, is woken when the socket can be written.
TypeOK ==
  /\ server.blocked_clients = Cardinality({c \in Alive(World) : Has(World, c, "BLOCKED")})
  /\ \A c \in Alive(World) :
       /\ cl[c].reply_bytes = Sum(cl[c].reply) /\ \A i \in DOMAIN cl[c].reply : ~cl[c].reply[i].null
       /\ cl[c].buf # <<>> \/ cl[c].reply # <<>> \/ Has(World, c, "CLOSE_AFTER_REPLY") => cl[c].writable
       /\ cl[c].multibulklen = 0 => cl[c].bulklen = -1

\* "When client was just unblocked because of a blocking operation, remove it from the
\* list of unblocked clients" and "Remove from the list of clients to be closed"
\* (networking.c, freeClient): the lists hold each client that has the flag, once, and
\* never one that is gone.  When a pause ends clients are listed twice, which is excused.
QueuedOnce ==
  /\ ~server.twice => /\ IsInjective(server.unblocked_clients)
                      /\ ToSet(server.unblocked_clients) = {c \in Alive(World) : Has(World, c, "UNBLOCKED")}
  /\ IsInjective(server.clients_to_close)
  /\ ToSet(server.clients_to_close) = {c \in Alive(World) : Has(World, c, "CLOSE_ASAP")}

\* What a client has received and what is buffered for it are the replies and messages
\* in the order in which they were made, whatever is written at a time.
StreamIntact == \A c \in Alive(World) : cl[c].got \o Pending(cl[c]) = cl[c].promised

\* The requests are executed in order, however they arrive, each when it is complete:
\* none waits in the query buffer of a client that is free to go on.
Complete(c) == {n \in 0..Len(scene.input[c]) :
                  Len(FlattenSeq([i \in 1..n |-> Encode(scene.input[c][i])])) <= cl[c].sent}
InOrder ==
  \A c \in Alive(World) :
    /\ cl[c].done = [i \in DOMAIN cl[c].done |-> scene.input[c][i].argv]
    /\ cl[c].flags \cap {"BLOCKED", "UNBLOCKED", "CLOSE_AFTER_REPLY"} = {} /\ server.pause = "no" => Len(cl[c].done) \in Complete(c)
                                                                      /\ \A n \in Complete(c) : n <= Len(cl[c].done)

\* The server's tables of subscribers are the inverse of what its clients subscribed to,
\* and a client is in the Pub/Sub context as long as it has a subscription.
SubscriptionsMatch ==
  /\ \A ch \in Channels : /\ IsInjective(server.channels[ch])
                          /\ ToSet(server.channels[ch]) = {c \in Alive(World) : ch \in cl[c].channels}
  /\ IsInjective(server.patterns)
  /\ ToSet(server.patterns) = UNION {{<<c, p>> : p \in ToSet(cl[c].patterns)} : c \in Alive(World)}
  /\ \A c \in Alive(World) : Has(World, c, "PUBSUB") <=> Subscriptions(cl[c]) > 0

\* "Put all the clients in the unblocked clients queue in order to force the
\* re-processing of the input buffer if any" (networking.c, clientsArePaused): a client
\* that sends a large argument during a pause is still there when the pause ends.
PauseKeepsClients == ~server.dropped
=============================================================================
