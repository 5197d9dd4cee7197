------------------------------- MODULE ChatHub -------------------------------
(***************************************************************************)
(* The chat gateway of one API instance, for one lesson: the Kafka         *)
(* consumer that fans records out, the room and its removal, and the       *)
(* WebSocket clients with their bounded queues, their deduplication window *)
(* and the replay of missed messages when they reconnect.                  *)
(*                                                                         *)
(* A message is its rank by (created_at, message_id), the order in which   *)
(* GetHistory reads.  A room is named after the client that created it.    *)
(***************************************************************************)
EXTENDS Integers, Sequences, FiniteSets, SequencesExt

CONSTANTS
  Clients,           \* WebSocket connections
  Messages,          \* numbers, in the order of (created_at, message_id)
  Reordered,         \* may a message be stored after one with a later created_at?
  SendQueueSize, MessageDedupSize,
  batchSize,         \* messages per GetHistory call
  maxMessages,       \* messages per replay
  MaxLog,            \* bound of the model: records of the partition
  MaxFaults          \* bound of the model: failed calls, commits and fetches

NoRoom == "none"

ASSUME HubAssumption ==
  /\ NoRoom \notin Clients
  /\ Messages \subseteq Nat \ {0} /\ Reordered \in BOOLEAN
  /\ SendQueueSize \in Nat \ {0} /\ MessageDedupSize \in Nat \ {0}
  /\ batchSize \in Nat \ {0} /\ maxMessages \in Nat \ {0}
  /\ MaxLog \in Nat /\ MaxFaults \in Nat

Notice == 0      \* any payload that is not a chat message: ack, resume status

VARIABLES
  history,    \* messages of the lesson, in the order in which they were stored
  log,        \* records of the lesson
  next,       \* position of the record the consumer works on or will fetch
  committed,  \* committed offset
  consumer,   \* where the consumer is, the room it found, the clients left to serve
  room,       \* rooms[lesson]
  members,    \* room -> its clients
  emptied,    \* rooms whose last client left and whose removal is under way
  at,         \* client -> where its Serve goroutine is
  closed,     \* client -> closed
  writer,     \* client -> writePump is running
  resuming,   \* client -> live messages are held back
  pending,    \* client -> pendingLive
  send,       \* client -> send channel
  seen,       \* client -> seenOrder (seenMessageIDs is its range)
  replay,     \* client -> state of replayMissedMessages
  faults,
  delivered,  \* history: client -> messages written to its socket
  since       \* history: client -> records taken up before it registered

chatVars == <<history, log>>
consumerVars == <<next, committed, consumer>>
roomVars == <<room, members, emptied>>
queueVars == <<resuming, pending, send, seen>>
vars == <<history, log, next, committed, consumer, room, members, emptied, at, closed,
          writer, resuming, pending, send, seen, replay, faults, delivered, since>>

Places == {"new", "fetch", "page", "flush", "status", "serve", "closing", "gone"}
Replay == [lastMessageID : Messages \cup {0}, cursor : Messages \cup {0}, page : Seq(Messages),
           more : BOOLEAN, recovered : Nat,
           outcome : {"complete", "error", "truncated"}]
NewReplay(m) == [lastMessageID |-> m, cursor |-> m, page |-> <<>>, more |-> FALSE,
                 recovered |-> 0, outcome |-> "complete"]

TypeOK ==
  /\ history \in Seq(Messages)
  /\ log \in Seq(Messages) /\ Len(log) <= MaxLog
  /\ next \in 1..(Len(log) + 1) /\ committed \in 0..Len(log)
  /\ consumer \in [at : {"idle", "lookup", "fanout"}, room : Clients \cup {NoRoom},
                   left : SUBSET Clients]
  /\ room \in Clients \cup {NoRoom}
  /\ members \in [Clients -> SUBSET Clients] /\ emptied \subseteq Clients
  /\ at \in [Clients -> Places]
  /\ closed \in [Clients -> BOOLEAN] /\ writer \in [Clients -> BOOLEAN]
  /\ resuming \in [Clients -> BOOLEAN]
  /\ \A c \in Clients :
       /\ pending[c] \in Seq(Messages) /\ Len(pending[c]) <= SendQueueSize
       /\ send[c] \in Seq(Messages \cup {Notice}) /\ Len(send[c]) <= SendQueueSize
       /\ seen[c] \in Seq(Messages) /\ Len(seen[c]) <= MessageDedupSize
       /\ delivered[c] \in Seq(Messages)
  /\ replay \in [Clients -> Replay]
  /\ faults \in 0..MaxFaults
  /\ since \in [Clients -> Nat]

Init ==
  /\ history = <<>> /\ log = <<>> /\ next = 1 /\ committed = 0
  /\ consumer = [at |-> "idle", room |-> NoRoom, left |-> {}]
  /\ room = NoRoom /\ members = [c \in Clients |-> {}] /\ emptied = {}
  /\ at = [c \in Clients |-> "new"]
  /\ closed = [c \in Clients |-> FALSE] /\ writer = [c \in Clients |-> FALSE]
  /\ resuming = [c \in Clients |-> FALSE]
  /\ pending = [c \in Clients |-> <<>>] /\ send = [c \in Clients |-> <<>>]
  /\ seen = [c \in Clients |-> <<>>]
  /\ replay = [c \in Clients |-> NewReplay(0)]
  /\ faults = 0
  /\ delivered = [c \in Clients |-> <<>>] /\ since = [c \in Clients |-> 0]

Fault == faults < MaxFaults /\ faults' = faults + 1
stored == Range(history)
recorded == Range(log)

----------------------------------------------------------------------------
(* The chat service, as the gateway sees it: it keeps the promise of       *)
(* ChatLog.  The history may be ahead of the partition, for as long as the *)
(* relay is behind.                                                        *)

Store(m) ==
  /\ m \notin stored
  /\ ~Reordered => \A n \in stored : n < m
  /\ history' = Append(history, m)
  /\ UNCHANGED <<log, consumerVars, roomVars, queueVars, at, closed, writer, replay, faults,
                 delivered, since>>

\* The messages before m that it found in the history.
Predecessors(m) ==
  {history[j] : j \in {j \in DOMAIN history :
                         \E i \in DOMAIN history : j < i /\ history[i] = m /\ history[j] < m}}

\* A message is recorded after those, and may be recorded again.
Record(m) ==
  /\ m \in stored /\ Len(log) < MaxLog
  /\ Predecessors(m) \subseteq recorded
  /\ log' = Append(log, m)
  /\ UNCHANGED <<history, consumerVars, roomVars, queueVars, at, closed, writer, replay,
                 faults, delivered, since>>

----------------------------------------------------------------------------
(* Rooms.                                                                  *)

register(c) ==
  /\ room' = IF room = NoRoom THEN c ELSE room
  /\ members' = [members EXCEPT ![room'] = @ \cup {c}]
  /\ UNCHANGED emptied

\* The first half of unregister: the client leaves the room it finds.
unregister(c) ==
  IF room # NoRoom /\ c \in members[room]
  THEN /\ members' = [members EXCEPT ![room] = @ \ {c}]
       /\ emptied' = IF members[room] = {c} THEN emptied \cup {room} ELSE emptied
       /\ UNCHANGED room
  ELSE UNCHANGED roomVars

\* Mutant: the room is removed without looking at it again.
dropBlindly(r) ==
  /\ r \in emptied
  /\ emptied' = emptied \ {r}
  /\ room' = IF room = r THEN NoRoom ELSE room
  /\ UNCHANGED <<chatVars, consumerVars, queueVars, members, at, closed, writer, replay,
                 faults, delivered, since>>

\* The second half: under the manager's lock, a room that is still empty goes.
dropRoom(r) ==
  /\ r \in emptied
  /\ emptied' = emptied \ {r}
  /\ room' = IF room = r /\ members[r] = {} THEN NoRoom ELSE room
  /\ UNCHANGED <<chatVars, consumerVars, queueVars, members, at, closed, writer, replay,
                 faults, delivered, since>>

----------------------------------------------------------------------------
(* Queues of a client.                                                     *)

Accepts(c) == ~closed[c] /\ Len(send[c]) < SendQueueSize
Duplicate(c, m) == m \in Range(seen[c])

rememberMessageLocked(c, m) ==
  seen' = [seen EXCEPT ![c] =
    LET all == Append(seen[c], m)
        overflow == Len(all) - MessageDedupSize
    IN IF Duplicate(c, m) THEN seen[c]
       ELSE IF overflow > 0 THEN SubSeq(all, overflow + 1, Len(all)) ELSE all]

\* The client is closed by the consumer, which also unregisters it.
SlowConsumer(c) ==
  /\ UNCHANGED queueVars
  /\ IF closed[c] THEN UNCHANGED <<closed, roomVars>>
     ELSE closed' = [closed EXCEPT ![c] = TRUE] /\ unregister(c)

\* Mutant: a message that finds the queue full is dropped in silence.
EnqueueOrDrop(c, m) ==
  \/ Duplicate(c, m) /\ UNCHANGED <<queueVars, closed, roomVars>>
  \/ /\ ~Duplicate(c, m) /\ resuming[c]
     /\ pending' = IF Len(pending[c]) < SendQueueSize
                   THEN [pending EXCEPT ![c] = Append(@, m)] ELSE pending
     /\ rememberMessageLocked(c, m)
     /\ UNCHANGED <<resuming, send, closed, roomVars>>
  \/ /\ ~Duplicate(c, m) /\ ~resuming[c]
     /\ send' = IF Accepts(c) THEN [send EXCEPT ![c] = Append(@, m)] ELSE send
     /\ rememberMessageLocked(c, m)
     /\ UNCHANGED <<resuming, pending, closed, roomVars>>

\* EnqueueChat, and what broadcastChat does when it refuses.
EnqueueChat(c, m) ==
  \/ Duplicate(c, m) /\ UNCHANGED <<queueVars, closed, roomVars>>
  \/ /\ ~Duplicate(c, m) /\ resuming[c] /\ Len(pending[c]) < SendQueueSize
     /\ pending' = [pending EXCEPT ![c] = Append(@, m)]
     /\ rememberMessageLocked(c, m)
     /\ UNCHANGED <<resuming, send, closed, roomVars>>
  \/ /\ ~Duplicate(c, m) /\ ~resuming[c] /\ Accepts(c)
     /\ send' = [send EXCEPT ![c] = Append(@, m)]
     /\ rememberMessageLocked(c, m)
     /\ UNCHANGED <<resuming, pending, closed, roomVars>>
  \/ /\ ~Duplicate(c, m)
     /\ IF resuming[c] THEN Len(pending[c]) >= SendQueueSize ELSE ~Accepts(c)
     /\ SlowConsumer(c)

----------------------------------------------------------------------------
(* The consumer: consumeChat and broadcastChat.                            *)

\* A record is fetched; broadcastChat looks the room up ...
FetchMessage ==
  /\ consumer.at = "idle" /\ next <= Len(log)
  /\ consumer' = [at |-> "lookup", room |-> room, left |-> {}]
  /\ UNCHANGED <<chatVars, next, committed, roomVars, queueVars, at, closed, writer, replay,
                 faults, delivered, since>>

\* ... and then copies the set of its clients.
Snapshot ==
  /\ consumer.at = "lookup"
  /\ consumer' = [at |-> "fanout", room |-> consumer.room,
                  left |-> IF consumer.room = NoRoom THEN {} ELSE members[consumer.room]]
  /\ UNCHANGED <<chatVars, next, committed, roomVars, queueVars, at, closed, writer, replay,
                 faults, delivered, since>>

\* One client of the copy; FinishResume holds the client's deliveryMu meanwhile.
broadcastChat(c) ==
  /\ consumer.at = "fanout" /\ c \in consumer.left
  /\ at[c] # "flush"
  /\ EnqueueChat(c, log[next])
  /\ consumer' = [consumer EXCEPT !.left = @ \ {c}]
  /\ UNCHANGED <<chatVars, next, committed, at, writer, replay, faults, delivered, since>>

\* A failed commit is logged and the loop goes on.
CommitMessages ==
  /\ consumer.at = "fanout" /\ consumer.left = {}
  /\ consumer' = [consumer EXCEPT !.at = "idle"]
  /\ next' = next + 1
  /\ \/ committed' = next /\ UNCHANGED faults
     \/ Fault /\ UNCHANGED committed
  /\ UNCHANGED <<chatVars, roomVars, queueVars, at, closed, writer, replay, delivered, since>>

\* A fetch fails; a new reader starts at the committed offset.
RunChatConsumer ==
  /\ consumer.at = "idle" /\ Fault
  /\ next' = committed + 1
  /\ UNCHANGED <<chatVars, committed, consumer, roomVars, queueVars, at, closed, writer,
                 replay, delivered, since>>

----------------------------------------------------------------------------
(* A connection: ServeWithBootstrap, replayMissedMessages, the pumps.      *)

Received == Range(SubSeq(log, 1, next - 1))

(* A client connects, afresh or with the last message that an earlier      *)
(* connection of its user received, live or replayed.                      *)
Connect(c, last) ==
  /\ at[c] = "new"
  /\ last \in stored \cup {0}
  /\ at' = [at EXCEPT ![c] = IF last = 0 THEN "serve" ELSE "fetch"]
  /\ resuming' = [resuming EXCEPT ![c] = last # 0]
  /\ replay' = [replay EXCEPT ![c] = NewReplay(last)]
  /\ writer' = [writer EXCEPT ![c] = TRUE]
  /\ register(c)
  /\ since' = [since EXCEPT ![c] = IF consumer.at = "idle" THEN next - 1 ELSE next]
  /\ UNCHANGED <<chatVars, consumerVars, pending, send, seen, closed, faults, delivered>>

\* SelectMongoAfter: the first messages after m, at most limit, in ascending order.
After(m) == {n \in stored : n > m}
SelectMongoAfter(m, limit) ==
  {page \in UNION {[1..n -> After(m)] : n \in 0..limit} :
     /\ \A i, j \in DOMAIN page : i < j => page[i] < page[j]
     /\ \A n \in After(m) \ Range(page) :
          Len(page) = limit /\ \A i \in DOMAIN page : page[i] < n}

\* replayMissedMessages ends with an outcome; FinishResume is next either way.
EndReplay(c, outcome) ==
  /\ at' = [at EXCEPT ![c] = "flush"]
  /\ replay' = [replay EXCEPT ![c].outcome = outcome, ![c].page = <<>>]
  /\ resuming' = [resuming EXCEPT ![c] = FALSE]

\* The next page is read, from the last message of the page before.
GetHistory(c) ==
  LET r == replay[c]
      limit == IF maxMessages - r.recovered < batchSize
               THEN maxMessages - r.recovered ELSE batchSize
  IN
  /\ at[c] = "fetch"
  /\ IF r.recovered >= maxMessages THEN EndReplay(c, "truncated") /\ UNCHANGED faults
     ELSE \/ /\ at' = [at EXCEPT ![c] = "page"]
             /\ \E page \in SelectMongoAfter(r.cursor, limit) :
                  replay' = [replay EXCEPT ![c] =
                    [r EXCEPT !.cursor = IF page = <<>> THEN @ ELSE Last(page),
                              !.page = page, !.more = After(r.cursor) # Range(page)]]
             /\ UNCHANGED <<resuming, faults>>
          \/ Fault /\ EndReplay(c, "error")
  /\ UNCHANGED <<chatVars, consumerVars, roomVars, pending, send, seen, closed, writer,
                 delivered, since>>

\* Mutant: a replayed message is sent although it was held back as a live one.
ReplayTwice(c) ==
  LET m == Head(replay[c].page) IN
  /\ at[c] = "page" /\ replay[c].page # <<>>
  /\ IF Accepts(c)
     THEN /\ send' = [send EXCEPT ![c] = Append(@, m)]
          /\ rememberMessageLocked(c, m)
          /\ replay' = [replay EXCEPT ![c].page = Tail(@), ![c].recovered = @ + 1]
          /\ UNCHANGED <<at, resuming>>
     ELSE EndReplay(c, "error") /\ UNCHANGED <<send, seen>>
  /\ UNCHANGED <<chatVars, consumerVars, roomVars, pending, closed, writer, faults, delivered,
                 since>>

EnqueueReplay(c) ==
  LET m == Head(replay[c].page) IN
  /\ at[c] = "page" /\ replay[c].page # <<>>
  /\ IF Duplicate(c, m) \/ Accepts(c)
     THEN /\ send' = IF Duplicate(c, m) THEN send ELSE [send EXCEPT ![c] = Append(@, m)]
          /\ rememberMessageLocked(c, m)
          /\ replay' = [replay EXCEPT ![c].page = Tail(@), ![c].recovered = @ + 1]
          /\ UNCHANGED <<at, resuming>>
     ELSE EndReplay(c, "error") /\ UNCHANGED <<send, seen>>
  /\ UNCHANGED <<chatVars, consumerVars, roomVars, pending, closed, writer, faults, delivered,
                 since>>

\* Mutant: the replay ends after its first page.
FirstPageOnly(c) ==
  /\ at[c] = "page" /\ replay[c].page = <<>>
  /\ EndReplay(c, "complete")
  /\ UNCHANGED <<chatVars, consumerVars, roomVars, pending, send, seen, closed, writer,
                 faults, delivered, since>>

PageDone(c) ==
  /\ at[c] = "page" /\ replay[c].page = <<>>
  /\ IF replay[c].more THEN at' = [at EXCEPT ![c] = "fetch"] /\ UNCHANGED <<replay, resuming>>
     ELSE EndReplay(c, "complete")
  /\ UNCHANGED <<chatVars, consumerVars, roomVars, pending, send, seen, closed, writer,
                 faults, delivered, since>>

\* Close and wait for the writer; Serve then returns and unregisters.
Close(c) ==
  /\ closed' = [closed EXCEPT ![c] = TRUE]
  /\ at' = [at EXCEPT ![c] = "closing"]

\* Mutant: a full queue is waited for while deliveryMu is held.
FinishBlocks(c) ==
  /\ at[c] = "flush"
  /\ IF pending[c] = <<>>
     THEN at' = [at EXCEPT ![c] = "status"] /\ UNCHANGED <<pending, send, seen, closed>>
     ELSE /\ Accepts(c)
          /\ send' = [send EXCEPT ![c] = Append(@, Head(pending[c]))]
          /\ rememberMessageLocked(c, Head(pending[c]))
          /\ pending' = [pending EXCEPT ![c] = Tail(@)]
          /\ UNCHANGED <<at, closed>>
  /\ UNCHANGED <<chatVars, consumerVars, roomVars, resuming, writer, replay, faults,
                 delivered, since>>

\* FinishResume sends what was held back, one message at a time.
FinishResume(c) ==
  /\ at[c] = "flush"
  /\ IF pending[c] = <<>>
     THEN at' = [at EXCEPT ![c] = "status"] /\ UNCHANGED <<pending, send, seen, closed>>
     ELSE IF Accepts(c)
     THEN /\ send' = [send EXCEPT ![c] = Append(@, Head(pending[c]))]
          /\ rememberMessageLocked(c, Head(pending[c]))
          /\ pending' = [pending EXCEPT ![c] = Tail(@)]
          /\ UNCHANGED <<at, closed>>
     ELSE Close(c) /\ UNCHANGED <<pending, send, seen>>
  /\ UNCHANGED <<chatVars, consumerVars, roomVars, resuming, writer, replay, faults,
                 delivered, since>>

\* The resume status is the last thing the bootstrap sends.
ResumeStatus(c) ==
  /\ at[c] = "status"
  /\ IF Accepts(c)
     THEN /\ send' = [send EXCEPT ![c] = Append(@, Notice)]
          /\ at' = [at EXCEPT ![c] = "serve"]
          /\ UNCHANGED closed
     ELSE Close(c) /\ UNCHANGED send
  /\ UNCHANGED <<chatVars, consumerVars, roomVars, resuming, pending, seen, writer, replay,
                 faults, delivered, since>>

\* The answer to a message of this client; it is dropped when the queue is full.
enqueueChatAck(c) ==
  /\ at[c] = "serve"
  /\ Accepts(c)
  /\ send' = [send EXCEPT ![c] = Append(@, Notice)]
  /\ UNCHANGED <<chatVars, consumerVars, roomVars, resuming, pending, seen, at, closed,
                 writer, replay, faults, delivered, since>>

\* ReadMessage fails: the peer left, or writePump closed the socket.
readPump(c) ==
  /\ at[c] = "serve"
  /\ Close(c)
  /\ UNCHANGED <<chatVars, consumerVars, roomVars, queueVars, writer, replay, faults,
                 delivered, since>>

writePump(c) ==
  /\ writer[c] /\ send[c] # <<>>
  /\ send' = [send EXCEPT ![c] = Tail(@)]
  /\ delivered' = IF Head(send[c]) = Notice THEN delivered
                  ELSE [delivered EXCEPT ![c] = Append(@, Head(send[c]))]
  /\ UNCHANGED <<chatVars, consumerVars, roomVars, resuming, pending, seen, at, closed,
                 writer, replay, faults, since>>

\* A write or ping fails, or no pong came in time.
WriterFails(c) ==
  /\ writer[c] /\ Fault
  /\ writer' = [writer EXCEPT ![c] = FALSE]
  /\ closed' = [closed EXCEPT ![c] = TRUE]
  /\ UNCHANGED <<chatVars, consumerVars, roomVars, queueVars, at, replay, delivered, since>>

\* The client's context is cancelled: the writer says goodbye and closes the socket.
WriterStops(c) ==
  /\ writer[c] /\ closed[c]
  /\ writer' = [writer EXCEPT ![c] = FALSE]
  /\ UNCHANGED <<chatVars, consumerVars, roomVars, queueVars, at, closed, replay, faults,
                 delivered, since>>

ServeReturns(c) ==
  /\ at[c] = "closing" /\ ~writer[c]
  /\ at' = [at EXCEPT ![c] = "gone"]
  /\ unregister(c)
  /\ UNCHANGED <<chatVars, consumerVars, queueVars, closed, writer, replay, faults, delivered,
                 since>>

----------------------------------------------------------------------------
Bootstrap(c) ==
  GetHistory(c) \/ EnqueueReplay(c) \/ PageDone(c) \/ FinishResume(c) \/ ResumeStatus(c)

Consume ==
  \/ FetchMessage \/ Snapshot \/ (\E c \in Clients : broadcastChat(c)) \/ CommitMessages

Next ==
  \/ \E m \in Messages : Store(m) \/ Record(m)
  \/ Consume \/ RunChatConsumer
  \/ \E r \in Clients : dropRoom(r)
  \/ \E c \in Clients :
       \/ \E last \in Messages \cup {0} : Connect(c, last)
       \/ Bootstrap(c) \/ enqueueChatAck(c) \/ readPump(c)
       \/ writePump(c) \/ WriterFails(c) \/ WriterStops(c) \/ ServeReturns(c)

Spec == Init /\ [][Next]_vars

(* The consumer's goroutine runs on, and so does one that holds deliveryMu. *)
(* Nothing is assumed of sockets, peers and the other goroutines.           *)
Fairness == WF_vars(Consume) /\ WF_vars(\E c \in Clients : FinishResume(c))

FairSpec == Spec /\ Fairness

----------------------------------------------------------------------------
Open(c) == at[c] \notin {"new", "closing", "gone"} /\ ~closed[c]
Got(c) == Range(delivered[c]) \cup Range(send[c]) \cup Range(pending[c])
First(m) == CHOOSE k \in 1..Len(log) : log[k] = m /\ \A j \in 1..(k - 1) : log[j] # m

(* The removal of an empty room races with a client that registers: every  *)
(* open client is in the room that broadcasts look up.                     *)
RoomHoldsClients ==
  \A c \in Clients : Open(c) => room # NoRoom /\ c \in members[room]

(* A client receives no message twice, although records are repeated, the  *)
(* consumer starts again at an old offset and a replay overlaps with live  *)
(* messages, as long as the deduplication window is not exceeded.          *)
NoDuplicates ==
  \A c \in Clients : LET queues == <<delivered[c], send[c], pending[c]>> IN
    \A p, q \in DOMAIN queues : \A i \in DOMAIN queues[p], j \in DOMAIN queues[q] :
      queues[p][i] = queues[q][j] => queues[p][i] = Notice \/ (p = q /\ i = j)

(* Nothing is dropped in silence: an open client has every record that was *)
(* broadcast after it registered, delivered, queued or held back.          *)
LiveNotMissed ==
  \A c \in Clients : Open(c) =>
    \A k \in (since[c] + 1)..(next - 1) : log[k] \in Got(c)

(* A reconnected client that was told resume_complete has every message    *)
(* delivered after the last one it had received before, although live      *)
(* messages, replayed pages and repeated records interleave.  mongo.go:303 *)
(* promises the messages newer than a previously observed one "in          *)
(* ascending delivery order".  (Nothing is delivered after a message that  *)
(* has no record yet.)                                                     *)
ResumeNotMissed ==
  \A c \in Clients :
    LET last == replay[c].lastMessageID IN
    Open(c) /\ at[c] = "serve" /\ last \in recorded /\ replay[c].outcome = "complete" =>
      \A m \in Received : First(m) > First(last) => m \in Got(c)

(* No client holds up the consumer, however slow its socket is: it catches *)
(* up with the partition, which is finite here.                            *)
RecordsConsumed == next <= Len(log) ~> next > Len(log)

----------------------------------------------------------------------------
\* The chat service of this module as the log of ChatLog.
Service == INSTANCE ChatLog WITH
  before <- [m \in Messages |-> Predecessors(m)], deleted <- {}
==============================================================================
