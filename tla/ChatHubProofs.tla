---------------------------- MODULE ChatHubProofs ----------------------------
(***************************************************************************)
(* Proofs about ChatHub, for any clients, messages and queue sizes: the    *)
(* removal of empty rooms never leaves an open client without the room     *)
(* that broadcasts look up; a client misses no record that was consumed    *)
(* after it registered; no queue holds a message twice while the window of *)
(* message keys is large enough; and, when records come in the order of    *)
(* their stamps, a replay leaves out none of the messages a client missed. *)
(***************************************************************************)
EXTENDS ChatHub, FiniteSetTheorems, WellFoundedInduction, TLAPS

\* The types of the variables that decide who is in which room.
RoomTypes ==
  /\ room \in Clients \cup {NoRoom}
  /\ members \in [Clients -> SUBSET Clients]
  /\ at \in [Clients -> Places]
  /\ closed \in [Clients -> BOOLEAN]

RoomInv == RoomTypes /\ RoomHoldsClients

(* Who may stop being open: only the client that a step closes or ends.    *)
LEMMA Quiet ==
  ASSUME RoomInv, UNCHANGED <<room, members>>,
         RoomTypes', \A c \in Clients : Open(c)' => Open(c)
  PROVE  RoomInv'
BY DEF RoomInv, RoomHoldsClients

(* A client leaves: the others stay where they are.                        *)
LEMMA Leaving ==
  ASSUME RoomInv, NEW c \in Clients, unregister(c), RoomTypes', ~Open(c)',
         \A d \in Clients \ {c} : Open(d)' => Open(d)
  PROVE  RoomInv'
<1>1. room' = room
  BY DEF unregister, roomVars
<1>2. \A d \in Clients \ {c} : d \in members[room] => d \in members'[room]
  BY DEF unregister, roomVars, RoomInv, RoomTypes
<1> QED BY <1>1, <1>2 DEF RoomInv, RoomHoldsClients

(* Every step keeps the types.                                             *)
LEMMA RoomTypesStep == RoomInv /\ [Next]_vars => RoomTypes'
<1> SUFFICES ASSUME RoomInv, [Next]_vars PROVE RoomTypes'
  OBVIOUS
<1>t. RoomTypes
  BY DEF RoomInv
<1>u. ASSUME NEW c \in Clients, unregister(c)
      PROVE  room' = room /\ members' \in [Clients -> SUBSET Clients]
  BY <1>t, <1>u DEF unregister, roomVars, RoomTypes
<1>s. ASSUME NEW c \in Clients, SlowConsumer(c)
      PROVE  /\ room' = room /\ members' \in [Clients -> SUBSET Clients]
             /\ closed' \in [Clients -> BOOLEAN]
  BY <1>t, <1>u, <1>s DEF SlowConsumer, roomVars, RoomTypes
<1>1. CASE UNCHANGED <<room, members, at, closed>>
  BY <1>1, <1>t DEF RoomTypes
<1>2. ASSUME NEW c \in Clients, broadcastChat(c) PROVE RoomTypes'
  <2>1. CASE SlowConsumer(c)
    BY <1>t, <1>2, <1>s, <2>1 DEF broadcastChat, RoomTypes
  <2>2. CASE ~SlowConsumer(c)
    BY <1>1, <1>2, <2>2 DEF broadcastChat, EnqueueChat, roomVars
  <2> QED BY <2>1, <2>2
<1>3. ASSUME NEW r \in Clients, dropRoom(r) PROVE RoomTypes'
  BY <1>3, <1>t DEF dropRoom, RoomTypes
<1>4. ASSUME NEW c \in Clients, NEW last, Connect(c, last) PROVE RoomTypes'
  BY <1>4, <1>t DEF Connect, register, RoomTypes, Places
<1>5. ASSUME NEW c \in Clients, Bootstrap(c) PROVE RoomTypes'
  BY <1>5, <1>t DEF Bootstrap, GetHistory, EnqueueReplay, PageDone, FinishResume, ResumeStatus,
     EndReplay, Close, roomVars, RoomTypes, Places
<1>6. ASSUME NEW c \in Clients, readPump(c) \/ WriterFails(c) PROVE RoomTypes'
  BY <1>6, <1>t DEF readPump, WriterFails, Close, roomVars, RoomTypes, Places
<1>7. ASSUME NEW c \in Clients, ServeReturns(c) PROVE RoomTypes'
  BY <1>7, <1>t, <1>u DEF ServeReturns, RoomTypes, Places
<1> QED BY <1>1, <1>2, <1>3, <1>4, <1>5, <1>6, <1>7
        DEF Next, Consume, Store, Record, FetchMessage, Snapshot, CommitMessages,
            RunChatConsumer, enqueueChatAck, writePump, WriterStops, vars, roomVars

(* Every step keeps open clients in the room.                              *)
LEMMA RoomStep == RoomInv /\ [Next]_vars => RoomInv'
<1> SUFFICES ASSUME RoomInv, [Next]_vars PROVE RoomInv'
  OBVIOUS
<1>t. RoomTypes /\ RoomTypes'
  BY RoomTypesStep DEF RoomInv
<1>o. ASSUME NEW c \in Clients, \A d \in Clients \ {c} : at'[d] = at[d] /\ closed'[d] = closed[d]
      PROVE  \A d \in Clients \ {c} : Open(d)' => Open(d)
  BY <1>o DEF Open
<1>q. ASSUME UNCHANGED <<room, members>>, NEW c \in Clients, at[c] # "new",
             \A d \in Clients \ {c} : at'[d] = at[d] /\ closed'[d] = closed[d],
             closed'[c] = closed[c] \/ closed'[c],
             at[c] \in {"closing", "gone"} => at'[c] = at[c]
      PROVE  RoomInv'
  <2>1. \A d \in Clients : Open(d)' => Open(d)
    BY <1>o, <1>q DEF Open
  <2> QED BY <1>q, <1>t, <2>1, Quiet
<1>1. CASE UNCHANGED <<room, members, at, closed>>
  BY <1>1, <1>t, Quiet DEF Open
<1>2. ASSUME NEW c \in Clients, broadcastChat(c) PROVE RoomInv'
  <2>1. CASE SlowConsumer(c) /\ ~closed[c]
    <3>1. unregister(c) /\ closed' = [closed EXCEPT ![c] = TRUE] /\ UNCHANGED at
      BY <1>2, <2>1 DEF SlowConsumer, broadcastChat
    <3>2. ~Open(c)' /\ \A d \in Clients \ {c} : at'[d] = at[d] /\ closed'[d] = closed[d]
      BY <1>t, <3>1 DEF Open, RoomTypes
    <3> QED BY <1>o, <1>t, <3>1, <3>2, Leaving
  <2>2. CASE ~(SlowConsumer(c) /\ ~closed[c])
    BY <1>1, <1>2, <2>2 DEF broadcastChat, EnqueueChat, SlowConsumer, roomVars
  <2> QED BY <2>1, <2>2
<1>3. ASSUME NEW r \in Clients, dropRoom(r) PROVE RoomInv'
  <2>1. UNCHANGED <<members, at, closed>> /\ (room' = room \/ (room = r /\ members[r] = {}))
    BY <1>3 DEF dropRoom
  <2>2. \A c \in Clients : Open(c)' <=> Open(c)
    BY <2>1 DEF Open
  <2> QED BY <1>t, <2>1, <2>2 DEF RoomInv, RoomHoldsClients
<1>4. ASSUME NEW c \in Clients, NEW last, Connect(c, last) PROVE RoomInv'
  <2>1. room' \in Clients /\ (room # NoRoom => room' = room) /\ room' # NoRoom
    BY <1>4, <1>t, HubAssumption DEF Connect, register, RoomTypes
  <2>2. c \in members'[room'] /\ \A r \in Clients : members[r] \subseteq members'[r]
    BY <1>4, <1>t, <2>1 DEF Connect, register, RoomTypes
  <2>3. \A d \in Clients \ {c} : at'[d] = at[d] /\ closed'[d] = closed[d]
    BY <1>4, <1>t DEF Connect, RoomTypes
  <2>4. \A d \in Clients \ {c} : Open(d)' => Open(d)
    BY <1>o, <2>3
  <2> QED BY <1>t, <2>1, <2>2, <2>4 DEF RoomInv, RoomHoldsClients
<1>5. ASSUME NEW c \in Clients, Bootstrap(c) PROVE RoomInv'
  <2>1. at[c] \notin {"new", "closing", "gone"} /\ UNCHANGED <<room, members>>
    BY <1>5 DEF Bootstrap, GetHistory, EnqueueReplay, PageDone, FinishResume, ResumeStatus, roomVars
  <2>2. \A d \in Clients \ {c} : at'[d] = at[d] /\ closed'[d] = closed[d]
    BY <1>5, <1>t DEF Bootstrap, GetHistory, EnqueueReplay, PageDone, FinishResume, ResumeStatus,
       EndReplay, Close, RoomTypes
  <2>3. closed'[c] = closed[c] \/ closed'[c]
    BY <1>5, <1>t DEF Bootstrap, GetHistory, EnqueueReplay, PageDone, FinishResume, ResumeStatus,
       EndReplay, Close, RoomTypes
  <2> QED BY <1>q, <2>1, <2>2, <2>3
<1>6. ASSUME NEW c \in Clients, readPump(c) \/ WriterFails(c) PROVE RoomInv'
  <2>1. /\ UNCHANGED <<room, members>> /\ ~Open(c)'
        /\ \A d \in Clients \ {c} : at'[d] = at[d] /\ closed'[d] = closed[d]
    BY <1>6, <1>t DEF readPump, WriterFails, Close, roomVars, RoomTypes, Open
  <2> QED BY <1>o, <1>t, <2>1, Quiet
<1>7. ASSUME NEW c \in Clients, ServeReturns(c) PROVE RoomInv'
  <2>1. /\ unregister(c) /\ ~Open(c)'
        /\ \A d \in Clients \ {c} : at'[d] = at[d] /\ closed'[d] = closed[d]
    BY <1>7, <1>t DEF ServeReturns, RoomTypes, Open
  <2> QED BY <1>o, <1>t, <2>1, Leaving
<1> QED BY <1>1, <1>2, <1>3, <1>4, <1>5, <1>6, <1>7
        DEF Next, Consume, Store, Record, FetchMessage, Snapshot, CommitMessages,
            RunChatConsumer, enqueueChatAck, writePump, WriterStops, vars, roomVars

(* Removing an empty room never strands a client: whatever registers,      *)
(* leaves and broadcasts at the same time, every open client is in the     *)
(* room that broadcasts look up.                                           *)
THEOREM HubRoomHoldsClients == Spec => []RoomHoldsClients
<1>1. Init => RoomInv
  BY DEF Init, RoomInv, RoomTypes, RoomHoldsClients, Open, Places
<1>2. RoomInv => RoomHoldsClients
  BY DEF RoomInv
<1> QED BY <1>1, <1>2, RoomStep, PTL DEF Spec
----------------------------------------------------------------------------
(* Sequences and their ranges.                                             *)

(* What a queue holds once a message is appended.                          *)
LEMMA RangeAppend ==
  ASSUME NEW S, NEW s \in Seq(S), NEW m \in S
  PROVE  Append(s, m) \in Seq(S) /\ Range(Append(s, m)) = Range(s) \cup {m}
<1>1. /\ DOMAIN Append(s, m) = 1..(Len(s) + 1) /\ DOMAIN s = 1..Len(s) /\ Len(s) \in Nat
      /\ Append(s, m)[Len(s) + 1] = m /\ \A i \in 1..Len(s) : Append(s, m)[i] = s[i]
  OBVIOUS
<1>2. 1..(Len(s) + 1) = 1..Len(s) \cup {Len(s) + 1}
  BY <1>1
<1> QED BY <1>1, <1>2 DEF Range

(* What a queue holds once its head is taken.                              *)
LEMMA RangeTail ==
  ASSUME NEW S, NEW s \in Seq(S), s # <<>>
  PROVE  /\ Tail(s) \in Seq(S) /\ Head(s) \in Range(s) /\ Head(s) \in S
         /\ Range(s) = Range(Tail(s)) \cup {Head(s)}
<1>1. /\ Len(s) \in Nat /\ Len(s) >= 1 /\ DOMAIN s = 1..Len(s) /\ Head(s) = s[1]
      /\ Tail(s) \in Seq(S) /\ DOMAIN Tail(s) = 1..(Len(s) - 1)
      /\ \A i \in 1..(Len(s) - 1) : Tail(s)[i] = s[i + 1]
  OBVIOUS
<1>2. ASSUME NEW i \in 1..Len(s) PROVE s[i] \in Range(Tail(s)) \cup {Head(s)}
  <2>1. CASE i = 1
    BY <1>1, <2>1
  <2>2. CASE i # 1
    <3>1. i - 1 \in 1..(Len(s) - 1) /\ (i - 1) + 1 = i
      BY <1>1, <2>2
    <3> QED BY <1>1, <3>1 DEF Range
  <2> QED BY <2>1, <2>2
<1>3. ASSUME NEW i \in 1..(Len(s) - 1) PROVE Tail(s)[i] \in Range(s)
  <2>1. i + 1 \in 1..Len(s)
    BY <1>1
  <2> QED BY <1>1, <2>1 DEF Range
<1>4. Head(s) \in Range(s) /\ Head(s) \in S
  <2>1. 1 \in 1..Len(s)
    BY <1>1
  <2> QED BY <1>1, <2>1 DEF Range
<1> QED BY <1>1, <1>2, <1>3, <1>4 DEF Range

(* The members of a sequence are in the set it is over.                    *)
LEMMA RangeIn ==
  ASSUME NEW S, NEW s \in Seq(S)
  PROVE  Range(s) \subseteq S
BY DEF Range

(* seenOrder after rememberMessageLocked.                                  *)
Remembered(s, m) ==
  LET all == Append(s, m)
      overflow == Len(all) - MessageDedupSize
  IN IF m \in Range(s) THEN s
     ELSE IF overflow > 0 THEN SubSeq(all, overflow + 1, Len(all)) ELSE all

(* The window holds messages it held before, and the new one.              *)
LEMMA RememberedIs ==
  ASSUME NEW s \in Seq(Messages), NEW m \in Messages
  PROVE  /\ Remembered(s, m) \in Seq(Messages)
         /\ Range(Remembered(s, m)) \subseteq Range(s) \cup {m}
<1>1. Append(s, m) \in Seq(Messages) /\ Range(Append(s, m)) = Range(s) \cup {m}
  BY RangeAppend
<1> DEFINE all == Append(s, m)
           from == Len(all) - MessageDedupSize + 1
           cut == SubSeq(all, from, Len(all))
<1>2. ASSUME from > 1 PROVE cut \in Seq(Messages) /\ Range(cut) \subseteq Range(all)
  <2> HIDE DEF all
  <2>1. all \in Seq(Messages)
    BY <1>1 DEF all
  <2>2. Len(all) \in Nat /\ DOMAIN all = 1..Len(all) /\ from \in Nat /\ MessageDedupSize \in Nat
    BY <1>2, <2>1, HubAssumption
  <2> HIDE DEF from
  <2>4. from \in 1..(Len(all) + 1)
    BY <2>2, <1>2 DEF from
  <2>3. /\ cut \in Seq(Messages) /\ Len(cut) = Len(all) - from + 1
        /\ \A i \in 1..(Len(all) - from + 1) : cut[i] = all[i + from - 1]
    BY <2>1, <2>2, <2>4
  <2> HIDE DEF cut
  <2>5. ASSUME NEW i \in DOMAIN cut PROVE cut[i] \in Range(all)
    <3>1. i \in 1..(Len(all) - from + 1)
      BY <2>3
    <3>2. i + from - 1 \in 1..Len(all)
      BY <2>2, <2>4, <3>1
    <3> QED BY <2>2, <2>3, <3>1, <3>2 DEF Range
  <2> QED BY <2>3, <2>5 DEF Range
<1>3. \/ Remembered(s, m) = s
      \/ Remembered(s, m) = all
      \/ from > 1 /\ Remembered(s, m) = cut
  <2>1. Len(all) \in Nat
    BY <1>1
  <2> HIDE DEF all
  <2>2. Len(all) - MessageDedupSize + 1 > 1 <=> Len(all) - MessageDedupSize > 0
    BY <2>1, HubAssumption
  <2> QED BY <2>2 DEF Remembered, all
<1> QED BY <1>1, <1>2, <1>3
----------------------------------------------------------------------------
(* The partition and the consumer.                                         *)

LogTypes ==
  /\ history \in Seq(Messages) /\ log \in Seq(Messages) /\ recorded \subseteq stored
  /\ next \in Nat \ {0} /\ next <= Len(log) + 1
  /\ committed \in Nat /\ committed < next
  /\ consumer \in [at : {"idle", "lookup", "fanout"}, room : Clients \cup {NoRoom},
                   left : SUBSET Clients]
  /\ consumer.at # "idle" => next <= Len(log)
  /\ since \in [Clients -> Nat] /\ \A c \in Clients : since[c] <= Len(log)

(* How a step may change history and log: a message enters one of them.    *)
Stores(m) ==
  /\ m \notin stored /\ (~Reordered => \A n \in stored : n < m)
  /\ history' = Append(history, m) /\ log' = log
Records(m) ==
  /\ m \in stored /\ Predecessors(m) \subseteq recorded
  /\ log' = Append(log, m) /\ history' = history
LogGrows ==
  \/ history' = history /\ log' = log
  \/ \E m \in Messages : Stores(m) \/ Records(m)

(* A step does one of these.                                               *)
LEMMA LogStep ==
  ASSUME [Next]_vars
  PROVE  LogGrows
<1>1. CASE \E m \in Messages : Store(m) \/ Record(m)
  BY <1>1 DEF Store, Record, LogGrows, Stores, Records
<1>2. CASE ~(\E m \in Messages : Store(m) \/ Record(m))
  <2>1. history' = history /\ log' = log
    BY <1>2 DEF Next, Consume, FetchMessage, Snapshot, broadcastChat, CommitMessages,
       RunChatConsumer, dropRoom, Connect, Bootstrap, GetHistory, EnqueueReplay, PageDone,
       FinishResume, ResumeStatus, enqueueChatAck, readPump, writePump, WriterFails,
       WriterStops, ServeReturns, chatVars, vars
  <2> QED BY <2>1 DEF LogGrows
<1> QED BY <1>1, <1>2

(* A longer log keeps the records it had, and records what is stored.      *)
LEMMA LogKept ==
  ASSUME history \in Seq(Messages), log \in Seq(Messages), recorded \subseteq stored, LogGrows
  PROVE  /\ history' \in Seq(Messages) /\ log' \in Seq(Messages) /\ Len(log) <= Len(log')
         /\ \A k \in 1..Len(log) : log'[k] = log[k]
         /\ stored \subseteq stored' /\ recorded' \subseteq stored'
<1>1. CASE history' = history /\ log' = log
  BY <1>1 DEF stored, recorded
<1>2. ASSUME NEW m \in Messages, Stores(m)
      PROVE  /\ history' \in Seq(Messages) /\ log' \in Seq(Messages) /\ Len(log) <= Len(log')
             /\ \A k \in 1..Len(log) : log'[k] = log[k]
             /\ stored \subseteq stored' /\ recorded' \subseteq stored'
  <2>1. history' \in Seq(Messages) /\ stored' = stored \cup {m}
    BY <1>2, RangeAppend DEF Stores, stored
  <2>2. recorded' = recorded /\ log' = log
    BY <1>2 DEF Stores, recorded
  <2> QED BY <2>1, <2>2
<1>3. ASSUME NEW m \in Messages, Records(m)
      PROVE  /\ history' \in Seq(Messages) /\ log' \in Seq(Messages) /\ Len(log) <= Len(log')
             /\ \A k \in 1..Len(log) : log'[k] = log[k]
             /\ stored \subseteq stored' /\ recorded' \subseteq stored'
  <2>1. log' = Append(log, m) /\ history' = history /\ stored' = stored /\ m \in stored
    BY <1>3 DEF Records, stored
  <2>2. recorded' = recorded \cup {m}
    BY <2>1, RangeAppend DEF recorded
  <2>3. /\ log' \in Seq(Messages) /\ Len(log) <= Len(log')
        /\ \A k \in 1..Len(log) : log'[k] = log[k]
    BY <2>1
  <2> QED BY <2>1, <2>2, <2>3
<1> QED BY <1>1, <1>2, <1>3 DEF LogGrows

(* Every step keeps the positions within the log.                          *)
LEMMA LogTypesStep == LogTypes /\ RoomTypes /\ [Next]_vars => LogTypes'
<1> SUFFICES ASSUME LogTypes, RoomTypes, [Next]_vars PROVE LogTypes'
  OBVIOUS
<1>l. /\ history' \in Seq(Messages) /\ log' \in Seq(Messages) /\ recorded' \subseteq stored'
      /\ Len(log) \in Nat /\ Len(log') \in Nat /\ Len(log) <= Len(log')
  BY LogStep, LogKept DEF LogTypes
<1>c. consumer = [at |-> consumer.at, room |-> consumer.room, left |-> consumer.left]
  BY DEF LogTypes
<1>1. CASE UNCHANGED <<next, committed, consumer, since>>
  BY <1>1, <1>l DEF LogTypes
<1>2. CASE FetchMessage
  BY <1>2, <1>l DEF FetchMessage, LogTypes, RoomTypes
<1>3. CASE Snapshot
  <2>1. (IF consumer.room = NoRoom THEN {} ELSE members[consumer.room]) \in SUBSET Clients
    BY DEF LogTypes, RoomTypes
  <2> QED BY <1>3, <1>l, <2>1 DEF Snapshot, LogTypes
<1>4. ASSUME NEW c \in Clients, broadcastChat(c) PROVE LogTypes'
  BY <1>4, <1>l, <1>c DEF broadcastChat, LogTypes
<1>5. CASE CommitMessages
  <2>1. /\ next' = next + 1 /\ committed' \in {committed, next} /\ since' = since
        /\ consumer.at # "idle" /\ consumer' = [consumer EXCEPT !.at = "idle"]
    BY <1>5 DEF CommitMessages
  <2>2. next' \in Nat \ {0} /\ next' <= Len(log') + 1 /\ committed' \in Nat /\ committed' < next'
    BY <1>l, <2>1 DEF LogTypes
  <2>3. since' \in [Clients -> Nat] /\ \A c \in Clients : since'[c] <= Len(log')
    BY <1>l, <2>1 DEF LogTypes
  <2> QED BY <1>c, <1>l, <2>1, <2>2, <2>3 DEF LogTypes
<1>6. CASE RunChatConsumer
  BY <1>6, <1>l DEF RunChatConsumer, LogTypes
<1>7. ASSUME NEW c \in Clients, NEW last, Connect(c, last) PROVE LogTypes'
  <2> DEFINE n == IF consumer.at = "idle" THEN next - 1 ELSE next
  <2>1. UNCHANGED <<log, next, committed, consumer>> /\ since' = [since EXCEPT ![c] = n]
    BY <1>7 DEF Connect, chatVars, consumerVars
  <2>2. n \in Nat /\ n <= Len(log)
    BY <1>l DEF LogTypes
  <2> HIDE DEF n
  <2> QED BY <1>l, <2>1, <2>2 DEF LogTypes
<1>8. UNCHANGED <<next, committed, consumer, since>> \/ FetchMessage \/ Snapshot
      \/ (\E c \in Clients : broadcastChat(c)) \/ CommitMessages \/ RunChatConsumer
      \/ \E c \in Clients : \E last \in Messages \cup {0} : Connect(c, last)
  BY DEF Next, Consume, Store, Record, dropRoom, Bootstrap, GetHistory, EnqueueReplay, PageDone,
     FinishResume, ResumeStatus, enqueueChatAck, readPump, writePump, WriterFails,
     WriterStops, ServeReturns, consumerVars, vars
<1> QED BY <1>1, <1>2, <1>3, <1>4, <1>5, <1>6, <1>7, <1>8

----------------------------------------------------------------------------
(* The replay of missed messages.                                          *)

ReplayTypes ==
  /\ replay \in [Clients -> Replay]
  /\ \A c \in Clients : Range(replay[c].page) \subseteq stored

(* A page that SelectMongoAfter returns.                                   *)
PageFrom(page, m, limit) ==
  /\ page \in Seq(Messages) /\ Range(page) \subseteq After(m)
  /\ \A n \in After(m) \ Range(page) :
       Len(page) = limit /\ \A i \in DOMAIN page : page[i] < n

(* A page is a sequence of stored messages after m, and what it leaves out *)
(* comes after it.                                                         *)
LEMMA PageIs ==
  ASSUME history \in Seq(Messages), NEW m, NEW limit \in Nat,
         NEW page \in SelectMongoAfter(m, limit)
  PROVE  PageFrom(page, m, limit)
<1>1. PICK n \in 0..limit : page \in [1..n -> After(m)]
  BY DEF SelectMongoAfter
<1>2. After(m) \subseteq Messages
  BY RangeIn DEF After, stored
<1>3. page \in Seq(Messages)
  BY <1>1, <1>2
<1>4. Range(page) \subseteq After(m)
  BY <1>1 DEF Range
<1> QED BY <1>3, <1>4 DEF PageFrom, SelectMongoAfter
(* How GetHistory moves a replay on: it reads a page, or it ends badly.    *)
PageRead(c, page) ==
  /\ PageFrom(page, replay[c].cursor, Len(page))
  /\ page \in Seq(Messages) /\ Range(page) \subseteq stored
  /\ After(replay[c].cursor) # {} => page # <<>>
  /\ at[c] = "fetch" /\ at'[c] = "page"
  /\ replay'[c] = [replay[c] EXCEPT !.cursor = IF page = <<>> THEN @ ELSE Last(page),
                                    !.page = page, !.more = After(replay[c].cursor) # Range(page)]
Ended(c, outcome) ==
  /\ at'[c] = "flush"
  /\ replay'[c] = [replay[c] EXCEPT !.outcome = outcome, !.page = <<>>]

(* What GetHistory does to its client's replay.                            *)
LEMMA GetHistoryIs ==
  ASSUME LogTypes, RoomTypes, replay \in [Clients -> Replay], NEW c \in Clients, GetHistory(c)
  PROVE  \/ Ended(c, "truncated") \/ Ended(c, "error")
         \/ \E page \in Seq(Messages) : PageRead(c, page)
<1> DEFINE limit == IF maxMessages - replay[c].recovered < batchSize
                    THEN maxMessages - replay[c].recovered ELSE batchSize
<1>0. replay[c] \in Replay /\ replay[c].recovered \in Nat /\ DOMAIN replay = Clients
      /\ DOMAIN at = Clients
  BY DEF Replay, RoomTypes
<1>1. CASE replay[c].recovered >= maxMessages
  <2>1. EndReplay(c, "truncated")
    BY <1>1 DEF GetHistory
  <2> QED BY <1>0, <2>1 DEF EndReplay, Ended
<1>2. CASE ~(replay[c].recovered >= maxMessages)
  <2>1. limit \in Nat /\ limit >= 1
    BY <1>0, <1>2, HubAssumption
  <2>2. CASE EndReplay(c, "error")
    BY <1>0, <2>2 DEF EndReplay, Ended
  <2>3. CASE ~EndReplay(c, "error")
    <3>1. /\ at[c] = "fetch" /\ at' = [at EXCEPT ![c] = "page"]
          /\ \E page \in SelectMongoAfter(replay[c].cursor, limit) :
               replay' = [replay EXCEPT ![c] =
                 [replay[c] EXCEPT !.cursor = IF page = <<>> THEN @ ELSE Last(page),
                    !.page = page, !.more = After(replay[c].cursor) # Range(page)]]
      BY <1>2, <2>3 DEF GetHistory
    <3>2. PICK page \in SelectMongoAfter(replay[c].cursor, limit) :
            replay' = [replay EXCEPT ![c] =
              [replay[c] EXCEPT !.cursor = IF page = <<>> THEN @ ELSE Last(page),
                 !.page = page, !.more = After(replay[c].cursor) # Range(page)]]
      BY <3>1
    <3> HIDE DEF limit
    <3>3. PageFrom(page, replay[c].cursor, limit)
      BY <2>1, PageIs DEF LogTypes
    <3>4. page \in Seq(Messages) /\ Range(page) \subseteq stored
      BY <3>3 DEF PageFrom, After
    <3>5. PageFrom(page, replay[c].cursor, Len(page))
      BY <3>3 DEF PageFrom
    <3>6. After(replay[c].cursor) # {} => page # <<>>
      <4>1. SUFFICES ASSUME page = <<>>, NEW n \in After(replay[c].cursor) PROVE FALSE
        OBVIOUS
      <4>2. Range(page) = {} /\ Len(page) = 0
        BY <4>1 DEF Range
      <4> QED BY <2>1, <3>3, <4>1, <4>2 DEF PageFrom
    <3>7. PageRead(c, page)
      BY <1>0, <3>1, <3>2, <3>4, <3>5, <3>6 DEF PageRead
    <3> QED BY <3>4, <3>7
  <2> QED BY <2>2, <2>3
<1> QED BY <1>1, <1>2

(* How EnqueueReplay moves a replay on: the head of the page is done with. *)
HeadDone(c) ==
  /\ replay[c].page # <<>> /\ at[c] = "page" /\ at'[c] = "page"
  /\ replay'[c] = [replay[c] EXCEPT !.page = Tail(@), !.recovered = @ + 1]

(* What EnqueueReplay does to its client's replay.                         *)
LEMMA EnqueueReplayIs ==
  ASSUME RoomTypes, replay \in [Clients -> Replay], NEW c \in Clients, EnqueueReplay(c)
  PROVE  Ended(c, "error") \/ HeadDone(c)
<1>1. replay[c] \in Replay /\ DOMAIN replay = Clients /\ DOMAIN at = Clients
  BY DEF RoomTypes
<1>2. CASE EndReplay(c, "error")
  BY <1>1, <1>2 DEF EndReplay, Ended
<1>3. CASE ~EndReplay(c, "error")
  <2>1. /\ replay[c].page # <<>> /\ at[c] = "page" /\ UNCHANGED at
        /\ replay' = [replay EXCEPT ![c].page = Tail(@), ![c].recovered = @ + 1]
    BY <1>3 DEF EnqueueReplay
  <2> QED BY <1>1, <2>1 DEF HeadDone, Replay
<1> QED BY <1>2, <1>3

(* The steps that may change a client's replay.                            *)
ReplayMoves(c) ==
  \/ replay'[c] = replay[c]
  \/ \E last \in Messages \cup {0} : Connect(c, last)
  \/ Ended(c, "truncated") \/ Ended(c, "error")
  \/ \E page \in Seq(Messages) : PageRead(c, page)
  \/ HeadDone(c)
  \/ Ended(c, "complete") /\ at[c] = "page" /\ replay[c].page = <<>> /\ ~replay[c].more

(* Nothing else changes it.                                                *)
LEMMA ReplayCases ==
  ASSUME LogTypes, RoomTypes, replay \in [Clients -> Replay], [Next]_vars, NEW c \in Clients
  PROVE  ReplayMoves(c)
<1>0. DOMAIN replay = Clients /\ DOMAIN at = Clients
  BY DEF RoomTypes
<1>1. CASE GetHistory(c)
  BY <1>1, GetHistoryIs DEF ReplayMoves
<1>2. CASE EnqueueReplay(c)
  BY <1>2, EnqueueReplayIs DEF ReplayMoves
<1>3. CASE PageDone(c)
  BY <1>0, <1>3 DEF PageDone, EndReplay, Ended, ReplayMoves
<1>4. CASE \E last \in Messages \cup {0} : Connect(c, last)
  BY <1>4 DEF ReplayMoves
<1>5. ASSUME NEW d \in Clients, d # c,
             GetHistory(d) \/ EnqueueReplay(d) \/ PageDone(d)
               \/ \E last \in Messages \cup {0} : Connect(d, last)
      PROVE  replay'[c] = replay[c]
  BY <1>0, <1>5 DEF GetHistory, EnqueueReplay, PageDone, Connect, EndReplay
<1>6. CASE UNCHANGED replay
  BY <1>6 DEF ReplayMoves
<1>7. UNCHANGED replay
      \/ \E d \in Clients : GetHistory(d) \/ EnqueueReplay(d) \/ PageDone(d)
           \/ \E last \in Messages \cup {0} : Connect(d, last)
  BY DEF Next, Consume, Store, Record, FetchMessage, Snapshot, broadcastChat, CommitMessages,
     RunChatConsumer, dropRoom, Bootstrap, FinishResume, ResumeStatus, enqueueChatAck,
     readPump, writePump, WriterFails, WriterStops, ServeReturns, vars
<1> QED BY <1>1, <1>2, <1>3, <1>4, <1>5, <1>6, <1>7 DEF ReplayMoves
(* A move of a replay keeps its type, and its page to stored messages.     *)
LEMMA ReplayMoveTyped ==
  ASSUME LogTypes, ReplayTypes, NEW c \in Clients, ReplayMoves(c), stored \subseteq stored'
  PROVE  replay'[c] \in Replay /\ Range(replay'[c].page) \subseteq stored'
<1>0. /\ replay[c] \in Replay /\ Range(replay[c].page) \subseteq stored
      /\ DOMAIN replay = Clients
  BY DEF ReplayTypes
<1>1. CASE replay'[c] = replay[c]
  BY <1>0, <1>1
<1>2. ASSUME NEW last \in Messages \cup {0}, Connect(c, last)
      PROVE  replay'[c] \in Replay /\ Range(replay'[c].page) \subseteq stored'
  <2>1. replay'[c] = NewReplay(last)
    BY <1>0, <1>2 DEF Connect
  <2> QED BY <2>1 DEF NewReplay, Replay, Range
<1>3. ASSUME NEW o \in {"complete", "error", "truncated"}, Ended(c, o)
      PROVE  replay'[c] \in Replay /\ Range(replay'[c].page) \subseteq stored'
  <2>1. replay'[c] = [replay[c] EXCEPT !.outcome = o, !.page = <<>>]
    BY <1>3 DEF Ended
  <2>2. <<>> \in Seq(Messages) /\ Range(<<>>) = {}
    BY DEF Range
  <2>3. replay'[c] \in Replay
    BY <1>0, <2>1, <2>2 DEF Replay
  <2>4. replay'[c].page = <<>>
    BY <1>0, <2>1 DEF Replay
  <2> QED BY <2>2, <2>3, <2>4
<1>4. ASSUME NEW page \in Seq(Messages), PageRead(c, page)
      PROVE  replay'[c] \in Replay /\ Range(replay'[c].page) \subseteq stored'
  <2>1. /\ Range(page) \subseteq stored
        /\ replay'[c] = [replay[c] EXCEPT !.cursor = IF page = <<>> THEN @ ELSE Last(page),
                           !.page = page, !.more = After(replay[c].cursor) # Range(page)]
    BY <1>4 DEF PageRead
  <2>2. (IF page = <<>> THEN replay[c].cursor ELSE Last(page)) \in Messages \cup {0}
    BY <1>0 DEF Last, Replay
  <2>3. (After(replay[c].cursor) # Range(page)) \in BOOLEAN
    OBVIOUS
  <2> QED BY <1>0, <2>1, <2>2, <2>3 DEF Replay
<1>5. CASE HeadDone(c)
  <2>1. /\ replay[c].page # <<>>
        /\ replay'[c] = [replay[c] EXCEPT !.page = Tail(@), !.recovered = @ + 1]
    BY <1>5 DEF HeadDone
  <2>2. /\ replay[c].page \in Seq(Messages) /\ Tail(replay[c].page) \in Seq(Messages)
        /\ Range(Tail(replay[c].page)) \subseteq Range(replay[c].page)
    BY <1>0, <2>1, RangeTail DEF Replay
  <2>3. replay[c].recovered + 1 \in Nat
    BY <1>0 DEF Replay
  <2>4. replay'[c] \in Replay
    BY <1>0, <2>1, <2>2, <2>3 DEF Replay
  <2>5. replay'[c].page = Tail(replay[c].page)
    BY <1>0, <2>1 DEF Replay
  <2> QED BY <1>0, <2>2, <2>4, <2>5
<1> QED BY <1>1, <1>2, <1>3, <1>4, <1>5 DEF ReplayMoves

(* Every step keeps the types of the replays.                              *)
LEMMA ReplayTypesStep == LogTypes /\ RoomTypes /\ ReplayTypes /\ [Next]_vars => ReplayTypes'
<1> SUFFICES ASSUME LogTypes, RoomTypes, ReplayTypes, [Next]_vars PROVE ReplayTypes'
  OBVIOUS
<1>1. stored \subseteq stored'
  BY LogStep, LogKept DEF LogTypes
<1>2. \A c \in Clients : ReplayMoves(c)
  BY ReplayCases DEF ReplayTypes
<1>3. \A c \in Clients : replay'[c] \in Replay /\ Range(replay'[c].page) \subseteq stored'
  BY <1>1, <1>2, ReplayMoveTyped
<1>4. ASSUME NEW d \in Clients, NEW x, replay' = [replay EXCEPT ![d] = x]
      PROVE  replay' = [c \in Clients |-> replay'[c]]
  BY <1>4 DEF ReplayTypes
<1>5. \A d \in Clients : GetHistory(d) => \E x : replay' = [replay EXCEPT ![d] = x]
  BY DEF GetHistory, EndReplay
<1>6. \A d \in Clients : EnqueueReplay(d) => \E x : replay' = [replay EXCEPT ![d] = x]
  BY DEF EnqueueReplay, EndReplay
<1>7. \A d \in Clients : PageDone(d) => UNCHANGED replay \/ \E x : replay' = [replay EXCEPT ![d] = x]
  BY DEF PageDone, EndReplay
<1>8. \A d \in Clients, last \in Messages \cup {0} : Connect(d, last) =>
        \E x : replay' = [replay EXCEPT ![d] = x]
  BY DEF Connect
<1>9. UNCHANGED replay
      \/ \E d \in Clients : GetHistory(d) \/ EnqueueReplay(d) \/ PageDone(d)
           \/ \E last \in Messages \cup {0} : Connect(d, last)
  BY DEF Next, Consume, Store, Record, FetchMessage, Snapshot, broadcastChat, CommitMessages,
     RunChatConsumer, dropRoom, Bootstrap, FinishResume, ResumeStatus, enqueueChatAck,
     readPump, writePump, WriterFails, WriterStops, ServeReturns, vars
<1>10. replay' = [c \in Clients |-> replay'[c]]
  <2>1. CASE UNCHANGED replay
    BY <2>1 DEF ReplayTypes
  <2> QED BY <2>1, <1>4, <1>5, <1>6, <1>7, <1>8, <1>9
<1> QED BY <1>3, <1>10 DEF ReplayTypes
----------------------------------------------------------------------------
(* The queues of a client.                                                 *)

QueueTypes ==
  /\ pending \in [Clients -> Seq(Messages)]
  /\ send \in [Clients -> Seq(Messages \cup {Notice})]
  /\ seen \in [Clients -> Seq(Messages)]
  /\ delivered \in [Clients -> Seq(Messages)]

(* What one step may do to the queues of one client: nothing, queue or     *)
(* hold back a stored message it has not seen, pass on the first message   *)
(* that was held back, queue a notice, or write the head of the queue.     *)
Kept(c) ==
  pending'[c] = pending[c] /\ send'[c] = send[c] /\ seen'[c] = seen[c]
  /\ delivered'[c] = delivered[c]
Sent(c, m) ==
  /\ m \notin Range(seen[c]) /\ seen'[c] = Remembered(seen[c], m)
  /\ send'[c] = Append(send[c], m)
  /\ pending'[c] = pending[c] /\ delivered'[c] = delivered[c]
Held(c, m) ==
  /\ m \notin Range(seen[c]) /\ seen'[c] = Remembered(seen[c], m)
  /\ pending'[c] = Append(pending[c], m)
  /\ send'[c] = send[c] /\ delivered'[c] = delivered[c]
Flushed(c) ==
  /\ pending[c] # <<>> /\ pending'[c] = Tail(pending[c])
  /\ send'[c] = Append(send[c], Head(pending[c]))
  /\ seen'[c] = Remembered(seen[c], Head(pending[c])) /\ delivered'[c] = delivered[c]
Noticed(c) ==
  /\ send'[c] = Append(send[c], Notice)
  /\ pending'[c] = pending[c] /\ seen'[c] = seen[c] /\ delivered'[c] = delivered[c]
Wrote(c) ==
  /\ send[c] # <<>> /\ send'[c] = Tail(send[c])
  /\ delivered'[c] = IF Head(send[c]) = Notice THEN delivered[c]
                     ELSE Append(delivered[c], Head(send[c]))
  /\ pending'[c] = pending[c] /\ seen'[c] = seen[c]

QueueMoves(c) ==
  \/ Kept(c) \/ Flushed(c) \/ Noticed(c) \/ Wrote(c)
  \/ \E m \in stored : Sent(c, m) \/ Held(c, m)

(* rememberMessageLocked is Remembered, for its client alone.              *)
LEMMA RememberIs ==
  ASSUME QueueTypes, NEW c \in Clients, NEW m, rememberMessageLocked(c, m)
  PROVE  seen'[c] = Remembered(seen[c], m) /\ \A d \in Clients \ {c} : seen'[d] = seen[d]
BY DEF QueueTypes, rememberMessageLocked, Remembered, Duplicate

(* A message that was seen before changes nothing.                         *)
LEMMA RememberTwice ==
  ASSUME QueueTypes, NEW c \in Clients, NEW m, rememberMessageLocked(c, m), Duplicate(c, m)
  PROVE  seen'[c] = seen[c]
BY RememberIs DEF Duplicate, Remembered

(* The record that is broadcast is a stored message.                       *)
LEMMA RecordStored ==
  ASSUME LogTypes, consumer.at # "idle"
  PROVE  log[next] \in stored /\ log[next] \in Messages
<1>1. next \in 1..Len(log) /\ DOMAIN log = 1..Len(log)
  BY DEF LogTypes
<1> QED BY <1>1 DEF LogTypes, recorded, Range

(* A broadcast on the queues of the client it serves.                      *)
LEMMA BroadcastQueues ==
  ASSUME LogTypes, QueueTypes, NEW c \in Clients, broadcastChat(c)
  PROVE  QueueMoves(c) /\ \A d \in Clients \ {c} : Kept(d)
<1>1. EnqueueChat(c, log[next]) /\ UNCHANGED delivered
  BY DEF broadcastChat
<1>2. log[next] \in stored
  BY RecordStored DEF broadcastChat
<1>3. CASE UNCHANGED queueVars
  BY <1>1, <1>3 DEF queueVars, QueueMoves, Kept
<1>4. CASE /\ ~Duplicate(c, log[next]) /\ pending' = [pending EXCEPT ![c] = Append(@, log[next])]
           /\ rememberMessageLocked(c, log[next]) /\ UNCHANGED send
  <2>1. Held(c, log[next])
    BY <1>1, <1>4, RememberIs DEF Held, QueueTypes, Duplicate
  <2>2. \A d \in Clients \ {c} : Kept(d)
    BY <1>1, <1>4, RememberIs DEF Kept, QueueTypes
  <2> QED BY <1>2, <2>1, <2>2 DEF QueueMoves
<1>5. CASE /\ ~Duplicate(c, log[next]) /\ send' = [send EXCEPT ![c] = Append(@, log[next])]
           /\ rememberMessageLocked(c, log[next]) /\ UNCHANGED pending
  <2>1. Sent(c, log[next])
    BY <1>1, <1>5, RememberIs DEF Sent, QueueTypes, Duplicate
  <2>2. \A d \in Clients \ {c} : Kept(d)
    BY <1>1, <1>5, RememberIs DEF Kept, QueueTypes
  <2> QED BY <1>2, <2>1, <2>2 DEF QueueMoves
<1> QED BY <1>1, <1>3, <1>4, <1>5 DEF EnqueueChat, SlowConsumer, queueVars

(* EnqueueReplay on the queues of its client.                              *)
LEMMA ReplayQueues ==
  ASSUME ReplayTypes, QueueTypes, NEW c \in Clients, EnqueueReplay(c)
  PROVE  QueueMoves(c) /\ \A d \in Clients \ {c} : Kept(d)
<1> DEFINE m == Head(replay[c].page)
<1>1. UNCHANGED <<pending, delivered>>
  BY DEF EnqueueReplay
<1>2. m \in stored
  <2>1. replay[c].page \in Seq(Messages) /\ replay[c].page # <<>>
    BY DEF EnqueueReplay, ReplayTypes, Replay
  <2> QED BY <2>1, RangeTail DEF ReplayTypes
<1>3. CASE UNCHANGED <<send, seen>>
  BY <1>1, <1>3 DEF QueueMoves, Kept
<1>4. CASE Duplicate(c, m) /\ UNCHANGED send /\ rememberMessageLocked(c, m)
  <2>1. Kept(c) /\ \A d \in Clients \ {c} : Kept(d)
    BY <1>1, <1>4, RememberIs, RememberTwice DEF Kept
  <2> QED BY <2>1 DEF QueueMoves
<1>5. CASE ~Duplicate(c, m) /\ send' = [send EXCEPT ![c] = Append(@, m)] /\ rememberMessageLocked(c, m)
  <2> HIDE DEF m
  <2>1. Sent(c, m)
    BY <1>1, <1>5, RememberIs DEF Sent, QueueTypes, Duplicate
  <2>2. \A d \in Clients \ {c} : Kept(d)
    BY <1>1, <1>5, RememberIs DEF Kept, QueueTypes
  <2> QED BY <1>2, <2>1, <2>2 DEF QueueMoves
<1> QED BY <1>3, <1>4, <1>5 DEF EnqueueReplay

(* FinishResume on the queues of its client.                               *)
LEMMA FlushQueues ==
  ASSUME QueueTypes, NEW c \in Clients, FinishResume(c)
  PROVE  QueueMoves(c) /\ \A d \in Clients \ {c} : Kept(d)
<1>1. UNCHANGED delivered
  BY DEF FinishResume
<1>2. CASE UNCHANGED <<pending, send, seen>>
  BY <1>1, <1>2 DEF QueueMoves, Kept
<1>3. CASE /\ pending[c] # <<>> /\ pending' = [pending EXCEPT ![c] = Tail(@)]
           /\ send' = [send EXCEPT ![c] = Append(@, Head(pending[c]))]
           /\ rememberMessageLocked(c, Head(pending[c]))
  <2>1. Flushed(c)
    BY <1>1, <1>3, RememberIs DEF Flushed, QueueTypes
  <2>2. \A d \in Clients \ {c} : Kept(d)
    BY <1>1, <1>3, RememberIs DEF Kept, QueueTypes
  <2> QED BY <2>1, <2>2 DEF QueueMoves
<1> QED BY <1>2, <1>3 DEF FinishResume

(* Every step moves the queues of a client in one of these ways.           *)
LEMMA QueueCases ==
  ASSUME LogTypes, ReplayTypes, QueueTypes, [Next]_vars, NEW c \in Clients
  PROVE  QueueMoves(c)
<1>1. CASE UNCHANGED <<pending, send, seen, delivered>>
  BY <1>1 DEF QueueMoves, Kept
<1>2. ASSUME NEW d \in Clients, broadcastChat(d) PROVE QueueMoves(c)
  BY <1>2, BroadcastQueues DEF QueueMoves
<1>3. ASSUME NEW d \in Clients, EnqueueReplay(d) PROVE QueueMoves(c)
  BY <1>3, ReplayQueues DEF QueueMoves
<1>4. ASSUME NEW d \in Clients, FinishResume(d) PROVE QueueMoves(c)
  BY <1>4, FlushQueues DEF QueueMoves
<1>5. ASSUME NEW d \in Clients, ResumeStatus(d) \/ enqueueChatAck(d) PROVE QueueMoves(c)
  <2>1. UNCHANGED <<pending, seen, delivered>>
        /\ (UNCHANGED send \/ send' = [send EXCEPT ![d] = Append(@, Notice)])
    BY <1>5 DEF ResumeStatus, enqueueChatAck
  <2> QED BY <2>1 DEF QueueTypes, QueueMoves, Kept, Noticed
<1>6. ASSUME NEW d \in Clients, writePump(d) PROVE QueueMoves(c)
  <2>1. /\ UNCHANGED <<pending, seen>> /\ send[d] # <<>> /\ send' = [send EXCEPT ![d] = Tail(@)]
        /\ delivered' = IF Head(send[d]) = Notice THEN delivered
                        ELSE [delivered EXCEPT ![d] = Append(@, Head(send[d]))]
    BY <1>6 DEF writePump
  <2> QED BY <2>1 DEF QueueTypes, QueueMoves, Kept, Wrote
<1>7. UNCHANGED <<pending, send, seen, delivered>>
      \/ \E d \in Clients : broadcastChat(d) \/ EnqueueReplay(d) \/ FinishResume(d)
           \/ ResumeStatus(d) \/ enqueueChatAck(d) \/ writePump(d)
  BY DEF Next, Consume, Store, Record, FetchMessage, Snapshot, CommitMessages, RunChatConsumer,
     dropRoom, Connect, Bootstrap, GetHistory, PageDone, readPump, WriterFails, WriterStops,
     ServeReturns, queueVars, vars
<1> QED BY <1>1, <1>2, <1>3, <1>4, <1>5, <1>6, <1>7
(* An update of a function of the clients is one.                          *)
LEMMA Updated ==
  ASSUME NEW f, f = [c \in Clients |-> f[c]], NEW g, NEW d \in Clients,
         g = f \/ \E x : g = [f EXCEPT ![d] = x]
  PROVE  g = [c \in Clients |-> g[c]]
OBVIOUS

(* A move keeps the types of the queues.                                   *)
LEMMA QueueMoveTyped ==
  ASSUME LogTypes, QueueTypes, NEW c \in Clients, QueueMoves(c)
  PROVE  /\ pending'[c] \in Seq(Messages) /\ send'[c] \in Seq(Messages \cup {Notice})
         /\ seen'[c] \in Seq(Messages) /\ delivered'[c] \in Seq(Messages)
<1>0. /\ pending[c] \in Seq(Messages) /\ send[c] \in Seq(Messages \cup {Notice})
      /\ seen[c] \in Seq(Messages) /\ delivered[c] \in Seq(Messages)
  BY DEF QueueTypes
<1>1. ASSUME NEW m \in stored PROVE m \in Messages
  BY RangeIn DEF stored, LogTypes
<1>2. CASE Kept(c)
  BY <1>0, <1>2 DEF Kept
<1>3. CASE Flushed(c)
  <2>1. Tail(pending[c]) \in Seq(Messages) /\ Head(pending[c]) \in Messages
    BY <1>0, <1>3, RangeTail DEF Flushed
  <2>2. Append(send[c], Head(pending[c])) \in Seq(Messages \cup {Notice})
    BY <1>0, <2>1
  <2>3. Remembered(seen[c], Head(pending[c])) \in Seq(Messages)
    BY <1>0, <2>1, RememberedIs
  <2> QED BY <1>0, <1>3, <2>1, <2>2, <2>3 DEF Flushed
<1>4. CASE Noticed(c)
  BY <1>0, <1>4 DEF Noticed
<1>5. CASE Wrote(c)
  <2>1. Tail(send[c]) \in Seq(Messages \cup {Notice}) /\ Head(send[c]) \in Messages \cup {Notice}
    BY <1>0, <1>5, RangeTail DEF Wrote
  <2>2. Head(send[c]) # Notice => Append(delivered[c], Head(send[c])) \in Seq(Messages)
    BY <1>0, <2>1
  <2> QED BY <1>0, <1>5, <2>1, <2>2 DEF Wrote
<1>6. ASSUME NEW m \in stored, Sent(c, m) \/ Held(c, m)
      PROVE  /\ pending'[c] \in Seq(Messages) /\ send'[c] \in Seq(Messages \cup {Notice})
             /\ seen'[c] \in Seq(Messages) /\ delivered'[c] \in Seq(Messages)
  <2>1. Remembered(seen[c], m) \in Seq(Messages)
    BY <1>0, <1>1, RememberedIs
  <2>2. Append(send[c], m) \in Seq(Messages \cup {Notice}) /\ Append(pending[c], m) \in Seq(Messages)
    BY <1>0, <1>1
  <2> QED BY <1>0, <1>6, <2>1, <2>2 DEF Sent, Held
<1> QED BY <1>2, <1>3, <1>4, <1>5, <1>6 DEF QueueMoves

(* Every step keeps the types of the queues.                               *)
LEMMA QueueTypesStep == LogTypes /\ ReplayTypes /\ QueueTypes /\ [Next]_vars => QueueTypes'
<1> SUFFICES ASSUME LogTypes, ReplayTypes, QueueTypes, [Next]_vars PROVE QueueTypes'
  OBVIOUS
<1>1. \A c \in Clients :
         /\ pending'[c] \in Seq(Messages) /\ send'[c] \in Seq(Messages \cup {Notice})
         /\ seen'[c] \in Seq(Messages) /\ delivered'[c] \in Seq(Messages)
  BY QueueCases, QueueMoveTyped
<1>2. \/ UNCHANGED <<pending, send, seen, delivered>>
      \/ \E d \in Clients : broadcastChat(d) \/ EnqueueReplay(d) \/ FinishResume(d)
           \/ ResumeStatus(d) \/ enqueueChatAck(d) \/ writePump(d)
  BY DEF Next, Consume, Store, Record, FetchMessage, Snapshot, CommitMessages, RunChatConsumer,
     dropRoom, Connect, Bootstrap, GetHistory, PageDone, readPump, WriterFails, WriterStops,
     ServeReturns, queueVars, vars
<1>3. /\ pending = [c \in Clients |-> pending[c]] /\ send = [c \in Clients |-> send[c]]
      /\ seen = [c \in Clients |-> seen[c]] /\ delivered = [c \in Clients |-> delivered[c]]
  BY DEF QueueTypes
<1>4. ASSUME NEW d \in Clients, broadcastChat(d) \/ EnqueueReplay(d) \/ FinishResume(d)
               \/ ResumeStatus(d) \/ enqueueChatAck(d) \/ writePump(d)
      PROVE  /\ pending' = pending \/ \E x : pending' = [pending EXCEPT ![d] = x]
             /\ send' = send \/ \E x : send' = [send EXCEPT ![d] = x]
             /\ seen' = seen \/ \E x : seen' = [seen EXCEPT ![d] = x]
             /\ delivered' = delivered \/ \E x : delivered' = [delivered EXCEPT ![d] = x]
  <2>1. \A m : rememberMessageLocked(d, m) => \E x : seen' = [seen EXCEPT ![d] = x]
    BY DEF rememberMessageLocked
  <2>2. CASE broadcastChat(d)
    BY <2>1, <2>2 DEF broadcastChat, EnqueueChat, SlowConsumer, queueVars
  <2>3. CASE EnqueueReplay(d)
    BY <2>1, <2>3 DEF EnqueueReplay
  <2>4. CASE FinishResume(d)
    BY <2>1, <2>4 DEF FinishResume
  <2>5. CASE ResumeStatus(d) \/ enqueueChatAck(d) \/ writePump(d)
    BY <2>5 DEF ResumeStatus, enqueueChatAck, writePump
  <2> QED BY <1>4, <2>2, <2>3, <2>4, <2>5
<1>5. /\ pending' = [c \in Clients |-> pending'[c]] /\ send' = [c \in Clients |-> send'[c]]
      /\ seen' = [c \in Clients |-> seen'[c]] /\ delivered' = [c \in Clients |-> delivered'[c]]
  <2>1. CASE UNCHANGED <<pending, send, seen, delivered>>
    BY <1>3, <2>1
  <2>2. ASSUME NEW d \in Clients, broadcastChat(d) \/ EnqueueReplay(d) \/ FinishResume(d)
                 \/ ResumeStatus(d) \/ enqueueChatAck(d) \/ writePump(d)
        PROVE  /\ pending' = [c \in Clients |-> pending'[c]] /\ send' = [c \in Clients |-> send'[c]]
               /\ seen' = [c \in Clients |-> seen'[c]] /\ delivered' = [c \in Clients |-> delivered'[c]]
    <3>1. /\ pending' = pending \/ \E x : pending' = [pending EXCEPT ![d] = x]
          /\ send' = send \/ \E x : send' = [send EXCEPT ![d] = x]
          /\ seen' = seen \/ \E x : seen' = [seen EXCEPT ![d] = x]
          /\ delivered' = delivered \/ \E x : delivered' = [delivered EXCEPT ![d] = x]
      BY <1>4, <2>2
    <3>2. pending' = [c \in Clients |-> pending'[c]]
      BY <1>3, <3>1, Updated
    <3>3. send' = [c \in Clients |-> send'[c]]
      BY <1>3, <3>1, Updated
    <3>4. seen' = [c \in Clients |-> seen'[c]]
      BY <1>3, <3>1, Updated
    <3>5. delivered' = [c \in Clients |-> delivered'[c]]
      BY <1>3, <3>1, Updated
    <3> QED BY <3>2, <3>3, <3>4, <3>5
  <2> QED BY <1>2, <2>1, <2>2
<1> QED BY <1>1, <1>5 DEF QueueTypes

----------------------------------------------------------------------------
(* What a client has.                                                      *)

(* No message that a client has is lost, and what it has seen it has.      *)
SeenKept == \A c \in Clients : Range(seen[c]) \subseteq Got(c)

(* A message that is queued or held back is there afterwards, and nothing  *)
(* else is lost.                                                           *)
LEMMA GotSent ==
  ASSUME LogTypes, QueueTypes, NEW c \in Clients, NEW m \in stored, Sent(c, m) \/ Held(c, m)
  PROVE  /\ m \in Got(c)' /\ Got(c) \subseteq Got(c)'
         /\ Range(seen[c]) \subseteq Got(c) => Range(seen'[c]) \subseteq Got(c)'
<1>0. /\ pending[c] \in Seq(Messages) /\ send[c] \in Seq(Messages \cup {Notice})
      /\ seen[c] \in Seq(Messages)
  BY DEF QueueTypes
<1>1. m \in Messages
  BY RangeIn DEF stored, LogTypes
<1>2. Range(Remembered(seen[c], m)) \subseteq Range(seen[c]) \cup {m}
  BY <1>0, <1>1, RememberedIs
<1>3. Range(Append(pending[c], m)) = Range(pending[c]) \cup {m}
  BY <1>0, <1>1, RangeAppend
<1>4. Range(Append(send[c], m)) = Range(send[c]) \cup {m}
  BY <1>0, <1>1, RangeAppend
<1>5. CASE Sent(c, m)
  BY <1>2, <1>4, <1>5 DEF Sent, Got
<1>6. CASE Held(c, m)
  BY <1>2, <1>3, <1>6 DEF Held, Got
<1> QED BY <1>5, <1>6

(* A move of the queues loses no message, and what was seen is still there. *)
LEMMA GotMove ==
  ASSUME LogTypes, QueueTypes, NEW c \in Clients, QueueMoves(c)
  PROVE  /\ \A m \in Messages : m \in Got(c) => m \in Got(c)'
         /\ Range(seen[c]) \subseteq Got(c) => Range(seen'[c]) \subseteq Got(c)'
<1>0. /\ pending[c] \in Seq(Messages) /\ send[c] \in Seq(Messages \cup {Notice})
      /\ seen[c] \in Seq(Messages) /\ delivered[c] \in Seq(Messages)
  BY DEF QueueTypes
<1>1. Range(seen[c]) \subseteq Messages /\ Notice \notin Messages
  BY <1>0, RangeIn, HubAssumption DEF Notice
<1>2. CASE Kept(c)
  BY <1>2 DEF Kept, Got
<1>3. CASE Flushed(c)
  <2> DEFINE m == Head(pending[c])
  <2>1. m \in Messages /\ Range(pending[c]) = Range(Tail(pending[c])) \cup {m}
    BY <1>0, <1>3, RangeTail DEF Flushed
  <2>2. Range(Append(send[c], m)) = Range(send[c]) \cup {m}
    BY <1>0, <2>1, RangeAppend
  <2>3. Range(Remembered(seen[c], m)) \subseteq Range(seen[c]) \cup {m}
    BY <1>0, <2>1, RememberedIs
  <2>4. /\ Range(pending'[c]) = Range(Tail(pending[c])) /\ Range(send'[c]) = Range(send[c]) \cup {m}
        /\ Range(seen'[c]) \subseteq Range(seen[c]) \cup {m}
        /\ Range(delivered'[c]) = Range(delivered[c])
    BY <1>3, <2>2, <2>3 DEF Flushed
  <2> HIDE DEF m
  <2> QED BY <2>1, <2>4 DEF Got
<1>4. CASE Noticed(c)
  <2>1. Range(Append(send[c], Notice)) = Range(send[c]) \cup {Notice}
    BY <1>0, RangeAppend
  <2> QED BY <1>4, <2>1 DEF Noticed, Got
<1>5. CASE Wrote(c)
  <2> DEFINE m == Head(send[c])
  <2>1. m \in Messages \cup {Notice} /\ Range(send[c]) = Range(Tail(send[c])) \cup {m}
    BY <1>0, <1>5, RangeTail DEF Wrote
  <2>2. m # Notice => Range(Append(delivered[c], m)) = Range(delivered[c]) \cup {m}
    BY <1>0, <2>1, RangeAppend
  <2>3. /\ Range(pending'[c]) = Range(pending[c]) /\ Range(send'[c]) = Range(Tail(send[c]))
        /\ Range(seen'[c]) = Range(seen[c])
        /\ Range(delivered'[c]) = IF m = Notice THEN Range(delivered[c])
                                  ELSE Range(delivered[c]) \cup {m}
    BY <1>5, <2>2 DEF Wrote
  <2> HIDE DEF m
  <2> QED BY <1>1, <2>1, <2>3 DEF Got
<1>6. ASSUME NEW m \in stored, Sent(c, m) \/ Held(c, m)
      PROVE  /\ \A n \in Messages : n \in Got(c) => n \in Got(c)'
             /\ Range(seen[c]) \subseteq Got(c) => Range(seen'[c]) \subseteq Got(c)'
  BY <1>6, GotSent
<1> QED BY <1>2, <1>3, <1>4, <1>5, <1>6 DEF QueueMoves
----------------------------------------------------------------------------
(* The consumer serves every open client.                                  *)

(* While a record is under way, an open client that registered before it   *)
(* was fetched is in the room that was found, then in the copy of its      *)
(* clients, and then has the record.                                       *)
Served(c) ==
  /\ consumer.at = "lookup" => consumer.room # NoRoom /\ c \in members[consumer.room]
  /\ consumer.at = "fanout" => c \in consumer.left \/ log[next] \in Got(c)
Serving == \A c \in Clients : Open(c) /\ since[c] < next => Served(c)

HubTypes == RoomTypes /\ LogTypes /\ ReplayTypes /\ QueueTypes
HubInv == HubTypes /\ RoomInv /\ SeenKept /\ Serving /\ LiveNotMissed

(* Every step keeps all the types.                                         *)
LEMMA HubTypesStep == HubTypes /\ RoomInv /\ [Next]_vars => HubTypes'
BY RoomTypesStep, LogTypesStep, ReplayTypesStep, QueueTypesStep DEF HubTypes

(* A client is open after a step when it was before, with the same         *)
(* beginning, or when it connects.                                         *)
LEMMA OpenBefore ==
  ASSUME HubTypes, [Next]_vars, NEW c \in Clients, Open(c)'
  PROVE  \/ Open(c) /\ since'[c] = since[c]
         \/ \E last \in Messages \cup {0} : Connect(c, last)
<1> USE DEF Open
<1>t. /\ at \in [Clients -> Places] /\ closed \in [Clients -> BOOLEAN] /\ since \in [Clients -> Nat]
  BY DEF HubTypes, RoomTypes, LogTypes
<1>1. CASE UNCHANGED <<at, closed, since>>
  BY <1>1
<1>2. ASSUME NEW d \in Clients, broadcastChat(d) PROVE Open(c) /\ since'[c] = since[c]
  <2>1. UNCHANGED <<at, since>> /\ (UNCHANGED closed \/ closed' = [closed EXCEPT ![d] = TRUE])
    BY <1>2 DEF broadcastChat, EnqueueChat, SlowConsumer
  <2> QED BY <1>t, <2>1
<1>3. ASSUME NEW d \in Clients, d # c, NEW last \in Messages \cup {0}, Connect(d, last)
      PROVE Open(c) /\ since'[c] = since[c]
  BY <1>t, <1>3 DEF Connect
<1>4. ASSUME NEW d \in Clients, Bootstrap(d) PROVE Open(c) /\ since'[c] = since[c]
  BY <1>t, <1>4 DEF Bootstrap, GetHistory, EnqueueReplay, PageDone, FinishResume, ResumeStatus,
     EndReplay, Close
<1>5. ASSUME NEW d \in Clients, readPump(d) \/ WriterFails(d) \/ ServeReturns(d)
      PROVE Open(c) /\ since'[c] = since[c]
  BY <1>t, <1>5 DEF readPump, WriterFails, ServeReturns, Close
<1>6. \/ UNCHANGED <<at, closed, since>>
      \/ \E d \in Clients : broadcastChat(d) \/ Bootstrap(d)
           \/ readPump(d) \/ WriterFails(d) \/ ServeReturns(d)
           \/ \E last \in Messages \cup {0} : Connect(d, last)
  BY DEF Next, Consume, Store, Record, FetchMessage, Snapshot, CommitMessages, RunChatConsumer,
     dropRoom, enqueueChatAck, writePump, WriterStops, vars
<1> QED BY <1>1, <1>2, <1>3, <1>4, <1>5, <1>6

(* A client that stays open stays in the rooms it is in.                   *)
LEMMA MembersKept ==
  ASSUME HubTypes, [Next]_vars, NEW c \in Clients, Open(c)', NEW r \in Clients, c \in members[r]
  PROVE  c \in members'[r]
<1>t. /\ at \in [Clients -> Places] /\ closed \in [Clients -> BOOLEAN]
      /\ members \in [Clients -> SUBSET Clients] /\ room \in Clients \cup {NoRoom}
  BY DEF HubTypes, RoomTypes
<1>1. CASE UNCHANGED members
  BY <1>1
<1>2. ASSUME NEW d \in Clients, d # c, unregister(d) PROVE c \in members'[r]
  BY <1>t, <1>2 DEF unregister, roomVars
<1>3. ASSUME NEW d \in Clients, broadcastChat(d) PROVE c \in members'[r]
  <2>1. CASE SlowConsumer(d) /\ ~closed[d]
    <3>1. unregister(d) /\ closed' = [closed EXCEPT ![d] = TRUE]
      BY <2>1 DEF SlowConsumer
    <3>2. d # c
      BY <1>t, <3>1 DEF Open
    <3> QED BY <1>2, <3>1, <3>2
  <2>2. CASE ~(SlowConsumer(d) /\ ~closed[d])
    BY <1>3, <2>2 DEF broadcastChat, EnqueueChat, SlowConsumer, roomVars
  <2> QED BY <2>1, <2>2
<1>4. ASSUME NEW d \in Clients, ServeReturns(d) PROVE c \in members'[r]
  <2>1. d # c /\ unregister(d)
    BY <1>t, <1>4 DEF ServeReturns, Open
  <2> QED BY <1>2, <2>1
<1>5. ASSUME NEW d \in Clients, NEW last, Connect(d, last) PROVE c \in members'[r]
  <2>1. members' = [members EXCEPT ![room'] = @ \cup {d}]
    BY <1>5 DEF Connect, register
  <2> QED BY <1>t, <2>1
<1>6. \/ UNCHANGED members
      \/ \E d \in Clients : broadcastChat(d) \/ ServeReturns(d)
           \/ \E last \in Messages \cup {0} : Connect(d, last)
  BY DEF Next, Consume, Store, Record, FetchMessage, Snapshot, CommitMessages, RunChatConsumer,
     dropRoom, Bootstrap, GetHistory, EnqueueReplay, PageDone, FinishResume, ResumeStatus,
     enqueueChatAck, readPump, writePump, WriterFails, WriterStops, roomVars, vars
<1> QED BY <1>1, <1>3, <1>4, <1>5, <1>6

(* A client that is still open after its turn has the record.              *)
LEMMA BroadcastGives ==
  ASSUME HubTypes, SeenKept, NEW c \in Clients, broadcastChat(c), Open(c)'
  PROVE  log[next] \in Got(c)'
<1> DEFINE m == log[next]
<1>1. m \in stored /\ m \in Messages
  BY RecordStored DEF broadcastChat, HubTypes
<1>2. QueueMoves(c) /\ UNCHANGED delivered /\ EnqueueChat(c, m)
  BY BroadcastQueues DEF HubTypes, broadcastChat
<1>3. CASE Duplicate(c, m)
  <2>1. m \in Got(c)
    BY <1>3 DEF SeenKept, Duplicate
  <2> QED BY <1>1, <1>2, <2>1, GotMove DEF HubTypes
<1>4. CASE ~Duplicate(c, m) /\ SlowConsumer(c)
  <2>1. closed' = [closed EXCEPT ![c] = TRUE] \/ (closed[c] /\ UNCHANGED closed)
    BY <1>4 DEF SlowConsumer
  <2>2. closed'[c]
    BY <2>1 DEF HubTypes, RoomTypes
  <2> QED BY <2>2 DEF Open
<1>5. CASE ~Duplicate(c, m) /\ ~SlowConsumer(c)
  <2>1. /\ rememberMessageLocked(c, m)
        /\ \/ pending' = [pending EXCEPT ![c] = Append(@, m)] /\ UNCHANGED send
           \/ send' = [send EXCEPT ![c] = Append(@, m)] /\ UNCHANGED pending
    BY <1>2, <1>5 DEF EnqueueChat
  <2> HIDE DEF m
  <2>2. Sent(c, m) \/ Held(c, m)
    BY <1>2, <1>5, <2>1, RememberIs DEF HubTypes, QueueTypes, Sent, Held, Duplicate
  <2> QED BY <1>1, <2>2, GotSent DEF HubTypes, m
<1> QED BY <1>3, <1>4, <1>5

(* What was seen is still there after every step.                          *)
LEMMA SeenKeptStep == HubTypes /\ SeenKept /\ [Next]_vars => SeenKept'
BY QueueCases, GotMove DEF SeenKept, HubTypes

(* Every step serves a client that was open before it.                     *)
LEMMA ServedStep ==
  ASSUME HubInv, [Next]_vars, NEW c \in Clients, Open(c), Open(c)', since'[c] = since[c],
         since[c] < next'
  PROVE  Served(c)'
<1>t. HubTypes /\ HubTypes' /\ LogTypes /\ LogTypes'
  BY HubTypesStep DEF HubInv, HubTypes
<1>k. QueueMoves(c)
  BY <1>t, QueueCases DEF HubTypes
<1>g. \A m \in Messages : m \in Got(c) => m \in Got(c)'
  BY <1>t, <1>k, GotMove DEF HubTypes
<1>m. \A r \in Clients : c \in members[r] => c \in members'[r]
  BY <1>t, MembersKept
<1>1. CASE UNCHANGED <<next, consumer>>
  <2>1. Served(c)
    BY <1>1 DEF HubInv, Serving
  <2>2. CASE consumer.at = "lookup"
    BY <1>1, <1>m, <1>t, <2>1, <2>2 DEF Served, LogTypes
  <2>3. CASE consumer.at = "fanout"
    <3>1. next \in 1..Len(log) /\ log[next] \in Messages
      BY <1>t, <2>3 DEF LogTypes
    <3>2. log'[next] = log[next]
      BY <1>t, <3>1, LogStep, LogKept DEF LogTypes
    <3> QED BY <1>1, <1>g, <2>1, <2>3, <3>1, <3>2 DEF Served
  <2> QED BY <1>1, <2>2, <2>3 DEF Served
<1>2. CASE FetchMessage
  <2>1. consumer' = [at |-> "lookup", room |-> room, left |-> {}] /\ members' = members
    BY <1>2 DEF FetchMessage, roomVars
  <2>2. room # NoRoom /\ c \in members[room]
    BY DEF HubInv, RoomInv, RoomHoldsClients
  <2> QED BY <2>1, <2>2 DEF Served
<1>3. CASE Snapshot
  <2>1. /\ consumer.at = "lookup" /\ next' = next
        /\ consumer' = [at |-> "fanout", room |-> consumer.room,
                  left |-> IF consumer.room = NoRoom THEN {} ELSE members[consumer.room]]
    BY <1>3 DEF Snapshot
  <2>2. consumer.room # NoRoom /\ c \in members[consumer.room]
    BY <2>1 DEF HubInv, Serving, Served
  <2>3. consumer'.at = "fanout" /\ c \in consumer'.left
    BY <2>1, <2>2
  <2> QED BY <2>3 DEF Served
<1>4. ASSUME NEW d \in Clients, broadcastChat(d) PROVE Served(c)'
  <2>1. /\ consumer.at = "fanout" /\ UNCHANGED <<log, next>>
        /\ consumer' = [consumer EXCEPT !.left = @ \ {d}]
    BY <1>4 DEF broadcastChat, chatVars
  <2>2. consumer'.at = "fanout" /\ consumer'.left = consumer.left \ {d}
    BY <1>t, <2>1 DEF LogTypes
  <2>3. CASE d = c
    <3>1. log[next] \in Got(c)'
      BY <1>4, <1>t, <2>3, BroadcastGives DEF HubInv
    <3> QED BY <2>1, <2>2, <3>1 DEF Served
  <2>4. CASE d # c
    <3>1. log[next] \in Messages
      BY <1>t, <2>1, RecordStored
    <3>2. c \in consumer.left \/ log[next] \in Got(c)
      BY <2>1 DEF HubInv, Serving, Served
    <3> QED BY <1>g, <2>1, <2>2, <2>4, <3>1, <3>2 DEF Served
  <2> QED BY <2>3, <2>4
<1>5. CASE CommitMessages \/ RunChatConsumer
  <2>1. consumer'.at = "idle"
    BY <1>5, <1>t DEF CommitMessages, RunChatConsumer, LogTypes
  <2> QED BY <2>1 DEF Served
<1>6. UNCHANGED <<next, consumer>> \/ FetchMessage \/ Snapshot
      \/ (\E d \in Clients : broadcastChat(d)) \/ CommitMessages \/ RunChatConsumer
  BY DEF Next, Consume, Store, Record, dropRoom, Connect, Bootstrap, GetHistory, EnqueueReplay,
     PageDone, FinishResume, ResumeStatus, enqueueChatAck, readPump, writePump, WriterFails,
     WriterStops, ServeReturns, consumerVars, vars
<1> QED BY <1>1, <1>2, <1>3, <1>4, <1>5, <1>6
(* A client that connects is owed nothing yet.                             *)
LEMMA ConnectOwed ==
  ASSUME HubTypes, NEW c \in Clients, NEW last, Connect(c, last)
  PROVE  /\ UNCHANGED <<log, next, consumer>>
         /\ since'[c] = IF consumer.at = "idle" THEN next - 1 ELSE next
BY DEF HubTypes, LogTypes, Connect, chatVars, consumerVars

(* Every step serves every open client.                                    *)
LEMMA ServingStep == HubInv /\ [Next]_vars => Serving'
<1> SUFFICES ASSUME HubInv, [Next]_vars, NEW c \in Clients, Open(c)', since'[c] < next'
             PROVE  Served(c)'
  BY DEF Serving
<1>1. CASE Open(c) /\ since'[c] = since[c]
  BY <1>1, ServedStep
<1>2. ASSUME NEW last \in Messages \cup {0}, Connect(c, last) PROVE Served(c)'
  <2>1. UNCHANGED <<next, consumer>> /\ (consumer.at # "idle" => since'[c] = next)
    BY <1>2, ConnectOwed DEF HubInv
  <2>2. consumer.at = "idle"
    BY <2>1 DEF HubInv, HubTypes, LogTypes
  <2> QED BY <2>1, <2>2 DEF Served
<1> QED BY <1>1, <1>2, OpenBefore DEF HubInv

(* How the consumer's position may move: on by one record, when every      *)
(* client was served, or back.                                             *)
LEMMA NextMoves ==
  ASSUME LogTypes, [Next]_vars
  PROVE  next' <= next \/ (next' = next + 1 /\ consumer.at = "fanout" /\ consumer.left = {})
<1>1. UNCHANGED next \/ CommitMessages \/ RunChatConsumer
  BY DEF Next, Consume, Store, Record, FetchMessage, Snapshot, broadcastChat, dropRoom, Connect,
     Bootstrap, GetHistory, EnqueueReplay, PageDone, FinishResume, ResumeStatus, enqueueChatAck,
     readPump, writePump, WriterFails, WriterStops, ServeReturns, consumerVars, vars
<1> QED BY <1>1 DEF LogTypes, CommitMessages, RunChatConsumer

(* The bounds of a position.                                               *)
LEMMA Between ==
  ASSUME NEW a \in Nat, NEW b \in Nat, NEW k \in (a + 1)..(b - 1)
  PROVE  k \in Nat /\ k > a /\ k < b
OBVIOUS

(* Every step leaves open clients with every record since they registered. *)
LEMMA LiveStep == HubInv /\ [Next]_vars => LiveNotMissed'
<1> SUFFICES ASSUME HubInv, [Next]_vars, NEW c \in Clients, Open(c)',
                    NEW k \in (since'[c] + 1)..(next' - 1)
             PROVE  log'[k] \in Got(c)'
  BY DEF LiveNotMissed
<1>t. HubTypes /\ LogTypes /\ LogTypes' /\ QueueTypes
  BY HubTypesStep DEF HubInv, HubTypes
<1>n. since'[c] \in Nat /\ next \in Nat /\ next' \in Nat /\ Len(log) \in Nat /\ next <= Len(log) + 1
  BY <1>t DEF LogTypes
<1>k. k \in Nat /\ k > since'[c] /\ k < next'
  BY <1>n, Between
<1>1. CASE Open(c) /\ since'[c] = since[c]
  <2>0. since'[c] = since[c] /\ since[c] \in Nat
    BY <1>1, <1>n
  <2>1. CASE k <= next - 1
    <3>1. log[k] \in Got(c)
      BY <1>1, <1>n, <2>1 DEF HubInv, LiveNotMissed
    <3>2. k \in 1..Len(log)
      BY <1>n, <2>1
    <3>3. log[k] \in Messages /\ log'[k] = log[k]
      BY <1>t, <3>2, LogStep, LogKept DEF LogTypes
    <3> QED BY <1>t, <3>1, <3>3, QueueCases, GotMove DEF HubTypes
  <2>2. CASE ~(k <= next - 1)
    <3>1. k = next /\ consumer.at = "fanout" /\ consumer.left = {} /\ since[c] < next
      <4>1. next' <= next \/ (next' = next + 1 /\ consumer.at = "fanout" /\ consumer.left = {})
        BY <1>t, NextMoves
      <4>2. k > since[c]
        BY <1>k, <2>0
      <4>3. ~(next' <= next)
        BY <1>k, <1>n, <2>2
      <4>4. k = next /\ since[c] < next
        BY <1>k, <1>n, <2>0, <2>2, <4>1, <4>2, <4>3
      <4> QED BY <4>1, <4>3, <4>4
    <3>2. log[k] \in Got(c)
      BY <1>1, <3>1 DEF HubInv, Serving, Served
    <3>3. k \in 1..Len(log)
      BY <1>t, <3>1 DEF LogTypes
    <3>4. log[k] \in Messages /\ log'[k] = log[k]
      BY <1>t, <3>3, LogStep, LogKept DEF LogTypes
    <3> QED BY <1>t, <3>2, <3>4, QueueCases, GotMove DEF HubTypes
  <2> QED BY <2>1, <2>2
<1>2. ASSUME NEW last \in Messages \cup {0}, Connect(c, last) PROVE FALSE
  <2>1. next' = next /\ since'[c] = IF consumer.at = "idle" THEN next - 1 ELSE next
    BY <1>2, <1>t, ConnectOwed
  <2> QED BY <1>n, <2>1
<1> QED BY <1>1, <1>2, <1>t, OpenBefore

(* The invariant holds at first, ...                                       *)
LEMMA HubInit == Init => HubInv
<1> SUFFICES ASSUME Init PROVE HubInv
  OBVIOUS
<1>1. RoomInv /\ RoomTypes
  BY DEF Init, RoomInv, RoomTypes, RoomHoldsClients, Open, Places
<1>2. LogTypes
  BY DEF Init, LogTypes, recorded, stored, Range
<1>3. QueueTypes
  BY DEF Init, QueueTypes
<1>4. ReplayTypes
  <2>1. NewReplay(0) \in Replay
    BY DEF NewReplay, Replay
  <2>2. Range(NewReplay(0).page) = {}
    BY DEF NewReplay, Range
  <2> QED BY <2>1, <2>2 DEF Init, ReplayTypes
<1>5. SeenKept /\ Serving /\ LiveNotMissed
  BY DEF Init, SeenKept, Serving, LiveNotMissed, Open, Range
<1> QED BY <1>1, <1>2, <1>3, <1>4, <1>5 DEF HubInv, HubTypes

(* ... and every step keeps it.                                            *)
LEMMA HubStep == HubInv /\ [Next]_vars => HubInv'
BY HubTypesStep, RoomStep, SeenKeptStep, ServingStep, LiveStep DEF HubInv

(* The consumer fans a record out from a copy of the room's clients, one   *)
(* client at a time, while others connect, replay, fall behind and leave:  *)
(* an open client has every record taken up after it registered.           *)
THEOREM HubLiveNotMissed == Spec => []LiveNotMissed
<1>1. HubInv => LiveNotMissed
  BY DEF HubInv
<1> QED BY <1>1, HubInit, HubStep, PTL DEF Spec
----------------------------------------------------------------------------
(* No message twice.                                                       *)

\* A queue holds no message twice, and two queues none in common.
Distinct(q) == \A i, j \in DOMAIN q : q[i] = q[j] => q[i] = Notice \/ i = j
Apart(p, q) == Range(p) \cap Range(q) \subseteq {Notice}

(* A queue stays without repetition when something new is appended ...     *)
LEMMA DistinctAppend ==
  ASSUME NEW S, NEW s \in Seq(S), NEW m \in S, Distinct(s), m \notin Range(s) \/ m = Notice
  PROVE  Distinct(Append(s, m))
<1>1. /\ DOMAIN Append(s, m) = 1..(Len(s) + 1) /\ DOMAIN s = 1..Len(s) /\ Len(s) \in Nat
      /\ Append(s, m)[Len(s) + 1] = m /\ \A i \in 1..Len(s) : Append(s, m)[i] = s[i]
  OBVIOUS
<1>2. \A i \in 1..(Len(s) + 1) : i \in 1..Len(s) \/ i = Len(s) + 1
  BY <1>1
<1>3. m # Notice => \A i \in 1..Len(s) : s[i] # m
  BY <1>1 DEF Range
<1> QED BY <1>1, <1>2, <1>3 DEF Distinct

(* ... and when its head is taken, which is then in it no more.            *)
LEMMA DistinctTail ==
  ASSUME NEW S, NEW s \in Seq(S), s # <<>>, Distinct(s)
  PROVE  Distinct(Tail(s)) /\ (Head(s) # Notice => Head(s) \notin Range(Tail(s)))
<1>1. /\ Len(s) \in Nat /\ Len(s) >= 1 /\ DOMAIN s = 1..Len(s) /\ Head(s) = s[1]
      /\ DOMAIN Tail(s) = 1..(Len(s) - 1)
      /\ \A i \in 1..(Len(s) - 1) : Tail(s)[i] = s[i + 1]
  OBVIOUS
<1>2. \A i \in 1..(Len(s) - 1) : i + 1 \in 1..Len(s) /\ i + 1 # 1
  BY <1>1
<1>3. ASSUME NEW i \in 1..(Len(s) - 1), NEW j \in 1..(Len(s) - 1), Tail(s)[i] = Tail(s)[j]
      PROVE  Tail(s)[i] = Notice \/ i = j
  <2>1. s[i + 1] = s[j + 1] /\ i + 1 \in DOMAIN s /\ j + 1 \in DOMAIN s
    BY <1>1, <1>2, <1>3
  <2>2. s[i + 1] = Notice \/ i + 1 = j + 1
    BY <2>1 DEF Distinct
  <2> QED BY <1>1, <2>2
<1>4. Distinct(Tail(s))
  BY <1>1, <1>3 DEF Distinct
<1>5. ASSUME Head(s) # Notice, NEW i \in 1..(Len(s) - 1), Tail(s)[i] = Head(s) PROVE FALSE
  <2>1. s[i + 1] = s[1] /\ i + 1 \in DOMAIN s /\ 1 \in DOMAIN s /\ i + 1 # 1
    BY <1>1, <1>2, <1>5
  <2> QED BY <1>1, <1>5, <2>1 DEF Distinct
<1> QED BY <1>1, <1>4, <1>5 DEF Range

(* A window as large as the set of messages forgets none of them.          *)
LEMMA NoEviction ==
  ASSUME NEW T \in SUBSET Messages, IsFiniteSet(T), Cardinality(T) <= MessageDedupSize,
         NEW s \in Seq(Messages), Range(s) \subseteq T, Distinct(s),
         NEW m \in T, m \notin Range(s)
  PROVE  Remembered(s, m) = Append(s, m)
<1> DEFINE all == Append(s, m)
<1>1. all \in Seq(Messages) /\ Range(all) \subseteq T
  BY RangeAppend
<1>2. Distinct(all)
  BY DistinctAppend
<1> HIDE DEF all
<1>3. Len(all) \in Nat /\ DOMAIN all = 1..Len(all) /\ all \in [1..Len(all) -> Messages]
  BY <1>1
<1>4. all \in [1..Len(all) -> T]
  BY <1>1, <1>3 DEF Range
<1>5. \A i, j \in 1..Len(all) : all[i] = all[j] => i = j
  <2>1. \A i \in 1..Len(all) : all[i] # Notice
    BY <1>3, HubAssumption DEF Notice
  <2> QED BY <1>2, <1>3, <2>1 DEF Distinct
<1>6. all \in Injection(1..Len(all), T)
  BY <1>4, <1>5 DEF Injection, IsInjective
<1>7. Cardinality(1..Len(all)) <= Cardinality(T)
  BY <1>6, FS_Injection
<1>8. Cardinality(1..Len(all)) = Len(all)
  <2>1. ASSUME NEW n \in Nat PROVE Cardinality(1..n) = n
    <3>1. Cardinality(1..n) = IF 1 > n THEN 0 ELSE n - 1 + 1
      BY FS_Interval
    <3> QED BY <3>1
  <2> QED BY <1>3, <2>1
<1>9. Cardinality(T) \in Nat
  BY FS_CardinalityType
<1>10. ~(Len(all) - MessageDedupSize > 0)
  BY <1>3, <1>7, <1>8, <1>9, HubAssumption
<1> QED BY <1>10 DEF Remembered, all

(* The stored messages are finitely many, and none is forgotten.           *)
LEMMA StoredGrows ==
  ASSUME LogTypes, [Next]_vars
  PROVE  /\ stored \subseteq stored' /\ IsFiniteSet(stored') /\ stored' \subseteq Messages
         /\ Cardinality(stored) <= Cardinality(stored')
         /\ Cardinality(stored) \in Nat /\ Cardinality(stored') \in Nat
<1>1. stored \subseteq stored' /\ history' \in Seq(Messages)
  BY LogStep, LogKept DEF LogTypes
<1>2. ASSUME NEW s \in Seq(Messages) PROVE IsFiniteSet(Range(s))
  <2>1. Len(s) \in Nat /\ s \in [1..Len(s) -> Range(s)] /\ DOMAIN s = 1..Len(s)
    BY DEF Range
  <2>2. s \in Surjection(1..Len(s), Range(s))
    BY <2>1 DEF Surjection, Range
  <2>3. IsFiniteSet(1..Len(s))
    BY <2>1, FS_Interval
  <2> QED BY <2>2, <2>3, FS_Surjection
<1>3. IsFiniteSet(stored) /\ IsFiniteSet(stored') /\ stored' \subseteq Messages
  BY <1>1, <1>2, RangeIn DEF stored, LogTypes
<1> QED BY <1>1, <1>3, FS_Subset, FS_CardinalityType
(* What a client has, it has once, and has seen.                           *)
Once(c) ==
  /\ Range(seen[c]) \subseteq stored
  /\ \A m \in Messages : m \in Got(c) => m \in Range(seen[c])
  /\ Distinct(seen[c]) /\ Distinct(delivered[c]) /\ Distinct(send[c]) /\ Distinct(pending[c])
  /\ Apart(delivered[c], send[c]) /\ Apart(delivered[c], pending[c]) /\ Apart(send[c], pending[c])
OnceInv == Cardinality(stored) <= MessageDedupSize => \A c \in Clients : Once(c)

(* A new message is queued or held back once.                              *)
LEMMA OnceSent ==
  ASSUME LogTypes, QueueTypes, NEW c \in Clients, Once(c), stored \subseteq stored',
         NEW m \in stored, Sent(c, m) \/ Held(c, m), Remembered(seen[c], m) = Append(seen[c], m)
  PROVE  Once(c)'
<1>0. /\ pending[c] \in Seq(Messages) /\ send[c] \in Seq(Messages \cup {Notice})
      /\ seen[c] \in Seq(Messages)
  BY DEF QueueTypes
<1>1. m \in Messages /\ m \notin Range(seen[c]) /\ m \notin Got(c)
  BY RangeIn DEF stored, LogTypes, Once, Sent, Held
<1>2. Distinct(seen'[c]) /\ Range(seen'[c]) = Range(seen[c]) \cup {m}
  <2>1. seen'[c] = Append(seen[c], m)
    BY DEF Sent, Held
  <2> QED BY <1>0, <1>1, <2>1, DistinctAppend, RangeAppend DEF Once
<1>3. CASE Sent(c, m)
  <2>1. /\ send'[c] = Append(send[c], m) /\ pending'[c] = pending[c]
        /\ delivered'[c] = delivered[c]
    BY <1>3 DEF Sent
  <2>2. m \notin Range(send[c]) /\ m \notin Range(pending[c]) /\ m \notin Range(delivered[c])
    BY <1>1 DEF Got
  <2>3. Distinct(send'[c]) /\ Range(send'[c]) = Range(send[c]) \cup {m}
    BY <1>0, <1>1, <2>1, <2>2, DistinctAppend, RangeAppend DEF Once
  <2>4. \A n \in Messages : n \in Got(c)' => n \in Got(c) \/ n = m
    BY <2>1, <2>3 DEF Got
  <2> QED BY <1>2, <2>1, <2>2, <2>3, <2>4 DEF Once, Apart
<1>4. CASE Held(c, m)
  <2>1. /\ pending'[c] = Append(pending[c], m) /\ send'[c] = send[c]
        /\ delivered'[c] = delivered[c]
    BY <1>4 DEF Held
  <2>2. m \notin Range(send[c]) /\ m \notin Range(pending[c]) /\ m \notin Range(delivered[c])
    BY <1>1 DEF Got
  <2>3. Distinct(pending'[c]) /\ Range(pending'[c]) = Range(pending[c]) \cup {m}
    BY <1>0, <1>1, <2>1, <2>2, DistinctAppend, RangeAppend DEF Once
  <2>4. \A n \in Messages : n \in Got(c)' => n \in Got(c) \/ n = m
    BY <2>1, <2>3 DEF Got
  <2> QED BY <1>2, <2>1, <2>2, <2>3, <2>4 DEF Once, Apart
<1> QED BY <1>3, <1>4

(* A message that was held back is passed on, and held back no more.       *)
LEMMA OnceFlushed ==
  ASSUME QueueTypes, NEW c \in Clients, Once(c), stored \subseteq stored', Flushed(c)
  PROVE  Once(c)'
<1> DEFINE m == Head(pending[c])
<1>0. /\ pending[c] \in Seq(Messages) /\ send[c] \in Seq(Messages \cup {Notice})
      /\ pending[c] # <<>>
  BY DEF QueueTypes, Flushed
<1>1. m \in Messages /\ Range(pending[c]) = Range(Tail(pending[c])) \cup {m}
  BY <1>0, RangeTail
<1>2. Distinct(Tail(pending[c])) /\ m \notin Range(Tail(pending[c]))
  BY <1>0, <1>1, DistinctTail, HubAssumption DEF Once, Notice
<1>3. /\ pending'[c] = Tail(pending[c]) /\ send'[c] = Append(send[c], m)
      /\ delivered'[c] = delivered[c] /\ seen'[c] = Remembered(seen[c], m)
  BY DEF Flushed
<1> HIDE DEF m
<1>4. m \in Range(seen[c]) /\ m \notin Range(send[c]) /\ m \notin Range(delivered[c])
  BY <1>1, HubAssumption DEF Once, Got, Apart, Notice
<1>5. seen'[c] = seen[c]
  BY <1>3, <1>4 DEF Remembered
<1>6. Distinct(send'[c]) /\ Range(send'[c]) = Range(send[c]) \cup {m}
  BY <1>0, <1>1, <1>3, <1>4, DistinctAppend, RangeAppend DEF Once
<1>7. \A n \in Messages : n \in Got(c)' => n \in Got(c)
  BY <1>1, <1>3, <1>6 DEF Got
<1> QED BY <1>1, <1>2, <1>3, <1>4, <1>5, <1>6, <1>7 DEF Once, Apart

(* A notice is no message, and a message that is written leaves the queue. *)
LEMMA OnceWritten ==
  ASSUME QueueTypes, NEW c \in Clients, Once(c), stored \subseteq stored',
         Noticed(c) \/ Wrote(c)
  PROVE  Once(c)'
<1>0. /\ send[c] \in Seq(Messages \cup {Notice}) /\ delivered[c] \in Seq(Messages)
      /\ Notice \notin Messages
  BY HubAssumption DEF QueueTypes, Notice
<1>1. CASE Noticed(c)
  <2>1. Distinct(Append(send[c], Notice)) /\ Range(Append(send[c], Notice)) = Range(send[c]) \cup {Notice}
    BY <1>0, DistinctAppend, RangeAppend DEF Once
  <2>2. /\ Distinct(send'[c]) /\ Range(send'[c]) = Range(send[c]) \cup {Notice}
        /\ pending'[c] = pending[c] /\ delivered'[c] = delivered[c] /\ seen'[c] = seen[c]
    BY <1>1, <2>1 DEF Noticed
  <2>3. \A n \in Messages : n \in Got(c)' => n \in Got(c)
    BY <1>0, <2>2 DEF Got
  <2> QED BY <2>2, <2>3 DEF Once, Apart
<1>2. CASE Wrote(c)
  <2> DEFINE m == Head(send[c])
  <2>1. /\ Distinct(Tail(send[c])) /\ (m # Notice => m \notin Range(Tail(send[c])))
        /\ Range(send[c]) = Range(Tail(send[c])) \cup {m} /\ m \in Messages \cup {Notice}
    BY <1>0, <1>2, DistinctTail, RangeTail DEF Once, Wrote
  <2>2. m # Notice => m \notin Range(delivered[c]) /\ m \notin Range(pending[c])
    BY <2>1 DEF Once, Apart
  <2>3. m # Notice => /\ Distinct(Append(delivered[c], m))
                      /\ Range(Append(delivered[c], m)) = Range(delivered[c]) \cup {m}
    BY <1>0, <2>1, <2>2, DistinctAppend, RangeAppend DEF Once
  <2>4. /\ send'[c] = Tail(send[c]) /\ pending'[c] = pending[c] /\ seen'[c] = seen[c]
        /\ delivered'[c] = IF m = Notice THEN delivered[c] ELSE Append(delivered[c], m)
    BY <1>2 DEF Wrote
  <2> HIDE DEF m
  <2>5. CASE m = Notice
    <3>1. \A n \in Messages : n \in Got(c)' => n \in Got(c)
      BY <2>1, <2>4, <2>5 DEF Got
    <3> QED BY <2>1, <2>4, <2>5, <3>1 DEF Once, Apart
  <2>6. CASE m # Notice
    <3>1. \A n \in Messages : n \in Got(c)' => n \in Got(c)
      BY <2>1, <2>3, <2>4, <2>6 DEF Got
    <3>2. Distinct(delivered'[c]) /\ Range(delivered'[c]) = Range(delivered[c]) \cup {m}
      BY <2>3, <2>4, <2>6
    <3> QED BY <2>1, <2>2, <2>4, <2>6, <3>1, <3>2 DEF Once, Apart
  <2> QED BY <2>5, <2>6
<1> QED BY <1>1, <1>2

(* Every step keeps what a client has without repetition, while the window *)
(* holds every message of the lesson.                                      *)
LEMMA OnceStep == HubTypes /\ OnceInv /\ [Next]_vars => OnceInv'
<1> SUFFICES ASSUME HubTypes, OnceInv, [Next]_vars, Cardinality(stored') <= MessageDedupSize,
                    NEW c \in Clients
             PROVE  Once(c)'
  BY DEF OnceInv, stored
<1>1. LogTypes /\ QueueTypes /\ ReplayTypes
  BY DEF HubTypes
<1>2. /\ stored \subseteq stored' /\ Cardinality(stored) <= MessageDedupSize
      /\ IsFiniteSet(stored') /\ stored' \subseteq Messages
  BY <1>1, StoredGrows, HubAssumption
<1>3. Once(c)
  BY <1>2 DEF OnceInv
<1>4. CASE Kept(c)
  <2>1. Got(c)' = Got(c)
    BY <1>4 DEF Kept, Got
  <2> QED BY <1>2, <1>3, <1>4, <2>1 DEF Kept, Once
<1>5. ASSUME NEW m \in stored, Sent(c, m) \/ Held(c, m) PROVE Once(c)'
  <2>1. Remembered(seen[c], m) = Append(seen[c], m)
    <3>1. /\ seen[c] \in Seq(Messages) /\ Range(seen[c]) \subseteq stored' /\ Distinct(seen[c])
          /\ m \in stored' /\ m \notin Range(seen[c])
      BY <1>1, <1>2, <1>3, <1>5 DEF QueueTypes, Once, Sent, Held
    <3> QED BY <1>2, <3>1, NoEviction
  <2> QED BY <1>1, <1>2, <1>3, <1>5, <2>1, OnceSent
<1> QED BY <1>1, <1>2, <1>3, <1>4, <1>5, QueueCases, OnceFlushed, OnceWritten DEF QueueMoves

(* Three queues without repetition and with nothing in common.             *)
LEMMA OnceMeansNoDuplicates == (\A c \in Clients : Once(c)) => NoDuplicates
<1> SUFFICES ASSUME NEW c \in Clients, Once(c),
                    NEW p \in 1..3, NEW q \in 1..3
             PROVE  LET queues == <<delivered[c], send[c], pending[c]>> IN
                    \A i \in DOMAIN queues[p], j \in DOMAIN queues[q] :
                      queues[p][i] = queues[q][j] => queues[p][i] = Notice \/ (p = q /\ i = j)
  BY DEF NoDuplicates
<1>1. p \in {1, 2, 3} /\ q \in {1, 2, 3}
  OBVIOUS
<1>2. ASSUME NEW f, NEW g, Apart(f, g), NEW i \in DOMAIN f, NEW j \in DOMAIN g, f[i] = g[j]
      PROVE  f[i] = Notice
  BY <1>2 DEF Apart, Range
<1>3. ASSUME NEW f, Distinct(f), NEW i \in DOMAIN f, NEW j \in DOMAIN f, f[i] = f[j]
      PROVE  f[i] = Notice \/ i = j
  BY <1>3 DEF Distinct
<1>4. CASE p = q
  BY <1>1, <1>3, <1>4 DEF Once
<1>5. CASE p # q
  BY <1>1, <1>2, <1>5 DEF Once
<1> QED BY <1>4, <1>5

(* A lesson whose messages fit into the deduplication window: no client    *)
(* receives one of them twice, whatever is repeated, re-read from an old   *)
(* offset, or replayed while it is also received live.                     *)
THEOREM HubNoDuplicates ==
  Spec => [](Cardinality(stored) <= MessageDedupSize => NoDuplicates)
<1>1. Init => OnceInv
  BY DEF Init, OnceInv, Once, Got, Distinct, Apart, Range
<1>2. OnceInv => (Cardinality(stored) <= MessageDedupSize => NoDuplicates)
  BY OnceMeansNoDuplicates DEF OnceInv
<1>3. HubInv => HubTypes
  BY DEF HubInv
<1> QED BY <1>1, <1>2, <1>3, HubInit, HubStep, OnceStep, PTL DEF Spec
----------------------------------------------------------------------------
(* A resumed client, when messages are stored in the order they have.      *)

(* A set of natural numbers that is not empty has a least member.          *)
LEMMA LeastOf ==
  ASSUME NEW T \in SUBSET Nat, T # {}
  PROVE  \E x \in T : \A y \in T : x <= y
<1> DEFINE R == OpToRel(<, Nat)
<1>0. IsWellFoundedOn(R, Nat)
  BY NatLessThanWellFounded
<1>1. \A x, y \in Nat : <<x, y>> \in R <=> x < y
  BY DEF OpToRel
<1> HIDE DEF R
<1>2. PICK x \in T : \A y \in T : ~(<<y, x>> \in R)
  BY <1>0, WFMin
<1>3. \A y \in T : ~(y < x) /\ y \in Nat /\ x \in Nat
  BY <1>1, <1>2
<1> QED BY <1>3

(* The first record of a message.                                          *)
LEMMA FirstIs ==
  ASSUME log \in Seq(Messages), NEW m \in recorded
  PROVE  /\ First(m) \in 1..Len(log) /\ log[First(m)] = m
         /\ \A j \in 1..(First(m) - 1) : log[j] # m
<1> DEFINE T == {k \in 1..Len(log) : log[k] = m}
           P(k) == log[k] = m /\ \A j \in 1..(k - 1) : log[j] # m
<1>1. DOMAIN log = 1..Len(log) /\ Len(log) \in Nat
  OBVIOUS
<1>2. T \subseteq Nat /\ T # {}
  BY <1>1 DEF recorded, Range
<1>3. PICK x \in T : \A y \in T : x <= y
  BY <1>2, LeastOf
<1>4. x \in 1..Len(log) /\ log[x] = m
  BY <1>3
<1>5. ASSUME NEW j \in 1..(x - 1), log[j] = m PROVE FALSE
  <2>1. j \in 1..Len(log) /\ ~(x <= j)
    BY <1>1, <1>4
  <2> QED BY <1>3, <1>5, <2>1
<1>6. \E k \in 1..Len(log) : P(k)
  BY <1>4, <1>5
<1>7. First(m) = CHOOSE k \in 1..Len(log) : P(k)
  BY DEF First
<1> HIDE DEF P
<1>8. First(m) \in 1..Len(log) /\ P(First(m))
  BY <1>6, <1>7
<1> QED BY <1>8 DEF P

(* What the consumer has taken up is recorded.                             *)
LEMMA ReceivedIs ==
  ASSUME LogTypes, NEW m \in Received
  PROVE  m \in recorded /\ \E k \in 1..(next - 1) : k \in 1..Len(log) /\ log[k] = m
<1>1. next - 1 \in 0..Len(log) /\ Len(log) \in Nat /\ DOMAIN log = 1..Len(log)
  BY DEF LogTypes
<1>2. /\ DOMAIN SubSeq(log, 1, next - 1) = 1..(next - 1)
      /\ \A k \in 1..(next - 1) : SubSeq(log, 1, next - 1)[k] = log[k]
  <2> DEFINE n == next - 1
  <2>1. n \in 0..Len(log)
    BY <1>1
  <2> HIDE DEF n
  <2>2. /\ DOMAIN SubSeq(log, 1, n) = 1..n
        /\ \A k \in 1..n : SubSeq(log, 1, n)[k] = log[k]
    BY <1>1, <2>1 DEF LogTypes
  <2> QED BY <2>2 DEF n
<1>3. PICK k \in 1..(next - 1) : log[k] = m
  BY <1>2 DEF Received, Range
<1>4. k \in 1..Len(log)
  BY <1>1
<1> QED BY <1>1, <1>3, <1>4 DEF recorded, Range

(* When no message is stored late, the history ascends, what is recorded   *)
(* has nothing smaller left to record, and so first records ascend.        *)
HistoryAscends == \A i, j \in DOMAIN history : i < j => history[i] < history[j]
Fenced == \A n \in recorded, p \in stored : p < n => p \in recorded
Ascends ==
  \A k \in 1..Len(log) : (\A i \in 1..(k - 1) : log[i] # log[k]) =>
    \A j \in 1..(k - 1) : log[j] < log[k]
InOrder == HistoryAscends /\ Fenced /\ Ascends

(* A message finds all smaller ones in the history.                        *)
LEMMA PredecessorsAre ==
  ASSUME HistoryAscends, history \in Seq(Messages), NEW m \in stored, NEW p \in stored, p < m
  PROVE  p \in Predecessors(m)
<1>1. PICK i \in DOMAIN history : history[i] = m
  BY DEF stored, Range
<1>2. PICK j \in DOMAIN history : history[j] = p
  BY DEF stored, Range
<1>3. i \in Nat /\ j \in Nat /\ m \in Nat /\ p \in Nat
  <2>1. i \in Nat /\ j \in Nat
    BY <1>1, <1>2
  <2>2. stored \subseteq Messages
    BY RangeIn DEF stored
  <2> QED BY <2>1, <2>2, HubAssumption
<1>4. j < i
  <2>1. i < j => m < p
    BY <1>1, <1>2 DEF HistoryAscends
  <2>2. i # j
    BY <1>1, <1>2, <1>3
  <2> QED BY <1>3, <2>1, <2>2
<1> QED BY <1>1, <1>2, <1>4 DEF Predecessors

(* Every step keeps the order, when no message is stored late.             *)
LEMMA InOrderStep == ~Reordered /\ LogTypes /\ InOrder /\ [Next]_vars => InOrder'
<1> SUFFICES ASSUME ~Reordered, LogTypes, InOrder, [Next]_vars PROVE InOrder'
  OBVIOUS
<1>0. /\ Len(log) \in Nat /\ DOMAIN log = 1..Len(log) /\ log \in Seq(Messages)
      /\ Len(history) \in Nat /\ DOMAIN history = 1..Len(history) /\ history \in Seq(Messages)
      /\ recorded \subseteq stored
  BY DEF LogTypes
<1>n. Messages \subseteq Nat /\ stored \subseteq Nat
  BY <1>0, HubAssumption, RangeIn DEF stored
<1>1. CASE history' = history /\ log' = log
  BY <1>1 DEF InOrder, HistoryAscends, Fenced, Ascends, stored, recorded
<1>2. ASSUME NEW m \in Messages, Stores(m) PROVE InOrder'
  <2>1. history' = Append(history, m) /\ log' = log /\ \A n \in stored : n < m
    BY <1>2 DEF Stores
  <2>2. stored' = stored \cup {m} /\ recorded' = recorded
    BY <1>0, <2>1, RangeAppend DEF stored, recorded
  <2>3. /\ DOMAIN history' = 1..(Len(history) + 1) /\ history'[Len(history) + 1] = m
        /\ \A k \in 1..Len(history) : history'[k] = history[k] /\ history[k] \in stored
    BY <1>0, <2>1 DEF stored, Range
  <2>4. ASSUME NEW i \in DOMAIN history', NEW j \in DOMAIN history', i < j
        PROVE  history'[i] < history'[j]
    <3>1. i \in 1..Len(history)
      BY <1>0, <2>3, <2>4
    <3>2. CASE j \in 1..Len(history)
      BY <1>0, <2>3, <2>4, <3>1, <3>2 DEF InOrder, HistoryAscends
    <3>3. CASE j = Len(history) + 1
      BY <2>1, <2>3, <3>1, <3>3
    <3> QED BY <1>0, <2>3, <3>2, <3>3
  <2>5. ASSUME NEW n \in recorded', NEW p \in stored', p < n PROVE p \in recorded'
    <3>1. p # m
      <4>1. n < m /\ n \in Nat /\ m \in Nat
        BY <1>0, <1>n, <2>1, <2>2, <2>5
      <4>2. ~(m < n)
        BY <4>1
      <4> QED BY <2>5, <4>2
    <3> QED BY <2>2, <2>5, <3>1 DEF InOrder, Fenced
  <2>6. Ascends'
    BY <2>1 DEF InOrder, Ascends
  <2> QED BY <2>4, <2>5, <2>6 DEF InOrder, HistoryAscends, Fenced
<1>3. ASSUME NEW m \in Messages, Records(m) PROVE InOrder'
  <2>1. /\ log' = Append(log, m) /\ history' = history /\ stored' = stored
        /\ m \in stored /\ Predecessors(m) \subseteq recorded
    BY <1>3 DEF Records, stored
  <2>2. recorded' = recorded \cup {m}
    BY <1>0, <2>1, RangeAppend DEF recorded
  <2>3. \A p \in stored : p < m => p \in recorded
    BY <1>0, <2>1, PredecessorsAre DEF InOrder
  <2>4. Fenced'
    BY <2>1, <2>2, <2>3 DEF InOrder, Fenced
  <2>5. HistoryAscends'
    BY <2>1 DEF InOrder, HistoryAscends
  <2>6. /\ Len(log') = Len(log) + 1 /\ log'[Len(log) + 1] = m
        /\ \A k \in 1..Len(log) : log'[k] = log[k]
    BY <1>0, <2>1
  <2>7. ASSUME NEW k \in 1..(Len(log) + 1), \A i \in 1..(k - 1) : log'[i] # log'[k],
               NEW j \in 1..(k - 1)
        PROVE  log'[j] < log'[k]
    <3>1. k \in Nat /\ k >= 1 /\ j \in 1..Len(log) /\ \A i \in 1..(k - 1) : i \in 1..Len(log)
      BY <1>0
    <3>2. CASE k \in 1..Len(log)
      <4>1. \A i \in 1..(k - 1) : log[i] # log[k]
        BY <2>6, <2>7, <3>1, <3>2
      <4>2. log[j] < log[k]
        BY <3>2, <4>1 DEF InOrder, Ascends
      <4> QED BY <2>6, <3>1, <3>2, <4>2
    <3>3. CASE k = Len(log) + 1
      <4>1. \A i \in 1..Len(log) : log[i] # m
        BY <1>0, <2>6, <2>7, <3>3
      <4>2. m \notin recorded /\ log[j] \in recorded /\ log[j] # m
        BY <1>0, <3>1, <4>1 DEF recorded, Range
      <4>3. ~(m < log[j])
        BY <2>1, <4>2 DEF InOrder, Fenced
      <4>4. log[j] \in Nat /\ m \in Nat
        BY <1>0, <1>n, <2>1, <4>2
      <4>5. log[j] < m
        <5> DEFINE x == log[j]
        <5>1. x \in Nat /\ ~(m < x) /\ x # m
          BY <4>2, <4>3, <4>4
        <5> HIDE DEF x
        <5>2. x < m
          BY <4>4, <5>1
        <5> QED BY <5>2 DEF x
      <4> QED BY <2>6, <3>1, <3>3, <4>5
    <3> QED BY <1>0, <3>2, <3>3
  <2>8. Ascends'
    BY <2>6, <2>7 DEF Ascends
  <2> QED BY <2>4, <2>5, <2>8 DEF InOrder
<1> QED BY <1>1, <1>2, <1>3, LogStep DEF LogGrows

(* What a step may do to an open client's place and replay together.       *)
ResumeMoves(c) ==
  \/ at'[c] = at[c] /\ replay'[c] = replay[c]
  \/ at[c] \in {"flush", "status"} /\ at'[c] \in {"status", "serve"} /\ replay'[c] = replay[c]
  \/ Ended(c, "truncated") \/ Ended(c, "error")
  \/ \E page \in Seq(Messages) : PageRead(c, page)
  \/ HeadDone(c) /\ Head(replay[c].page) \in Got(c)'
  \/ /\ at[c] = "page" /\ replay[c].page = <<>>
     /\ \/ replay[c].more /\ at'[c] = "fetch" /\ replay'[c] = replay[c]
        \/ ~replay[c].more /\ Ended(c, "complete")

(* The head of a page is queued, or the client has it already.             *)
LEMMA HeadGot ==
  ASSUME HubTypes, SeenKept, NEW c \in Clients, EnqueueReplay(c), HeadDone(c)
  PROVE  Head(replay[c].page) \in Got(c)'
<1> DEFINE m == Head(replay[c].page)
<1>0. replay \in [Clients -> Replay] /\ at[c] = "page" /\ at'[c] = "page"
  BY DEF HubTypes, ReplayTypes, HeadDone
<1>1. /\ m \in Messages /\ m \in stored
  <2>1. replay[c].page \in Seq(Messages) /\ replay[c].page # <<>>
    BY <1>0 DEF HeadDone, Replay
  <2> QED BY <2>1, RangeTail DEF HubTypes, ReplayTypes
<1>2. ~EndReplay(c, "error")
  BY <1>0 DEF EndReplay, HubTypes, RoomTypes
<1>3. UNCHANGED <<pending, delivered>> /\ rememberMessageLocked(c, m)
      /\ send' = IF Duplicate(c, m) THEN send ELSE [send EXCEPT ![c] = Append(@, m)]
  BY <1>2 DEF EnqueueReplay
<1>4. QueueMoves(c)
  BY ReplayQueues DEF HubTypes
<1> HIDE DEF m
<1>5. CASE Duplicate(c, m)
  <2>1. m \in Got(c)
    BY <1>5 DEF SeenKept, Duplicate
  <2> QED BY <1>1, <1>4, <2>1, GotMove DEF HubTypes, m
<1>6. CASE ~Duplicate(c, m)
  <2>1. Sent(c, m)
    BY <1>3, <1>6, RememberIs DEF HubTypes, QueueTypes, Sent, Duplicate
  <2> QED BY <1>1, <2>1, GotSent DEF HubTypes, m
<1> QED BY <1>5, <1>6

(* Every step moves an open client in one of these ways.                   *)
LEMMA ResumeCases ==
  ASSUME HubInv, [Next]_vars, NEW c \in Clients, Open(c), Open(c)'
  PROVE  ResumeMoves(c)
<1>t. /\ HubTypes /\ LogTypes /\ RoomTypes /\ replay \in [Clients -> Replay] /\ SeenKept
      /\ at \in [Clients -> Places] /\ at[c] \notin {"new", "closing", "gone"}
      /\ at'[c] \notin {"new", "closing", "gone"} /\ DOMAIN replay = Clients
  BY DEF HubInv, HubTypes, ReplayTypes, RoomTypes, Open
<1>1. CASE UNCHANGED <<at, replay>>
  BY <1>1 DEF ResumeMoves
<1>2. CASE GetHistory(c)
  BY <1>2, <1>t, GetHistoryIs DEF ResumeMoves
<1>3. CASE EnqueueReplay(c)
  BY <1>3, <1>t, EnqueueReplayIs, HeadGot DEF ResumeMoves
<1>4. CASE PageDone(c)
  BY <1>4, <1>t DEF PageDone, EndReplay, Ended, ResumeMoves
<1>5. CASE FinishResume(c) \/ ResumeStatus(c)
  <2>1. at[c] \in {"flush", "status"} /\ UNCHANGED replay
    BY <1>5 DEF FinishResume, ResumeStatus
  <2>2. at'[c] = at[c] \/ at'[c] \in {"status", "serve"}
    BY <1>5, <1>t DEF FinishResume, ResumeStatus, Close
  <2> QED BY <2>1, <2>2 DEF ResumeMoves
<1>6. ASSUME NEW d \in Clients, d # c, Bootstrap(d) PROVE ResumeMoves(c)
  <2>1. at'[c] = at[c] /\ replay'[c] = replay[c]
    BY <1>6, <1>t DEF Bootstrap, GetHistory, EnqueueReplay, PageDone, FinishResume, ResumeStatus,
       EndReplay, Close
  <2> QED BY <2>1 DEF ResumeMoves
<1>7. ASSUME NEW d \in Clients, readPump(d) \/ ServeReturns(d)
      PROVE ResumeMoves(c)
  <2>1. at'[c] = at[c] /\ replay'[c] = replay[c]
    BY <1>7, <1>t DEF readPump, ServeReturns, Close
  <2> QED BY <2>1 DEF ResumeMoves
<1>8. ASSUME NEW d \in Clients, NEW last \in Messages \cup {0}, Connect(d, last)
      PROVE ResumeMoves(c)
  <2>1. at'[c] = at[c] /\ replay'[c] = replay[c]
    BY <1>8, <1>t DEF Connect
  <2> QED BY <2>1 DEF ResumeMoves
<1>9. \/ UNCHANGED <<at, replay>>
      \/ \E d \in Clients : Bootstrap(d) \/ readPump(d) \/ ServeReturns(d)
           \/ \E last \in Messages \cup {0} : Connect(d, last)
  BY DEF Next, Consume, Store, Record, FetchMessage, Snapshot, broadcastChat, CommitMessages,
     RunChatConsumer, dropRoom, enqueueChatAck, writePump, WriterFails, WriterStops, vars
<1> QED BY <1>1, <1>2, <1>3, <1>4, <1>5, <1>6, <1>7, <1>8, <1>9 DEF Bootstrap

(* A stored message after the last one of a client that is resumed without *)
(* a failure: the client has it, or it is on the page, or on a later page, *)
(* or the consumer takes up all of its records after the client            *)
(* registered.                                                             *)
Covered(c, m) ==
  \/ m \in Got(c)
  \/ at[c] = "page" /\ m \in Range(replay[c].page)
  \/ at[c] = "fetch" /\ replay[c].cursor < m
  \/ at[c] = "page" /\ replay[c].more /\ replay[c].cursor < m
  \/ \A k \in 1..since[c] : log[k] # m
Resumed(c) ==
  /\ replay[c].lastMessageID \in stored
  /\ \A m \in stored : replay[c].lastMessageID < m => Covered(c, m)
Resuming(c) == Open(c) /\ replay[c].lastMessageID # 0 /\ replay[c].outcome = "complete"
ResumeInv == \A c \in Clients : Resuming(c) => Resumed(c)

(* The message a page leaves out comes after the page.                     *)
LEMMA CoveredByPage ==
  ASSUME HubTypes, NEW c \in Clients, NEW page \in Seq(Messages), PageRead(c, page),
         NEW m \in stored, m \in Messages, replay[c].cursor < m
  PROVE  Covered(c, m)'
<1>1. m \in After(replay[c].cursor) /\ at'[c] = "page"
  BY DEF After, PageRead
<1>2. /\ replay'[c].page = page /\ replay'[c].more = (After(replay[c].cursor) # Range(page))
      /\ page # <<>> /\ replay'[c].cursor = Last(page)
  BY <1>1 DEF PageRead, HubTypes, ReplayTypes, Replay
<1>3. CASE m \in Range(page)
  BY <1>1, <1>2, <1>3 DEF Covered
<1>4. CASE m \notin Range(page)
  <2>1. replay'[c].more
    BY <1>1, <1>2, <1>4
  <2>2. \A i \in DOMAIN page : page[i] < m
    BY <1>1, <1>4 DEF PageRead, PageFrom
  <2>3. Len(page) \in DOMAIN page
    BY <1>2
  <2>4. replay'[c].cursor < m
    BY <1>2, <2>2, <2>3 DEF Last
  <2> QED BY <1>1, <2>1, <2>4 DEF Covered
<1> QED BY <1>3, <1>4

(* What covers a message before a step covers it afterwards.               *)
LEMMA CoveredStep ==
  ASSUME HubInv, [Next]_vars, NEW c \in Clients, Open(c), Open(c)', since'[c] = since[c],
         replay'[c].outcome = "complete", NEW m \in stored, Covered(c, m)
  PROVE  Covered(c, m)'
<1>t. /\ HubTypes /\ LogTypes /\ ReplayTypes /\ replay[c] \in Replay
  BY DEF HubInv, HubTypes, ReplayTypes
<1>m. m \in Messages
  BY <1>t, RangeIn DEF stored, LogTypes
<1>r. ResumeMoves(c)
  BY ResumeCases
<1>o. ASSUME Ended(c, "truncated") \/ Ended(c, "error") PROVE FALSE
  BY <1>o, <1>t DEF Ended, Replay
<1>1. CASE m \in Got(c)
  <2>1. m \in Got(c)'
    BY <1>1, <1>m, <1>t, QueueCases, GotMove DEF HubTypes
  <2> QED BY <2>1 DEF Covered
<1>2. CASE at[c] = "page" /\ m \in Range(replay[c].page)
  <2>1. CASE at'[c] = at[c] /\ replay'[c] = replay[c]
    BY <1>2, <2>1 DEF Covered
  <2>2. CASE HeadDone(c) /\ Head(replay[c].page) \in Got(c)'
    <3>1. replay[c].page \in Seq(Messages) /\ replay[c].page # <<>>
      BY <1>t, <2>2 DEF HeadDone, Replay
    <3>2. m = Head(replay[c].page) \/ m \in Range(Tail(replay[c].page))
      BY <1>2, <3>1, RangeTail
    <3>3. at'[c] = "page" /\ replay'[c].page = Tail(replay[c].page)
      BY <1>t, <2>2 DEF HeadDone, Replay
    <3> QED BY <2>2, <3>2, <3>3 DEF Covered
  <2>3. replay[c].page # <<>>
    BY <1>2 DEF Range
  <2> QED BY <1>2, <1>o, <1>r, <2>1, <2>2, <2>3 DEF ResumeMoves, PageRead
<1>3. CASE at[c] = "fetch" /\ replay[c].cursor < m
  <2>1. CASE at'[c] = at[c] /\ replay'[c] = replay[c]
    BY <1>3, <2>1 DEF Covered
  <2>2. ASSUME NEW page \in Seq(Messages), PageRead(c, page) PROVE Covered(c, m)'
    BY <1>3, <1>m, <1>t, <2>2, CoveredByPage
  <2> QED BY <1>3, <1>o, <1>r, <2>1, <2>2 DEF ResumeMoves, HeadDone
<1>4. CASE at[c] = "page" /\ replay[c].more /\ replay[c].cursor < m
  <2>1. CASE at'[c] = at[c] /\ replay'[c] = replay[c]
    BY <1>4, <2>1 DEF Covered
  <2>2. CASE HeadDone(c)
    <3>1. at'[c] = "page" /\ replay'[c].more = replay[c].more /\ replay'[c].cursor = replay[c].cursor
      BY <1>t, <2>2 DEF HeadDone, Replay
    <3> QED BY <1>4, <3>1 DEF Covered
  <2>3. CASE at'[c] = "fetch" /\ replay'[c] = replay[c]
    BY <1>4, <2>3 DEF Covered
  <2> QED BY <1>4, <1>o, <1>r, <2>1, <2>2, <2>3 DEF ResumeMoves, PageRead
<1>5. CASE \A k \in 1..since[c] : log[k] # m
  <2>1. /\ \A k \in 1..Len(log) : log'[k] = log[k]
        /\ since[c] \in Nat /\ since[c] <= Len(log) /\ Len(log) \in Nat
    BY <1>t, LogStep, LogKept DEF LogTypes
  <2>2. \A k \in 1..since[c] : log'[k] # m
    BY <1>5, <2>1
  <2>3. \A k \in 1..since'[c] : log'[k] # m
    BY <2>2
  <2> QED BY <2>3 DEF Covered
<1> QED BY <1>1, <1>2, <1>3, <1>4, <1>5 DEF Covered
(* A replay that is under way has not failed.                              *)
Unfailed == \A c \in Clients : Open(c) /\ at[c] \in {"fetch", "page"} =>
                                 replay[c].outcome = "complete"

(* Every step keeps that, ...                                              *)
LEMMA UnfailedStep == HubInv /\ Unfailed /\ [Next]_vars => Unfailed'
<1> SUFFICES ASSUME HubInv, Unfailed, [Next]_vars, NEW c \in Clients, Open(c)',
                    at'[c] \in {"fetch", "page"}
             PROVE  replay'[c].outcome = "complete"
  BY DEF Unfailed
<1>t. HubTypes /\ replay \in [Clients -> Replay] /\ replay[c] \in Replay
  BY DEF HubInv, HubTypes, ReplayTypes
<1>1. ASSUME NEW last, Connect(c, last) PROVE replay'[c].outcome = "complete"
  BY <1>1, <1>t DEF Connect, NewReplay
<1>2. CASE Open(c)
  <2>1. ResumeMoves(c)
    BY <1>2, ResumeCases
  <2>2. at[c] \in {"fetch", "page"} /\ replay'[c].outcome = replay[c].outcome
    BY <1>t, <2>1 DEF ResumeMoves, Ended, PageRead, HeadDone, Replay
  <2> QED BY <1>2, <2>2 DEF Unfailed
<1> QED BY <1>1, <1>2, <1>t, OpenBefore

(* ... and the last message a client named stays what it is.               *)
LEMMA SameReplay ==
  ASSUME HubInv, Unfailed, NEW c \in Clients, Open(c), ResumeMoves(c),
         replay'[c].outcome = "complete"
  PROVE  replay[c].outcome = "complete" /\ replay'[c].lastMessageID = replay[c].lastMessageID
<1>t. replay[c] \in Replay
  BY DEF HubInv, HubTypes, ReplayTypes
<1>1. CASE replay'[c] = replay[c]
  BY <1>1
<1>2. CASE Ended(c, "truncated") \/ Ended(c, "error")
  BY <1>t, <1>2 DEF Ended, Replay
<1>3. CASE Ended(c, "complete") /\ at[c] = "page"
  BY <1>t, <1>3 DEF Ended, Unfailed, Replay
<1>4. CASE HeadDone(c)
  BY <1>t, <1>4 DEF HeadDone, Replay
<1>5. ASSUME NEW page, PageRead(c, page)
      PROVE  replay[c].outcome = "complete" /\ replay'[c].lastMessageID = replay[c].lastMessageID
  BY <1>t, <1>5 DEF PageRead, Replay
<1> QED BY <1>1, <1>2, <1>3, <1>4, <1>5 DEF ResumeMoves

(* A client that connects has everything before it still to read.          *)
LEMMA ConnectResumes ==
  ASSUME HubTypes, NEW c \in Clients, NEW last, Connect(c, last),
         replay'[c].lastMessageID # 0
  PROVE  Resumed(c)'
<1>1. /\ replay'[c] = NewReplay(last) /\ history' = history /\ last \in stored \cup {0}
      /\ at'[c] = IF last = 0 THEN "serve" ELSE "fetch"
  BY DEF HubTypes, ReplayTypes, RoomTypes, Connect, chatVars
<1>2. replay'[c].lastMessageID = last /\ replay'[c].cursor = last
  BY <1>1 DEF NewReplay
<1>3. last \in stored /\ at'[c] = "fetch"
  BY <1>1, <1>2
<1>4. stored' = stored
  BY <1>1 DEF stored
<1> QED BY <1>2, <1>3, <1>4 DEF Resumed, Covered

(* Every step keeps what covers the messages of a resumed client.          *)
LEMMA ResumeStep == HubInv /\ Unfailed /\ ResumeInv /\ [Next]_vars => ResumeInv'
<1> SUFFICES ASSUME HubInv, Unfailed, ResumeInv, [Next]_vars, NEW c \in Clients, Resuming(c)'
             PROVE  Resumed(c)'
  BY DEF ResumeInv
<1>t. HubTypes /\ LogTypes /\ LogTypes'
  BY HubTypesStep DEF HubInv, HubTypes
<1>1. ASSUME NEW last, Connect(c, last) PROVE Resumed(c)'
  BY <1>1, <1>t, ConnectResumes DEF Resuming
<1>2. CASE Open(c) /\ since'[c] = since[c]
  <2>1. /\ Open(c) /\ Open(c)' /\ ResumeMoves(c) /\ replay'[c].outcome = "complete"
        /\ replay'[c].lastMessageID # 0
    BY <1>2, ResumeCases DEF Resuming
  <2>2. Resuming(c) /\ replay'[c].lastMessageID = replay[c].lastMessageID
    BY <2>1, SameReplay DEF Resuming
  <2>3. Resumed(c)
    BY <2>2 DEF ResumeInv
  <2>4. /\ stored \subseteq stored' /\ \A k \in 1..Len(log) : log'[k] = log[k]
    BY <1>t, LogStep, LogKept DEF LogTypes
  <2>5. ASSUME NEW m \in stored', replay'[c].lastMessageID < m PROVE Covered(c, m)'
    <3>1. CASE m \in stored
      <4>1. Covered(c, m)
        BY <2>2, <2>3, <2>5, <3>1 DEF Resumed
      <4> QED BY <1>2, <2>1, <3>1, <4>1, CoveredStep
    <3>2. CASE m \notin stored
      <4>1. since[c] \in Nat /\ since[c] <= Len(log) /\ Len(log) \in Nat /\ DOMAIN log = 1..Len(log)
        BY <1>t DEF LogTypes
      <4>2. \A k \in 1..Len(log) : log[k] # m
        BY <1>t, <3>2, <4>1 DEF LogTypes, recorded, Range
      <4>3. \A k \in 1..since[c] : log'[k] # m
        BY <2>4, <4>1, <4>2
      <4>4. \A k \in 1..since'[c] : log'[k] # m
        BY <1>2, <4>3
      <4> QED BY <4>4 DEF Covered
    <3> QED BY <3>1, <3>2
  <2> QED BY <2>2, <2>3, <2>4, <2>5 DEF Resumed
<1> QED BY <1>1, <1>2, <1>t, OpenBefore DEF Resuming

(* A client that is served has what covered the messages it missed.        *)
LEMMA ResumeMeansNotMissed == HubInv /\ ResumeInv /\ InOrder => ResumeNotMissed
<1> SUFFICES ASSUME HubInv, ResumeInv, InOrder, NEW c \in Clients,
                    Open(c), at[c] = "serve", replay[c].lastMessageID \in recorded,
                    replay[c].outcome = "complete",
                    NEW m \in Received, First(m) > First(replay[c].lastMessageID)
             PROVE  m \in Got(c)
  BY DEF ResumeNotMissed
<1> DEFINE last == replay[c].lastMessageID
<1>t. LogTypes /\ log \in Seq(Messages)
  BY DEF HubInv, HubTypes, LogTypes
<1>1. /\ m \in recorded /\ m \in stored
      /\ \E k \in 1..(next - 1) : k \in 1..Len(log) /\ log[k] = m
  BY <1>t, ReceivedIs DEF LogTypes
<1>2. Resumed(c) /\ last \in recorded
  <2>1. last # 0
    BY <1>t, HubAssumption, RangeIn DEF recorded
  <2> QED BY <2>1 DEF ResumeInv, Resuming
<1> HIDE DEF last
<1>3. last < m
  <2>1. /\ First(m) \in 1..Len(log) /\ log[First(m)] = m
        /\ \A j \in 1..(First(m) - 1) : log[j] # m
    BY <1>1, <1>t, FirstIs
  <2>2. First(last) \in 1..Len(log) /\ log[First(last)] = last
    BY <1>2, <1>t, FirstIs
  <2>3. First(last) \in 1..(First(m) - 1)
    BY <2>1, <2>2, <1>t DEF last
  <2> QED BY <2>1, <2>2, <2>3 DEF InOrder, Ascends
<1>4. m \in Got(c) \/ \A k \in 1..since[c] : log[k] # m
  BY <1>1, <1>2, <1>3 DEF Resumed, Covered, last
<1>5. CASE \A k \in 1..since[c] : log[k] # m
  <2>1. PICK k \in 1..(next - 1) : log[k] = m
    BY <1>1
  <2>2. k \in (since[c] + 1)..(next - 1)
    BY <1>5, <1>t, <2>1 DEF LogTypes
  <2> QED BY <2>1, <2>2 DEF HubInv, LiveNotMissed
<1> QED BY <1>4, <1>5

(* A resumption that is reported complete is complete: the replayed pages, *)
(* the live messages that were held back and those sent since leave no gap *)
(* after the last message the client had, provided that no message is      *)
(* stored after one with a later time.                                     *)
THEOREM HubResumeNotMissed == ~Reordered /\ Spec => []ResumeNotMissed
<1>1. Init => Unfailed /\ ResumeInv /\ InOrder
  BY DEF Init, Unfailed, ResumeInv, Resuming, Open, InOrder, HistoryAscends, Fenced, Ascends,
     recorded, Range
<1>2. HubInv => LogTypes
  BY DEF HubInv, HubTypes
<1>3. CASE ~Reordered
  <2>1. HubInv /\ InOrder /\ [Next]_vars => InOrder'
    BY <1>2, <1>3, InOrderStep
  <2> QED BY <1>1, <2>1, HubInit, HubStep, UnfailedStep, ResumeStep, ResumeMeansNotMissed, PTL DEF Spec
<1> QED BY <1>3

----------------------------------------------------------------------------
(* What the gateway takes for granted of the chat service.                 *)

(* A message that is stored finds the smaller ones, and the others keep    *)
(* what they found.                                                        *)
LEMMA StoreFinds ==
  ASSUME history \in Seq(Messages), NEW m \in Messages, Stores(m)
  PROVE  /\ Predecessors(m)' = {n \in stored : n < m}
         /\ \A x \in Messages \ {m} : Predecessors(x)' = Predecessors(x)
<1>1. /\ DOMAIN history = 1..Len(history) /\ Len(history) \in Nat
      /\ DOMAIN history' = 1..(Len(history) + 1) /\ history'[Len(history) + 1] = m
      /\ \A k \in 1..Len(history) : history'[k] = history[k] /\ history[k] # m
  BY DEF Stores, stored, Range
<1>2. ASSUME NEW x \in Messages \ {m}, NEW i \in DOMAIN history', history'[i] = x
      PROVE  i \in DOMAIN history /\ history[i] = x /\ \A j \in DOMAIN history' : j < i =>
               j \in DOMAIN history /\ history'[j] = history[j]
  <2>1. i \in 1..Len(history)
    BY <1>1, <1>2
  <2>2. \A j \in 1..(Len(history) + 1) : j < i => j \in 1..Len(history)
    BY <1>1, <2>1
  <2> QED BY <1>1, <1>2, <2>1, <2>2
<1>3. ASSUME NEW x \in Messages \ {m} PROVE Predecessors(x)' = Predecessors(x)
  <2>1. ASSUME NEW n \in Predecessors(x)' PROVE n \in Predecessors(x)
    <3>1. PICK j \in DOMAIN history', i \in DOMAIN history' :
            n = history'[j] /\ j < i /\ history'[i] = x /\ history'[j] < x
      BY <2>1 DEF Predecessors
    <3>2. /\ i \in DOMAIN history /\ history[i] = x
          /\ j \in DOMAIN history /\ history'[j] = history[j]
      BY <1>2, <3>1
    <3> QED BY <3>1, <3>2 DEF Predecessors
  <2>2. ASSUME NEW n \in Predecessors(x) PROVE n \in Predecessors(x)'
    <3>1. PICK j \in DOMAIN history, i \in DOMAIN history :
            n = history[j] /\ j < i /\ history[i] = x /\ history[j] < x
      BY <2>2 DEF Predecessors
    <3>2. /\ j \in DOMAIN history' /\ i \in DOMAIN history'
          /\ history'[j] = history[j] /\ history'[i] = history[i]
      BY <1>1, <3>1
    <3> QED BY <3>1, <3>2 DEF Predecessors
  <2> QED BY <2>1, <2>2
<1>4. Predecessors(m)' = {n \in stored : n < m}
  <2>1. ASSUME NEW n \in Predecessors(m)' PROVE n \in stored /\ n < m
    <3>1. PICK j \in DOMAIN history', i \in DOMAIN history' :
            n = history'[j] /\ j < i /\ history'[i] = m /\ history'[j] < m
      BY <2>1 DEF Predecessors
    <3>2. i \notin 1..Len(history)
      BY <1>1, <3>1
    <3>3. j \in 1..Len(history)
      BY <1>1, <3>1, <3>2
    <3> QED BY <1>1, <3>1, <3>3 DEF stored, Range
  <2>2. ASSUME NEW n \in stored, n < m PROVE n \in Predecessors(m)'
    <3>1. PICK j \in 1..Len(history) : history[j] = n
      BY <1>1 DEF stored, Range
    <3>2. /\ j \in DOMAIN history' /\ Len(history) + 1 \in DOMAIN history'
          /\ j < Len(history) + 1 /\ history'[j] = n
      BY <1>1, <3>1
    <3> QED BY <1>1, <2>2, <3>2 DEF Predecessors
  <2> QED BY <2>1, <2>2
<1> QED BY <1>3, <1>4

(* What the gateway takes for granted of the chat service is what the chat *)
(* service promises, of the log that ChatOutbox implements: stored once,   *)
(* stored before it is recorded, recorded after its predecessors.          *)
THEOREM HubServiceIsLog == Spec => Service!Spec
<1>1. Init => Service!Init
  <2> SUFFICES ASSUME Init PROVE Service!Init
    OBVIOUS
  <2>1. history = <<>> /\ log = <<>> /\ DOMAIN history = {}
    BY DEF Init
  <2>2. stored = {} /\ \A m \in Messages : Predecessors(m) = {}
    BY <2>1 DEF stored, Range, Predecessors
  <2> QED BY <2>1, <2>2 DEF Service!Init
<1>2. LogTypes /\ [Next]_vars => [Service!Next]_(Service!vars)
  <2> SUFFICES ASSUME LogTypes, [Next]_vars PROVE [Service!Next]_(Service!vars)
    OBVIOUS
  <2>1. CASE history' = history /\ log' = log
    <3>1. stored' = stored /\ \A m \in Messages : Predecessors(m)' = Predecessors(m)
      BY <2>1 DEF stored, Predecessors
    <3> QED BY <2>1, <3>1 DEF Service!vars
  <2>2. ASSUME NEW m \in Messages, Stores(m) PROVE Service!Next
    <3>1. stored' = stored \cup {m} /\ m \notin stored /\ log' = log
      BY <2>2, RangeAppend DEF Stores, stored, LogTypes
    <3>2. /\ Predecessors(m)' = {n \in stored : n < m}
          /\ \A x \in Messages \ {m} : Predecessors(x)' = Predecessors(x)
      BY <2>2, StoreFinds DEF LogTypes
    <3>3. PICK f, g : /\ f = [x \in Messages |-> Predecessors(x)]
                      /\ g = [x \in Messages |-> Predecessors(x)']
      OBVIOUS
    <3>4. g = [f EXCEPT ![m] = {n \in stored : n < m}]
      BY <3>2, <3>3
    <3>5. Service!Store(m, {n \in stored : n < m})
      BY <3>1, <3>3, <3>4 DEF Service!Store
    <3>6. {n \in stored : n < m} \in SUBSET stored
      OBVIOUS
    <3> QED BY <3>5, <3>6 DEF Service!Next
  <2>3. ASSUME NEW m \in Messages, Records(m) PROVE Service!Next
    <3>1. /\ m \in stored /\ Predecessors(m) \subseteq recorded
          /\ log' = Append(log, m) /\ history' = history
      BY <2>3 DEF Records
    <3>2. stored' = stored /\ \A x \in Messages : Predecessors(x)' = Predecessors(x)
      BY <3>1 DEF stored, Predecessors
    <3>3. Service!Recorded = recorded
      BY DEF Service!Recorded, recorded, Range
    <3>4. Service!Record(m)
      BY <3>1, <3>2, <3>3 DEF Service!Record
    <3> QED BY <3>4 DEF Service!Next
  <2> QED BY <2>1, <2>2, <2>3, LogStep DEF LogGrows
<1>3. HubInv => LogTypes
  BY DEF HubInv, HubTypes
<1> QED BY <1>1, <1>2, <1>3, HubInit, HubStep, PTL DEF Spec, Service!Spec
=============================================================================
