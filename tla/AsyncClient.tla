----------------------------- MODULE AsyncClient -----------------------------
(***************************************************************************)
(* AsyncMQTTClient: the tasks of an asyncio client around one              *)
(* MQTTClientStateMachine.  The application's tasks call publish() and     *)
(* subscribe(); the connection task opens transports and shakes hands; the *)
(* reader task feeds the state machine, answers the waiting operations and *)
(* hands messages to the subscriptions' buffers.  All of them write to the *)
(* transport under one lock.                                               *)
(*                                                                         *)
(* A step is what one task does between two points where it awaits; the    *)
(* return of a call whose answer has come, or that needs none, is a step   *)
(* of its own.  The transport and a broker that keeps to the protocol are  *)
(* the environment.  An exception that reaches the task group of           *)
(* __aenter__ cancels every task: `crash' names it, and nothing happens    *)
(* afterwards.                                                             *)
(***************************************************************************)
EXTENDS Integers, SequencesExt

CONSTANTS
  MaxPacketId, Patterns,
  Messages,        \* 1 .. n: the k-th publish() sends message k
  Tasks,           \* the application's tasks
  Publishers,      \* those that publish
  Subscribers,     \* those that subscribe
  Cancellable,     \* those whose calls may be cancelled
  QoSLevels,       \* per message: the QoS levels it may be published with
  PatternSets,     \* the sets of patterns one subscribe() call may name
  Incoming,        \* the PUBLISH packets the broker has for the client, in order
  Matching,        \* Matching[k]: the patterns that match Incoming[k]
  BufferSize,      \* 5 in the code
  LeaveEarly,      \* whether a task leaves a context before Incoming is used up
  Faults,          \* how the broker ends a connection, and "error" in the application
  MaxPublishes, MaxContexts, MaxConnects, MaxBatch

ASSUME PacketIdAssumption == MaxPacketId \in Nat \ {0}
ASSUME TasksAssumption ==
  /\ Publishers \subseteq Tasks /\ Subscribers \subseteq Tasks /\ Cancellable \subseteq Tasks
  /\ Tasks \cap {"main", "manager", "reader"} = {}
ASSUME BufferAssumption == BufferSize \in Nat \ {0}
ASSUME CallsAssumption ==
  /\ MaxPublishes \in Nat /\ 1 .. MaxPublishes \subseteq Messages
  /\ PatternSets \subseteq (SUBSET Patterns) \ {{}}

VARIABLES
  state, pending, out_buffer, failure,
  next_packet_id, subscriptions, subscription_counts, maximum_qos,
  main,                 \* where the task is that runs `async with client'
  manager, reader,      \* where _manage_connection and _read_inbound_packets are
  op,                   \* per task: the operation in _run_operation
  answered,             \* the tasks whose operation's event is set
  pending_operations,   \* _pending_operations: from packet ids to tasks
  lock,                 \* _stream_lock: its holder, then those that wait for it
  sending,              \* per task: what it has taken out of the state machine
  inbox,                \* received_packets, from the one being handled on
  delivering,           \* the subscriptions the reader has yet to hand Head(inbox) to
  where, patterns,      \* per task: its place in a subscribe() context, and its patterns
  buffer, taken,        \* per task: its subscription's buffer, what it took out of it
  link, c2b, b2c,       \* the transport: how it is, and what is on its way
  granted,              \* the patterns the broker has granted
  connects, contexts,   \* how many transports and contexts there were
  called,               \* how many publish() calls there were
  arrived, returned,    \* the messages the broker got; the publish() calls that returned
  delivered,            \* how many packets of Incoming the broker has sent
  crash

SM == INSTANCE ClientStateMachine WITH AutoAck <- TRUE

ASSUME IncomingAssumption ==
  /\ Incoming \in Seq(SM!Publishes)
  /\ \A k \in DOMAIN Incoming : Incoming[k].msg = k

smVars      == <<state, pending, out_buffer, failure,
                 next_packet_id, subscriptions, subscription_counts, maximum_qos>>
opVars      == <<op, answered, pending_operations>>
lockVars    == <<lock, sending>>
readerVars  == <<reader, inbox, delivering>>
contextVars == <<where, patterns, buffer, taken>>
netVars     == <<link, c2b, b2c, granted>>
counters    == <<connects, contexts, called, arrived, returned, delivered>>
vars == <<smVars, main, manager, opVars, lockVars, readerVars, contextVars, netVars,
          counters, crash>>

Callers == Tasks \cup {"main", "manager"}
Workers == Callers \cup {"reader"}

\* op of a task that is in no call; message and packet id are 0 where there is none
NoOperation == [stage |-> "idle", id |-> 0, msg |-> 0]
Idle(w) == op[w].stage = "idle"

\* Mutant of RequiresResponse: no call waits but connect().
RequiresResponseConnect(w) == w = "manager"

\* requires_response: a QoS 0 publish and a disconnect have no packet id.
RequiresResponse(w) == w = "manager" \/ op[w].id # 0

PendingConnect == ~Idle("manager") /\ "manager" \notin answered

Closed == main \in {"exiting", "closing", "ended"}

\* The reader does not await in these: no other task runs.
Running == reader \in {"feeding", "handling"}

\* The broker has nothing more for a subscription, nor is any of it on its way.
Quiet == /\ delivered = Len(Incoming)
         /\ \A p \in Range(b2c \o inbox) : p.type # "PUBLISH"

Init ==
  /\ SM!Init
  /\ main = "entering" /\ manager = "connecting" /\ reader = "none"
  /\ op = [w \in Callers |-> NoOperation]
  /\ answered = {} /\ pending_operations = <<>>
  /\ lock = <<>> /\ sending = [w \in Workers |-> <<>>]
  /\ inbox = <<>> /\ delivering = {}
  /\ where = [t \in Tasks |-> "out"] /\ patterns = [t \in Tasks |-> {}]
  /\ buffer = [t \in Tasks |-> <<>>] /\ taken = [t \in Tasks |-> <<>>]
  /\ link = "none" /\ c2b = <<>> /\ b2c = <<>> /\ granted = {}
  /\ connects = 0 /\ contexts = 0 /\ called = 0
  /\ arrived = <<>> /\ returned = {} /\ delivered = 0
  /\ crash = "none"

-----------------------------------------------------------------------------
(* _run_operation                                                          *)

\* The operation is registered and its task queues for the lock.
Run(w, id, m) ==
  /\ op' = [op EXCEPT ![w] = [stage |-> "flush", id |-> id, msg |-> m]]
  /\ pending_operations' =
       IF id = 0 THEN pending_operations
       ELSE [i \in DOMAIN pending_operations \cup {id} |->
               IF i = id THEN w ELSE pending_operations[i]]
  /\ lock' = Append(lock, w)
  /\ UNCHANGED <<answered, sending>>

\* The exit stack: whatever is registered under the id goes.
Finish(w) ==
  /\ op' = [op EXCEPT ![w] = NoOperation]
  /\ answered' = answered \ {w}
  /\ pending_operations' =
       Restrict(pending_operations, DOMAIN pending_operations \ {op[w].id})

Release(w) ==
  \/ w \notin Range(lock) /\ UNCHANGED lock
  \/ \E i \in DOMAIN lock : lock[i] = w /\ lock' = RemoveAt(lock, i)

\* _flush_outbound_data returns to its caller.
Flushed(w) ==
  \/ /\ w = "reader"
     /\ reader' = "handling"
     /\ UNCHANGED op
  \/ /\ w # "reader"
     /\ op' = [op EXCEPT ![w].stage = "wait"]
     /\ UNCHANGED reader

\* Mutant of TakeOutbound: the data are taken without holding the lock.
TakeOutboundUnlocked(w) ==
  /\ w \in Range(lock)
  /\ sending[w] = <<>>
  /\ \/ /\ out_buffer = <<>>
        /\ Release(w)
        /\ Flushed(w)
        /\ UNCHANGED <<smVars, sending>>
     \/ /\ SM!Flush
        /\ sending' = [sending EXCEPT ![w] = out_buffer]
        /\ UNCHANGED <<lock, op, reader>>
  /\ UNCHANGED <<main, manager, answered, pending_operations, inbox, delivering,
                 contextVars, netVars, counters, crash>>

\* The holder of the lock takes what is in the state machine, whoever put it there.
TakeOutbound(w) ==
  /\ lock # <<>> /\ w = Head(lock)
  /\ sending[w] = <<>>
  /\ \/ /\ out_buffer = <<>>
        /\ Release(w)
        /\ Flushed(w)
        /\ UNCHANGED <<smVars, sending>>
     \/ /\ SM!Flush
        /\ sending' = [sending EXCEPT ![w] = out_buffer]
        /\ UNCHANGED <<lock, op, reader>>
  /\ UNCHANGED <<main, manager, answered, pending_operations, inbox, delivering,
                 contextVars, netVars, counters, crash>>

\* A context is left: its subscription goes, under a reader that delivers to it too.
Close(t) ==
  /\ where' = [where EXCEPT ![t] = "out"]
  /\ patterns' = [patterns EXCEPT ![t] = {}]
  /\ buffer' = [buffer EXCEPT ![t] = <<>>]
  /\ crash' = IF t \in delivering THEN "BrokenResourceError" ELSE crash
  /\ UNCHANGED taken

\* Mutant of Abandon: the lock is not released.
AbandonHolding(t) ==
  /\ Finish(t)
  /\ UNCHANGED lock
  /\ sending' = [sending EXCEPT ![t] = <<>>]
  /\ IF where[t] \in {"entering", "leaving"} THEN Close(t)
                                             ELSE UNCHANGED <<contextVars, crash>>

(* An exception, or a cancellation, in the call of task t: the operation   *)
(* is dropped, the lock released, and with the call that opens or leaves a *)
(* context the context ends.                                               *)
Abandon(t) ==
  /\ Finish(t)
  /\ Release(t)
  /\ sending' = [sending EXCEPT ![t] = <<>>]
  /\ IF where[t] \in {"entering", "leaving"} THEN Close(t)
                                             ELSE UNCHANGED <<contextVars, crash>>

\* What is sent after the broker has closed its end is lost.
SendOutbound(w) ==
  /\ sending[w] # <<>>
  /\ \/ /\ link \in {"open", "eof"}
        /\ c2b' = IF link = "open" THEN c2b \o sending[w] ELSE c2b
        /\ sending' = [sending EXCEPT ![w] = <<>>]
        /\ Release(w)
        /\ Flushed(w)
        /\ UNCHANGED <<answered, pending_operations, contextVars, crash>>
     \/ /\ link \in {"reset", "closed"}
        /\ w \in Tasks
        /\ Abandon(w)
        /\ UNCHANGED <<reader, c2b>>
     \/ /\ link \in {"reset", "closed"}
        /\ w \notin Tasks
        /\ sending' = [sending EXCEPT ![w] = <<>>]
        /\ Release(w)
        /\ \/ /\ w = "reader"
              /\ reader' = "ended"
              /\ crash' = IF link = "closed" THEN crash ELSE "BrokenResourceError"
              /\ UNCHANGED opVars
           \/ /\ w # "reader"
              /\ Finish(w)
              /\ crash' = "BrokenResourceError"
              /\ UNCHANGED reader
        /\ UNCHANGED <<contextVars, c2b>>
  /\ UNCHANGED <<smVars, main, manager, inbox, delivering, link, b2c, granted, counters>>

-----------------------------------------------------------------------------
(* The calls of the application's tasks                                    *)

CallPublish(t, q) ==
  /\ main = "running" /\ Idle(t)
  /\ called < MaxPublishes
  /\ called' = called + 1
  /\ q \in QoSLevels[called']
  /\ SM!Publish(called', q)
  /\ Run(t, IF q = 0 THEN 0 ELSE next_packet_id, called')
  /\ UNCHANGED <<main, manager, readerVars, contextVars, netVars,
                 connects, contexts, arrived, returned, delivered, crash>>

\* The subscription receives from now on; a request is sent for a new pattern only.
EnterContext(t, S) ==
  /\ main = "running" /\ Idle(t) /\ where[t] = "out"
  /\ contexts < MaxContexts
  /\ contexts' = contexts + 1
  /\ SM!Subscribe(S)
  /\ patterns' = [patterns EXCEPT ![t] = S]
  /\ taken' = [taken EXCEPT ![t] = <<>>]
  /\ \/ /\ ~(S \subseteq subscriptions)
        /\ where' = [where EXCEPT ![t] = "entering"]
        /\ Run(t, next_packet_id, 0)
     \/ /\ S \subseteq subscriptions
        /\ where' = [where EXCEPT ![t] = "in"]
        /\ UNCHANGED <<opVars, lockVars>>
  /\ UNCHANGED <<main, manager, readerVars, buffer, netVars,
                 connects, called, arrived, returned, delivered, crash>>

TakeMessage(t) ==
  /\ where[t] = "in" /\ Idle(t)
  /\ buffer[t] # <<>>
  /\ taken' = [taken EXCEPT ![t] = Append(@, Head(buffer[t]))]
  /\ buffer' = [buffer EXCEPT ![t] = Tail(@)]
  /\ UNCHANGED <<smVars, main, manager, opVars, lockVars, readerVars, where, patterns,
                 netVars, counters, crash>>

\* unsubscribe() has a request to send.
LastUser(t) == \E p \in patterns[t] : subscription_counts[p] = 1

(* The context waits for the UNSUBACK, when there is a request at all,     *)
(* before its subscription is closed.  Without a connection unsubscribe()  *)
(* raises, and the context is closed on the way.                           *)
LeaveContext(t) ==
  /\ where[t] = "in" /\ Idle(t)
  /\ LeaveEarly \/ (Quiet /\ buffer[t] = <<>>)
  /\ \/ /\ SM!Unsubscribe(patterns[t])
        /\ \/ /\ LastUser(t) /\ failure' = failure
              /\ where' = [where EXCEPT ![t] = "leaving"]
              /\ Run(t, next_packet_id, 0)
              /\ UNCHANGED <<patterns, buffer, taken, crash>>
           \/ /\ ~LastUser(t) \/ failure' # failure
              /\ Close(t)
              /\ UNCHANGED <<opVars, lockVars>>
     \/ /\ state # "CONNECTED"
        /\ Close(t)
        /\ UNCHANGED <<smVars, opVars, lockVars>>
  /\ UNCHANGED <<main, manager, readerVars, netVars, counters>>

Return(t) ==
  /\ op[t].stage = "wait"
  /\ RequiresResponse(t) => t \in answered
  /\ Finish(t)
  /\ \/ /\ where[t] = "leaving"
        /\ Close(t)
     \/ /\ where[t] # "leaving"
        /\ where' = [where EXCEPT ![t] = IF @ = "entering" THEN "in" ELSE @]
        /\ UNCHANGED <<patterns, buffer, taken, crash>>
  /\ returned' = IF op[t].msg # 0 /\ op[t].id # 0 THEN returned \cup {op[t].msg}
                                                  ELSE returned
  /\ UNCHANGED <<smVars, main, manager, lockVars, readerVars, netVars,
                 connects, contexts, called, arrived, delivered>>

(* A cancellation (a timeout, say) reaches a task inside a call, before,   *)
(* while or after it holds the lock: what it had taken out of the state    *)
(* machine, the packets of other tasks included, is lost.                  *)
CancelCall(t) ==
  /\ t \in Cancellable
  /\ ~Idle(t)
  /\ Abandon(t)
  /\ UNCHANGED <<smVars, main, manager, readerVars, netVars, counters>>

(* ... or between two messages: unsubscribe() encodes its request, but the *)
(* flush is cancelled at once, and nothing waits for the answer.           *)
CancelContext(t) ==
  /\ t \in Cancellable
  /\ where[t] = "in" /\ Idle(t)
  /\ \/ SM!Unsubscribe(patterns[t])
     \/ state # "CONNECTED" /\ UNCHANGED smVars
  /\ Close(t)
  /\ UNCHANGED <<main, manager, opVars, lockVars, readerVars, netVars, counters>>

-----------------------------------------------------------------------------
(* __aenter__ and __aexit__, _manage_connection and _do_handshake          *)

(* The next transport is opened, its reader started and connect() called,  *)
(* which raises when the state machine did not see the last one end.       *)
Establish ==
  /\ manager = "connecting"
  /\ connects < MaxConnects
  /\ \A w \in Workers : sending[w] = <<>>
  /\ connects' = connects + 1
  /\ link' = "open" /\ c2b' = <<>> /\ b2c' = <<>> /\ granted' = {}
  /\ reader' = "reading" /\ inbox' = <<>>
  /\ \/ /\ SM!Connect(TRUE)
        /\ Run("manager", 0, 0)
        /\ manager' = "handshake"
        /\ UNCHANGED crash
     \/ /\ state # "DISCONNECTED"
        /\ crash' = "MQTTProtocolError"
        /\ UNCHANGED <<smVars, opVars, lockVars, manager>>
  /\ UNCHANGED <<main, delivering, contextVars,
                 contexts, called, arrived, returned, delivered>>

\* The reason code of the CONNACK is not looked at.
FinishHandshake ==
  /\ manager = "handshake"
  /\ op["manager"].stage = "wait" /\ "manager" \in answered
  /\ Finish("manager")
  /\ manager' = "serving"
  /\ main' = IF main = "entering" THEN "running" ELSE main
  /\ UNCHANGED <<smVars, lockVars, readerVars, contextVars, netVars, counters, crash>>

\* Mutant of LoopConnection: _closed is not looked at.
LoopConnectionAlways ==
  /\ manager = "serving"
  /\ reader = "ended"
  /\ manager' = "connecting"
  /\ UNCHANGED <<smVars, main, opVars, lockVars, readerVars, contextVars, netVars,
                 counters, crash>>

LoopConnection ==
  /\ manager = "serving"
  /\ reader = "ended"
  /\ manager' = IF Closed THEN "ended" ELSE "connecting"
  /\ UNCHANGED <<smVars, main, opVars, lockVars, readerVars, contextVars, netVars,
                 counters, crash>>

\* The application's tasks are done; its body ends normally or with an exception.
Exit ==
  /\ main = "running"
  /\ \A t \in Tasks : Idle(t) /\ where[t] = "out"
  /\ \/ /\ SM!Disconnect
        /\ main' = "exiting"
        /\ Run("main", 0, 0)
        /\ UNCHANGED <<link, crash>>
     \/ /\ state # "CONNECTED"
        /\ crash' = "MQTTProtocolError"
        /\ UNCHANGED <<smVars, main, opVars, lockVars, link>>
     \/ /\ "error" \in Faults
        /\ main' = "closing"
        /\ link' = "closed"
        /\ UNCHANGED <<smVars, opVars, lockVars, crash>>
  /\ UNCHANGED <<manager, readerVars, contextVars, c2b, b2c, granted, counters>>

CloseStream ==
  /\ main = "exiting"
  /\ op["main"].stage = "wait"
  /\ Finish("main")
  /\ main' = "closing"
  /\ link' = "closed"
  /\ UNCHANGED <<smVars, manager, lockVars, readerVars, contextVars, c2b, b2c, granted,
                 counters, crash>>

FinishExit ==
  /\ main = "closing"
  /\ manager = "ended"
  /\ main' = "ended"
  /\ UNCHANGED <<smVars, manager, opVars, lockVars, readerVars, contextVars, netVars,
                 counters, crash>>

-----------------------------------------------------------------------------
(* _read_inbound_packets                                                   *)

\* feed_bytes steps through the packets of a chunk, MaxBatch at most.
Feed ==
  /\ reader \in {"reading", "feeding"}
  /\ link \in {"open", "eof"}
  /\ b2c # <<>>
  /\ SM!Receive(Head(b2c))
  /\ b2c' = Tail(b2c)
  /\ inbox' = Append(inbox, Head(b2c))
  /\ \/ /\ Len(inbox') < MaxBatch /\ b2c' # <<>>
        /\ reader' = "feeding"
        /\ UNCHANGED lock
     \/ /\ reader' = "flushing"
        /\ lock' = Append(lock, "reader")
  /\ UNCHANGED <<main, manager, opVars, sending, delivering, contextVars,
                 link, c2b, granted, counters, crash>>

EndOfStream ==
  /\ reader = "reading"
  /\ \/ /\ link = "closed" \/ (link = "eof" /\ b2c = <<>>)
        /\ reader' = "ended"
        /\ UNCHANGED crash
     \/ /\ link = "reset"
        /\ crash' = "BrokenResourceError"
        /\ UNCHANGED reader
  /\ UNCHANGED <<smVars, main, manager, opVars, lockVars, inbox, delivering,
                 contextVars, netVars, counters>>

\* Mutant of NextPacket: of each chunk only the first packet is handled.
NextPacketOnly ==
  /\ inbox' = <<>>
  /\ reader' = "reading"

NextPacket ==
  /\ inbox' = Tail(inbox)
  /\ reader' = IF Len(inbox) = 1 THEN "reading" ELSE "handling"

\* Mutant of Answers: a PUBREC is taken for the end of a QoS 2 publish.
AnswersEarly == {"PUBACK", "PUBREC", "SUBACK", "UNSUBACK"}

\* Mutant of Answers: nobody waits for the end of an UNSUBSCRIBE.
AnswersShort == {"PUBACK", "PUBCOMP", "SUBACK"}

\* The packets that answer the operation registered under their packet id
Answers == {"PUBACK", "PUBCOMP", "SUBACK", "UNSUBACK"}

HandleAnswer(p) ==
  /\ p.type \in Answers
  /\ \/ /\ p.packet_id \in DOMAIN pending_operations
        /\ answered' = answered \cup {pending_operations[p.packet_id]}
        /\ pending_operations' =
             Restrict(pending_operations, DOMAIN pending_operations \ {p.packet_id})
        /\ UNCHANGED crash
     \/ /\ p.packet_id \notin DOMAIN pending_operations
        /\ crash' = "KeyError"
        /\ UNCHANGED <<answered, pending_operations>>
  /\ NextPacket
  /\ UNCHANGED delivering

HandleConnAck(p) ==
  /\ p.type = "CONNACK"
  /\ answered' = answered \cup {"manager"}
  /\ crash' = IF PendingConnect THEN crash ELSE "AssertionError"
  /\ NextPacket
  /\ UNCHANGED <<pending_operations, delivering>>

(* The subscriptions it matches, those that are being entered or left      *)
(* included; messages above a subscription's maximum QoS, which            *)
(* Subscription.matches refuses, are left out.                             *)
HandlePublish(p) ==
  /\ p.type = "PUBLISH"
  /\ delivering' = {t \in Tasks : patterns[t] \cap Matching[p.msg] # {}}
  /\ reader' = "delivering"
  /\ UNCHANGED <<inbox, answered, pending_operations, crash>>

HandleOther(p) ==
  /\ p.type \notin Answers \cup {"CONNACK", "PUBLISH"}
  /\ NextPacket
  /\ UNCHANGED <<answered, pending_operations, delivering, crash>>

Handle ==
  /\ reader = "handling"
  /\ LET p == Head(inbox)
     IN  HandleAnswer(p) \/ HandleConnAck(p) \/ HandlePublish(p) \/ HandleOther(p)
  /\ UNCHANGED <<smVars, main, manager, op, lockVars, contextVars, netVars, counters>>

\* Mutant of Deliver: a message for which there is no room is dropped.
DeliverDropping(t) ==
  /\ t \in delivering
  /\ delivering' = delivering \ {t}
  /\ buffer' = IF Len(buffer[t]) < BufferSize
                 THEN [buffer EXCEPT ![t] = Append(@, Head(inbox).msg)] ELSE buffer
  /\ UNCHANGED <<smVars, main, manager, opVars, lockVars, reader, inbox,
                 where, patterns, taken, netVars, counters, crash>>

\* Mutant of Deliver: the buffer has no limit.
DeliverUnbounded(t) ==
  /\ t \in delivering
  /\ delivering' = delivering \ {t}
  /\ buffer' = [buffer EXCEPT ![t] = Append(@, Head(inbox).msg)]
  /\ UNCHANGED <<smVars, main, manager, opVars, lockVars, reader, inbox,
                 where, patterns, taken, netVars, counters, crash>>

\* Mutant of Deliver: the last place of the buffer is not used.
DeliverShort(t) ==
  /\ t \in delivering
  /\ Len(buffer[t]) < BufferSize - 1
  /\ delivering' = delivering \ {t}
  /\ buffer' = [buffer EXCEPT ![t] = Append(@, Head(inbox).msg)]
  /\ UNCHANGED <<smVars, main, manager, opVars, lockVars, reader, inbox,
                 where, patterns, taken, netVars, counters, crash>>

\* send(), in a task of its own, waits for room in the buffer.
Deliver(t) ==
  /\ t \in delivering
  /\ Len(buffer[t]) < BufferSize
  /\ delivering' = delivering \ {t}
  /\ buffer' = [buffer EXCEPT ![t] = Append(@, Head(inbox).msg)]
  /\ UNCHANGED <<smVars, main, manager, opVars, lockVars, reader, inbox,
                 where, patterns, taken, netVars, counters, crash>>

FinishDelivery ==
  /\ reader = "delivering"
  /\ delivering = {}
  /\ NextPacket
  /\ UNCHANGED <<smVars, main, manager, opVars, lockVars, delivering,
                 contextVars, netVars, counters, crash>>

-----------------------------------------------------------------------------
(* The environment: a broker that keeps to the protocol, and the network   *)

\* What the broker answers a packet with
Reply(p) ==
  CASE p.type = "CONNECT"                   -> <<[type |-> "CONNACK", reason |-> "SUCCESS",
                                                  session_present |-> FALSE,
                                                  maximum_qos |-> 2]>>
    [] p.type = "PUBLISH" /\ p.qos = 1      -> <<SM!Ack("PUBACK", p.packet_id, "SUCCESS")>>
    [] p.type = "PUBLISH" /\ p.qos = 2      -> <<SM!Ack("PUBREC", p.packet_id, "SUCCESS")>>
    [] p.type = "PUBREC"                    -> <<SM!Ack("PUBREL", p.packet_id, "SUCCESS")>>
    [] p.type = "PUBREL"                    -> <<SM!Ack("PUBCOMP", p.packet_id, "SUCCESS")>>
    [] p.type = "SUBSCRIBE"                 -> <<SM!SubAck(p.packet_id, p.patterns)>>
    [] p.type = "UNSUBSCRIBE"               -> <<SM!Ack("UNSUBACK", p.packet_id, "SUCCESS")>>
    [] OTHER                                -> <<>>

\* The patterns the broker grants once it has processed packet p
GrantedAfter(S, p) ==
  CASE p.type = "SUBSCRIBE"   -> S \cup p.patterns
    [] p.type = "UNSUBSCRIBE" -> S \ p.patterns
    [] OTHER                  -> S

BrokerHandle ==
  /\ link \in {"open", "closed"}
  /\ c2b # <<>>
  /\ c2b' = Tail(c2b)
  /\ LET p == Head(c2b)
     IN  /\ granted' = GrantedAfter(granted, p)
         /\ arrived' = IF p.type = "PUBLISH" THEN Append(arrived, p.msg) ELSE arrived
         /\ \/ /\ b2c' = b2c \o Reply(p)
               /\ link' = IF p.type = "DISCONNECT" /\ link = "open" THEN "eof" ELSE link
            \/ /\ p.type = "CONNECT" /\ "refuse" \in Faults
               /\ b2c' = Append(b2c, [Reply(p)[1] EXCEPT !.reason = "REFUSED"])
               /\ link' = IF link = "open" THEN "eof" ELSE link
  /\ UNCHANGED <<smVars, main, manager, opVars, lockVars, readerVars, contextVars,
                 connects, contexts, called, returned, delivered, crash>>

BrokerPublish ==
  /\ link = "open"
  /\ delivered < Len(Incoming)
  /\ Matching[Incoming[delivered + 1].msg] \cap granted # {}
  /\ delivered' = delivered + 1
  /\ b2c' = Append(b2c, Incoming[delivered'])
  /\ UNCHANGED <<smVars, main, manager, opVars, lockVars, readerVars, contextVars,
                 link, c2b, granted, connects, contexts, called, arrived, returned, crash>>

\* The broker leaves, with a DISCONNECT or without, or the connection breaks.
BrokerEnds(fault) ==
  /\ link = "open"
  /\ \/ /\ fault = "disconnect"
        /\ state = "CONNECTED"
        /\ b2c' = Append(b2c, SM!Signal("DISCONNECT"))
        /\ link' = "eof"
     \/ /\ fault = "eof"
        /\ link' = "eof"
        /\ UNCHANGED b2c
     \/ /\ fault = "reset"
        /\ link' = "reset"
        /\ b2c' = <<>>
  /\ c2b' = <<>>
  /\ granted' = {}
  /\ UNCHANGED <<smVars, main, manager, opVars, lockVars, readerVars, contextVars,
                 counters, crash>>

-----------------------------------------------------------------------------
ReaderRuns == Feed \/ Handle

TasksRun ==
  \/ \E w \in Workers : TakeOutbound(w) \/ SendOutbound(w)
  \/ \E t \in Publishers, q \in 0 .. 2 : CallPublish(t, q)
  \/ \E t \in Subscribers, S \in PatternSets : EnterContext(t, S)
  \/ \E t \in Tasks : \/ TakeMessage(t) \/ LeaveContext(t) \/ Return(t)
                      \/ CancelCall(t) \/ CancelContext(t) \/ Deliver(t)
  \/ Establish \/ FinishHandshake \/ LoopConnection
  \/ Exit \/ CloseStream \/ FinishExit
  \/ EndOfStream \/ FinishDelivery

Environment ==
  \/ BrokerHandle \/ BrokerPublish
  \/ \E fault \in Faults : BrokerEnds(fault)

Alive == crash = "none" /\ failure = "none"
Yielded == Alive /\ ~Running

(* The event loop runs every task that is ready, the lock is handed over in *)
(* the order of the queue, the application goes on taking messages, and the *)
(* broker answers.  Nothing makes an application call, leave or exit, nor   *)
(* the broker publish.                                                      *)
Fairness ==
  /\ WF_vars(Alive /\ ReaderRuns)
  /\ \A w \in Workers : WF_vars(Yielded /\ (TakeOutbound(w) \/ SendOutbound(w)))
  /\ \A t \in Tasks : /\ WF_vars(Yielded /\ Return(t))
                      /\ WF_vars(Yielded /\ TakeMessage(t))
                      /\ WF_vars(Yielded /\ Deliver(t))
  /\ WF_vars(Yielded /\ (Establish \/ FinishHandshake \/ LoopConnection))
  /\ WF_vars(Yielded /\ (CloseStream \/ FinishExit))
  /\ WF_vars(Yielded /\ (EndOfStream \/ FinishDelivery))
  /\ WF_vars(Yielded /\ BrokerHandle)

Next ==
  /\ Alive
  /\ \/ ReaderRuns
     \/ ~Running /\ (TasksRun \/ Environment)

Spec == Init /\ [][Next]_vars
FairSpec == Spec /\ Fairness

-----------------------------------------------------------------------------
(* Properties                                                              *)

(* Every variable has its type; in particular a buffer never holds more    *)
(* than BufferSize messages.                                               *)
TypeOK ==
  /\ SM!TypeOK
  /\ main \in {"entering", "running", "exiting", "closing", "ended"}
  /\ manager \in {"connecting", "handshake", "serving", "ended"}
  /\ reader \in {"none", "reading", "feeding", "flushing", "handling", "delivering", "ended"}
  /\ op \in [Callers -> [stage : {"idle", "flush", "wait"}, id : 0 .. MaxPacketId,
                         msg : 0 .. MaxPublishes]]
  /\ answered \subseteq Callers
  /\ DOMAIN pending_operations \subseteq 1 .. MaxPacketId
  /\ Range(pending_operations) \subseteq Tasks
  /\ lock \in Seq(Workers)
  /\ \A w \in Workers : sending[w] \in Seq(SM!Packets)
  /\ inbox \in Seq(SM!Packets) /\ delivering \subseteq Tasks
  /\ where \in [Tasks -> {"out", "entering", "in", "leaving"}]
  /\ patterns \in [Tasks -> SUBSET Patterns]
  /\ \A t \in Tasks : Len(buffer[t]) <= BufferSize
  /\ link \in {"none", "open", "eof", "reset", "closed"}
  /\ c2b \in Seq(SM!Packets) /\ b2c \in Seq(SM!Packets)
  /\ granted \subseteq Patterns

(* With a broker that keeps to the protocol and stays, and an application  *)
(* that cancels nothing and takes what it has subscribed to, no exception  *)
(* ends the client: every answer finds its operation, and no packet comes  *)
(* when the state machine refuses it, not even while the client is closed. *)
NoCrash == Alive

(* A QoS 1 or 2 publish() that has returned has handed its message to the  *)
(* broker, whatever other tasks were cancelled with packets of theirs and  *)
(* of this one on the way.  (A reconnection restarts the packet ids and    *)
(* voids this; it holds for the first connection.)                         *)
ReturnedArrived == connects = 1 => returned \subseteq Range(arrived)

(* The broker gets the messages in the order of the publish() calls of all *)
(* tasks, each once, though each call flushes what any call has encoded.   *)
ArrivesInOrder == \A k \in DOMAIN arrived : arrived[k] = k

(* A subscription is handed the messages that match it in the order of the *)
(* broker and with none missing in between, however full its buffer or     *)
(* another task's buffer has been.                                         *)
NoGaps ==
  \A t \in Tasks :
    LET s == taken[t] \o buffer[t]
    IN  \A i \in 1 .. Len(s) - 1 :
          /\ s[i] < s[i + 1]
          /\ \A k \in s[i] + 1 .. s[i + 1] - 1 : Matching[k] \cap patterns[t] = {}

(* The lock keeps the stream's writers apart: its queue holds exactly the  *)
(* tasks inside a flush, each once, cancelled ones gone, and nobody but    *)
(* its holder has taken data out of the state machine.                     *)
LockHeldInFlush ==
  /\ IsInjective(lock)
  /\ Range(lock) = {w \in Callers : op[w].stage = "flush"}
                   \cup {w \in {"reader"} : reader = "flushing"}
  /\ \A w \in Workers : sending[w] # <<>> => w = Head(lock)

(* No answer is lost or misled on its way through the client: an operation *)
(* that waits is the one registered under its packet id, and the id leaves *)
(* the state machine's table only with an answer that is then in the       *)
(* inbox, to be handled.  (Again for the first connection.)  It does not   *)
(* say that an answer comes: a cancelled flush may have taken the request  *)
(* with it, and the operation then waits for ever.                         *)
AnswerFindsCall ==
  connects = 1 =>
    \A t \in Tasks : op[t].id # 0 /\ t \notin answered =>
      /\ op[t].id \in DOMAIN pending_operations
      /\ pending_operations[op[t].id] = t
      /\ \/ SM!Slots(op[t].id) # {}
         \/ \E p \in Range(inbox) : p.type \in Answers /\ p.packet_id = op[t].id

(* Whatever other contexts were opened and left in the meantime, the       *)
(* patterns of a context a task is in are granted once what is on its way  *)
(* to the broker has arrived there.                                        *)
ContextGranted ==
  LET held == IF lock = <<>> THEN <<>> ELSE sending[Head(lock)]
  IN  \A t \in Tasks : where[t] = "in" =>
        patterns[t] \subseteq FoldLeft(GrantedAfter, granted, c2b \o held \o out_buffer)

\* Every call returns: publish(), subscribe() and the exit of its context.
EveryCallReturns == \A w \in Callers : ~Idle(w) ~> Idle(w)

\* A message that is sent to a task that is in a context is taken by that task.
SentIsTaken ==
  \A t \in Subscribers, k \in DOMAIN Incoming :
    (where[t] = "in" /\ patterns[t] \cap Matching[k] # {} /\ Incoming[k] \in Range(b2c))
      ~> (k \in Range(taken[t]))

(* The reader gets back to reading from the transport, or ends with it,    *)
(* as the developer guide asks of a client's I/O implementation.           *)
ReaderGoesOn == Running \/ reader \in {"flushing", "delivering"} ~> reader \in {"reading", "ended"}

\* An application that leaves the client gets out of it, all tasks ended.
ExitEnds == main = "exiting" ~> main = "ended"

=============================================================================
