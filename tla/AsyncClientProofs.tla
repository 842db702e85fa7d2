------------------------- MODULE AsyncClientProofs -------------------------
(***************************************************************************)
(* Theorems about an asyncio client, for every set of tasks, every broker  *)
(* and every way a connection ends, calls cancelled at any time included.  *)
(*                                                                         *)
(* The first part is about the lock, which keeps the writers of the stream *)
(* apart.  LockHeldInFlush is not inductive as it stands.  Whoever joins   *)
(* the queue must not be in it: the application's body is idle before it   *)
(* exits, the connection task before it shakes hands (Idlers), and the     *)
(* reader does not flush while a transport is opened.  And whoever has     *)
(* taken data out of the state machine must be in the queue at all         *)
(* (Senders).                                                              *)
(*                                                                         *)
(* The second part is about the types and the order of the messages, for   *)
(* every sequence of messages and every size of a buffer.  What a          *)
(* subscription is handed is in the broker's order with nothing left out,  *)
(* over reconnections too; what the broker gets on the first connection is *)
(* in the order of the publish() calls (a later connection resends, and a  *)
(* flush that is cancelled loses packets).                                 *)
(*                                                                         *)
(* At any time the messages on their way are consecutive in every queue    *)
(* and the queues join up (Inflow, Outflow); a step moves one border       *)
(* between two queues.  That needs the types of all variables (Types),     *)
(* those of the state machine (P!Ind) among them; that nothing is on its   *)
(* way before the first connection (Fresh); that nothing is left of a      *)
(* connection when the next one opens, since a reader that ended without   *)
(* ending the client has read all there was (Streams); that the first      *)
(* handshake finds nothing to send again (NothingPending); and that one    *)
(* task at a time takes data out of the state machine (Ind).               *)
(*                                                                         *)
(* The third part is about the answers to the calls of the first           *)
(* connection (a later one starts the packet ids afresh).  No packet id is *)
(* given out twice (Counted, Numbered), and every packet on its way that   *)
(* leads to an answer, or is one, is about the call that has its id        *)
(* (Truthful): that is what makes a publish() that returns one that has    *)
(* arrived.  And the request of a call that waits stays in the table until *)
(* its answer is there (Waits), as long as the two directions do not meet  *)
(* in it (Apart).                                                          *)
(*                                                                         *)
(* The fourth part is about the subscriptions of the contexts, as long as  *)
(* no call is cancelled and nothing ends the first connection (Lasting).   *)
(* The state machine counts at least the users of each pattern (Shared),   *)
(* so a context that drops a pattern is its last user; and the patterns it *)
(* takes for subscribed are granted once the packets on their way to the   *)
(* broker have arrived, in their order (Agreed).  What those packets grant *)
(* is a fold: one more packet at its end is one more to process            *)
(* (GrantingLast), the first one is what the broker processes next         *)
(* (GrantingFirst), and a flush moves packets along the queues without a   *)
(* change of their order.                                                  *)
(***************************************************************************)
EXTENDS AsyncClient, SequenceLemmas, FiniteSetTheorems, TLAPS

-----------------------------------------------------------------------------
(* The lock                                                                *)

\* The tasks inside _flush_outbound_data
Flushing == {w \in Callers : op[w].stage = "flush"}
            \cup {w \in {"reader"} : reader = "flushing"}

Shape ==
  /\ DOMAIN op = Callers /\ \A w \in Callers : "stage" \in DOMAIN op[w]
  /\ DOMAIN sending = Workers

Queue ==
  /\ lock \in Seq(Workers)
  /\ IsInjective(lock)
  /\ Range(lock) = Flushing

Senders == \A w \in Workers : sending[w] # <<>> => lock # <<>> /\ w = Head(lock)

Idlers ==
  /\ main \in {"entering", "running"} => Idle("main")
  /\ manager # "handshake" => Idle("manager")
  /\ crash = "none" /\ manager = "connecting" => reader \in {"none", "ended"}

LockInv == Shape /\ Queue /\ Senders
Ind == LockInv /\ Idlers

-----------------------------------------------------------------------------
(* Operations                                                              *)

LEMMA WorkerTypes ==
  /\ "main" \in Callers /\ "manager" \in Callers /\ "reader" \notin Callers
  /\ "main" # "manager"
  /\ \A t \in Tasks : t \in Callers /\ t \in Workers /\ t \notin {"main", "manager", "reader"}
  /\ \A w \in Callers : w \in Workers
  /\ \A w \in Workers : w \in Callers \/ w = "reader"
BY TasksAssumption DEF Callers, Workers

LEMMA OperationSet ==
  ASSUME Shape, NEW w \in Callers, NEW r, "stage" \in DOMAIN r, op' = [op EXCEPT ![w] = r]
  PROVE  /\ DOMAIN op' = Callers /\ \A v \in Callers : "stage" \in DOMAIN op'[v]
         /\ op'[w] = r
         /\ \A v \in Callers \ {w} : op'[v] = op[v]
BY DEF Shape

LEMMA OperationFlushed ==
  ASSUME Shape, NEW w \in Callers
  PROVE  LET r == [op[w] EXCEPT !.stage = "wait"]
         IN  "stage" \in DOMAIN r /\ r.stage = "wait"
<1>1. "stage" \in DOMAIN op[w]
  BY DEF Shape
<1> QED BY <1>1, Zenon

-----------------------------------------------------------------------------
(* The queue                                                               *)

\* The holder of the lock is in the queue.
LEMMA HolderFlushes ==
  ASSUME LockInv, lock # <<>>
  PROVE  Head(lock) \in Flushing /\ Head(lock) \in Workers
<1>1. Head(lock) = lock[1] /\ 1 \in DOMAIN lock
  BY HeadTailProperties, LenProperties, EmptySeq DEF LockInv, Queue
<1>2. lock[1] \in Range(lock)
  BY <1>1 DEF Range
<1> QED BY <1>1, <1>2, ElementType DEF LockInv, Queue

LEMMA ReleaseStep ==
  ASSUME LockInv, NEW w, Release(w)
  PROVE  /\ lock' \in Seq(Workers)
         /\ IsInjective(lock')
         /\ Range(lock') = Range(lock) \ {w}
         /\ lock # <<>> /\ Head(lock) # w => lock' # <<>> /\ Head(lock') = Head(lock)
<1>1. lock \in Seq(Workers) /\ IsInjective(lock)
  BY DEF LockInv, Queue
<1>2. CASE w \notin Range(lock) /\ UNCHANGED lock
  <2>1. IsInjective(lock') /\ Range(lock') = Range(lock)
    BY <1>1, <1>2 DEF IsInjective, Range
  <2> QED BY <1>1, <1>2, <2>1
<1>3. ASSUME NEW k \in DOMAIN lock, lock[k] = w, lock' = RemoveAt(lock, k)
      PROVE  /\ lock' \in Seq(Workers)
             /\ IsInjective(lock')
             /\ Range(lock') = Range(lock) \ {w}
             /\ lock # <<>> /\ Head(lock) # w
                => lock' # <<>> /\ Head(lock') = Head(lock)
  <2> DEFINE rest == RemoveAt(lock, k)
  <2>1. /\ rest \in Seq(Workers) /\ IsInjective(rest)
        /\ Range(rest) = Range(lock) \ {w}
        /\ k # 1 => rest # <<>> /\ Head(rest) = Head(lock)
    BY <1>1, <1>3, LeaveQueue, RemoveAtType
  <2>2. lock' = rest
    BY <1>3
  <2> HIDE DEF rest
  <2>3. lock # <<>> /\ Head(lock) # w => k # 1
    BY <1>1, <1>3, HeadTailProperties
  <2>4. IsInjective(lock') /\ Range(lock') = Range(rest)
    BY <2>1, <2>2 DEF IsInjective, Range
  <2> QED BY <2>1, <2>2, <2>3, <2>4
<1> QED BY <1>2, <1>3 DEF Release

LEMMA JoinStep ==
  ASSUME LockInv, NEW w \in Workers, w \notin Flushing, lock' = Append(lock, w)
  PROVE  /\ lock' \in Seq(Workers)
         /\ IsInjective(lock')
         /\ Range(lock') = Range(lock) \cup {w}
         /\ lock' # <<>>
         /\ lock # <<>> => Head(lock') = Head(lock)
<1> DEFINE longer == Append(lock, w)
<1>1. /\ longer \in Seq(Workers)
      /\ IsInjective(longer)
      /\ Range(longer) = Range(lock) \cup {w}
      /\ longer # <<>>
      /\ lock # <<>> => Head(longer) = Head(lock)
  BY JoinQueue DEF LockInv, Queue
<1>2. lock' = longer
  OBVIOUS
<1> HIDE DEF longer
<1>3. IsInjective(lock') /\ Range(lock') = Range(longer)
  BY <1>1, <1>2 DEF IsInjective, Range
<1> QED BY <1>1, <1>2, <1>3

\* Nothing happens to the queue.
LEMMA QueueUnchanged ==
  ASSUME LockInv, UNCHANGED <<lock, sending>>,
         DOMAIN op' = Callers, \A w \in Callers : "stage" \in DOMAIN op'[w],
         Flushing' = Flushing
  PROVE  LockInv'
<1>1. IsInjective(lock') /\ Range(lock') = Range(lock)
  BY DEF LockInv, Queue, IsInjective, Range
<1> QED BY <1>1 DEF LockInv, Shape, Queue, Senders

\* A task joins the queue: _run_operation of a caller that is in no call.
LEMMA RunStep ==
  ASSUME LockInv, NEW w \in Callers, Idle(w), NEW id, NEW m, Run(w, id, m),
         UNCHANGED reader
  PROVE  LockInv' /\ \A v \in Callers \ {w} : op'[v] = op[v]
<1> DEFINE r == [stage |-> "flush", id |-> id, msg |-> m]
<1>1. op' = [op EXCEPT ![w] = r] /\ lock' = Append(lock, w) /\ UNCHANGED sending
  BY DEF Run
<1>2. "stage" \in DOMAIN r /\ r.stage = "flush"
  OBVIOUS
<1> HIDE DEF r
<1>3. /\ DOMAIN op' = Callers /\ \A v \in Callers : "stage" \in DOMAIN op'[v]
      /\ op'[w] = r
      /\ \A v \in Callers \ {w} : op'[v] = op[v]
  BY <1>1, <1>2, OperationSet DEF LockInv
<1>4. w \notin Flushing
  BY WorkerTypes DEF Flushing, Idle
<1>5. Flushing' = Flushing \cup {w}
  BY <1>2, <1>3 DEF Flushing
<1>6. /\ lock' \in Seq(Workers) /\ IsInjective(lock')
      /\ Range(lock') = Range(lock) \cup {w}
      /\ lock' # <<>> /\ (lock # <<>> => Head(lock') = Head(lock))
  BY <1>1, <1>4, WorkerTypes, JoinStep
<1> QED BY <1>1, <1>3, <1>5, <1>6 DEF LockInv, Shape, Queue, Senders

\* A caller that is not flushing is done with its call.
LEMMA FinishStep ==
  ASSUME LockInv, NEW w \in Callers, op[w].stage # "flush", Finish(w),
         UNCHANGED <<lockVars, reader>>
  PROVE  LockInv' /\ Idle(w)' /\ \A v \in Callers \ {w} : op'[v] = op[v]
<1>1. "stage" \in DOMAIN NoOperation /\ NoOperation.stage = "idle"
  BY DEF NoOperation
<1>2. op' = [op EXCEPT ![w] = NoOperation] /\ UNCHANGED <<lock, sending>>
  BY DEF Finish, lockVars
<1>3. /\ DOMAIN op' = Callers /\ \A v \in Callers : "stage" \in DOMAIN op'[v]
      /\ op'[w] = NoOperation
      /\ \A v \in Callers \ {w} : op'[v] = op[v]
  BY <1>1, <1>2, OperationSet DEF LockInv
<1>4. Flushing' = Flushing
  BY <1>1, <1>3 DEF Flushing
<1>5. LockInv'
  BY <1>2, <1>3, <1>4, QueueUnchanged
<1> QED BY <1>1, <1>3, <1>5 DEF Idle

(* A worker leaves the queue, wherever it was in it, and what it had taken *)
(* out of the state machine is sent or lost.                               *)
LEMMA LeaveStep ==
  ASSUME LockInv, NEW w \in Workers, Release(w),
         sending' = sending \/ sending' = [sending EXCEPT ![w] = <<>>],
         sending'[w] = <<>>,
         DOMAIN op' = Callers, \A v \in Callers : "stage" \in DOMAIN op'[v],
         Flushing' = Flushing \ {w}
  PROVE  LockInv'
<1>1. /\ lock' \in Seq(Workers) /\ IsInjective(lock')
      /\ Range(lock') = Range(lock) \ {w}
      /\ lock # <<>> /\ Head(lock) # w => lock' # <<>> /\ Head(lock') = Head(lock)
  BY ReleaseStep
<1>2. DOMAIN sending' = Workers /\ \A v \in Workers \ {w} : sending'[v] = sending[v]
  BY DEF LockInv, Shape
<1>3. Senders'
  BY <1>1, <1>2 DEF LockInv, Senders
<1> QED BY <1>1, <1>2, <1>3 DEF LockInv, Shape, Queue

\* A caller drops its operation and leaves the queue.
LEMMA DropStep ==
  ASSUME LockInv, NEW w \in Callers, Finish(w), Release(w),
         sending' = [sending EXCEPT ![w] = <<>>], UNCHANGED reader
  PROVE  LockInv' /\ Idle(w)' /\ \A v \in Callers \ {w} : op'[v] = op[v]
<1>1. "stage" \in DOMAIN NoOperation /\ NoOperation.stage = "idle"
  BY DEF NoOperation
<1>2. op' = [op EXCEPT ![w] = NoOperation]
  BY DEF Finish
<1>3. /\ DOMAIN op' = Callers /\ \A v \in Callers : "stage" \in DOMAIN op'[v]
      /\ op'[w] = NoOperation
      /\ \A v \in Callers \ {w} : op'[v] = op[v]
  BY <1>1, <1>2, OperationSet DEF LockInv
<1>4. Flushing' = Flushing \ {w}
  BY <1>1, <1>3, WorkerTypes DEF Flushing
<1>5. w \in Workers /\ sending'[w] = <<>>
  BY WorkerTypes DEF LockInv, Shape
<1>6. LockInv'
  BY <1>3, <1>4, <1>5, LeaveStep
<1> QED BY <1>1, <1>3, <1>6 DEF Idle

\* The flush of the lock's holder is over.
LEMMA FlushedStep ==
  ASSUME LockInv, lock # <<>>, NEW w, w = Head(lock),
         Release(w), Flushed(w),
         sending' = sending \/ sending' = [sending EXCEPT ![w] = <<>>],
         sending'[w] = <<>>
  PROVE  /\ LockInv'
         /\ \A v \in Callers : Idle(v) => op'[v] = op[v]
         /\ reader' = "handling" \/ UNCHANGED reader
         /\ reader \in {"none", "ended"} => UNCHANGED reader
<1>1. w \in Flushing /\ w \in Workers
  BY HolderFlushes
<1>2. CASE w = "reader" /\ reader' = "handling" /\ UNCHANGED op
  <2>1. reader = "flushing" /\ w \notin Callers
    BY <1>1, <1>2, WorkerTypes DEF Flushing
  <2>2. Flushing' = Flushing \ {w}
    BY <1>2, <2>1 DEF Flushing
  <2>3. LockInv'
    BY <1>1, <1>2, <2>2, LeaveStep DEF LockInv, Shape
  <2> QED BY <1>2, <2>1, <2>3
<1>3. CASE w # "reader" /\ op' = [op EXCEPT ![w].stage = "wait"] /\ UNCHANGED reader
  <2> DEFINE r == [op[w] EXCEPT !.stage = "wait"]
  <2>1. w \in Callers
    BY <1>1, <1>3, WorkerTypes
  <2>2. "stage" \in DOMAIN r /\ r.stage = "wait"
    BY <2>1, OperationFlushed DEF LockInv
  <2>3. op' = [op EXCEPT ![w] = r]
    BY <1>3
  <2> HIDE DEF r
  <2>4. /\ DOMAIN op' = Callers /\ \A v \in Callers : "stage" \in DOMAIN op'[v]
        /\ op'[w] = r
        /\ \A v \in Callers \ {w} : op'[v] = op[v]
    BY <2>1, <2>2, <2>3, OperationSet DEF LockInv
  <2>5. UNCHANGED reader
    BY <1>3
  <2>6. Flushing' = Flushing \ {w}
    BY <2>1, <2>2, <2>4, <2>5, WorkerTypes DEF Flushing
  <2>7. LockInv'
    BY <1>1, <2>4, <2>6, LeaveStep
  <2>8. ~Idle(w)
    BY <1>1, <2>1, WorkerTypes DEF Flushing, Idle
  <2> QED BY <2>4, <2>5, <2>7, <2>8
<1> QED BY <1>2, <1>3, Zenon DEF Flushed

-----------------------------------------------------------------------------
(* The actions.  Those that leave the queue alone need only be such that   *)
(* the reader does not begin or end a flush.                               *)

LEMMA AloneStep ==
  ASSUME Ind, UNCHANGED <<op, lock, sending>>,
         reader # "flushing", reader' # "flushing"
  PROVE  LockInv'
<1>1. Flushing' = Flushing
  BY DEF Flushing
<1> QED BY <1>1, QueueUnchanged DEF Ind, LockInv, Shape

LEMMA ReaderUnchanged ==
  ASSUME Ind, UNCHANGED <<op, lock, sending, reader>>
  PROVE  LockInv'
<1>1. Flushing' = Flushing
  BY DEF Flushing
<1> QED BY <1>1, QueueUnchanged DEF Ind, LockInv, Shape

LEMMA StillStep ==
  ASSUME Ind, crash = "none", UNCHANGED <<main, manager, op, lock, sending, reader>>
  PROVE  Ind'
<1>1. LockInv'
  BY ReaderUnchanged
<1> QED BY <1>1 DEF Ind, Idlers, Idle

\* A step of the application's task t, while the tasks of the client stand still.
LEMMA TaskStep ==
  ASSUME Ind, crash = "none", NEW t \in Tasks, LockInv',
         \A v \in Callers \ {t} : op'[v] = op[v],
         UNCHANGED <<main, manager, reader>>
  PROVE  Ind'
<1>1. op'["main"] = op["main"] /\ op'["manager"] = op["manager"]
  BY WorkerTypes
<1> QED BY <1>1 DEF Ind, Idlers, Idle

LEMMA TakeOutboundStep ==
  ASSUME Ind, crash = "none", NEW w \in Workers, TakeOutbound(w)
  PROVE  Ind'
<1>1. /\ lock # <<>> /\ w = Head(lock) /\ sending[w] = <<>>
      /\ UNCHANGED <<main, manager, crash>>
  BY DEF TakeOutbound
<1>2. CASE Release(w) /\ Flushed(w) /\ UNCHANGED sending
  <2>1. /\ LockInv'
        /\ \A v \in Callers : Idle(v) => op'[v] = op[v]
        /\ reader \in {"none", "ended"} => UNCHANGED reader
    BY <1>1, <1>2, FlushedStep DEF Ind
  <2> QED BY <1>1, <2>1, WorkerTypes DEF Ind, Idlers, Idle
<1>3. CASE sending' = [sending EXCEPT ![w] = out_buffer] /\ UNCHANGED <<lock, op, reader>>
  <2>1. Flushing' = Flushing
    BY <1>3 DEF Flushing
  <2>2. IsInjective(lock') /\ Range(lock') = Range(lock)
    BY <1>3 DEF Ind, LockInv, Queue, IsInjective, Range
  <2>3. Senders'
    BY <1>1, <1>3 DEF Ind, LockInv, Shape, Senders
  <2>4. LockInv'
    BY <1>3, <2>1, <2>2, <2>3 DEF Ind, LockInv, Shape, Queue
  <2> QED BY <1>1, <1>3, <2>4 DEF Ind, Idlers, Idle
<1> QED BY <1>2, <1>3, Zenon DEF TakeOutbound

LEMMA AbandonStep ==
  ASSUME Ind, crash = "none", NEW t \in Tasks, Abandon(t),
         UNCHANGED <<main, manager, reader>>
  PROVE  Ind'
<1>1. Finish(t) /\ Release(t) /\ sending' = [sending EXCEPT ![t] = <<>>]
  BY DEF Abandon
<1>2. LockInv' /\ \A v \in Callers \ {t} : op'[v] = op[v]
  BY <1>1, DropStep, WorkerTypes DEF Ind
<1> QED BY <1>2, TaskStep

LEMMA SendOutboundStep ==
  ASSUME Ind, crash = "none", NEW w \in Workers, SendOutbound(w)
  PROVE  Ind'
<1>1. sending[w] # <<>> /\ UNCHANGED <<main, manager>>
  BY DEF SendOutbound
<1>2. lock # <<>> /\ w = Head(lock) /\ w \in Flushing
  BY <1>1, HolderFlushes DEF Ind, LockInv, Senders
<1>3. ~(w = "main" /\ Idle("main")) /\ ~(w = "manager" /\ Idle("manager"))
  BY <1>2, WorkerTypes DEF Flushing, Idle
<1>4. CASE /\ sending' = [sending EXCEPT ![w] = <<>>]
           /\ Release(w) /\ Flushed(w) /\ UNCHANGED crash
  <2>1. sending'[w] = <<>>
    BY <1>4 DEF Ind, LockInv, Shape
  <2>2. /\ LockInv'
        /\ \A v \in Callers : Idle(v) => op'[v] = op[v]
        /\ reader \in {"none", "ended"} => UNCHANGED reader
    BY <1>2, <1>4, <2>1, FlushedStep DEF Ind
  <2> QED BY <1>1, <1>4, <2>2, WorkerTypes DEF Ind, Idlers, Idle
<1>5. CASE w \in Tasks /\ Abandon(w) /\ UNCHANGED reader
  BY <1>1, <1>5, AbandonStep
<1>6. CASE /\ sending' = [sending EXCEPT ![w] = <<>>] /\ Release(w)
           /\ w = "reader" /\ reader' = "ended" /\ UNCHANGED opVars
  <2>1. sending'[w] = <<>> /\ UNCHANGED op
    BY <1>6 DEF Ind, LockInv, Shape, opVars
  <2>2. Flushing' = Flushing \ {w}
    BY <1>6, <2>1, WorkerTypes DEF Flushing
  <2>3. LockInv'
    BY <1>6, <2>1, <2>2, LeaveStep DEF Ind, LockInv, Shape
  <2> QED BY <1>1, <1>6, <2>1, <2>3 DEF Ind, Idlers, Idle
<1>7. CASE /\ sending' = [sending EXCEPT ![w] = <<>>] /\ Release(w)
           /\ w # "reader" /\ Finish(w) /\ crash' = "BrokenResourceError"
           /\ UNCHANGED reader
  <2>1. w \in Callers
    BY <1>7, WorkerTypes
  <2>2. LockInv' /\ Idle(w)' /\ \A v \in Callers \ {w} : op'[v] = op[v]
    BY <1>7, <2>1, DropStep DEF Ind
  <2>3. \A v \in Callers : Idle(v) => Idle(v)'
    BY <2>2 DEF Idle
  <2> QED BY <1>1, <1>7, <2>2, <2>3, WorkerTypes DEF Ind, Idlers
<1> QED BY <1>4, <1>5, <1>6, <1>7, Zenon DEF SendOutbound

LEMMA CallPublishStep ==
  ASSUME Ind, crash = "none", NEW t \in Tasks, NEW q, CallPublish(t, q)
  PROVE  Ind'
<1>1. /\ Idle(t) /\ Run(t, IF q = 0 THEN 0 ELSE next_packet_id, called')
      /\ UNCHANGED <<main, manager, reader>>
  BY DEF CallPublish, readerVars
<1>2. LockInv' /\ \A v \in Callers \ {t} : op'[v] = op[v]
  BY <1>1, RunStep, WorkerTypes DEF Ind
<1> QED BY <1>1, <1>2, TaskStep

LEMMA EnterContextStep ==
  ASSUME Ind, crash = "none", NEW t \in Tasks, NEW S, EnterContext(t, S)
  PROVE  Ind'
<1>1. Idle(t) /\ UNCHANGED <<main, manager, reader>>
  BY DEF EnterContext, readerVars
<1>2. CASE Run(t, next_packet_id, 0)
  <2>1. LockInv' /\ \A v \in Callers \ {t} : op'[v] = op[v]
    BY <1>1, <1>2, RunStep, WorkerTypes DEF Ind
  <2> QED BY <1>1, <2>1, TaskStep
<1>3. CASE UNCHANGED <<opVars, lockVars>>
  BY <1>1, <1>3, StillStep DEF opVars, lockVars
<1> QED BY <1>2, <1>3 DEF EnterContext

LEMMA LeaveContextStep ==
  ASSUME Ind, crash = "none", NEW t \in Tasks, LeaveContext(t)
  PROVE  Ind'
<1>1. Idle(t) /\ UNCHANGED <<main, manager, reader>>
  BY DEF LeaveContext, readerVars
<1>2. CASE Run(t, next_packet_id, 0)
  <2>1. LockInv' /\ \A v \in Callers \ {t} : op'[v] = op[v]
    BY <1>1, <1>2, RunStep, WorkerTypes DEF Ind
  <2> QED BY <1>1, <2>1, TaskStep
<1>3. CASE UNCHANGED <<opVars, lockVars>>
  BY <1>1, <1>3, StillStep DEF opVars, lockVars
<1> QED BY <1>2, <1>3 DEF LeaveContext

LEMMA ReturnStep ==
  ASSUME Ind, crash = "none", NEW t \in Tasks, Return(t)
  PROVE  Ind'
<1>1. /\ op[t].stage # "flush" /\ Finish(t)
      /\ UNCHANGED <<main, manager, lockVars, reader>>
  BY DEF Return, readerVars
<1>2. LockInv' /\ \A v \in Callers \ {t} : op'[v] = op[v]
  BY <1>1, FinishStep, WorkerTypes DEF Ind
<1> QED BY <1>1, <1>2, TaskStep

LEMMA EstablishStep ==
  ASSUME Ind, crash = "none", Establish
  PROVE  Ind'
<1>1. /\ manager = "connecting" /\ Idle("manager")
      /\ reader \in {"none", "ended"} /\ reader' = "reading"
      /\ UNCHANGED main
  BY DEF Establish, Ind, Idlers
<1>2. CASE Run("manager", 0, 0) /\ manager' = "handshake"
  <2> DEFINE r == [stage |-> "flush", id |-> 0, msg |-> 0]
  <2>1. op' = [op EXCEPT !["manager"] = r] /\ lock' = Append(lock, "manager")
        /\ UNCHANGED sending
    BY <1>2 DEF Run
  <2>2. "stage" \in DOMAIN r /\ r.stage = "flush"
    OBVIOUS
  <2> HIDE DEF r
  <2>3. /\ DOMAIN op' = Callers /\ \A v \in Callers : "stage" \in DOMAIN op'[v]
        /\ op'["manager"] = r
        /\ \A v \in Callers \ {"manager"} : op'[v] = op[v]
    BY <2>1, <2>2, WorkerTypes, OperationSet DEF Ind, LockInv
  <2>4. "manager" \notin Flushing
    BY <1>1, WorkerTypes DEF Flushing, Idle
  <2>5. Flushing' = Flushing \cup {"manager"}
    BY <1>1, <2>2, <2>3, WorkerTypes DEF Flushing
  <2>6. /\ lock' \in Seq(Workers) /\ IsInjective(lock')
        /\ Range(lock') = Range(lock) \cup {"manager"}
        /\ lock' # <<>> /\ (lock # <<>> => Head(lock') = Head(lock))
    BY <2>1, <2>4, WorkerTypes, JoinStep DEF Ind
  <2>7. LockInv'
    BY <2>1, <2>3, <2>5, <2>6 DEF Ind, LockInv, Shape, Queue, Senders
  <2>8. op'["main"] = op["main"]
    BY <2>3, WorkerTypes
  <2> QED BY <1>1, <1>2, <2>7, <2>8 DEF Ind, Idlers, Idle
<1>3. CASE crash' = "MQTTProtocolError" /\ UNCHANGED <<opVars, lockVars, manager>>
  <2>1. LockInv'
    BY <1>1, <1>3, AloneStep DEF opVars, lockVars
  <2> QED BY <1>1, <1>3, <2>1 DEF Ind, Idlers, Idle, opVars
<1> QED BY <1>2, <1>3 DEF Establish

LEMMA FinishHandshakeStep ==
  ASSUME Ind, crash = "none", FinishHandshake
  PROVE  Ind'
<1>1. /\ op["manager"].stage # "flush" /\ Finish("manager")
      /\ UNCHANGED <<lockVars, reader>> /\ manager' = "serving"
      /\ main' \in {"entering", "running"} => main \in {"entering", "running"}
  BY DEF FinishHandshake, readerVars
<1>2. /\ LockInv' /\ Idle("manager")'
      /\ \A v \in Callers \ {"manager"} : op'[v] = op[v]
  BY <1>1, FinishStep, WorkerTypes DEF Ind
<1>3. op'["main"] = op["main"]
  BY <1>2, WorkerTypes
<1> QED BY <1>1, <1>2, <1>3 DEF Ind, Idlers, Idle

LEMMA LoopConnectionStep ==
  ASSUME Ind, crash = "none", LoopConnection
  PROVE  Ind'
<1>1. /\ manager = "serving" /\ reader = "ended"
      /\ UNCHANGED <<main, op, lock, sending, reader>>
  BY DEF LoopConnection, opVars, lockVars, readerVars
<1>2. LockInv'
  BY <1>1, ReaderUnchanged
<1> QED BY <1>1, <1>2 DEF Ind, Idlers, Idle

LEMMA ExitStep ==
  ASSUME Ind, crash = "none", Exit
  PROVE  Ind'
<1>1. main = "running" /\ Idle("main") /\ UNCHANGED <<manager, reader>>
  BY DEF Exit, readerVars, Ind, Idlers
<1>2. CASE main' = "exiting" /\ Run("main", 0, 0) /\ UNCHANGED crash
  <2>1. LockInv' /\ \A v \in Callers \ {"main"} : op'[v] = op[v]
    BY <1>1, <1>2, RunStep, WorkerTypes DEF Ind
  <2>2. op'["manager"] = op["manager"]
    BY <2>1, WorkerTypes
  <2> QED BY <1>1, <1>2, <2>1, <2>2 DEF Ind, Idlers, Idle
<1>3. CASE UNCHANGED <<opVars, lockVars>> /\ (main' = "closing" \/ UNCHANGED main)
  <2>1. LockInv' /\ UNCHANGED op
    BY <1>1, <1>3, ReaderUnchanged DEF opVars, lockVars
  <2> QED BY <1>1, <1>3, <2>1 DEF Ind, Idlers, Idle
<1> QED BY <1>2, <1>3 DEF Exit

LEMMA CloseStreamStep ==
  ASSUME Ind, crash = "none", CloseStream
  PROVE  Ind'
<1>1. /\ op["main"].stage # "flush" /\ Finish("main")
      /\ UNCHANGED <<manager, lockVars, reader, crash>> /\ main' = "closing"
  BY DEF CloseStream, readerVars
<1>2. LockInv' /\ \A v \in Callers \ {"main"} : op'[v] = op[v]
  BY <1>1, FinishStep, WorkerTypes DEF Ind
<1>3. op'["manager"] = op["manager"]
  BY <1>2, WorkerTypes
<1> QED BY <1>1, <1>2, <1>3 DEF Ind, Idlers, Idle

LEMMA FinishExitStep ==
  ASSUME Ind, crash = "none", FinishExit
  PROVE  Ind'
<1>1. main' = "ended" /\ UNCHANGED <<manager, op, lock, sending, reader, crash>>
  BY DEF FinishExit, opVars, lockVars, readerVars
<1>2. LockInv'
  BY <1>1, ReaderUnchanged
<1> QED BY <1>1, <1>2 DEF Ind, Idlers, Idle

LEMMA FeedStep ==
  ASSUME Ind, crash = "none", Feed
  PROVE  Ind'
<1>1. reader \in {"reading", "feeding"} /\ UNCHANGED <<main, manager, op, sending, crash>>
  BY DEF Feed, opVars
<1>2. CASE reader' = "feeding" /\ UNCHANGED lock
  <2>1. LockInv'
    BY <1>1, <1>2, AloneStep
  <2> QED BY <1>1, <2>1 DEF Ind, Idlers, Idle
<1>3. CASE reader' = "flushing" /\ lock' = Append(lock, "reader")
  <2>1. "reader" \notin Flushing /\ "reader" \in Workers
    BY <1>1, WorkerTypes DEF Flushing, Workers
  <2>2. Flushing' = Flushing \cup {"reader"}
    BY <1>1, <1>3 DEF Flushing
  <2>3. /\ lock' \in Seq(Workers) /\ IsInjective(lock')
        /\ Range(lock') = Range(lock) \cup {"reader"}
        /\ lock' # <<>> /\ (lock # <<>> => Head(lock') = Head(lock))
    BY <1>3, <2>1, JoinStep DEF Ind
  <2>4. LockInv'
    BY <1>1, <2>2, <2>3 DEF Ind, LockInv, Shape, Queue, Senders
  <2> QED BY <1>1, <2>4 DEF Ind, Idlers, Idle
<1> QED BY <1>2, <1>3 DEF Feed

\* The reader moves on, outside of a flush.
LEMMA ReaderStep ==
  ASSUME Ind, crash = "none",
         reader \in {"reading", "handling", "delivering"}, reader' # "flushing",
         UNCHANGED <<main, manager, op, lock, sending>>
  PROVE  Ind'
<1>1. LockInv'
  BY AloneStep
<1> QED BY <1>1 DEF Ind, Idlers, Idle

LEMMA HandleStep ==
  ASSUME Ind, crash = "none", Handle
  PROVE  Ind'
<1>1. reader = "handling" /\ UNCHANGED <<main, manager, op, lock, sending>>
  BY DEF Handle, lockVars
<1>2. reader' # "flushing"
  BY DEF Handle, HandleAnswer, HandleConnAck, HandlePublish, HandleOther, NextPacket
<1> QED BY <1>1, <1>2, ReaderStep

LEMMA EndOfStreamStep ==
  ASSUME Ind, crash = "none", EndOfStream
  PROVE  Ind'
<1>1. /\ reader = "reading" /\ reader' # "flushing"
      /\ UNCHANGED <<main, manager, op, lock, sending>>
  BY DEF EndOfStream, opVars, lockVars
<1> QED BY <1>1, ReaderStep

LEMMA FinishDeliveryStep ==
  ASSUME Ind, crash = "none", FinishDelivery
  PROVE  Ind'
<1>1. /\ reader = "delivering" /\ reader' # "flushing"
      /\ UNCHANGED <<main, manager, op, lock, sending>>
  BY DEF FinishDelivery, NextPacket, opVars, lockVars
<1> QED BY <1>1, ReaderStep

LEMMA TaskSteps ==
  ASSUME Ind, crash = "none", NEW t \in Tasks,
         \/ TakeMessage(t) \/ LeaveContext(t) \/ Return(t)
         \/ CancelCall(t) \/ CancelContext(t) \/ Deliver(t)
  PROVE  Ind'
<1>1. CASE TakeMessage(t)
  BY <1>1, StillStep DEF TakeMessage, opVars, lockVars, readerVars
<1>2. CASE CancelCall(t)
  BY <1>2, AbandonStep DEF CancelCall, readerVars
<1>3. CASE CancelContext(t)
  BY <1>3, StillStep DEF CancelContext, opVars, lockVars, readerVars
<1>4. CASE Deliver(t)
  BY <1>4, StillStep DEF Deliver, opVars, lockVars
<1> QED BY <1>1, <1>2, <1>3, <1>4, LeaveContextStep, ReturnStep

LEMMA EnvironmentStep ==
  ASSUME Ind, crash = "none", Environment
  PROVE  Ind'
<1>1. UNCHANGED <<main, manager, opVars, lockVars, readerVars>>
  BY Zenon DEF Environment, BrokerHandle, BrokerPublish, BrokerEnds
<1> QED BY <1>1, StillStep DEF opVars, lockVars, readerVars

LEMMA TasksRunStep ==
  ASSUME Ind, crash = "none", TasksRun
  PROVE  Ind'
<1>1. ASSUME NEW w \in Workers, TakeOutbound(w) \/ SendOutbound(w)
      PROVE  Ind'
  BY <1>1, TakeOutboundStep, SendOutboundStep
<1>2. ASSUME NEW t \in Publishers, NEW q \in 0 .. 2, CallPublish(t, q)
      PROVE  Ind'
  BY <1>2, CallPublishStep, TasksAssumption
<1>3. ASSUME NEW t \in Subscribers, NEW S \in PatternSets, EnterContext(t, S)
      PROVE  Ind'
  BY <1>3, EnterContextStep, TasksAssumption
<1>4. CASE Establish \/ FinishHandshake \/ LoopConnection
  BY <1>4, EstablishStep, FinishHandshakeStep, LoopConnectionStep
<1>5. CASE Exit \/ CloseStream \/ FinishExit
  BY <1>5, ExitStep, CloseStreamStep, FinishExitStep
<1>6. CASE EndOfStream \/ FinishDelivery
  BY <1>6, EndOfStreamStep, FinishDeliveryStep
<1> QED BY <1>1, <1>2, <1>3, <1>4, <1>5, <1>6, TaskSteps, Zenon DEF TasksRun

LEMMA InitInd ==
  ASSUME Init
  PROVE  Ind
<1>1. /\ main = "entering" /\ manager = "connecting" /\ reader = "none"
      /\ op = [w \in Callers |-> NoOperation]
      /\ lock = <<>> /\ sending = [w \in Workers |-> <<>>]
  BY DEF Init
<1>2. "stage" \in DOMAIN NoOperation /\ NoOperation.stage = "idle"
  BY DEF NoOperation
<1>3. \A w \in Callers : op[w] = NoOperation
  BY <1>1
<1>4. Shape
  BY <1>1, <1>2, <1>3 DEF Shape
<1>5. Flushing = {}
  BY <1>1, <1>2, <1>3 DEF Flushing
<1>6. Queue
  BY <1>1, <1>5, EmptySeq DEF Queue, IsInjective, Range
<1>7. Senders
  BY <1>1 DEF Senders
<1>8. Idlers
  BY <1>1, <1>2, <1>3, WorkerTypes DEF Idlers, Idle
<1> QED BY <1>4, <1>6, <1>7, <1>8 DEF Ind, LockInv

LEMMA NextInd ==
  ASSUME Ind, [Next]_vars
  PROVE  Ind'
<1>1. CASE Next
  <2>1. crash = "none"
    BY <1>1 DEF Next, Alive
  <2> QED
    BY <1>1, <2>1, FeedStep, HandleStep, TasksRunStep, EnvironmentStep
    DEF Next, ReaderRuns
<1>2. CASE UNCHANGED vars
  <2>1. UNCHANGED <<main, manager, op, lock, sending, reader, crash>>
    BY <1>2 DEF vars, opVars, lockVars, readerVars
  <2>2. LockInv'
    BY <2>1, ReaderUnchanged
  <2> QED BY <2>1, <2>2 DEF Ind, Idlers, Idle
<1> QED BY <1>1, <1>2

(* The queue of the lock holds exactly the tasks inside a flush, each      *)
(* once, and only its head has taken data out of the state machine:        *)
(* however many tasks publish, subscribe, are cancelled or lose their      *)
(* connection, no two of them write to the stream at once, and none is     *)
(* left in the queue for the others to wait behind.                        *)
THEOREM WritersKeptApart == Spec => []LockHeldInFlush
<1>1. Ind => LockHeldInFlush
  BY DEF Ind, LockInv, Queue, Senders, Flushing, LockHeldInFlush
<1> QED BY InitInd, NextInd, <1>1, PTL DEF Spec

-----------------------------------------------------------------------------
(* The types and the order of the messages                                 *)

\* The state machine's own invariant, for a client that acknowledges by itself
P == INSTANCE ClientStateMachineProofs WITH AutoAck <- TRUE

Numbers == 1 .. Len(Incoming)

\* What a broker sends: its messages are those of Incoming.
Inbound == {p \in SM!Packets : p.type = "PUBLISH" => p.msg \in Numbers}

Operations == [stage : {"idle", "flush", "wait"}, id : 0 .. MaxPacketId,
               msg : 0 .. MaxPublishes]

CallTypes ==
  /\ op \in [Callers -> Operations]
  /\ answered \subseteq Callers
  /\ DOMAIN pending_operations \subseteq 1 .. MaxPacketId
  /\ \A i \in DOMAIN pending_operations : pending_operations[i] \in Tasks
  /\ called \in 0 .. MaxPublishes

ClientTypes ==
  /\ main \in {"entering", "running", "exiting", "closing", "ended"}
  /\ manager \in {"connecting", "handshake", "serving", "ended"}
  /\ connects \in Nat

ReaderTypes ==
  /\ reader \in {"none", "reading", "feeding", "flushing", "handling", "delivering", "ended"}
  /\ inbox \in Seq(Inbound)
  /\ delivering \subseteq Tasks
  /\ reader \in {"feeding", "flushing", "handling", "delivering"} => inbox # <<>>
  /\ reader = "delivering" => Head(inbox).type = "PUBLISH"
  /\ reader # "delivering" => delivering = {}
  /\ reader = "reading" => inbox = <<>>

ContextTypes ==
  /\ where \in [Tasks -> {"out", "entering", "in", "leaving"}]
  /\ patterns \in [Tasks -> SUBSET Patterns]
  /\ buffer \in [Tasks -> Seq(Numbers)]
  /\ taken \in [Tasks -> Seq(Numbers)]
  /\ \A t \in Tasks : Len(buffer[t]) <= BufferSize
  /\ \A t \in Tasks : where[t] = "out" => buffer[t] = <<>> /\ patterns[t] = {}
  /\ crash = "none" => \A t \in delivering : where[t] # "out"

NetTypes ==
  /\ link \in {"none", "open", "eof", "reset", "closed"}
  /\ \A w \in Workers : sending[w] \in Seq(SM!Packets)
  /\ c2b \in Seq(SM!Packets)
  /\ b2c \in Seq(Inbound)
  /\ granted \subseteq Patterns
  /\ delivered \in 0 .. Len(Incoming)

Types == P!Ind /\ CallTypes /\ ClientTypes /\ ReaderTypes /\ ContextTypes /\ NetTypes

\* Nothing is on its way before the first connection.
Fresh ==
  connects = 0 =>
    /\ link # "open" /\ reader = "none"
    /\ inbox = <<>> /\ b2c = <<>> /\ c2b = <<>>
    /\ state = "DISCONNECTED" /\ pending = <<>> /\ out_buffer = <<>>
    /\ called = 0 /\ arrived = <<>>
    /\ \A w \in Workers : sending[w] = <<>>

IsMessage(p) == p.type = "PUBLISH"

\* The messages in q are those from the one after a up to b, in that order.
Carries(q, a, b) ==
  /\ a \in Nat /\ b \in Nat /\ a <= b
  /\ \A i \in DOMAIN q : IsMessage(q[i]) => q[i].msg \in a + 1 .. b
  /\ \A i, j \in DOMAIN q : i < j /\ IsMessage(q[i]) /\ IsMessage(q[j])
                              => q[i].msg < q[j].msg
  /\ \A k \in a + 1 .. b : \E i \in DOMAIN q : IsMessage(q[i]) /\ q[i].msg = k

\* Subscription s, of some patterns, has got what it is to get of the first n messages.
Complete(s, S, n) ==
  /\ \A i \in DOMAIN s : s[i] <= n
  /\ \A i \in 1 .. Len(s) - 1 :
       /\ s[i] < s[i + 1]
       /\ \A k \in s[i] + 1 .. s[i + 1] - 1 : Matching[k] \cap S = {}
  /\ s # <<>> => \A k \in s[Len(s)] + 1 .. n : Matching[k] \cap S = {}

\* How far the reader is with task t when it has finished a messages
Progress(t, a) == IF reader = "delivering" /\ t \notin delivering THEN a + 1 ELSE a

\* A connection has ended and another one may be opened.
Drained ==
  /\ crash = "none"
  /\ manager = "connecting" \/ (reader = "ended" /\ ~Closed)

\* Only the end of the client closes the stream, and a reader that ended has read it all.
Streams ==
  /\ link = "closed" => Closed
  /\ Drained => link # "open"

QueuesAt(a, b, c) ==
  /\ Carries(inbox, a, b) /\ Carries(b2c, b, c)
  /\ link \in {"none", "open", "eof"} => c = delivered
  /\ Drained => a = delivered /\ c = delivered

ReceivedAt(a) ==
  \A t \in Tasks : Complete(taken[t] \o buffer[t], patterns[t], Progress(t, a))

Inflow == \E a, b, c \in Nat : QueuesAt(a, b, c) /\ ReceivedAt(a)

\* A handshake of the first connection finds no request of an earlier one.
NothingPending == connects <= 1 /\ state = "CONNECTING" => pending = <<>>

OutflowAt(m, n) ==
  /\ \A w \in Workers : sending[w] # <<>> => Carries(sending[w], m, n)
  /\ (\A w \in Workers : sending[w] = <<>>) => m = n
  /\ Carries(out_buffer, n, called)

Outflow ==
  connects <= 1 =>
    /\ arrived \in Seq(Nat) /\ \A k \in DOMAIN arrived : arrived[k] = k
    /\ \E m \in Nat :
         /\ Carries(c2b, Len(arrived), m)
         /\ link = "open" \/ connects = 0 => \E n \in Nat : OutflowAt(m, n)

OrderInv == Ind /\ Types /\ Fresh /\ Streams /\ Inflow
-----------------------------------------------------------------------------
(* The state machine inside the client.  What is proved about it there     *)
(* holds here, since its actions are the same whichever way it is taken.   *)

LEMMA SameSets ==
  /\ SM!Packets = P!Packets
  /\ SM!PacketIds = P!PacketIds
  /\ SM!Publishes = P!Publishes
<1>1. /\ SM!PacketIds = P!PacketIds /\ SM!QoS = P!QoS
      /\ SM!ReceiveReasons = P!ReceiveReasons /\ SM!ReleaseReasons = P!ReleaseReasons
      /\ SM!Signals = P!Signals
  BY DEF SM!PacketIds, P!PacketIds, SM!QoS, P!QoS, SM!ReceiveReasons, P!ReceiveReasons,
     SM!ReleaseReasons, P!ReleaseReasons, SM!Signals, P!Signals
<1>2. /\ SM!Publishes = P!Publishes /\ SM!Acks = P!Acks /\ SM!Handshakes = P!Handshakes
      /\ SM!SubscriptionRequests = P!SubscriptionRequests
  BY <1>1 DEF SM!Publishes, P!Publishes, SM!Acks, P!Acks, SM!Handshakes, P!Handshakes,
     SM!SubscriptionRequests, P!SubscriptionRequests
<1> QED BY <1>1, <1>2 DEF SM!Packets, P!Packets

LEMMA SameEntries ==
  /\ \A id : SM!Slots(id) = P!Slots(id)
  /\ \A e, q : SM!IsPublish(e, q) = P!IsPublish(e, q)
  /\ \A e, s : SM!Awaits(e, s) = P!Awaits(e, s)
  /\ \A ok : SM!Verdict(ok) = P!Verdict(ok)
  /\ \A p : SM!Send(p) <=> P!Send(p)
  /\ \A p, own : SM!AddPending(p, own) <=> P!AddPending(p, own)
  /\ \A type, id, reason : SM!Ack(type, id, reason) = P!Ack(type, id, reason)
  /\ SM!Fail <=> P!Fail
  /\ \A s, k : SM!RemoveAt(s, k) = P!RemoveAt(s, k)
BY DEF SM!Slots, P!Slots, SM!IsPublish, P!IsPublish, SM!Awaits, P!Awaits,
   SM!Verdict, P!Verdict, SM!Send, P!Send, SM!Ack, P!Ack, SM!Fail, P!Fail,
   SM!AddPending, P!AddPending, SM!Entry, P!Entry, SM!InUse, P!InUse,
   SM!SubAck, P!SubAck, SM!RemoveAt, P!RemoveAt

LEMMA SameCalls ==
  /\ SM!Init => P!Init
  /\ SM!Flush => P!Flush
  /\ SM!Connect(TRUE) => P!Connect(TRUE)
  /\ SM!Disconnect => P!Disconnect
<1>1. (UNCHANGED SM!clientVars) => UNCHANGED P!clientVars
  BY DEF SM!clientVars, P!clientVars
<1>2. SM!Init => P!Init
  BY DEF SM!Init, P!Init
<1>3. SM!Flush => P!Flush
  BY <1>1 DEF SM!Flush, P!Flush, SM!GetOutboundData, P!GetOutboundData
<1>4. SM!Connect(TRUE) => P!Connect(TRUE)
  BY SameEntries DEF SM!Connect, P!Connect, SM!clientVars, P!clientVars
<1>5. SM!Disconnect => P!Disconnect
  BY SameEntries DEF SM!Disconnect, P!Disconnect, SM!Signal, P!Signal,
     SM!clientVars, P!clientVars
<1> QED BY <1>2, <1>3, <1>4, <1>5

LEMMA SamePublish ==
  ASSUME NEW m, NEW q, SM!Publish(m, q)
  PROVE  P!Publish(m, q)
BY SameEntries DEF SM!Publish, P!Publish, SM!PublishPacket, P!PublishPacket,
   SM!GeneratePacketId, P!GeneratePacketId

LEMMA SameSubscribe ==
  ASSUME NEW S, SM!Subscribe(S)
  PROVE  P!Subscribe(S)
BY SameEntries DEF SM!Subscribe, P!Subscribe, SM!GeneratePacketId, P!GeneratePacketId

LEMMA SameUnsubscribe ==
  ASSUME NEW S, SM!Unsubscribe(S)
  PROVE  P!Unsubscribe(S)
BY SameEntries DEF SM!Unsubscribe, P!Unsubscribe, SM!CountDown, P!CountDown,
   SM!GeneratePacketId, P!GeneratePacketId

LEMMA SameReceivePublish ==
  ASSUME NEW p, SM!ReceivePublish(p)
  PROVE  P!ReceivePublish(p)
BY SameEntries DEF SM!ReceivePublish, P!ReceivePublish

LEMMA SameReceiveAcks ==
  ASSUME NEW p
  PROVE  /\ SM!ReceivePubAck(p) => P!ReceivePubAck(p)
         /\ SM!ReceivePubRec(p) => P!ReceivePubRec(p)
         /\ SM!ReceivePubRel(p) => P!ReceivePubRel(p)
         /\ SM!ReceivePubComp(p) => P!ReceivePubComp(p)
<1>1. SM!ReceivePubAck(p) => P!ReceivePubAck(p)
  BY SameEntries DEF SM!ReceivePubAck, P!ReceivePubAck
<1>2. SM!ReceivePubRec(p) => P!ReceivePubRec(p)
  BY SameEntries DEF SM!ReceivePubRec, P!ReceivePubRec
<1>3. SM!ReceivePubRel(p) => P!ReceivePubRel(p)
  BY SameEntries DEF SM!ReceivePubRel, P!ReceivePubRel
<1>4. SM!ReceivePubComp(p) => P!ReceivePubComp(p)
  BY SameEntries DEF SM!ReceivePubComp, P!ReceivePubComp
<1> QED BY <1>1, <1>2, <1>3, <1>4

LEMMA SameReceiveConnAck ==
  ASSUME NEW p, SM!ReceiveConnAck(p)
  PROVE  P!ReceiveConnAck(p)
BY DEF SM!ReceiveConnAck, P!ReceiveConnAck, SM!Enumerations, P!Enumerations,
   SM!Cardinality, P!Cardinality, SM!Kept, P!Kept, SM!ResendPending, P!ResendPending,
   SM!Resent, P!Resent, SM!Duplicate, P!Duplicate, SM!clientVars, P!clientVars

LEMMA SameReceiveRequestAck ==
  ASSUME NEW p, NEW ack, NEW request, SM!ReceiveRequestAck(p, ack, request)
  PROVE  P!ReceiveRequestAck(p, ack, request)
BY SameEntries DEF SM!ReceiveRequestAck, P!ReceiveRequestAck, SM!clientVars, P!clientVars

LEMMA SameAccepts ==
  ASSUME NEW p
  PROVE  SM!Accepts(SM!ClientAccepting, p) <=> P!Accepts(P!ClientAccepting, p)
BY DEF SM!Accepts, P!Accepts, SM!ClientAccepting, P!ClientAccepting,
   SM!BaseAccepting, P!BaseAccepting

LEMMA SameReceive ==
  ASSUME NEW p, SM!Receive(p)
  PROVE  P!Receive(p)
<1>1. /\ SM!clientVars = P!clientVars /\ SM!baseVars = P!baseVars /\ SM!vars = P!vars
      /\ (UNCHANGED SM!clientVars) => UNCHANGED P!clientVars
  BY DEF SM!clientVars, P!clientVars, SM!vars, P!vars, SM!baseVars, P!baseVars
<1>2. SM!ReceiveBase(p) => P!ReceiveBase(p)
  BY SameReceivePublish, SameReceiveAcks
  DEF SM!ReceiveBase, P!ReceiveBase, SM!ReceiveDisconnect, P!ReceiveDisconnect,
      SM!ReceiveAuth, P!ReceiveAuth, SM!baseVars, P!baseVars
<1>3. SM!ReceivePingResp(p) => P!ReceivePingResp(p)
  BY DEF SM!ReceivePingResp, P!ReceivePingResp, SM!vars, P!vars, SM!baseVars, P!baseVars,
     SM!clientVars, P!clientVars
<1>4. /\ SM!ReceiveSubAck(p) => P!ReceiveSubAck(p)
      /\ SM!ReceiveUnsubAck(p) => P!ReceiveUnsubAck(p)
  BY SameReceiveRequestAck
  DEF SM!ReceiveSubAck, P!ReceiveSubAck, SM!ReceiveUnsubAck, P!ReceiveUnsubAck
<1>5. SM!ReceiveAccepted(p) => P!ReceiveAccepted(p)
  BY <1>1, <1>2, <1>3, <1>4, SameAccepts, SameReceiveConnAck
  DEF SM!ReceiveAccepted, P!ReceiveAccepted
<1>6. SM!ReceiveRefused(p) => P!ReceiveRefused(p)
  BY <1>1, SameAccepts, SameEntries DEF SM!ReceiveRefused, P!ReceiveRefused
<1> QED BY <1>5, <1>6 DEF SM!Receive, P!Receive

(* Every step of the client is at most one step of its state machine: the  *)
(* calls come from the application's tasks, the packets from the reader.   *)
SessionMove ==
  \/ \E q \in 0 .. 2 : called < MaxPublishes /\ called' = called + 1 /\ SM!Publish(called', q)
  \/ /\ UNCHANGED called
     /\ \/ UNCHANGED smVars
        \/ \E w \in Workers : TakeOutbound(w) /\ SM!Flush
        \/ \E S \in PatternSets : SM!Subscribe(S)
        \/ \E t \in Tasks : SM!Unsubscribe(patterns[t])
        \/ Establish /\ SM!Connect(TRUE)
        \/ SM!Disconnect
        \/ b2c # <<>> /\ SM!Receive(Head(b2c))

LEMMA SessionMoves ==
  ASSUME Next
  PROVE  SessionMove
<1>1. ASSUME ReaderRuns PROVE SessionMove
  BY <1>1, Zenon DEF ReaderRuns, Feed, Handle, SessionMove, counters
<1>2. ASSUME NEW w \in Workers, TakeOutbound(w) \/ SendOutbound(w) PROVE SessionMove
  <2>1. UNCHANGED called
    BY <1>2, Zenon DEF TakeOutbound, SendOutbound, counters
  <2>2. UNCHANGED smVars \/ (TakeOutbound(w) /\ SM!Flush)
    BY <1>2, Zenon DEF TakeOutbound, SendOutbound
  <2> QED BY <2>1, <2>2, Zenon DEF SessionMove
<1>3. ASSUME NEW t \in Publishers, NEW q \in 0 .. 2, CallPublish(t, q) PROVE SessionMove
  BY <1>3, Zenon DEF CallPublish, SessionMove
<1>4. ASSUME NEW t \in Subscribers, NEW S \in PatternSets, EnterContext(t, S)
      PROVE  SessionMove
  BY <1>4, Zenon DEF EnterContext, SessionMove
<1>5. ASSUME NEW t \in Tasks,
             \/ TakeMessage(t) \/ LeaveContext(t) \/ Return(t)
             \/ CancelCall(t) \/ CancelContext(t) \/ Deliver(t)
      PROVE  SessionMove
  BY <1>5, Zenon DEF TakeMessage, LeaveContext, Return, CancelCall, CancelContext, Deliver,
     SessionMove, counters
<1>6. CASE Establish
  BY <1>6, Zenon DEF Establish, SessionMove
<1>7. ASSUME \/ FinishHandshake \/ LoopConnection
             \/ Exit \/ CloseStream \/ FinishExit \/ EndOfStream \/ FinishDelivery
      PROVE  SessionMove
  BY <1>7, Zenon DEF FinishHandshake, LoopConnection, Exit, CloseStream,
     FinishExit, EndOfStream, FinishDelivery, SessionMove, counters
<1>8. ASSUME Environment PROVE SessionMove
  BY <1>8, Zenon DEF Environment, BrokerHandle, BrokerPublish, BrokerEnds, SessionMove,
     counters
<1> QED
  BY <1>1, <1>2, <1>3, <1>4, <1>5, <1>6, <1>7, <1>8, Zenon DEF Next, TasksRun

LEMMA SessionUnchanged ==
  ASSUME P!Ind, UNCHANGED smVars
  PROVE  P!Ind'
BY DEF P!Ind, P!BaseInv, P!ClientInv, P!SubscribedCounted, smVars

LEMMA SessionStep ==
  ASSUME Types, SessionMove
  PROVE  P!Ind'
<1>1. P!Ind /\ patterns \in [Tasks -> SUBSET Patterns] /\ b2c \in Seq(Inbound)
  BY DEF Types, ContextTypes, NetTypes
<1>2. CASE SM!Flush
  BY <1>1, <1>2, SameCalls, PacketIdAssumption, P!FlushStep
<1>3. ASSUME NEW q \in 0 .. 2, called < MaxPublishes, called' = called + 1,
             SM!Publish(called', q)
      PROVE  P!Ind'
  <2>1. called' \in Messages /\ q \in P!QoS
    BY <1>3, CallsAssumption DEF Types, CallTypes, P!QoS
  <2> QED BY <1>1, <1>3, <2>1, SamePublish, PacketIdAssumption, P!PublishStep
<1>4. ASSUME NEW S \in PatternSets, SM!Subscribe(S)
      PROVE  P!Ind'
  <2>1. S \in SUBSET Patterns
    BY CallsAssumption
  <2> QED BY <1>1, <1>4, <2>1, SameSubscribe, PacketIdAssumption, P!SubscribeStep
<1>5. ASSUME NEW t \in Tasks, SM!Unsubscribe(patterns[t])
      PROVE  P!Ind'
  <2>1. patterns[t] \in SUBSET Patterns
    BY <1>1
  <2> QED BY <1>1, <1>5, <2>1, SameUnsubscribe, PacketIdAssumption, P!UnsubscribeStep
<1>6. CASE SM!Connect(TRUE)
  BY <1>1, <1>6, SameCalls, PacketIdAssumption, P!ConnectStep
<1>7. CASE SM!Disconnect
  BY <1>1, <1>7, SameCalls, PacketIdAssumption, P!DisconnectStep
<1>8. CASE b2c # <<>> /\ SM!Receive(Head(b2c))
  <2>1. Head(b2c) \in P!Packets
    BY <1>1, <1>8, TailElements, SameSets DEF Inbound
  <2> QED BY <1>1, <1>8, <2>1, SameReceive, PacketIdAssumption, P!ReceiveStep
<1> QED
  BY <1>1, <1>2, <1>3, <1>4, <1>5, <1>6, <1>7, <1>8, SessionUnchanged DEF SessionMove

-----------------------------------------------------------------------------
(* Types.  One lemma for each group of variables, over all steps.          *)

LEMMA PacketIdType ==
  ASSUME Types
  PROVE  next_packet_id \in 1 .. MaxPacketId
BY DEF Types, P!Ind, P!ClientInv, P!PacketIds

LEMMA RunTypes ==
  ASSUME CallTypes, NEW w \in Callers, NEW id \in 0 .. MaxPacketId,
         NEW m \in 0 .. MaxPublishes, Run(w, id, m), id # 0 => w \in Tasks,
         called' \in 0 .. MaxPublishes
  PROVE  CallTypes'
<1> DEFINE r == [stage |-> "flush", id |-> id, msg |-> m]
<1>1. r \in Operations
  BY DEF Operations
<1>2. op' = [op EXCEPT ![w] = r] /\ UNCHANGED answered
  BY DEF Run
<1> HIDE DEF r
<1>3. op' \in [Callers -> Operations] /\ answered' \subseteq Callers
  BY <1>1, <1>2 DEF CallTypes
<1>4. CASE id = 0
  <2>1. UNCHANGED pending_operations
    BY <1>4 DEF Run
  <2> QED BY <1>3, <2>1 DEF CallTypes
<1>5. CASE id # 0
  <2>1. pending_operations' = [i \in DOMAIN pending_operations \cup {id} |->
                                 IF i = id THEN w ELSE pending_operations[i]]
    BY <1>5 DEF Run
  <2>2. id \in 1 .. MaxPacketId /\ w \in Tasks
    BY <1>5, PacketIdAssumption
  <2> QED BY <1>3, <2>1, <2>2 DEF CallTypes
<1> QED BY <1>4, <1>5

LEMMA FinishTypes ==
  ASSUME CallTypes, NEW w \in Callers, Finish(w), UNCHANGED called
  PROVE  CallTypes'
<1>1. NoOperation \in Operations
  BY PacketIdAssumption, CallsAssumption DEF NoOperation, Operations
<1>2. /\ op' = [op EXCEPT ![w] = NoOperation] /\ answered' = answered \ {w}
      /\ pending_operations' =
           [i \in DOMAIN pending_operations \ {op[w].id} |-> pending_operations[i]]
  BY DEF Finish, Restrict
<1> QED BY <1>1, <1>2 DEF CallTypes

LEMMA FlushedTypes ==
  ASSUME CallTypes, NEW w \in Workers, Flushed(w),
         UNCHANGED <<answered, pending_operations, called>>
  PROVE  CallTypes'
<1>1. CASE UNCHANGED op
  BY <1>1 DEF CallTypes
<1>2. CASE w # "reader" /\ op' = [op EXCEPT ![w].stage = "wait"]
  <2>1. w \in Callers
    BY <1>2, WorkerTypes
  <2>2. [op[w] EXCEPT !.stage = "wait"] \in Operations
    BY <2>1 DEF CallTypes, Operations
  <2> QED BY <1>2, <2>1, <2>2 DEF CallTypes
<1> QED BY <1>1, <1>2, Zenon DEF Flushed

LEMMA CallsUnchanged ==
  ASSUME CallTypes, UNCHANGED <<op, answered, pending_operations, called>>
  PROVE  CallTypes'
BY DEF CallTypes

LEMMA CallTypesStep ==
  ASSUME Types, Next
  PROVE  CallTypes'
<1>1. CallTypes /\ next_packet_id \in 0 .. MaxPacketId /\ 0 \in 0 .. MaxPacketId
      /\ 0 \in 0 .. MaxPublishes
  BY PacketIdType, PacketIdAssumption, CallsAssumption DEF Types
<1>2. ASSUME Feed PROVE CallTypes'
  BY <1>1, <1>2, CallsUnchanged DEF Feed, opVars, counters
<1>3. ASSUME Handle PROVE CallTypes'
  <2>1. UNCHANGED <<op, called>>
    BY <1>3 DEF Handle, counters
  <2>2. CASE UNCHANGED <<answered, pending_operations>>
    BY <1>1, <2>1, <2>2, CallsUnchanged
  <2>3. CASE answered' = answered \cup {"manager"} /\ UNCHANGED pending_operations
    BY <1>1, <2>1, <2>3, WorkerTypes DEF CallTypes
  <2>4. ASSUME NEW id \in DOMAIN pending_operations,
               answered' = answered \cup {pending_operations[id]},
               pending_operations' = Restrict(pending_operations,
                                              DOMAIN pending_operations \ {id})
        PROVE  CallTypes'
    <3>1. pending_operations' =
            [i \in DOMAIN pending_operations \ {id} |-> pending_operations[i]]
      BY <2>4 DEF Restrict
    <3>2. pending_operations[id] \in Callers
      BY <1>1, WorkerTypes DEF CallTypes
    <3> QED BY <1>1, <2>1, <2>4, <3>1, <3>2 DEF CallTypes
  <2> QED
    BY <1>3, <2>2, <2>3, <2>4, Zenon
    DEF Handle, HandleAnswer, HandleConnAck, HandlePublish, HandleOther
<1>4. ASSUME NEW w \in Workers, TakeOutbound(w) PROVE CallTypes'
  <2>1. UNCHANGED <<answered, pending_operations, called>>
    BY <1>4 DEF TakeOutbound, counters
  <2>2. Flushed(w) \/ UNCHANGED op
    BY <1>4 DEF TakeOutbound
  <2> QED BY <1>1, <2>1, <2>2, FlushedTypes, CallsUnchanged
<1>5. ASSUME NEW w \in Workers, SendOutbound(w) PROVE CallTypes'
  <2>1. UNCHANGED called
    BY <1>5 DEF SendOutbound, counters
  <2>2. \/ Flushed(w) /\ UNCHANGED <<answered, pending_operations>>
        \/ w \in Tasks /\ Finish(w)
        \/ UNCHANGED opVars
        \/ w # "reader" /\ Finish(w)
    BY <1>5, Zenon DEF SendOutbound, Abandon
  <2> QED BY <1>1, <2>1, <2>2, FlushedTypes, FinishTypes, CallsUnchanged, WorkerTypes
          DEF opVars
<1>6. ASSUME NEW t \in Publishers, NEW q \in 0 .. 2, CallPublish(t, q) PROVE CallTypes'
  <2>1. /\ called < MaxPublishes /\ called' = called + 1
        /\ Run(t, IF q = 0 THEN 0 ELSE next_packet_id, called')
    BY <1>6 DEF CallPublish
  <2>2. called' \in 0 .. MaxPublishes /\ t \in Tasks /\ t \in Callers
    BY <1>1, <2>1, CallsAssumption, TasksAssumption, WorkerTypes DEF CallTypes
  <2>3. (IF q = 0 THEN 0 ELSE next_packet_id) \in 0 .. MaxPacketId
    BY <1>1
  <2> QED BY <1>1, <2>1, <2>2, <2>3, RunTypes
<1>7. ASSUME NEW t \in Tasks, Run(t, next_packet_id, 0), UNCHANGED called
      PROVE  CallTypes'
  BY <1>1, <1>7, RunTypes, WorkerTypes DEF CallTypes
<1>8. ASSUME NEW t \in Subscribers, NEW S \in PatternSets, EnterContext(t, S)
      PROVE  CallTypes'
  <2>1. UNCHANGED called /\ t \in Tasks
    BY <1>8, TasksAssumption DEF EnterContext
  <2>2. Run(t, next_packet_id, 0) \/ UNCHANGED opVars
    BY <1>8, Zenon DEF EnterContext
  <2> QED BY <1>1, <1>7, <2>1, <2>2, CallsUnchanged DEF opVars
<1>9. ASSUME NEW t \in Tasks, TakeMessage(t) \/ CancelContext(t) \/ Deliver(t)
      PROVE  CallTypes'
  <2>1. UNCHANGED <<opVars, counters>>
    BY <1>9, Zenon DEF TakeMessage, CancelContext, Deliver
  <2> QED BY <1>1, <2>1, CallsUnchanged DEF opVars, counters
<1>10. ASSUME NEW t \in Tasks, LeaveContext(t) PROVE CallTypes'
  <2>1. UNCHANGED called
    BY <1>10 DEF LeaveContext, counters
  <2>2. Run(t, next_packet_id, 0) \/ UNCHANGED opVars
    BY <1>10, Zenon DEF LeaveContext
  <2> QED BY <1>1, <1>7, <2>1, <2>2, CallsUnchanged DEF opVars
<1>11. ASSUME NEW t \in Tasks, Return(t) \/ CancelCall(t) PROVE CallTypes'
  <2>1. Finish(t) /\ UNCHANGED called
    BY <1>11 DEF Return, CancelCall, Abandon, counters
  <2> QED BY <1>1, <2>1, FinishTypes, WorkerTypes
<1>12. ASSUME Establish PROVE CallTypes'
  <2>1. UNCHANGED called
    BY <1>12 DEF Establish
  <2>2. Run("manager", 0, 0) \/ UNCHANGED opVars
    BY <1>12, Zenon DEF Establish
  <2> QED BY <1>1, <2>1, <2>2, RunTypes, CallsUnchanged, WorkerTypes DEF opVars, CallTypes
<1>13. ASSUME Exit PROVE CallTypes'
  <2>1. UNCHANGED called
    BY <1>13 DEF Exit, counters
  <2>2. Run("main", 0, 0) \/ UNCHANGED opVars
    BY <1>13, Zenon DEF Exit
  <2> QED BY <1>1, <2>1, <2>2, RunTypes, CallsUnchanged, WorkerTypes DEF opVars, CallTypes
<1>14. ASSUME FinishHandshake \/ CloseStream PROVE CallTypes'
  <2>1. (Finish("manager") \/ Finish("main")) /\ UNCHANGED called
    BY <1>14 DEF FinishHandshake, CloseStream, counters
  <2> QED BY <1>1, <2>1, FinishTypes, WorkerTypes
<1>15. ASSUME LoopConnection \/ FinishExit \/ EndOfStream \/ FinishDelivery
       PROVE  CallTypes'
  <2>1. UNCHANGED <<opVars, counters>>
    BY <1>15, Zenon DEF LoopConnection, FinishExit, EndOfStream, FinishDelivery
  <2> QED BY <1>1, <2>1, CallsUnchanged DEF opVars, counters
<1>16. ASSUME Environment PROVE CallTypes'
  <2>1. UNCHANGED <<opVars, called>>
    BY <1>16 DEF Environment, BrokerHandle, BrokerPublish, BrokerEnds, counters
  <2> QED BY <1>1, <2>1, CallsUnchanged DEF opVars
<1> QED
  BY <1>2, <1>3, <1>4, <1>5, <1>6, <1>8, <1>9, <1>10, <1>11, <1>12, <1>13, <1>14,
     <1>15, <1>16, Zenon DEF Next, ReaderRuns, TasksRun

LEMMA ClientTypesStep ==
  ASSUME Types, Next
  PROVE  ClientTypes'
<1>1. ClientTypes
  BY DEF Types
<1>2. CASE UNCHANGED <<main, manager, connects>>
  BY <1>1, <1>2 DEF ClientTypes
<1>3. ASSUME \/ Establish \/ FinishHandshake \/ LoopConnection
             \/ Exit \/ CloseStream \/ FinishExit
      PROVE  ClientTypes'
  <2>1. CASE Establish
    <3>1. /\ connects' = connects + 1 /\ UNCHANGED main
          /\ manager' = "handshake" \/ UNCHANGED manager
      BY <2>1, Zenon DEF Establish
    <3> QED BY <1>1, <3>1 DEF ClientTypes
  <2>2. CASE FinishHandshake
    <3>1. /\ main' \in {main, "running"} /\ manager' = "serving" /\ UNCHANGED connects
      BY <2>2 DEF FinishHandshake, counters
    <3> QED BY <1>1, <3>1 DEF ClientTypes
  <2>3. CASE LoopConnection
    BY <1>1, <2>3 DEF LoopConnection, ClientTypes, counters
  <2>4. CASE Exit
    BY <1>1, <2>4 DEF Exit, ClientTypes, counters
  <2>5. CASE CloseStream \/ FinishExit
    BY <1>1, <2>5 DEF CloseStream, FinishExit, ClientTypes, counters
  <2> QED BY <1>3, <2>1, <2>2, <2>3, <2>4, <2>5
<1>4. ASSUME ReaderRuns \/ Environment \/ EndOfStream \/ FinishDelivery
      PROVE  ClientTypes'
  BY <1>2, <1>4 DEF ReaderRuns, Feed, Handle, Environment, BrokerHandle, BrokerPublish,
     BrokerEnds, EndOfStream, FinishDelivery, counters
<1>5. ASSUME NEW w \in Workers, TakeOutbound(w) \/ SendOutbound(w)
      PROVE  ClientTypes'
  BY <1>2, <1>5 DEF TakeOutbound, SendOutbound, counters
<1>6. ASSUME \/ \E t \in Publishers, q \in 0 .. 2 : CallPublish(t, q)
             \/ \E t \in Subscribers, S \in PatternSets : EnterContext(t, S)
      PROVE  ClientTypes'
  BY <1>2, <1>6 DEF CallPublish, EnterContext
<1>7. ASSUME NEW t \in Tasks,
             \/ TakeMessage(t) \/ LeaveContext(t) \/ Return(t)
             \/ CancelCall(t) \/ CancelContext(t) \/ Deliver(t)
      PROVE  ClientTypes'
  BY <1>2, <1>7 DEF TakeMessage, LeaveContext, Return, CancelCall, CancelContext, Deliver,
     counters
<1>8. ASSUME TasksRun PROVE ClientTypes'
  BY <1>3, <1>4, <1>5, <1>6, <1>7, <1>8, Zenon DEF TasksRun
<1> QED BY <1>4, <1>8, Zenon DEF Next

\* What moves the reader: its own steps, a delivery, a transport, or the end of a flush.
ReaderMove ==
  \/ UNCHANGED readerVars
  \/ Feed \/ Handle \/ EndOfStream \/ FinishDelivery \/ Establish
  \/ \E t \in Tasks : Deliver(t)
  \/ /\ reader = "flushing" /\ reader' \in {"handling", "ended"}
     /\ UNCHANGED <<inbox, delivering>>

LEMMA FlushEnds ==
  ASSUME Ind, NEW w \in Workers, TakeOutbound(w) \/ SendOutbound(w)
  PROVE  /\ UNCHANGED <<inbox, delivering>>
         /\ \/ UNCHANGED reader
            \/ reader = "flushing" /\ reader' \in {"handling", "ended"}
<1>1. UNCHANGED <<inbox, delivering>>
  BY DEF TakeOutbound, SendOutbound
<1>2. lock # <<>> /\ w = Head(lock)
  BY DEF TakeOutbound, SendOutbound, Ind, LockInv, Senders
<1>3. w = "reader" => reader = "flushing"
  BY <1>2, HolderFlushes, WorkerTypes DEF Ind, Flushing
<1>4. \/ UNCHANGED reader
      \/ w = "reader" /\ reader' \in {"handling", "ended"}
  BY Zenon DEF TakeOutbound, SendOutbound, Flushed
<1> QED BY <1>1, <1>3, <1>4

LEMMA ReaderMoves ==
  ASSUME Ind, Next
  PROVE  ReaderMove
<1>1. CASE ReaderRuns
  BY <1>1 DEF ReaderRuns, ReaderMove
<1>2. ASSUME NEW w \in Workers, TakeOutbound(w) \/ SendOutbound(w) PROVE ReaderMove
  BY <1>2, FlushEnds DEF ReaderMove, readerVars
<1>3. ASSUME \/ \E t \in Publishers, q \in 0 .. 2 : CallPublish(t, q)
             \/ \E t \in Subscribers, S \in PatternSets : EnterContext(t, S)
      PROVE  ReaderMove
  BY <1>3 DEF CallPublish, EnterContext, ReaderMove
<1>4. ASSUME NEW t \in Tasks,
             \/ TakeMessage(t) \/ LeaveContext(t) \/ Return(t)
             \/ CancelCall(t) \/ CancelContext(t)
      PROVE  ReaderMove
  <2>1. UNCHANGED readerVars
    BY <1>4, Zenon DEF TakeMessage, LeaveContext, Return, CancelCall, CancelContext
  <2> QED BY <2>1 DEF ReaderMove
<1>5. ASSUME \/ FinishHandshake \/ LoopConnection \/ Exit \/ CloseStream \/ FinishExit
             \/ Environment
      PROVE  ReaderMove
  <2>1. UNCHANGED readerVars
    BY <1>5, Zenon DEF FinishHandshake, LoopConnection, Exit, CloseStream, FinishExit,
       Environment, BrokerHandle, BrokerPublish, BrokerEnds
  <2> QED BY <2>1 DEF ReaderMove
<1>6. ASSUME Establish \/ EndOfStream \/ FinishDelivery \/ \E t \in Tasks : Deliver(t)
      PROVE  ReaderMove
  BY <1>6, Zenon DEF ReaderMove
<1>7. ASSUME TasksRun PROVE ReaderMove
  BY <1>2, <1>3, <1>4, <1>5, <1>6, <1>7, Zenon DEF TasksRun
<1> QED BY <1>1, <1>5, <1>7, Zenon DEF Next

\* The reader goes on to the next packet of its chunk, or reads again.
LEMMA NextPacketTypes ==
  ASSUME NEW S, inbox \in Seq(S), inbox # <<>>, NextPacket
  PROVE  /\ inbox' \in Seq(S) /\ inbox' = Tail(inbox)
         /\ \/ reader' = "reading" /\ inbox' = <<>>
            \/ reader' = "handling" /\ inbox' # <<>>
<1>1. /\ inbox' = Tail(inbox) /\ Tail(inbox) \in Seq(S)
      /\ Len(Tail(inbox)) = Len(inbox) - 1
  BY HeadTailProperties DEF NextPacket
<1>2. CASE Len(inbox) = 1
  <2>1. reader' = "reading" /\ Len(inbox') = 0
    BY <1>1, <1>2 DEF NextPacket
  <2>2. inbox' = <<>>
    BY <1>1, <2>1, EmptySeq
  <2> QED BY <1>1, <2>1, <2>2
<1>3. CASE Len(inbox) # 1
  <2>1. reader' = "handling" /\ Len(inbox') # 0
    BY <1>1, <1>3 DEF NextPacket
  <2>2. inbox' # <<>>
    BY <2>1, EmptySeq
  <2> QED BY <1>1, <2>1, <2>2
<1> QED BY <1>2, <1>3

LEMMA FeedTypes ==
  ASSUME Types, Feed
  PROVE  /\ ReaderTypes'
         /\ Head(b2c) \in Inbound /\ inbox' = Append(inbox, Head(b2c))
         /\ b2c' = Tail(b2c) /\ b2c' \in Seq(Inbound)
         /\ reader' # "delivering" /\ delivering' = delivering
<1>1. /\ b2c # <<>> /\ b2c \in Seq(Inbound) /\ inbox \in Seq(Inbound)
      /\ inbox' = Append(inbox, Head(b2c)) /\ b2c' = Tail(b2c)
      /\ reader \in {"reading", "feeding"} /\ reader' \in {"feeding", "flushing"}
      /\ delivering' = delivering
  BY DEF Feed, Types, NetTypes, ReaderTypes
<1>2. Head(b2c) \in Inbound /\ Tail(b2c) \in Seq(Inbound)
  BY <1>1, TailElements
<1>3. inbox' \in Seq(Inbound) /\ inbox' # <<>>
  BY <1>1, <1>2, AppendProperties
<1> QED BY <1>1, <1>2, <1>3 DEF ReaderTypes, Types

LEMMA ReaderTypesStep ==
  ASSUME Ind, Types, Next
  PROVE  ReaderTypes'
<1>1. ReaderTypes /\ crash = "none"
  BY DEF Types, Next, Alive
<1>2. CASE UNCHANGED readerVars
  BY <1>1, <1>2 DEF ReaderTypes, readerVars
<1>3. CASE Feed
  BY <1>3, FeedTypes
<1>4. CASE Handle
  <2>1. reader = "handling" /\ inbox # <<>> /\ delivering = {} /\ inbox \in Seq(Inbound)
    BY <1>1, <1>4 DEF Handle, ReaderTypes
  <2>2. ASSUME NextPacket, UNCHANGED delivering PROVE ReaderTypes'
    <3>1. /\ inbox' \in Seq(Inbound)
          /\ \/ reader' = "reading" /\ inbox' = <<>>
             \/ reader' = "handling" /\ inbox' # <<>>
      BY <2>1, <2>2, NextPacketTypes
    <3> QED BY <2>1, <2>2, <3>1 DEF ReaderTypes
  <2>3. ASSUME HandlePublish(Head(inbox)) PROVE ReaderTypes'
    BY <1>1, <2>1, <2>3 DEF HandlePublish, ReaderTypes
  <2> QED
    BY <1>4, <2>2, <2>3 DEF Handle, HandleAnswer, HandleConnAck, HandleOther
<1>5. CASE EndOfStream
  BY <1>1, <1>5 DEF EndOfStream, ReaderTypes
<1>6. CASE FinishDelivery
  <2>1. /\ reader = "delivering" /\ delivering = {} /\ inbox # <<>>
        /\ inbox \in Seq(Inbound) /\ NextPacket /\ UNCHANGED delivering
    BY <1>1, <1>6 DEF FinishDelivery, ReaderTypes
  <2>2. /\ inbox' \in Seq(Inbound)
        /\ \/ reader' = "reading" /\ inbox' = <<>>
           \/ reader' = "handling" /\ inbox' # <<>>
    BY <2>1, NextPacketTypes
  <2> QED BY <2>1, <2>2 DEF ReaderTypes
<1>7. CASE Establish
  <2>1. reader \in {"none", "ended"} /\ reader' = "reading" /\ inbox' = <<>>
        /\ UNCHANGED delivering
    BY <1>1, <1>7 DEF Establish, Ind, Idlers
  <2> QED BY <1>1, <2>1, EmptySeq DEF ReaderTypes
<1>8. ASSUME NEW t \in Tasks, Deliver(t) PROVE ReaderTypes'
  <2>1. /\ delivering' \subseteq delivering /\ t \in delivering
        /\ UNCHANGED <<reader, inbox>>
    BY <1>8 DEF Deliver
  <2> QED BY <1>1, <2>1 DEF ReaderTypes
<1>9. CASE /\ reader = "flushing" /\ reader' \in {"handling", "ended"}
           /\ UNCHANGED <<inbox, delivering>>
  BY <1>1, <1>9 DEF ReaderTypes
<1> QED
  BY <1>2, <1>3, <1>4, <1>5, <1>6, <1>7, <1>8, <1>9, ReaderMoves, Zenon DEF ReaderMove

\* What moves the contexts of subscribe() and their buffers
ContextMove ==
  \/ UNCHANGED contextVars /\ delivering' \subseteq delivering
  \/ UNCHANGED contextVars /\ reader = "handling" /\ HandlePublish(Head(inbox))
  \/ \E t \in Tasks : Close(t) /\ UNCHANGED delivering
  \/ \E t \in Tasks, S \in PatternSets : EnterContext(t, S)
  \/ \E t \in Tasks : TakeMessage(t) \/ Deliver(t)
  \/ \E t \in Tasks, w \in {"in", "leaving"} :
       /\ where[t] # "out" /\ where' = [where EXCEPT ![t] = w]
       /\ UNCHANGED <<patterns, buffer, taken, delivering>>

LEMMA AbandonMoves ==
  ASSUME NEW t \in Tasks, Abandon(t), UNCHANGED delivering
  PROVE  ContextMove
<1>1. Close(t) \/ UNCHANGED <<contextVars, crash>>
  BY DEF Abandon
<1> QED BY <1>1 DEF ContextMove

LEMMA ReturnMoves ==
  ASSUME Types, NEW t \in Tasks, Return(t)
  PROVE  ContextMove
<1>1. UNCHANGED delivering
  BY DEF Return, readerVars
<1>2. CASE Close(t)
  BY <1>1, <1>2 DEF ContextMove
<1>3. CASE /\ where' = [where EXCEPT ![t] = IF where[t] = "entering" THEN "in" ELSE where[t]]
           /\ UNCHANGED <<patterns, buffer, taken, crash>>
  <2>1. where \in [Tasks -> {"out", "entering", "in", "leaving"}]
    BY DEF Types, ContextTypes
  <2>2. CASE where[t] = "entering"
    <3>1. where' = [where EXCEPT ![t] = "in"]
      BY <1>3, <2>2
    <3> QED BY <1>1, <1>3, <2>2, <3>1 DEF ContextMove
  <2>3. CASE where[t] # "entering"
    <3>1. where' = where
      BY <1>3, <2>1, <2>3
    <3> QED BY <1>1, <1>3, <3>1 DEF ContextMove, contextVars
  <2> QED BY <2>2, <2>3
<1> QED BY <1>2, <1>3 DEF Return

LEMMA LeaveContextMoves ==
  ASSUME NEW t \in Tasks, LeaveContext(t)
  PROVE  ContextMove
<1>1. where[t] = "in" /\ UNCHANGED delivering
  BY DEF LeaveContext, readerVars
<1>2. CASE Close(t)
  BY <1>1, <1>2 DEF ContextMove
<1>3. CASE /\ where' = [where EXCEPT ![t] = "leaving"]
           /\ UNCHANGED <<patterns, buffer, taken>>
  BY <1>1, <1>3 DEF ContextMove
<1> QED BY <1>2, <1>3, Zenon DEF LeaveContext

LEMMA ContextMoves ==
  ASSUME Ind, Types, Next
  PROVE  ContextMove
<1>1. ASSUME UNCHANGED <<contextVars, delivering>> PROVE ContextMove
  BY <1>1 DEF ContextMove
<1>2. CASE Feed
  BY <1>1, <1>2 DEF Feed
<1>3. CASE Handle
  BY <1>1, <1>3
  DEF Handle, HandleAnswer, HandleConnAck, HandleOther, ContextMove
<1>4. ASSUME NEW w \in Workers, TakeOutbound(w) PROVE ContextMove
  BY <1>1, <1>4 DEF TakeOutbound
<1>5. ASSUME NEW w \in Workers, SendOutbound(w) PROVE ContextMove
  <2>1. UNCHANGED delivering
    BY <1>5 DEF SendOutbound
  <2>2. UNCHANGED contextVars \/ (w \in Tasks /\ Abandon(w))
    BY <1>5, Zenon DEF SendOutbound
  <2> QED BY <1>1, <2>1, <2>2, AbandonMoves
<1>6. ASSUME NEW t \in Publishers, NEW q \in 0 .. 2, CallPublish(t, q) PROVE ContextMove
  BY <1>1, <1>6 DEF CallPublish, readerVars
<1>7. ASSUME NEW t \in Subscribers, NEW S \in PatternSets, EnterContext(t, S)
      PROVE  ContextMove
  BY <1>7, TasksAssumption DEF ContextMove
<1>8. ASSUME NEW t \in Tasks, CancelCall(t) PROVE ContextMove
  BY <1>8, AbandonMoves DEF CancelCall, readerVars
<1>9. ASSUME NEW t \in Tasks, CancelContext(t) PROVE ContextMove
  BY <1>9 DEF CancelContext, readerVars, ContextMove
<1>10. ASSUME NEW t \in Tasks, TakeMessage(t) \/ Deliver(t) PROVE ContextMove
  BY <1>10, Zenon DEF ContextMove
<1>11. ASSUME Establish PROVE ContextMove
  BY <1>1, <1>11 DEF Establish
<1>12. ASSUME \/ FinishHandshake \/ LoopConnection \/ Exit \/ CloseStream \/ FinishExit
              \/ EndOfStream \/ FinishDelivery
       PROVE  ContextMove
  BY <1>1, <1>12 DEF FinishHandshake, LoopConnection, Exit, CloseStream, FinishExit,
     EndOfStream, FinishDelivery, readerVars
<1>13. ASSUME Environment PROVE ContextMove
  BY <1>1, <1>13 DEF Environment, BrokerHandle, BrokerPublish, BrokerEnds, readerVars
<1>14. ASSUME TasksRun PROVE ContextMove
  BY <1>4, <1>5, <1>6, <1>7, <1>8, <1>9, <1>10, <1>11, <1>12, <1>14,
     ReturnMoves, LeaveContextMoves, Zenon DEF TasksRun
<1> QED BY <1>2, <1>3, <1>13, <1>14, Zenon DEF Next, ReaderRuns

\* The reader is handing out a message while there is a task that waits for it.
LEMMA DeliverTypes ==
  ASSUME Types, NEW t \in Tasks, Deliver(t)
  PROVE  /\ reader = "delivering" /\ inbox # <<>> /\ Head(inbox) \in Inbound
         /\ Head(inbox).type = "PUBLISH" /\ Head(inbox).msg \in Numbers
<1>1. reader = "delivering" /\ inbox # <<>> /\ inbox \in Seq(Inbound)
      /\ Head(inbox).type = "PUBLISH"
  BY DEF Deliver, Types, ReaderTypes
<1>2. Head(inbox) \in Inbound
  BY <1>1, TailElements
<1> QED BY <1>1, <1>2 DEF Inbound

LEMMA ContextTypesStep ==
  ASSUME Ind, Types, Next
  PROVE  ContextTypes'
<1>1. ContextTypes /\ crash = "none" /\ delivering \subseteq Tasks
  BY DEF Types, ReaderTypes, Next, Alive
<1>2. CASE UNCHANGED contextVars /\ delivering' \subseteq delivering
  BY <1>1, <1>2 DEF ContextTypes, contextVars
<1>3. CASE UNCHANGED contextVars /\ HandlePublish(Head(inbox))
  BY <1>1, <1>3 DEF ContextTypes, contextVars, HandlePublish
<1>4. ASSUME NEW t \in Tasks, Close(t), UNCHANGED delivering PROVE ContextTypes'
  <2>1. <<>> \in Seq(Numbers) /\ Len(<<>>) <= BufferSize
    BY BufferAssumption, EmptySeq
  <2>2. /\ where' = [where EXCEPT ![t] = "out"] /\ patterns' = [patterns EXCEPT ![t] = {}]
        /\ buffer' = [buffer EXCEPT ![t] = <<>>] /\ UNCHANGED taken
        /\ crash' = "none" => t \notin delivering
    BY <1>4 DEF Close
  <2> QED BY <1>1, <1>4, <2>1, <2>2 DEF ContextTypes
<1>5. ASSUME NEW t \in Tasks, NEW S \in PatternSets, EnterContext(t, S)
      PROVE  ContextTypes'
  <2>1. <<>> \in Seq(Numbers) /\ S \in SUBSET Patterns
    BY EmptySeq, CallsAssumption
  <2>2. /\ where' = [where EXCEPT ![t] = "entering"] \/ where' = [where EXCEPT ![t] = "in"]
        /\ patterns' = [patterns EXCEPT ![t] = S]
        /\ taken' = [taken EXCEPT ![t] = <<>>]
        /\ UNCHANGED <<buffer, delivering>>
    BY <1>5 DEF EnterContext, readerVars
  <2> QED BY <1>1, <2>1, <2>2 DEF ContextTypes
<1>6. ASSUME NEW t \in Tasks, TakeMessage(t) PROVE ContextTypes'
  <2>1. /\ where[t] = "in" /\ buffer[t] # <<>>
        /\ taken' = [taken EXCEPT ![t] = Append(taken[t], Head(buffer[t]))]
        /\ buffer' = [buffer EXCEPT ![t] = Tail(buffer[t])]
        /\ UNCHANGED <<where, patterns, delivering>>
    BY <1>6 DEF TakeMessage, readerVars
  <2>2. /\ Tail(buffer[t]) \in Seq(Numbers) /\ Head(buffer[t]) \in Numbers
        /\ Len(Tail(buffer[t])) = Len(buffer[t]) - 1
    BY <1>1, <2>1, HeadTailProperties DEF ContextTypes
  <2>3. Append(taken[t], Head(buffer[t])) \in Seq(Numbers)
    BY <1>1, <2>2, AppendProperties DEF ContextTypes
  <2>4. Len(Tail(buffer[t])) <= BufferSize
    BY <1>1, <2>2, LenProperties, BufferAssumption DEF ContextTypes
  <2> QED BY <1>1, <2>1, <2>2, <2>3, <2>4 DEF ContextTypes
<1>7. ASSUME NEW t \in Tasks, Deliver(t) PROVE ContextTypes'
  <2> DEFINE m == Head(inbox).msg
  <2>1. m \in Numbers /\ t \in delivering /\ delivering' = delivering \ {t}
        /\ buffer' = [buffer EXCEPT ![t] = Append(buffer[t], m)]
        /\ UNCHANGED <<where, patterns, taken>>
    BY <1>7, DeliverTypes DEF Deliver
  <2>2. Append(buffer[t], m) \in Seq(Numbers)
        /\ Len(Append(buffer[t], m)) = Len(buffer[t]) + 1
    BY <1>1, <2>1, AppendProperties DEF ContextTypes
  <2>3. Len(Append(buffer[t], m)) <= BufferSize
    BY <1>1, <1>7, <2>2, LenProperties, BufferAssumption DEF ContextTypes, Deliver
  <2> HIDE DEF m
  <2> QED BY <1>1, <2>1, <2>2, <2>3 DEF ContextTypes
<1>8. ASSUME NEW t \in Tasks, NEW w \in {"in", "leaving"},
             where[t] # "out", where' = [where EXCEPT ![t] = w],
             UNCHANGED <<patterns, buffer, taken, delivering>>
      PROVE  ContextTypes'
  BY <1>1, <1>8 DEF ContextTypes
<1> QED
  BY <1>2, <1>3, <1>4, <1>5, <1>6, <1>7, <1>8, ContextMoves DEF ContextMove

\* A broker's answer is at most one packet, and no message.
LEMMA ReplyTypes ==
  ASSUME NEW p \in SM!Packets
  PROVE  Reply(p) = <<>> \/ \E e \in Inbound : Reply(p) = <<e>> /\ e.type # "PUBLISH"
<1>1. \A r \in SM!Packets : r.type # "PUBLISH" => r \in Inbound
  BY DEF Inbound
<1>2. p.type \in {"PUBREC", "PUBREL"} \/ (p.type = "PUBLISH" /\ p.qos > 0)
      => p.packet_id \in SM!PacketIds
  BY DEF SM!Packets, SM!Publishes, SM!Acks, SM!SubscriptionRequests, SM!Signals,
     SM!Handshakes
<1>3. p.type \in {"SUBSCRIBE", "UNSUBSCRIBE"}
      => p.packet_id \in SM!PacketIds /\ p.patterns \subseteq Patterns
  BY DEF SM!Packets, SM!Publishes, SM!Acks, SM!SubscriptionRequests, SM!Signals,
     SM!Handshakes
<1>4. \A type \in {"PUBACK", "PUBREC", "UNSUBACK", "PUBREL", "PUBCOMP"},
         id \in SM!PacketIds :
        SM!Ack(type, id, "SUCCESS") \in SM!Packets
        /\ SM!Ack(type, id, "SUCCESS").type # "PUBLISH"
  BY DEF SM!Ack, SM!Packets, SM!Acks, SM!ReceiveReasons, SM!ReleaseReasons
<1>5. CASE p.type = "CONNECT"
  <2> DEFINE e == [type |-> "CONNACK", reason |-> "SUCCESS", session_present |-> FALSE,
                   maximum_qos |-> 2]
  <2>1. e \in SM!Packets /\ e.type # "PUBLISH"
    BY DEF SM!Packets, SM!Handshakes, SM!QoS
  <2>2. Reply(p) = <<e>>
    BY <1>5 DEF Reply
  <2> QED BY <1>1, <2>1, <2>2
<1>6. CASE p.type = "PUBLISH"
  <2>1. CASE p.qos = 1
    <3>1. Reply(p) = <<SM!Ack("PUBACK", p.packet_id, "SUCCESS")>>
      BY <1>6, <2>1 DEF Reply
    <3> QED BY <1>1, <1>2, <1>4, <1>6, <2>1, <3>1
  <2>2. CASE p.qos = 2
    <3>1. Reply(p) = <<SM!Ack("PUBREC", p.packet_id, "SUCCESS")>>
      BY <1>6, <2>2 DEF Reply
    <3> QED BY <1>1, <1>2, <1>4, <1>6, <2>2, <3>1
  <2>3. CASE p.qos # 1 /\ p.qos # 2
    <3>1. Reply(p) = <<>>
      BY <1>6, <2>3 DEF Reply
    <3> QED BY <3>1
  <2> QED BY <2>1, <2>2, <2>3
<1>7. CASE p.type = "PUBREC"
  <2>1. Reply(p) = <<SM!Ack("PUBREL", p.packet_id, "SUCCESS")>>
    BY <1>7 DEF Reply
  <2> QED BY <1>1, <1>2, <1>4, <1>7, <2>1
<1>8. CASE p.type = "PUBREL"
  <2>1. Reply(p) = <<SM!Ack("PUBCOMP", p.packet_id, "SUCCESS")>>
    BY <1>8 DEF Reply
  <2> QED BY <1>1, <1>2, <1>4, <1>8, <2>1
<1>9. CASE p.type = "SUBSCRIBE"
  <2>1. Reply(p) = <<SM!SubAck(p.packet_id, p.patterns)>>
    BY <1>9 DEF Reply
  <2>2. /\ SM!SubAck(p.packet_id, p.patterns) \in SM!Packets
        /\ SM!SubAck(p.packet_id, p.patterns).type # "PUBLISH"
    BY <1>3, <1>9 DEF SM!SubAck, SM!Packets, SM!Acks
  <2> QED BY <1>1, <2>1, <2>2
<1>10. CASE p.type = "UNSUBSCRIBE"
  <2>1. Reply(p) = <<SM!Ack("UNSUBACK", p.packet_id, "SUCCESS")>>
    BY <1>10 DEF Reply
  <2> QED BY <1>1, <1>3, <1>4, <1>10, <2>1
<1>11. CASE p.type \notin {"CONNECT", "PUBLISH", "PUBREC", "PUBREL", "SUBSCRIBE",
                           "UNSUBSCRIBE"}
  BY <1>11 DEF Reply
<1> QED BY <1>5, <1>6, <1>7, <1>8, <1>9, <1>10, <1>11

LEMMA RefusalType ==
  ASSUME NEW p, p.type = "CONNECT"
  PROVE  LET e == [Reply(p)[1] EXCEPT !.reason = "REFUSED"]
         IN  e \in Inbound /\ e.type # "PUBLISH"
<1> DEFINE r == Reply(p)[1]
           e == [r EXCEPT !.reason = "REFUSED"]
<1> DEFINE C == [type : {"CONNACK"}, reason : {"SUCCESS", "REFUSED"},
                  session_present : BOOLEAN, maximum_qos : SM!QoS]
<1>1. r \in C
  BY DEF Reply, SM!QoS
<1> HIDE DEF r
<1>2. e \in C /\ e.type = "CONNACK"
  BY <1>1
<1> HIDE DEF e
<1>3. e \in Inbound /\ e.type # "PUBLISH"
  BY <1>2 DEF Inbound, SM!Packets, SM!Handshakes
<1> QED BY <1>3 DEF e, r

\* What a handled packet adds to what is on its way to the client: no message.
LEMMA BrokerAnswers ==
  ASSUME Types, BrokerHandle
  PROVE  /\ c2b # <<>> /\ Head(c2b) \in SM!Packets
         /\ \/ UNCHANGED b2c
            \/ \E e \in Inbound : e.type # "PUBLISH" /\ b2c' = Append(b2c, e)
<1>1. c2b # <<>> /\ Head(c2b) \in SM!Packets /\ b2c \in Seq(Inbound)
  BY TailElements DEF BrokerHandle, Types, NetTypes
<1> DEFINE p == Head(c2b)
<1>2. CASE b2c' = b2c \o Reply(p)
  <2>1. CASE Reply(p) = <<>>
    <3>1. b2c \o <<>> = b2c
      BY <1>1, ConcatEmptySeq
    <3> QED BY <1>1, <1>2, <2>1, <3>1
  <2>2. ASSUME NEW e \in Inbound, Reply(p) = <<e>>, e.type # "PUBLISH"
        PROVE  b2c' = Append(b2c, e)
    <3>1. b2c \o <<e>> = Append(b2c, e)
      BY <1>1, AppendIsConcat
    <3> QED BY <1>2, <2>2, <3>1
  <2> QED BY <1>1, <2>1, <2>2, ReplyTypes
<1>3. CASE p.type = "CONNECT" /\ b2c' = Append(b2c, [Reply(p)[1] EXCEPT !.reason = "REFUSED"])
  BY <1>1, <1>3, RefusalType
<1> QED BY <1>1, <1>2, <1>3 DEF BrokerHandle

LEMMA GrantType ==
  ASSUME NEW G \in SUBSET Patterns, NEW p \in SM!Packets
  PROVE  GrantedAfter(G, p) \in SUBSET Patterns
<1>1. p.type = "SUBSCRIBE" => p.patterns \subseteq Patterns
  BY DEF SM!Packets, SM!Publishes, SM!Acks, SM!SubscriptionRequests, SM!Signals,
     SM!Handshakes
<1> QED BY <1>1 DEF GrantedAfter

LEMMA NetTypesStep ==
  ASSUME Ind, Types, Next
  PROVE  NetTypes'
<1>1. NetTypes /\ out_buffer \in Seq(SM!Packets) /\ DOMAIN sending = Workers
      /\ <<>> \in Seq(SM!Packets) /\ <<>> \in Seq(Inbound)
  BY SameSets, EmptySeq DEF Types, P!Ind, P!BaseInv, Ind, LockInv, Shape
<1>2. ASSUME UNCHANGED <<netVars, sending, delivered>> PROVE NetTypes'
  BY <1>1, <1>2 DEF NetTypes, netVars
<1>3. CASE Feed
  <2>1. UNCHANGED <<link, c2b, granted, sending, delivered>>
    BY <1>3 DEF Feed, counters
  <2> QED BY <1>1, <1>3, <2>1, FeedTypes DEF NetTypes
<1>4. CASE Handle
  BY <1>2, <1>4 DEF Handle, lockVars, counters
<1>5. ASSUME NEW w \in Workers, TakeOutbound(w) PROVE NetTypes'
  <2>1. UNCHANGED <<netVars, delivered>>
    BY <1>5 DEF TakeOutbound, counters
  <2>2. UNCHANGED sending \/ sending' = [sending EXCEPT ![w] = out_buffer]
    BY <1>5 DEF TakeOutbound
  <2>3. \A v \in Workers : sending'[v] \in Seq(SM!Packets)
    BY <1>1, <2>2 DEF NetTypes
  <2> QED BY <1>1, <2>1, <2>3 DEF NetTypes, netVars
<1>6. ASSUME NEW w \in Workers, sending' = [sending EXCEPT ![w] = <<>>],
             UNCHANGED <<link, b2c, granted, delivered>>,
             c2b' \in {c2b, c2b \o sending[w]}
      PROVE  NetTypes'
  <2>1. c2b' \in Seq(SM!Packets)
    <3>1. c2b \in Seq(SM!Packets) /\ sending[w] \in Seq(SM!Packets)
      BY <1>1 DEF NetTypes
    <3>2. c2b \o sending[w] \in Seq(SM!Packets)
      BY <3>1, ConcatProperties
    <3> QED BY <1>6, <3>1, <3>2
  <2>2. \A v \in Workers : sending'[v] \in Seq(SM!Packets)
    BY <1>1, <1>6 DEF NetTypes
  <2> QED BY <1>1, <1>6, <2>1, <2>2 DEF NetTypes
<1>7. ASSUME NEW w \in Workers, SendOutbound(w) PROVE NetTypes'
  <2>1. UNCHANGED <<link, b2c, granted, delivered>>
    BY <1>7 DEF SendOutbound, counters
  <2>2. sending' = [sending EXCEPT ![w] = <<>>] /\ c2b' \in {c2b, c2b \o sending[w]}
    BY <1>7, Zenon DEF SendOutbound, Abandon
  <2> QED BY <1>6, <2>1, <2>2
<1>8. ASSUME NEW t \in Tasks, CancelCall(t) PROVE NetTypes'
  <2>1. sending' = [sending EXCEPT ![t] = <<>>] /\ UNCHANGED <<netVars, delivered>>
    BY <1>8 DEF CancelCall, Abandon, counters
  <2> QED BY <1>6, <2>1, WorkerTypes DEF netVars
<1>9. ASSUME \/ \E t \in Publishers, q \in 0 .. 2 : CallPublish(t, q)
             \/ \E t \in Subscribers, S \in PatternSets : EnterContext(t, S)
      PROVE  NetTypes'
  BY <1>2, <1>9 DEF CallPublish, EnterContext, Run, lockVars
<1>10. ASSUME NEW t \in Tasks, LeaveContext(t) PROVE NetTypes'
  BY <1>2, <1>10 DEF LeaveContext, Run, lockVars, counters
<1>11. ASSUME NEW t \in Tasks,
              TakeMessage(t) \/ Return(t) \/ CancelContext(t) \/ Deliver(t)
       PROVE  NetTypes'
  BY <1>2, <1>11 DEF TakeMessage, Return, CancelContext, Deliver, lockVars, counters
<1>12. ASSUME Establish PROVE NetTypes'
  <2>1. /\ link' = "open" /\ c2b' = <<>> /\ b2c' = <<>> /\ granted' = {}
        /\ UNCHANGED delivered
    BY <1>12 DEF Establish
  <2>2. UNCHANGED sending
    BY <1>12 DEF Establish, Run, lockVars
  <2> QED BY <1>1, <2>1, <2>2 DEF NetTypes
<1>13. ASSUME Exit \/ CloseStream PROVE NetTypes'
  <2>1. UNCHANGED <<c2b, b2c, granted, delivered>> /\ link' \in {link, "closed"}
    BY <1>13 DEF Exit, CloseStream, counters
  <2>2. UNCHANGED sending
    BY <1>13 DEF Exit, CloseStream, Run, lockVars
  <2> QED BY <1>1, <2>1, <2>2 DEF NetTypes
<1>14. ASSUME FinishHandshake \/ LoopConnection \/ FinishExit \/ EndOfStream \/ FinishDelivery
       PROVE  NetTypes'
  BY <1>2, <1>14 DEF FinishHandshake, LoopConnection, FinishExit, EndOfStream,
     FinishDelivery, lockVars, counters
<1>15. CASE BrokerHandle
  <2>1. /\ c2b' = Tail(c2b) /\ granted' = GrantedAfter(granted, Head(c2b))
        /\ link' \in {link, "eof"} /\ UNCHANGED <<sending, delivered>>
    BY <1>15 DEF BrokerHandle, lockVars
  <2>2. c2b' \in Seq(SM!Packets)
    BY <1>1, <1>15, <2>1, BrokerAnswers, TailElements DEF NetTypes
  <2>3. b2c' \in Seq(Inbound)
    <3>1. b2c \in Seq(Inbound)
      BY <1>1 DEF NetTypes
    <3>2. \A e \in Inbound : Append(b2c, e) \in Seq(Inbound)
      BY <3>1, AppendProperties
    <3> QED BY <1>15, <3>1, <3>2, BrokerAnswers
  <2>4. granted' \subseteq Patterns
    BY <1>1, <1>15, <2>1, BrokerAnswers, GrantType DEF NetTypes
  <2> QED BY <1>1, <2>1, <2>2, <2>3, <2>4 DEF NetTypes
<1>16. CASE BrokerPublish
  <2>1. /\ delivered < Len(Incoming) /\ delivered' = delivered + 1
        /\ b2c' = Append(b2c, Incoming[delivered'])
        /\ UNCHANGED <<link, c2b, granted, sending>>
    BY <1>16 DEF BrokerPublish, lockVars
  <2>2. delivered' \in Numbers /\ Len(Incoming) \in Nat
    BY <1>1, <2>1, IncomingAssumption, LenProperties DEF NetTypes, Numbers
  <2>3. Incoming[delivered'] \in Inbound
    BY <2>2, IncomingAssumption, DomainOfSeq DEF Inbound, Numbers, SM!Packets
  <2>4. b2c' \in Seq(Inbound)
    BY <1>1, <2>1, <2>3, AppendProperties DEF NetTypes
  <2> QED BY <1>1, <2>1, <2>2, <2>4 DEF NetTypes, Numbers
<1>17. ASSUME NEW fault \in Faults, BrokerEnds(fault) PROVE NetTypes'
  <2>1. /\ c2b' = <<>> /\ granted' = {} /\ link' \in {"eof", "reset"}
        /\ UNCHANGED <<sending, delivered>>
        /\ b2c' \in {b2c, <<>>, Append(b2c, SM!Signal("DISCONNECT"))}
    BY <1>17 DEF BrokerEnds, lockVars, counters
  <2>2. SM!Signal("DISCONNECT") \in Inbound
    BY DEF SM!Signal, SM!Packets, SM!Signals, Inbound
  <2>3. b2c' \in Seq(Inbound)
    <3>1. b2c \in Seq(Inbound)
      BY <1>1 DEF NetTypes
    <3>2. Append(b2c, SM!Signal("DISCONNECT")) \in Seq(Inbound)
      BY <2>2, <3>1, AppendProperties
    <3> QED BY <1>1, <2>1, <3>1, <3>2
  <2> QED BY <1>1, <2>1, <2>3 DEF NetTypes
<1>18. ASSUME TasksRun PROVE NetTypes'
  BY <1>5, <1>7, <1>8, <1>9, <1>10, <1>11, <1>12, <1>13, <1>14, <1>18, Zenon DEF TasksRun
<1> QED
  BY <1>3, <1>4, <1>15, <1>16, <1>17, <1>18, Zenon DEF Next, ReaderRuns, Environment

LEMMA TypesStep ==
  ASSUME Ind, Types, Next
  PROVE  Types'
<1>1. P!Ind'
  BY SessionMoves, SessionStep
<1> QED
  BY <1>1, CallTypesStep, ClientTypesStep, ReaderTypesStep, ContextTypesStep, NetTypesStep
  DEF Types

-----------------------------------------------------------------------------
(* Queues that carry consecutive messages                                  *)

LEMMA CarriesNone ==
  /\ \A a \in Nat : Carries(<<>>, a, a)
  /\ \A a, b : Carries(<<>>, a, b) => a = b
<1>1. DOMAIN <<>> = {}
  BY EmptySeq
<1>2. ASSUME NEW a, NEW b, Carries(<<>>, a, b) PROVE a = b
  <2>1. a \in Nat /\ b \in Nat /\ a <= b /\ \A k \in a + 1 .. b : FALSE
    BY <1>1, <1>2 DEF Carries
  <2>2. a < b => a + 1 \in a + 1 .. b
    BY <2>1
  <2> QED BY <2>1, <2>2
<1> QED BY <1>1, <1>2 DEF Carries

LEMMA CarriesOther ==
  ASSUME NEW S, NEW q \in Seq(S), NEW e \in S, ~IsMessage(e), NEW a, NEW b,
         Carries(q, a, b)
  PROVE  Carries(Append(q, e), a, b)
<1> DEFINE r == Append(q, e)
<1>1. /\ \A k \in DOMAIN q : k \in DOMAIN r /\ r[k] = q[k]
      /\ \A k \in DOMAIN r : k \in DOMAIN q \/ r[k] = e
  BY AppendElements
<1> HIDE DEF r
<1>2. \A k \in DOMAIN r : IsMessage(r[k]) => k \in DOMAIN q /\ r[k] = q[k]
  BY <1>1
<1> QED BY <1>1, <1>2 DEF Carries, r

LEMMA CarriesNext ==
  ASSUME NEW S, NEW q \in Seq(S), NEW e \in S, IsMessage(e), NEW a, NEW b,
         Carries(q, a, b), e.msg = b + 1
  PROVE  Carries(Append(q, e), a, b + 1)
<1> DEFINE r == Append(q, e)
<1>1. /\ \A k \in DOMAIN q : k \in DOMAIN r /\ r[k] = q[k]
      /\ \A k \in DOMAIN r : k \in DOMAIN q \/ (k = Len(q) + 1 /\ r[k] = e)
      /\ Len(q) + 1 \in DOMAIN r /\ r[Len(q) + 1] = e
  BY AppendElements
<1>2. Len(q) \in Nat /\ \A k \in DOMAIN q : k \in Nat /\ k <= Len(q)
  BY DomainOfSeq
<1> HIDE DEF r
<1>3. a \in Nat /\ b \in Nat /\ a <= b
  BY DEF Carries
<1>4. ASSUME NEW k \in DOMAIN r, IsMessage(r[k]) PROVE r[k].msg \in a + 1 .. b + 1
  <2>1. CASE k \in DOMAIN q
    <3>1. r[k].msg \in a + 1 .. b
      BY <1>1, <1>4, <2>1 DEF Carries
    <3> QED BY <1>3, <3>1
  <2>2. CASE r[k] = e
    BY <1>3, <2>2
  <2> QED BY <1>1, <2>1, <2>2
<1>5. ASSUME NEW i \in DOMAIN r, NEW j \in DOMAIN r, i < j,
             IsMessage(r[i]), IsMessage(r[j])
      PROVE  r[i].msg < r[j].msg
  <2>1. i \in DOMAIN q /\ r[i] = q[i]
    BY <1>1, <1>2, <1>5
  <2>2. CASE j \in DOMAIN q
    BY <1>1, <1>5, <2>1, <2>2 DEF Carries
  <2>3. CASE r[j] = e
    <3>1. q[i].msg \in a + 1 .. b
      BY <1>5, <2>1 DEF Carries
    <3> QED BY <1>3, <2>1, <2>3, <3>1
  <2> QED BY <1>1, <2>2, <2>3
<1>6. ASSUME NEW k \in a + 1 .. b + 1
      PROVE  \E i \in DOMAIN r : IsMessage(r[i]) /\ r[i].msg = k
  <2>1. CASE k = b + 1
    BY <1>1, <2>1
  <2>2. CASE k \in a + 1 .. b
    BY <1>1, <2>2 DEF Carries
  <2> QED BY <1>3, <2>1, <2>2
<1>7. b + 1 \in Nat /\ a <= b + 1
  BY <1>3
<1>8. Carries(r, a, b + 1)
  BY <1>3, <1>4, <1>5, <1>6, <1>7, SMTT(60) DEF Carries
<1> QED BY <1>8 DEF r

LEMMA CarriesTail ==
  ASSUME NEW S, NEW q \in Seq(S), q # <<>>, NEW a, NEW b, Carries(q, a, b)
  PROVE  /\ ~IsMessage(Head(q)) => Carries(Tail(q), a, b)
         /\ IsMessage(Head(q)) => Head(q).msg = a + 1 /\ Carries(Tail(q), a + 1, b)
<1> DEFINE r == Tail(q)
<1>1. /\ r \in Seq(S) /\ 1 \in DOMAIN q /\ Head(q) = q[1]
      /\ \A k \in DOMAIN r : k + 1 \in DOMAIN q /\ r[k] = q[k + 1]
      /\ \A k \in DOMAIN q : k # 1 => k - 1 \in DOMAIN r
  BY TailElements
<1> HIDE DEF r
<1>2. /\ \A k \in DOMAIN q : k \in Nat /\ k >= 1
      /\ \A k \in DOMAIN r : k \in Nat /\ k >= 1
  BY <1>1, DomainOfSeq
<1>3. a \in Nat /\ b \in Nat /\ a <= b
  BY DEF Carries
<1>4. \A k \in DOMAIN r : IsMessage(r[k]) => r[k].msg \in a + 1 .. b
  BY <1>1 DEF Carries
<1>5. ASSUME NEW i \in DOMAIN r, NEW j \in DOMAIN r, i < j,
             IsMessage(r[i]), IsMessage(r[j])
      PROVE  r[i].msg < r[j].msg
  <2>1. i + 1 < j + 1
    BY <1>2, <1>5
  <2> QED BY <1>1, <1>5, <2>1 DEF Carries
<1>6. ASSUME NEW k \in a + 1 .. b, ~(IsMessage(q[1]) /\ q[1].msg = k)
      PROVE  \E i \in DOMAIN r : IsMessage(r[i]) /\ r[i].msg = k
  <2>1. PICK i \in DOMAIN q : IsMessage(q[i]) /\ q[i].msg = k
    BY DEF Carries
  <2>2. i # 1 /\ i - 1 \in DOMAIN r /\ i - 1 + 1 = i
    BY <1>1, <1>2, <1>6, <2>1
  <2> QED BY <1>1, <2>1, <2>2
<1>7. CASE ~IsMessage(Head(q))
  BY <1>1, <1>3, <1>4, <1>5, <1>6, <1>7 DEF Carries, r
<1>8. CASE IsMessage(Head(q))
  <2>1. q[1].msg \in a + 1 .. b
    BY <1>1, <1>8 DEF Carries
  <2>2. ASSUME NEW k \in DOMAIN r, IsMessage(r[k]) PROVE q[1].msg < r[k].msg
    <3>1. k + 1 \in DOMAIN q /\ r[k] = q[k + 1] /\ 1 < k + 1
      BY <1>1, <1>2
    <3> QED BY <1>1, <1>8, <2>2, <3>1 DEF Carries
  <2>3. q[1].msg = a + 1
    <3>1. PICK i \in DOMAIN q : IsMessage(q[i]) /\ q[i].msg = a + 1
      BY <1>3, <2>1 DEF Carries
    <3>2. CASE i = 1
      BY <3>1, <3>2
    <3>3. CASE i # 1
      <4>1. i - 1 \in DOMAIN r /\ r[i - 1] = q[i]
        BY <1>1, <1>2, <3>3
      <4> QED BY <1>3, <2>1, <2>2, <3>1, <4>1
    <3> QED BY <3>2, <3>3
  <2>4. \A k \in DOMAIN r : IsMessage(r[k]) => r[k].msg \in a + 1 + 1 .. b
    BY <1>3, <1>4, <2>2, <2>3
  <2>5. \A k \in a + 1 + 1 .. b : \E i \in DOMAIN r : IsMessage(r[i]) /\ r[i].msg = k
    BY <1>3, <1>6, <2>3
  <2>6. a + 1 \in Nat /\ a + 1 <= b
    BY <1>3, <2>1
  <2>7. Carries(r, a + 1, b)
    BY <1>3, <1>5, <2>4, <2>5, <2>6 DEF Carries
  <2> QED BY <1>1, <1>8, <2>3, <2>7 DEF r
<1> QED BY <1>7, <1>8

LEMMA CarriesConcat ==
  ASSUME NEW S, NEW q \in Seq(S), NEW r \in Seq(S), NEW a, NEW b, NEW c,
         Carries(q, a, b), Carries(r, b, c)
  PROVE  Carries(q \o r, a, c)
<1> DEFINE s == q \o r
<1>1. /\ \A k \in DOMAIN q : k \in DOMAIN s /\ s[k] = q[k]
      /\ \A k \in DOMAIN r : Len(q) + k \in DOMAIN s /\ s[Len(q) + k] = r[k]
      /\ \A k \in DOMAIN s \ DOMAIN q : k - Len(q) \in DOMAIN r /\ s[k] = r[k - Len(q)]
      /\ s \in Seq(S)
  BY ConcatElements
<1> HIDE DEF s
<1>2. /\ Len(q) \in Nat /\ \A k \in DOMAIN q : k \in Nat /\ k <= Len(q)
      /\ DOMAIN q = 1 .. Len(q)
      /\ \A k \in DOMAIN s : k \in Nat /\ k >= 1
  BY <1>1, DomainOfSeq
<1>3. a \in Nat /\ b \in Nat /\ c \in Nat /\ a <= b /\ b <= c
  BY DEF Carries
<1>4. ASSUME NEW k \in DOMAIN s, IsMessage(s[k])
      PROVE  IF k \in DOMAIN q THEN s[k].msg \in a + 1 .. b ELSE s[k].msg \in b + 1 .. c
  BY <1>1, <1>4 DEF Carries
<1>5. ASSUME NEW i \in DOMAIN s, NEW j \in DOMAIN s, i < j,
             IsMessage(s[i]), IsMessage(s[j])
      PROVE  s[i].msg < s[j].msg
  <2>1. CASE i \in DOMAIN q /\ j \in DOMAIN q
    BY <1>1, <1>5, <2>1 DEF Carries
  <2>2. CASE i \in DOMAIN q /\ j \notin DOMAIN q
    <3>1. s[i].msg \in a + 1 .. b /\ s[j].msg \in b + 1 .. c
      BY <1>4, <1>5, <2>2
    <3> QED BY <1>3, <3>1
  <2>3. CASE i \notin DOMAIN q
    <3>1. j \notin DOMAIN q /\ i - Len(q) < j - Len(q)
      BY <1>2, <1>5, <2>3
    <3>2. /\ i - Len(q) \in DOMAIN r /\ s[i] = r[i - Len(q)]
          /\ j - Len(q) \in DOMAIN r /\ s[j] = r[j - Len(q)]
      BY <1>1, <2>3, <3>1
    <3>3. r[i - Len(q)].msg < r[j - Len(q)].msg
      BY <1>5, <3>1, <3>2 DEF Carries
    <3> QED BY <3>2, <3>3
  <2> QED BY <2>1, <2>2, <2>3
<1>6. ASSUME NEW k \in a + 1 .. c
      PROVE  \E i \in DOMAIN s : IsMessage(s[i]) /\ s[i].msg = k
  <2>1. CASE k \in a + 1 .. b
    <3>1. PICK i \in DOMAIN q : IsMessage(q[i]) /\ q[i].msg = k
      BY <2>1 DEF Carries
    <3> QED BY <1>1, <3>1
  <2>2. CASE k \in b + 1 .. c
    <3>1. PICK i \in DOMAIN r : IsMessage(r[i]) /\ r[i].msg = k
      BY <2>2 DEF Carries
    <3> QED BY <1>1, <3>1
  <2> QED BY <1>3, <2>1, <2>2
<1>7. \A k \in DOMAIN s : IsMessage(s[k]) => s[k].msg \in a + 1 .. c
  BY <1>3, <1>4
<1>8. a <= c
  BY <1>3
<1> QED BY <1>3, <1>5, <1>6, <1>7, <1>8 DEF Carries, s

-----------------------------------------------------------------------------
(* What a subscription has got                                             *)

LEMMA CompleteNothing ==
  ASSUME NEW S, NEW n
  PROVE  Complete(<<>>, S, n)
<1>1. DOMAIN <<>> = {} /\ Len(<<>>) = 0 /\ 1 .. 0 - 1 = {}
  BY EmptySeq
<1> QED BY <1>1 DEF Complete

\* A message that does not match is passed over.
LEMMA CompleteSkip ==
  ASSUME NEW s \in Seq(Numbers), NEW S, NEW n \in Nat, Complete(s, S, n),
         Matching[n + 1] \cap S = {}
  PROVE  Complete(s, S, n + 1)
<1>1. \A i \in DOMAIN s : s[i] \in Nat
  BY DomainOfSeq DEF Numbers
<1>2. \A i \in DOMAIN s : s[i] <= n + 1
  BY <1>1 DEF Complete
<1>3. ASSUME s # <<>>, NEW k \in s[Len(s)] + 1 .. n + 1
      PROVE  Matching[k] \cap S = {}
  <2>1. s[Len(s)] \in Nat
    BY <1>1, <1>3, DomainOfSeq, EmptySeq
  <2>2. k = n + 1 \/ k \in s[Len(s)] + 1 .. n
    BY <2>1
  <2> QED BY <1>3, <2>2 DEF Complete
<1> QED BY <1>2, <1>3 DEF Complete

\* The next message is handed over.
LEMMA CompleteNext ==
  ASSUME NEW s \in Seq(Numbers), NEW S, NEW n \in Nat, Complete(s, S, n),
         n + 1 \in Numbers
  PROVE  Complete(Append(s, n + 1), S, n + 1)
<1> DEFINE r == Append(s, n + 1)
<1>1. /\ r \in Seq(Numbers) /\ Len(r) = Len(s) + 1
      /\ \A k \in DOMAIN s : r[k] = s[k]
      /\ \A k \in DOMAIN r : k \in DOMAIN s \/ r[k] = n + 1
      /\ r[Len(s) + 1] = n + 1
  BY AppendElements
<1> HIDE DEF r
<1>2. /\ Len(s) \in Nat /\ DOMAIN s = 1 .. Len(s)
      /\ \A i \in DOMAIN s : s[i] \in Nat
  BY DomainOfSeq DEF Numbers
<1>3. \A i \in DOMAIN r : r[i] <= n + 1
  BY <1>1, <1>2 DEF Complete
<1>4. ASSUME NEW i \in 1 .. Len(r) - 1
      PROVE  /\ r[i] < r[i + 1]
             /\ \A k \in r[i] + 1 .. r[i + 1] - 1 : Matching[k] \cap S = {}
  <2>1. CASE i = Len(s)
    <3>1. i \in DOMAIN s /\ s # <<>> /\ r[i] = s[Len(s)] /\ r[i + 1] = n + 1
      BY <1>1, <1>2, <1>4, <2>1, EmptySeq
    <3>2. s[Len(s)] <= n /\ s[Len(s)] \in Nat
      BY <1>2, <2>1, <3>1 DEF Complete
    <3>3. n + 1 - 1 = n
      OBVIOUS
    <3> QED BY <3>1, <3>2, <3>3 DEF Complete
  <2>2. CASE i # Len(s)
    <3>1. i \in 1 .. Len(s) - 1 /\ i \in DOMAIN s /\ i + 1 \in DOMAIN s
      <4>1. Len(r) = Len(s) + 1 /\ Len(s) \in Nat
        BY <1>1, <1>2
      <4>2. i \in 1 .. Len(s) - 1 /\ i \in 1 .. Len(s) /\ i + 1 \in 1 .. Len(s)
        BY <2>2, <4>1
      <4> QED BY <1>2, <4>2
    <3> QED BY <1>1, <3>1 DEF Complete
  <2> QED BY <2>1, <2>2
<1>5. r[Len(r)] + 1 .. n + 1 = {}
  BY <1>1
<1> QED BY <1>3, <1>4, <1>5 DEF Complete, r

\* A context is left: what was taken out of its buffer stays in order.
LEMMA CompleteTaken ==
  ASSUME NEW s \in Seq(Numbers), NEW r \in Seq(Numbers), NEW S, NEW n,
         Complete(s \o r, S, n)
  PROVE  Complete(s \o <<>>, {}, n)
<1> DEFINE q == s \o r
<1>1. s \o <<>> = s
  BY ConcatEmptySeq
<1>2. /\ Len(s) \in Nat /\ DOMAIN s = 1 .. Len(s)
      /\ Len(q) = Len(s) + Len(r) /\ Len(r) \in Nat
  BY DomainOfSeq, ConcatProperties
<1>3. \A k \in DOMAIN s : k \in DOMAIN q /\ q[k] = s[k]
  BY ConcatElements
<1> HIDE DEF q
<1>4. ASSUME NEW i \in 1 .. Len(s) - 1
      PROVE  i \in 1 .. Len(q) - 1 /\ i \in DOMAIN s /\ i + 1 \in DOMAIN s
  <2>1. i \in 1 .. Len(s) /\ i + 1 \in 1 .. Len(s) /\ i \in 1 .. Len(q) - 1
    BY <1>2
  <2> QED BY <1>2, <2>1
<1>5. Complete(q, S, n)
  BY DEF q
<1>6. \A i \in DOMAIN s : s[i] <= n
  BY <1>3, <1>5 DEF Complete
<1>7. \A i \in 1 .. Len(s) - 1 : s[i] < s[i + 1]
  BY <1>3, <1>4, <1>5 DEF Complete
<1>8. Complete(s, {}, n)
  BY <1>6, <1>7 DEF Complete
<1> QED BY <1>1, <1>8

-----------------------------------------------------------------------------
(* Before the first connection                                             *)

freshVars == <<reader, inbox, b2c, c2b, state, pending, out_buffer, called, arrived,
               sending, connects>>

LEMMA FreshKept ==
  ASSUME Fresh, UNCHANGED freshVars, link' # "open"
  PROVE  Fresh'
BY DEF Fresh, freshVars

\* The state machine makes no call before it is connected.
LEMMA NoCalls ==
  ASSUME state = "DISCONNECTED"
  PROVE  /\ \A m, q : ~SM!Publish(m, q)
         /\ \A S : ~SM!Subscribe(S) /\ ~SM!Unsubscribe(S)
         /\ ~SM!Disconnect
BY DEF SM!Publish, SM!Subscribe, SM!Unsubscribe, SM!Disconnect

LEMMA FreshStep ==
  ASSUME Ind, Types, Fresh, Next
  PROVE  Fresh'
<1> SUFFICES ASSUME connects' = 0 PROVE Fresh'
  BY DEF Fresh
<1>1. connects \in Nat /\ DOMAIN sending = Workers
  BY DEF Types, ClientTypes, Ind, LockInv, Shape
<1>2. ASSUME UNCHANGED freshVars, connects = 0, UNCHANGED link \/ link' = "closed"
      PROVE  Fresh'
  BY <1>2, FreshKept DEF Fresh
<1>3. CASE Feed \/ Handle
  <2>1. connects = 0
    BY <1>3 DEF Feed, Handle, counters
  <2> QED BY <1>3, <2>1 DEF Feed, Handle, Fresh
<1>4. ASSUME NEW w \in Workers, TakeOutbound(w) PROVE Fresh'
  <2>1. connects = 0 /\ UNCHANGED <<link, inbox, b2c, c2b, called, arrived, connects>>
    BY <1>4 DEF TakeOutbound, counters, netVars
  <2>2. out_buffer = <<>> /\ UNCHANGED <<smVars, sending>>
    BY <1>4, <2>1 DEF TakeOutbound, SM!Flush, SM!GetOutboundData, Fresh
  <2>3. UNCHANGED reader
    BY <1>4, <2>1, FlushEnds DEF Fresh
  <2> QED BY <1>2, <2>1, <2>2, <2>3 DEF freshVars, smVars
<1>5. ASSUME NEW w \in Workers, SendOutbound(w) PROVE Fresh'
  <2>1. connects = 0 /\ sending[w] # <<>>
    BY <1>5 DEF SendOutbound, counters
  <2> QED BY <2>1 DEF Fresh
<1>6. ASSUME NEW t \in Tasks, CancelCall(t) PROVE Fresh'
  <2>1. /\ connects = 0 /\ sending' = [sending EXCEPT ![t] = <<>>]
        /\ UNCHANGED <<smVars, reader, inbox, netVars, called, arrived, connects>>
    BY <1>6 DEF CancelCall, Abandon, counters, readerVars
  <2>2. \A w \in Workers : sending'[w] = <<>>
    BY <1>1, <2>1 DEF Fresh
  <2> QED BY <2>1, <2>2 DEF Fresh, smVars, netVars
<1>7. ASSUME \/ \E t \in Publishers, q \in 0 .. 2 : CallPublish(t, q)
             \/ \E t \in Subscribers, S \in PatternSets : EnterContext(t, S)
      PROVE  Fresh'
  <2>1. connects = 0
    BY <1>7 DEF CallPublish, EnterContext
  <2>2. state = "DISCONNECTED"
    BY <2>1 DEF Fresh
  <2> QED BY <1>7, <2>2, NoCalls DEF CallPublish, EnterContext
<1>8. ASSUME NEW t \in Tasks, LeaveContext(t) PROVE Fresh'
  <2>1. /\ connects = 0 /\ UNCHANGED <<netVars, readerVars, called, arrived, connects>>
    BY <1>8 DEF LeaveContext, counters
  <2>2. state = "DISCONNECTED"
    BY <2>1 DEF Fresh
  <2>3. UNCHANGED <<smVars, lockVars>>
    BY <1>8, <2>2, NoCalls DEF LeaveContext
  <2> QED BY <1>2, <2>1, <2>3 DEF freshVars, smVars, lockVars, readerVars, netVars
<1>9. ASSUME NEW t \in Tasks, CancelContext(t) PROVE Fresh'
  <2>1. /\ connects = 0
        /\ UNCHANGED <<netVars, readerVars, lockVars, called, arrived, connects>>
    BY <1>9 DEF CancelContext, counters
  <2>2. state = "DISCONNECTED"
    BY <2>1 DEF Fresh
  <2>3. UNCHANGED smVars
    BY <1>9, <2>2, NoCalls DEF CancelContext
  <2> QED BY <1>2, <2>1, <2>3 DEF freshVars, smVars, lockVars, readerVars, netVars
<1>10. ASSUME NEW t \in Tasks, TakeMessage(t) \/ Return(t) \/ Deliver(t) PROVE Fresh'
  <2>1. UNCHANGED <<smVars, lockVars, netVars, reader, inbox, called, arrived, connects>>
    BY <1>10 DEF TakeMessage, Return, Deliver, counters, readerVars
  <2> QED BY <1>2, <2>1 DEF freshVars, smVars, lockVars, netVars
<1>11. ASSUME Establish PROVE Fresh'
  BY <1>1, <1>11 DEF Establish
<1>12. ASSUME Exit PROVE Fresh'
  <2>1. /\ connects = 0
        /\ UNCHANGED <<readerVars, c2b, b2c, called, arrived, connects>>
    BY <1>12 DEF Exit, counters
  <2>2. state = "DISCONNECTED"
    BY <2>1 DEF Fresh
  <2>3. UNCHANGED <<smVars, lockVars>> /\ (UNCHANGED link \/ link' = "closed")
    BY <1>12, <2>2, NoCalls DEF Exit
  <2> QED BY <1>2, <2>1, <2>3 DEF freshVars, smVars, lockVars, readerVars
<1>13. ASSUME FinishHandshake \/ LoopConnection \/ CloseStream \/ FinishExit
       PROVE  Fresh'
  <2>1. /\ UNCHANGED <<smVars, lockVars, readerVars, c2b, b2c, called, arrived, connects>>
        /\ UNCHANGED link \/ link' = "closed"
    BY <1>13 DEF FinishHandshake, LoopConnection, CloseStream, FinishExit, netVars, counters
  <2> QED BY <1>2, <2>1 DEF freshVars, smVars, lockVars, readerVars
<1>14. ASSUME EndOfStream \/ FinishDelivery PROVE Fresh'
  <2>1. connects = 0 /\ reader # "none"
    BY <1>14 DEF EndOfStream, FinishDelivery, counters
  <2> QED BY <2>1 DEF Fresh
<1>15. CASE Environment
  <2>1. connects = 0 /\ (c2b # <<>> \/ link = "open")
    BY <1>15 DEF Environment, BrokerHandle, BrokerPublish, BrokerEnds, counters
  <2> QED BY <2>1 DEF Fresh
<1>16. ASSUME TasksRun PROVE Fresh'
  BY <1>4, <1>5, <1>6, <1>7, <1>8, <1>9, <1>10, <1>11, <1>12, <1>13, <1>14, <1>16, Zenon
  DEF TasksRun
<1> QED BY <1>3, <1>15, <1>16, Zenon DEF Next, ReaderRuns

-----------------------------------------------------------------------------
(* The ends of the connections                                             *)

LEMMA MainMoves ==
  ASSUME Next
  PROVE  /\ Closed => Closed'
         /\ manager' = "connecting" => manager = "connecting" \/ LoopConnection
<1>1. ASSUME ReaderRuns \/ Environment PROVE UNCHANGED <<main, manager>>
  BY <1>1, Zenon DEF ReaderRuns, Environment, Feed, Handle, BrokerHandle, BrokerPublish,
     BrokerEnds
<1>2. ASSUME \/ \E w \in Workers : TakeOutbound(w) \/ SendOutbound(w)
             \/ \E t \in Publishers, q \in 0 .. 2 : CallPublish(t, q)
             \/ \E t \in Subscribers, S \in PatternSets : EnterContext(t, S)
             \/ \E t \in Tasks : \/ TakeMessage(t) \/ LeaveContext(t) \/ Return(t)
                                 \/ CancelCall(t) \/ CancelContext(t) \/ Deliver(t)
             \/ EndOfStream \/ FinishDelivery
      PROVE  UNCHANGED <<main, manager>>
  BY <1>2, Zenon DEF TakeOutbound, SendOutbound, CallPublish, EnterContext, TakeMessage,
     LeaveContext, Return, CancelCall, CancelContext, Deliver, EndOfStream, FinishDelivery
<1>3. ASSUME \/ Establish \/ FinishHandshake \/ LoopConnection
             \/ Exit \/ CloseStream \/ FinishExit
      PROVE  /\ Closed => Closed'
             /\ manager' = "connecting" => manager = "connecting" \/ LoopConnection
  BY <1>3 DEF Establish, FinishHandshake, LoopConnection, Exit, CloseStream, FinishExit, Closed
<1>4. ASSUME UNCHANGED <<main, manager>>
      PROVE  /\ Closed => Closed'
             /\ manager' = "connecting" => manager = "connecting"
  BY <1>4 DEF Closed
<1> QED BY <1>1, <1>2, <1>3, <1>4, Zenon DEF Next, TasksRun

LEMMA LinkMoves ==
  ASSUME Next
  PROVE  /\ Establish \/ (link' = "open" => link = "open")
         /\ link' = "closed" => link = "closed" \/ Closed'
<1>1. ASSUME \/ ReaderRuns
             \/ \E w \in Workers : TakeOutbound(w) \/ SendOutbound(w)
             \/ \E t \in Publishers, q \in 0 .. 2 : CallPublish(t, q)
             \/ \E t \in Subscribers, S \in PatternSets : EnterContext(t, S)
             \/ \E t \in Tasks : \/ TakeMessage(t) \/ LeaveContext(t) \/ Return(t)
                                 \/ CancelCall(t) \/ CancelContext(t) \/ Deliver(t)
             \/ FinishHandshake \/ LoopConnection \/ FinishExit
             \/ EndOfStream \/ FinishDelivery
      PROVE  UNCHANGED link
  BY <1>1, Zenon DEF ReaderRuns, Feed, Handle, TakeOutbound, SendOutbound, CallPublish,
     EnterContext, TakeMessage, LeaveContext, Return, CancelCall, CancelContext, Deliver,
     FinishHandshake, LoopConnection, FinishExit, EndOfStream, FinishDelivery, netVars
<1>2. ASSUME Exit \/ CloseStream PROVE UNCHANGED link \/ (link' = "closed" /\ Closed')
  BY <1>2 DEF Exit, CloseStream, Closed
<1>3. ASSUME Establish PROVE link' = "open"
  BY <1>3 DEF Establish
<1>4. ASSUME Environment PROVE UNCHANGED link \/ link' \in {"eof", "reset"}
  BY <1>4 DEF Environment, BrokerHandle, BrokerPublish, BrokerEnds
<1>5. Next => \/ ReaderRuns \/ TasksRun \/ Environment
  BY DEF Next
<1> DEFINE Done == /\ Establish \/ (link' = "open" => link = "open")
                  /\ link' = "closed" => link = "closed" \/ Closed'
<1>6. UNCHANGED link => Done
  OBVIOUS
<1>7. link' = "closed" /\ Closed' => Done
  OBVIOUS
<1>8. Establish /\ link' = "open" => Done
  OBVIOUS
<1>9. link' \in {"eof", "reset"} => Done
  OBVIOUS
<1>10. \/ UNCHANGED link \/ (link' = "closed" /\ Closed') \/ Establish
       \/ link' \in {"eof", "reset"}
  BY <1>1, <1>2, <1>4, <1>5, Zenon DEF TasksRun
<1> QED BY <1>3, <1>6, <1>7, <1>8, <1>9, <1>10

LEMMA DrainedBefore ==
  ASSUME Next, reader' = "ended" => reader = "ended", Drained'
  PROVE  Drained
<1>1. crash = "none"
  BY DEF Next, Alive
<1>2. LoopConnection => reader = "ended" /\ (Closed => manager' = "ended")
  BY DEF LoopConnection
<1> QED BY <1>1, <1>2, MainMoves DEF Drained

\* When a broken transport ends the reader, the whole client ends.
LEMMA BrokenNotDrained ==
  ASSUME Ind, Streams, Next, NEW w \in Workers, TakeOutbound(w) \/ SendOutbound(w), Drained'
  PROVE  Drained
<1>1. CASE UNCHANGED reader
  BY <1>1, DrainedBefore
<1>2. CASE reader = "flushing" /\ reader' \in {"handling", "ended"}
  <2>1. UNCHANGED <<main, manager>> /\ manager # "connecting" /\ crash = "none"
    BY <1>2, Zenon DEF TakeOutbound, SendOutbound, Ind, Idlers, Next, Alive
  <2>2. reader' = "ended" => link = "closed" \/ crash' # "none"
    <3>1. TakeOutbound(w) => reader' # "ended"
      BY <1>2 DEF TakeOutbound, Flushed
    <3>2. SendOutbound(w) /\ reader' = "ended" => link = "closed" \/ crash' # "none"
      BY <1>2 DEF SendOutbound, Flushed
    <3> QED BY <3>1, <3>2
  <2> QED BY <1>2, <2>1, <2>2 DEF Drained, Streams, Closed
<1> QED BY <1>1, <1>2, FlushEnds

LEMMA StreamsStep ==
  ASSUME Ind, Types, Streams, Next
  PROVE  Streams'
<1>1. link' = "closed" => Closed'
  BY LinkMoves, MainMoves DEF Streams
<1>2. ASSUME Drained' PROVE link' # "open"
  <2>1. CASE Establish
    BY <1>2, <2>1 DEF Establish, Drained
  <2>2. CASE EndOfStream
    BY <2>2 DEF EndOfStream, netVars
  <2>3. ASSUME ~Establish, Drained PROVE link' # "open"
    BY <2>3, LinkMoves DEF Streams
  <2>4. ASSUME NEW w \in Workers, TakeOutbound(w) \/ SendOutbound(w) PROVE Drained
    BY <1>2, <2>4, BrokenNotDrained
  <2>5. ASSUME ~Establish, ~EndOfStream,
               \A w \in Workers : ~TakeOutbound(w) /\ ~SendOutbound(w)
        PROVE  reader' = "ended" => reader = "ended"
    <3>1. ASSUME NextPacket PROVE reader' # "ended"
      BY <3>1 DEF NextPacket
    <3>2. ASSUME Feed \/ Handle \/ FinishDelivery PROVE reader' # "ended"
      BY <3>1, <3>2 DEF Feed, Handle, FinishDelivery, HandleAnswer, HandleConnAck,
         HandlePublish, HandleOther
    <3>3. ASSUME \/ \E t \in Publishers, q \in 0 .. 2 : CallPublish(t, q)
                 \/ \E t \in Subscribers, S \in PatternSets : EnterContext(t, S)
                 \/ \E t \in Tasks : \/ TakeMessage(t) \/ LeaveContext(t) \/ Return(t)
                                     \/ CancelCall(t) \/ CancelContext(t) \/ Deliver(t)
                 \/ FinishHandshake \/ LoopConnection \/ Exit \/ CloseStream \/ FinishExit
                 \/ Environment
          PROVE  UNCHANGED reader
      BY <3>3, Zenon DEF CallPublish, EnterContext, TakeMessage, LeaveContext, Return,
         CancelCall, CancelContext, Deliver, FinishHandshake, LoopConnection, Exit,
         CloseStream, FinishExit, Environment, BrokerHandle, BrokerPublish, BrokerEnds,
         readerVars
    <3>4. UNCHANGED reader => (reader' = "ended" => reader = "ended")
      OBVIOUS
    <3> QED BY <2>5, <3>2, <3>3, <3>4, Zenon DEF Next, ReaderRuns, TasksRun
  <2> QED BY <1>2, <2>1, <2>2, <2>3, <2>4, <2>5, DrainedBefore
<1> QED BY <1>1, <1>2 DEF Streams

-----------------------------------------------------------------------------
(* The messages on their way to the subscriptions                          *)

\* Contexts are entered and left, messages taken, while the reader stays where it is.
LEMMA ReceivedKept ==
  ASSUME Types, NEW a \in Nat, ReceivedAt(a),
         \A t \in Tasks : Progress(t, a)' = Progress(t, a),
         \/ UNCHANGED contextVars
         \/ \E t \in Tasks : Close(t) \/ TakeMessage(t)
         \/ \E t \in Tasks, S \in PatternSets : EnterContext(t, S)
         \/ UNCHANGED <<patterns, buffer, taken>>
  PROVE  ReceivedAt(a)'
<1>1. /\ patterns \in [Tasks -> SUBSET Patterns]
      /\ buffer \in [Tasks -> Seq(Numbers)] /\ taken \in [Tasks -> Seq(Numbers)]
      /\ \A t \in Tasks : where[t] = "out" => buffer[t] = <<>>
  BY DEF Types, ContextTypes
<1>2. ASSUME NEW t \in Tasks, taken'[t] = taken[t], buffer'[t] = buffer[t],
             patterns'[t] = patterns[t]
      PROVE  Complete(taken'[t] \o buffer'[t], patterns'[t], Progress(t, a)')
  BY <1>2 DEF ReceivedAt
<1>3. CASE UNCHANGED <<patterns, buffer, taken>>
  BY <1>2, <1>3 DEF ReceivedAt
<1>4. CASE UNCHANGED contextVars
  BY <1>3, <1>4 DEF contextVars
<1>5. ASSUME NEW u \in Tasks, Close(u) PROVE ReceivedAt(a)'
  <2>1. /\ patterns' = [patterns EXCEPT ![u] = {}]
        /\ buffer' = [buffer EXCEPT ![u] = <<>>] /\ UNCHANGED taken
    BY <1>5 DEF Close
  <2>2. Complete(taken[u] \o <<>>, {}, Progress(u, a))
    BY <1>1, CompleteTaken DEF ReceivedAt
  <2>3. ASSUME NEW t \in Tasks
        PROVE  Complete(taken'[t] \o buffer'[t], patterns'[t], Progress(t, a)')
    <3>1. CASE t = u
      BY <1>1, <2>1, <2>2, <3>1
    <3>2. CASE t # u
      BY <1>1, <1>2, <2>1, <3>2
    <3> QED BY <3>1, <3>2
  <2> QED BY <2>3 DEF ReceivedAt
<1>6. ASSUME NEW u \in Tasks, TakeMessage(u) PROVE ReceivedAt(a)'
  <2>1. /\ taken' = [taken EXCEPT ![u] = Append(taken[u], Head(buffer[u]))]
        /\ buffer' = [buffer EXCEPT ![u] = Tail(buffer[u])]
        /\ buffer[u] # <<>> /\ UNCHANGED patterns
    BY <1>6 DEF TakeMessage
  <2>2. Append(taken[u], Head(buffer[u])) \o Tail(buffer[u]) = taken[u] \o buffer[u]
    BY <1>1, <2>1, ConcatMoveHead
  <2>3. ASSUME NEW t \in Tasks
        PROVE  Complete(taken'[t] \o buffer'[t], patterns'[t], Progress(t, a)')
    <3>1. CASE t = u
      <4>1. taken'[u] \o buffer'[u] = taken[u] \o buffer[u]
        BY <1>1, <2>1, <2>2
      <4> QED BY <2>1, <3>1, <4>1 DEF ReceivedAt
    <3>2. CASE t # u
      BY <1>1, <1>2, <2>1, <3>2
    <3> QED BY <3>1, <3>2
  <2> QED BY <2>3 DEF ReceivedAt
<1>7. ASSUME NEW u \in Tasks, NEW S \in PatternSets, EnterContext(u, S)
      PROVE  ReceivedAt(a)'
  <2>1. /\ patterns' = [patterns EXCEPT ![u] = S] /\ taken' = [taken EXCEPT ![u] = <<>>]
        /\ UNCHANGED buffer /\ where[u] = "out"
    BY <1>7 DEF EnterContext
  <2>2. taken'[u] \o buffer'[u] = <<>>
    <3>1. taken'[u] = <<>> /\ buffer'[u] = <<>>
      BY <1>1, <2>1
    <3>2. <<>> \o <<>> = <<>>
      BY EmptySeq, ConcatEmptySeq
    <3> QED BY <3>1, <3>2
  <2>3. ASSUME NEW t \in Tasks
        PROVE  Complete(taken'[t] \o buffer'[t], patterns'[t], Progress(t, a)')
    <3>1. CASE t = u
      BY <2>2, <3>1, CompleteNothing
    <3>2. CASE t # u
      BY <1>1, <1>2, <2>1, <3>2
    <3> QED BY <3>1, <3>2
  <2> QED BY <2>3 DEF ReceivedAt
<1> QED BY <1>3, <1>4, <1>5, <1>6, <1>7

LEMMA ReceivedWith ==
  ASSUME Ind, Types, Next, NEW a \in Nat, ReceivedAt(a), UNCHANGED delivering,
         UNCHANGED reader \/ reader \in {"flushing", "reading"},
         \A t \in Tasks : Progress(t, a)' = Progress(t, a)
  PROVE  ReceivedAt(a)'
<1>1. \/ UNCHANGED contextVars
      \/ \E t \in Tasks : Close(t) \/ TakeMessage(t)
      \/ \E t \in Tasks, S \in PatternSets : EnterContext(t, S)
      \/ UNCHANGED <<patterns, buffer, taken>>
  <2>1. ~HandlePublish(Head(inbox)) \/ reader # "handling"
    BY DEF HandlePublish
  <2>2. ASSUME NEW t \in Tasks PROVE ~Deliver(t)
    BY DEF Deliver
  <2> QED BY <2>1, <2>2, ContextMoves, Zenon DEF ContextMove
<1> QED BY <1>1, ReceivedKept

LEMMA ProgressKept ==
  ASSUME NEW a, \/ UNCHANGED <<reader, delivering>>
                \/ reader # "delivering" /\ reader' # "delivering"
  PROVE  \A t \in Tasks : Progress(t, a)' = Progress(t, a)
BY DEF Progress

LEMMA QueuesKept ==
  ASSUME NEW a, NEW b, NEW c, QueuesAt(a, b, c), UNCHANGED <<inbox, b2c, delivered>>,
         UNCHANGED link \/ link' = "closed", Drained' => Drained
  PROVE  QueuesAt(a, b, c)'
BY DEF QueuesAt

\* A step that leaves the queues and the reader's work alone
LEMMA InflowKept ==
  ASSUME Ind, Types, Next, Inflow, UNCHANGED <<inbox, b2c, delivered, delivering>>,
         UNCHANGED link \/ link' = "closed", Drained' => Drained,
         \/ UNCHANGED reader
         \/ reader \in {"flushing", "reading"} /\ reader' # "delivering"
  PROVE  Inflow'
<1>1. PICK a, b, c \in Nat : QueuesAt(a, b, c) /\ ReceivedAt(a)
  BY DEF Inflow
<1>2. \A t \in Tasks : Progress(t, a)' = Progress(t, a)
  BY ProgressKept
<1>3. ReceivedAt(a)'
  BY <1>1, <1>2, ReceivedWith
<1>4. QueuesAt(a, b, c)'
  BY <1>1, QueuesKept
<1> QED BY <1>3, <1>4 DEF Inflow

\* A reader at work is between no two connections.
LEMMA ReaderBusy ==
  ASSUME Ind, Next, reader \notin {"none", "ended"}, reader' # "ended"
  PROVE  ~Drained'
<1>1. manager # "connecting"
  BY DEF Ind, Idlers, Next, Alive
<1>2. ~LoopConnection
  BY DEF LoopConnection
<1> QED BY <1>1, <1>2, MainMoves DEF Drained

\* A packet moves from the transport into the reader's queue.
LEMMA FeedInflow ==
  ASSUME Ind, Types, Next, Inflow, Feed
  PROVE  Inflow'
<1>1. /\ UNCHANGED <<connects, link, delivered, contextVars>>
      /\ b2c # <<>> /\ b2c \in Seq(Inbound) /\ inbox \in Seq(Inbound)
      /\ reader \in {"reading", "feeding"}
  BY DEF Feed, counters, Types, NetTypes, ReaderTypes
<1>2. PICK a, b, c \in Nat : QueuesAt(a, b, c) /\ ReceivedAt(a)
  BY <1>1 DEF Inflow
<1> DEFINE e == Head(b2c)
<1>3. /\ e \in Inbound /\ inbox' = Append(inbox, e) /\ b2c' = Tail(b2c)
      /\ reader' \in {"feeding", "flushing"}
  BY FeedTypes DEF Feed
<1>4. ~Drained'
  BY <1>1, <1>3, ReaderBusy
<1>5. ReceivedAt(a)'
  <2>1. \A t \in Tasks : Progress(t, a)' = Progress(t, a)
    BY <1>1, <1>3, ProgressKept
  <2> QED BY <1>1, <1>2, <2>1, ReceivedKept
<1> HIDE DEF e
<1>6. CASE ~IsMessage(e)
  <2>1. Carries(Append(inbox, e), a, b) /\ Carries(Tail(b2c), b, c)
    BY <1>1, <1>2, <1>3, <1>6, CarriesOther, CarriesTail DEF QueuesAt, e
  <2>2. QueuesAt(a, b, c)'
    BY <1>1, <1>2, <1>3, <1>4, <2>1 DEF QueuesAt
  <2> QED BY <1>5, <2>2 DEF Inflow
<1>7. CASE IsMessage(e)
  <2>1. e.msg = b + 1 /\ Carries(Tail(b2c), b + 1, c)
    BY <1>1, <1>2, <1>7, CarriesTail DEF QueuesAt, e
  <2>2. Carries(Append(inbox, e), a, b + 1)
    BY <1>1, <1>2, <1>3, <1>7, <2>1, CarriesNext DEF QueuesAt
  <2>3. QueuesAt(a, b + 1, c)'
    BY <1>1, <1>2, <1>3, <1>4, <2>1, <2>2 DEF QueuesAt
  <2>4. b + 1 \in Nat
    OBVIOUS
  <2> QED BY <1>5, <2>3, <2>4 DEF Inflow
<1> QED BY <1>6, <1>7

\* The reader is done with a packet that is no message.
LEMMA HandleInflow ==
  ASSUME Ind, Types, Next, Inflow, Handle
  PROVE  Inflow'
<1> DEFINE p == Head(inbox)
<1>1. /\ UNCHANGED <<connects, link, delivered, b2c, contextVars>>
      /\ reader = "handling" /\ inbox \in Seq(Inbound) /\ inbox # <<>>
  BY DEF Handle, counters, netVars, Types, ReaderTypes
<1>2. PICK a, b, c \in Nat : QueuesAt(a, b, c) /\ ReceivedAt(a)
  BY <1>1 DEF Inflow
<1>3. CASE ~IsMessage(p)
  <2>1. NextPacket /\ UNCHANGED delivering
    BY <1>3 DEF Handle, HandleAnswer, HandleConnAck, HandlePublish, HandleOther, IsMessage
  <2>2. inbox' = Tail(inbox) /\ reader' # "delivering"
    BY <1>1, <2>1, NextPacketTypes
  <2>3. ~Drained'
    BY <1>1, <2>1, ReaderBusy DEF NextPacket
  <2>4. Carries(inbox', a, b)
    BY <1>1, <1>2, <1>3, <2>2, CarriesTail DEF QueuesAt
  <2>5. QueuesAt(a, b, c)'
    BY <1>1, <1>2, <2>4, <2>3 DEF QueuesAt
  <2>6. \A t \in Tasks : Progress(t, a)' = Progress(t, a)
    BY <1>1, <2>2, ProgressKept
  <2>7. ReceivedAt(a)'
    BY <1>1, <1>2, <2>6, ReceivedKept
  <2> QED BY <2>5, <2>7 DEF Inflow
<1>4. CASE IsMessage(p)
  <2>1. HandlePublish(p)
    BY <1>4 DEF Handle, HandleAnswer, HandleConnAck, HandleOther, IsMessage, Answers
  <2>2. /\ delivering' = {t \in Tasks : patterns[t] \cap Matching[p.msg] # {}}
        /\ reader' = "delivering" /\ UNCHANGED inbox
    BY <2>1 DEF HandlePublish
  <2>3. p.msg = a + 1
    BY <1>1, <1>2, <1>4, CarriesTail DEF QueuesAt
  <2>4. ~Drained'
    BY <1>1, <2>2, ReaderBusy
  <2>5. QueuesAt(a, b, c)'
    BY <1>1, <1>2, <2>2, <2>4 DEF QueuesAt
  <2> HIDE DEF p
  <2>6. ASSUME NEW t \in Tasks
        PROVE  Complete(taken'[t] \o buffer'[t], patterns'[t], Progress(t, a)')
    <3>1. Complete(taken[t] \o buffer[t], patterns[t], a)
      BY <1>1, <1>2 DEF ReceivedAt, Progress
    <3>2. UNCHANGED <<taken, buffer, patterns>>
      BY <1>1 DEF contextVars
    <3>3. CASE t \in delivering'
      <4>1. Progress(t, a)' = a
        BY <3>3 DEF Progress
      <4> QED BY <3>1, <3>2, <4>1
    <3>4. CASE t \notin delivering'
      <4>1. Progress(t, a)' = a + 1
        BY <2>2, <3>4 DEF Progress
      <4>2. Matching[a + 1] \cap patterns[t] = {}
        BY <2>2, <2>3, <3>4
      <4>3. taken[t] \o buffer[t] \in Seq(Numbers)
        BY ConcatProperties DEF Types, ContextTypes
      <4> QED BY <3>1, <3>2, <4>1, <4>2, <4>3, CompleteSkip
    <3> QED BY <3>3, <3>4
  <2>7. ReceivedAt(a)'
    BY <2>6 DEF ReceivedAt
  <2> QED BY <2>5, <2>7 DEF Inflow
<1> QED BY <1>3, <1>4

\* One of the tasks that wait for the message gets it.
LEMMA DeliverInflow ==
  ASSUME Ind, Types, Next, Inflow, NEW u \in Tasks, Deliver(u)
  PROVE  Inflow'
<1> DEFINE m == Head(inbox).msg
<1>1. /\ UNCHANGED <<connects, link, delivered, b2c, inbox, reader, taken, patterns>>
      /\ delivering' = delivering \ {u} /\ u \in delivering
      /\ buffer' = [buffer EXCEPT ![u] = Append(buffer[u], m)]
  BY DEF Deliver, counters, netVars
<1>2. PICK a, b, c \in Nat : QueuesAt(a, b, c) /\ ReceivedAt(a)
  BY <1>1 DEF Inflow
<1>3. /\ reader = "delivering" /\ inbox # <<>> /\ inbox \in Seq(Inbound)
      /\ IsMessage(Head(inbox)) /\ m \in Numbers
  BY DeliverTypes DEF IsMessage, Types, ReaderTypes
<1>4. m = a + 1
  BY <1>2, <1>3, CarriesTail DEF QueuesAt
<1> HIDE DEF m
<1>5. QueuesAt(a, b, c)'
  BY <1>1, <1>2, DrainedBefore, QueuesKept
<1>6. ASSUME NEW t \in Tasks
      PROVE  Complete(taken'[t] \o buffer'[t], patterns'[t], Progress(t, a)')
  <2>1. /\ taken[t] \in Seq(Numbers) /\ buffer[t] \in Seq(Numbers)
        /\ DOMAIN buffer = Tasks
    BY DEF Types, ContextTypes
  <2>2. CASE t = u
    <3>1. Complete(taken[t] \o buffer[t], patterns[t], a) /\ Progress(t, a)' = a + 1
      BY <1>1, <1>2, <1>3, <2>2 DEF ReceivedAt, Progress
    <3>2. taken[t] \o Append(buffer[t], m) = Append(taken[t] \o buffer[t], m)
      <4>1. ASSUME NEW q \in Seq(Numbers), NEW r \in Seq(Numbers), NEW n \in Numbers
            PROVE  q \o Append(r, n) = Append(q \o r, n)
        BY ConcatAppend
      <4> QED BY <1>3, <2>1, <4>1, Zenon
    <3>3. taken[t] \o buffer[t] \in Seq(Numbers)
      BY <2>1, ConcatProperties
    <3>4. Complete(Append(taken[t] \o buffer[t], a + 1), patterns[t], a + 1)
      BY <1>3, <1>4, <3>1, <3>3, CompleteNext
    <3>5. buffer'[t] = Append(buffer[t], m)
      BY <1>1, <2>1, <2>2
    <3> QED BY <1>1, <1>4, <3>1, <3>2, <3>4, <3>5
  <2>3. CASE t # u
    <3>1. Progress(t, a)' = Progress(t, a) /\ buffer'[t] = buffer[t]
      BY <1>1, <2>1, <2>3 DEF Progress
    <3> QED BY <1>1, <1>2, <3>1 DEF ReceivedAt
  <2> QED BY <2>2, <2>3
<1>7. ReceivedAt(a)'
  BY <1>6 DEF ReceivedAt
<1> QED BY <1>5, <1>7 DEF Inflow

\* All tasks have got the message, and the reader goes on.
LEMMA FinishDeliveryInflow ==
  ASSUME Ind, Types, Next, Inflow, FinishDelivery
  PROVE  Inflow'
<1>1. /\ UNCHANGED <<connects, link, delivered, b2c, contextVars, delivering>>
      /\ reader = "delivering" /\ delivering = {} /\ NextPacket
      /\ inbox \in Seq(Inbound) /\ inbox # <<>> /\ IsMessage(Head(inbox))
  BY DEF FinishDelivery, counters, netVars, Types, ReaderTypes, IsMessage
<1>2. PICK a, b, c \in Nat : QueuesAt(a, b, c) /\ ReceivedAt(a)
  BY <1>1 DEF Inflow
<1>3. inbox' = Tail(inbox) /\ reader' # "delivering"
  BY <1>1, NextPacketTypes
<1>4. ~Drained'
  BY <1>1, ReaderBusy DEF NextPacket
<1>5. Carries(inbox', a + 1, b)
  BY <1>1, <1>2, <1>3, CarriesTail DEF QueuesAt
<1>6. QueuesAt(a + 1, b, c)'
  BY <1>1, <1>2, <1>5, <1>4 DEF QueuesAt
<1>7. \A t \in Tasks : Progress(t, a + 1)' = Progress(t, a)
  BY <1>1, <1>3 DEF Progress
<1>8. ReceivedAt(a + 1)'
  BY <1>1, <1>2, <1>7 DEF ReceivedAt, contextVars
<1>9. a + 1 \in Nat
  OBVIOUS
<1> QED BY <1>6, <1>8, <1>9 DEF Inflow

LEMMA EstablishInflow ==
  ASSUME Ind, Types, Inflow, crash = "none", Establish
  PROVE  Inflow'
<1>1. /\ inbox' = <<>> /\ b2c' = <<>> /\ reader' = "reading"
      /\ UNCHANGED <<delivered, contextVars>> /\ manager = "connecting"
  BY DEF Establish
<1>2. PICK a, b, c \in Nat : QueuesAt(a, b, c) /\ ReceivedAt(a)
  BY DEF Inflow
<1>3. a = delivered /\ reader # "delivering"
  BY <1>1, <1>2 DEF QueuesAt, Drained, Ind, Idlers
<1>4. QueuesAt(a, a, a)'
  BY <1>1, <1>3, CarriesNone DEF QueuesAt
<1>5. \A t \in Tasks : Progress(t, a)' = Progress(t, a)
  BY <1>1, <1>3, ProgressKept
<1>6. ReceivedAt(a)'
  BY <1>1, <1>2, <1>5, ReceivedKept
<1> QED BY <1>4, <1>6 DEF Inflow

\* The reader ends when it has read all that the transport had.
LEMMA EndOfStreamInflow ==
  ASSUME Ind, Types, Streams, Inflow, Next, EndOfStream
  PROVE  Inflow'
<1>1. /\ UNCHANGED <<inbox, b2c, delivered, delivering, link, contextVars, main, manager>>
      /\ reader = "reading" /\ reader' # "delivering" /\ inbox = <<>>
  BY DEF EndOfStream, netVars, counters, Types, ReaderTypes
<1>2. PICK a, b, c \in Nat : QueuesAt(a, b, c) /\ ReceivedAt(a)
  BY DEF Inflow
<1>3. Drained' => a = delivered /\ c = delivered
  <2> SUFFICES ASSUME Drained' PROVE a = delivered /\ c = delivered
    OBVIOUS
  <2>1. manager # "connecting"
    BY <1>1 DEF Ind, Idlers, Next, Alive
  <2>2. link = "eof" /\ b2c = <<>>
    BY <1>1, <2>1 DEF EndOfStream, Drained, Streams, Closed
  <2> QED BY <1>1, <1>2, <2>2, CarriesNone DEF QueuesAt
<1>4. QueuesAt(a, b, c)'
  BY <1>1, <1>2, <1>3 DEF QueuesAt
<1>5. ReceivedAt(a)'
  BY <1>1, <1>2, ProgressKept, ReceivedKept
<1> QED BY <1>4, <1>5 DEF Inflow

\* The broker's steps: an answer, a message, the end of the connection.
LEMMA EnvironmentInflow ==
  ASSUME Ind, Types, Streams, Inflow, Next, Environment
  PROVE  Inflow'
<1>1. /\ UNCHANGED <<inbox, reader, delivering, contextVars>>
      /\ b2c \in Seq(Inbound)
  BY DEF Environment, BrokerHandle, BrokerPublish, BrokerEnds, counters, readerVars,
     Types, NetTypes
<1>2. PICK a, b, c \in Nat : QueuesAt(a, b, c) /\ ReceivedAt(a)
  BY <1>1 DEF Inflow
<1>3. ReceivedAt(a)'
  <2>1. \A t \in Tasks : Progress(t, a)' = Progress(t, a)
    BY <1>1, ProgressKept
  <2> QED BY <1>1, <1>2, <2>1, ReceivedKept
<1>4. Drained' => Drained
  BY <1>1, DrainedBefore
<1>5. CASE BrokerHandle
  <2>1. UNCHANGED delivered /\ (UNCHANGED link \/ (link = "open" /\ link' = "eof"))
    BY <1>5 DEF BrokerHandle
  <2>2. Carries(b2c', b, c)
    <3>1. CASE UNCHANGED b2c
      BY <1>2, <3>1 DEF QueuesAt
    <3>2. ASSUME NEW e \in Inbound, e.type # "PUBLISH", b2c' = Append(b2c, e)
          PROVE  Carries(b2c', b, c)
      BY <1>1, <1>2, <3>2, CarriesOther DEF QueuesAt, IsMessage
    <3> QED BY <1>5, <3>1, <3>2, BrokerAnswers
  <2>3. QueuesAt(a, b, c)'
    BY <1>1, <1>2, <1>4, <2>1, <2>2 DEF QueuesAt
  <2> QED BY <1>3, <2>3 DEF Inflow
<1>6. CASE BrokerPublish
  <2>1. /\ link = "open" /\ UNCHANGED link /\ delivered < Len(Incoming)
        /\ delivered' = delivered + 1 /\ b2c' = Append(b2c, Incoming[delivered'])
    BY <1>6 DEF BrokerPublish
  <2>2. c = delivered
    BY <1>2, <2>1 DEF QueuesAt
  <2>3. delivered' \in DOMAIN Incoming
    BY <1>2, <2>1, <2>2, IncomingAssumption, DomainOfSeq
  <2>4. /\ Incoming[delivered'] \in SM!Publishes /\ Incoming[delivered'].msg = delivered'
    BY <2>3, IncomingAssumption, DomainOfSeq
  <2>5. /\ Incoming[delivered'] \in Inbound /\ IsMessage(Incoming[delivered'])
    <3>1. delivered' \in Numbers
      BY <2>3, IncomingAssumption, DomainOfSeq DEF Numbers
    <3>2. Incoming[delivered'].type = "PUBLISH"
      BY <2>4 DEF SM!Publishes
    <3> QED BY <2>4, <3>1, <3>2 DEF Inbound, SM!Packets, IsMessage
  <2>6. Carries(b2c', b, c + 1)
    BY <1>1, <1>2, <2>1, <2>2, <2>4, <2>5, CarriesNext DEF QueuesAt
  <2>7. QueuesAt(a, b, c + 1)'
    <3>1. ~Drained'
      BY <1>4, <2>1 DEF Streams
    <3> QED BY <1>1, <1>2, <2>1, <2>2, <2>6, <3>1 DEF QueuesAt
  <2>8. c + 1 \in Nat
    OBVIOUS
  <2> QED BY <1>3, <2>7, <2>8 DEF Inflow
<1>7. ASSUME NEW fault \in Faults, BrokerEnds(fault) PROVE Inflow'
  <2>1. UNCHANGED delivered /\ link = "open" /\ link' # "open"
    BY <1>7 DEF BrokerEnds, counters
  <2>2. \/ /\ UNCHANGED b2c \/ b2c' = Append(b2c, SM!Signal("DISCONNECT"))
           /\ link' = "eof"
        \/ b2c' = <<>> /\ link' = "reset"
    BY <1>7 DEF BrokerEnds
  <2>3. ~Drained'
    BY <1>4, <2>1 DEF Streams
  <2>4. CASE UNCHANGED b2c \/ b2c' = Append(b2c, SM!Signal("DISCONNECT"))
    <3>1. SM!Signal("DISCONNECT") \in Inbound /\ ~IsMessage(SM!Signal("DISCONNECT"))
      BY DEF SM!Signal, SM!Packets, SM!Signals, Inbound, IsMessage
    <3>2. Carries(Append(b2c, SM!Signal("DISCONNECT")), b, c)
      BY <1>1, <1>2, <3>1, CarriesOther DEF QueuesAt
    <3>3. Carries(b2c', b, c)
      BY <1>2, <2>4, <3>2 DEF QueuesAt
    <3>4. QueuesAt(a, b, c)'
      BY <1>1, <1>2, <2>1, <2>3, <3>3 DEF QueuesAt
    <3> QED BY <1>3, <3>4 DEF Inflow
  <2>5. CASE b2c' = <<>> /\ link' = "reset"
    <3>1. Carries(<<>>, b, b)
      BY CarriesNone
    <3>2. QueuesAt(a, b, b)'
      BY <1>1, <1>2, <2>1, <2>3, <2>5, <3>1 DEF QueuesAt
    <3> QED BY <1>3, <3>2 DEF Inflow
  <2> QED BY <2>2, <2>4, <2>5
<1> QED BY <1>5, <1>6, <1>7 DEF Environment


LEMMA InflowStep ==
  ASSUME Ind, Types, Streams, Inflow, Next
  PROVE  Inflow'
<1>1. crash = "none"
  BY DEF Next, Alive
<1>2. CASE Feed \/ Handle
  BY <1>2, FeedInflow, HandleInflow
<1>3. ASSUME NEW w \in Workers, TakeOutbound(w) \/ SendOutbound(w) PROVE Inflow'
  <2>1. UNCHANGED <<link, b2c, delivered>>
    BY <1>3, Zenon DEF TakeOutbound, SendOutbound, netVars, counters
  <2>2. Drained' => Drained
    BY <1>3, BrokenNotDrained
  <2> QED BY <1>3, <2>1, <2>2, FlushEnds, InflowKept
<1>4. ASSUME \/ \E t \in Publishers, q \in 0 .. 2 : CallPublish(t, q)
             \/ \E t \in Subscribers, S \in PatternSets : EnterContext(t, S)
             \/ \E t \in Tasks : \/ TakeMessage(t) \/ LeaveContext(t) \/ Return(t)
                                 \/ CancelCall(t) \/ CancelContext(t)
      PROVE  Inflow'
  <2>1. UNCHANGED <<readerVars, netVars, delivered>>
    BY <1>4, Zenon DEF CallPublish, EnterContext, TakeMessage, LeaveContext, Return,
       CancelCall, CancelContext, counters
  <2> QED BY <2>1, DrainedBefore, InflowKept DEF readerVars, netVars
<1>5. CASE FinishHandshake \/ LoopConnection \/ Exit \/ CloseStream \/ FinishExit
  <2>1. /\ UNCHANGED <<readerVars, b2c, delivered>>
        /\ UNCHANGED link \/ link' = "closed"
    BY <1>5 DEF FinishHandshake, LoopConnection, Exit, CloseStream, FinishExit, netVars,
       counters
  <2> QED BY <2>1, DrainedBefore, InflowKept DEF readerVars
<1>6. CASE EndOfStream
  BY <1>6, EndOfStreamInflow
<1>7. CASE Establish \/ FinishDelivery \/ \E t \in Tasks : Deliver(t)
  BY <1>1, <1>7, EstablishInflow, FinishDeliveryInflow, DeliverInflow
<1>8. CASE Environment
  BY <1>8, EnvironmentInflow
<1>9. CASE TasksRun
  BY <1>3, <1>4, <1>5, <1>6, <1>7, <1>9, Zenon DEF TasksRun
<1> QED BY <1>2, <1>8, <1>9, Zenon DEF Next, ReaderRuns

-----------------------------------------------------------------------------
(* The messages on their way to the broker                                 *)

LEMMA CarriesAnyOther ==
  ASSUME NEW S, NEW q \in Seq(S), NEW e, ~IsMessage(e), NEW a, NEW b, Carries(q, a, b)
  PROVE  Carries(Append(q, e), a, b)
<1>1. q \in Seq(S \cup {e})
  BY SeqMonotonic
<1> QED BY <1>1, CarriesOther

LEMMA CarriesAnyNext ==
  ASSUME NEW S, NEW q \in Seq(S), NEW e, IsMessage(e), NEW a, NEW b, Carries(q, a, b),
         e.msg = b + 1
  PROVE  Carries(Append(q, e), a, b + 1)
<1>1. q \in Seq(S \cup {e})
  BY SeqMonotonic
<1> QED BY <1>1, CarriesNext

\* A request, and the refusal that follows it when its packet id is taken
LEMMA RequestSent ==
  ASSUME NEW S, out_buffer \in Seq(S), NEW p, NEW own, SM!AddPending(p, own),
         NEW a, NEW b, Carries(out_buffer, a, b)
  PROVE  /\ ~own \/ ~IsMessage(p) => Carries(out_buffer', a, b)
         /\ own /\ IsMessage(p) /\ p.msg = b + 1 => Carries(out_buffer', a, b + 1)
<1> DEFINE sent == IF own THEN Append(out_buffer, p) ELSE out_buffer
<1>1. /\ ~own \/ ~IsMessage(p) => Carries(sent, a, b)
      /\ own /\ IsMessage(p) /\ p.msg = b + 1 => Carries(sent, a, b + 1)
  BY CarriesAnyOther, CarriesAnyNext
<1>2. sent \in Seq(S \cup {p})
  <2>1. out_buffer \in Seq(S \cup {p})
    BY SeqMonotonic
  <2> QED BY <2>1, AppendProperties
<1>3. ~IsMessage(SM!InUse(p))
  BY DEF SM!InUse, SM!SubAck, SM!Ack, IsMessage
<1>4. out_buffer' = sent \/ out_buffer' = Append(sent, SM!InUse(p))
  BY DEF SM!AddPending
<1> HIDE DEF sent
<1>5. \A c : Carries(sent, a, c) => Carries(out_buffer', a, c)
  <2>1. \A c : Carries(sent, a, c) => Carries(Append(sent, SM!InUse(p)), a, c)
    BY <1>2, <1>3, CarriesAnyOther
  <2> QED BY <1>4, <2>1
<1> QED BY <1>1, <1>5

LEMMA PublishSent ==
  ASSUME NEW S, out_buffer \in Seq(S), NEW m, NEW q, SM!Publish(m, q),
         NEW a, NEW b, Carries(out_buffer, a, b), m = b + 1
  PROVE  Carries(out_buffer', a, b + 1)
<1> DEFINE p(id) == SM!PublishPacket(m, q, id)
<1>1. \A id : IsMessage(p(id)) /\ p(id).msg = m
  BY DEF SM!PublishPacket, IsMessage
<1>2. CASE SM!Send(SM!PublishPacket(m, 0, 0))
  <2>1. /\ IsMessage(SM!PublishPacket(m, 0, 0)) /\ SM!PublishPacket(m, 0, 0).msg = m
    BY DEF SM!PublishPacket, IsMessage
  <2> QED BY <1>2, <2>1, CarriesAnyNext DEF SM!Send
<1>3. CASE SM!AddPending(p(next_packet_id), TRUE)
  BY <1>1, <1>3, RequestSent
<1> QED BY <1>2, <1>3 DEF SM!Publish

LEMMA SubscriptionsSent ==
  ASSUME NEW S, out_buffer \in Seq(S), NEW T, SM!Subscribe(T) \/ SM!Unsubscribe(T),
         NEW a, NEW b, Carries(out_buffer, a, b)
  PROVE  Carries(out_buffer', a, b)
<1>1. \/ UNCHANGED out_buffer
      \/ \E p : ~IsMessage(p) /\ SM!AddPending(p, TRUE)
  <2>1. CASE SM!Subscribe(T)
    BY <2>1 DEF SM!Subscribe, IsMessage
  <2>2. CASE SM!Unsubscribe(T)
    BY <2>2 DEF SM!Unsubscribe, IsMessage
  <2> QED BY <2>1, <2>2
<1> QED BY <1>1, RequestSent

\* What the state machine takes, and in which state
LEMMA Accepted ==
  ASSUME NEW p, SM!Accepts(SM!ClientAccepting, p)
  PROVE  /\ state = "CONNECTING" => p.type \in {"CONNACK", "AUTH"}
         /\ p.type = "CONNACK" => state = "CONNECTING"
BY DEF SM!Accepts, SM!ClientAccepting, SM!BaseAccepting

\* A CONNACK makes the state machine send again what is pending: nothing.
LEMMA NothingResent ==
  ASSUME pending = <<>>, out_buffer \in Seq(SM!Packets), NEW p, SM!ReceiveConnAck(p)
  PROVE  UNCHANGED <<pending, out_buffer>>
<1>1. CASE UNCHANGED <<pending, out_buffer>>
  BY <1>1
<1>2. ASSUME NEW order \in SM!Enumerations(SM!Kept(p.session_present)),
             NEW n \in 0 .. Len([i \in DOMAIN order |-> pending[order[i]]]),
             SM!ResendPending([i \in DOMAIN order |-> pending[order[i]]], n)
      PROVE  UNCHANGED <<pending, out_buffer>>
  <2>1. DOMAIN order = {}
    <3>1. SM!Kept(p.session_present) = {}
      BY EmptySeq DEF SM!Kept
    <3>2. order \in [DOMAIN order -> {}]
      BY <1>2, <3>1 DEF SM!Enumerations
    <3> QED BY <3>2
  <2>2. [i \in DOMAIN order |-> pending[order[i]]] = <<>>
    BY <2>1
  <2>3. n = 0
    BY <1>2, <2>2, EmptySeq
  <2>4. [i \in 1 .. n |-> SM!Duplicate(<<>>[i].packet)] = <<>>
    BY <2>3
  <2>5. out_buffer' = out_buffer \o <<>> /\ DOMAIN pending' = DOMAIN <<>>
    BY <1>2, <2>2, <2>4 DEF SM!ResendPending
  <2>6. pending' = <<>>
    <3>1. pending' = [i \in DOMAIN <<>> |-> pending'[i]]
      BY <1>2, <2>2, <2>5 DEF SM!ResendPending
    <3> QED BY <3>1
  <2> QED BY <2>5, <2>6, ConcatEmptySeq
<1> QED BY <1>1, <1>2 DEF SM!ReceiveConnAck

LEMMA ReceiveSent ==
  ASSUME out_buffer \in Seq(SM!Packets), state = "CONNECTING" => pending = <<>>,
         NEW p, SM!Receive(p), NEW a, NEW b, Carries(out_buffer, a, b)
  PROVE  Carries(out_buffer', a, b)
<1>1. CASE UNCHANGED out_buffer
  BY <1>1
<1>2. ASSUME NEW type, NEW id, NEW reason, type # "PUBLISH", SM!Send(SM!Ack(type, id, reason))
      PROVE  Carries(out_buffer', a, b)
  <2>1. ~IsMessage(SM!Ack(type, id, reason))
    BY <1>2 DEF SM!Ack, IsMessage
  <2> QED BY <1>2, <2>1, CarriesAnyOther DEF SM!Send
<1>3. ASSUME SM!ReceivePublish(p) PROVE Carries(out_buffer', a, b)
  BY <1>1, <1>2, <1>3, RequestSent DEF SM!ReceivePublish
<1>4. ASSUME SM!ReceivePubRec(p) \/ SM!ReceivePubRel(p) PROVE Carries(out_buffer', a, b)
  BY <1>1, <1>2, <1>4 DEF SM!ReceivePubRec, SM!ReceivePubRel, SM!Fail
<1>5. ASSUME SM!ReceivePubAck(p) \/ SM!ReceivePubComp(p) PROVE UNCHANGED out_buffer
  BY <1>5 DEF SM!ReceivePubAck, SM!ReceivePubComp, SM!Fail
<1>6. ASSUME \/ SM!ReceiveDisconnect(p) \/ SM!ReceiveAuth(p) \/ SM!ReceivePingResp(p)
             \/ SM!ReceiveSubAck(p) \/ SM!ReceiveUnsubAck(p)
      PROVE  UNCHANGED out_buffer
  BY <1>6 DEF SM!ReceiveDisconnect, SM!ReceiveAuth, SM!ReceivePingResp, SM!ReceiveSubAck,
     SM!ReceiveUnsubAck, SM!ReceiveRequestAck, SM!vars, SM!baseVars
<1>7. ASSUME SM!Accepts(SM!ClientAccepting, p), SM!ReceiveConnAck(p)
      PROVE  UNCHANGED out_buffer
  <2>1. p.type = "CONNACK"
    BY <1>7 DEF SM!ReceiveConnAck
  <2>2. pending = <<>>
    BY <1>7, <2>1, Accepted
  <2> QED BY <1>7, <2>2, NothingResent
<1>8. ASSUME SM!ReceiveAccepted(p) PROVE Carries(out_buffer', a, b)
  BY <1>1, <1>3, <1>4, <1>5, <1>6, <1>7, <1>8, Zenon DEF SM!ReceiveAccepted, SM!ReceiveBase
<1>9. ASSUME SM!ReceiveRefused(p) PROVE UNCHANGED out_buffer
  BY <1>9 DEF SM!ReceiveRefused, SM!Fail
<1> QED BY <1>1, <1>8, <1>9 DEF SM!Receive

\* Between two flushes the state machine is given messages in the order of the calls.
LEMMA SessionSent ==
  ASSUME Ind, Types, NothingPending, connects <= 1, SessionMove, UNCHANGED sending,
         NEW n, Carries(out_buffer, n, called)
  PROVE  Carries(out_buffer', n, called')
<1>1. out_buffer \in Seq(SM!Packets) /\ called \in Nat
  BY SameSets, CallsAssumption DEF Types, P!Ind, P!BaseInv, CallTypes
<1>2. ASSUME NEW q, called' = called + 1, SM!Publish(called', q)
      PROVE  Carries(out_buffer', n, called')
  BY <1>1, <1>2, PublishSent
<1>3. ASSUME UNCHANGED smVars, UNCHANGED called PROVE Carries(out_buffer', n, called')
  BY <1>3 DEF smVars
<1>4. ASSUME NEW w \in Workers, TakeOutbound(w), SM!Flush PROVE FALSE
  <2>1. out_buffer # <<>>
    BY <1>4 DEF SM!Flush, SM!GetOutboundData
  <2>2. sending[w] = <<>> /\ sending' = [sending EXCEPT ![w] = out_buffer]
    BY <1>4, <2>1 DEF TakeOutbound
  <2> QED BY <2>1, <2>2 DEF Ind, LockInv, Shape
<1>5. ASSUME NEW S, SM!Subscribe(S) \/ SM!Unsubscribe(S), UNCHANGED called
      PROVE  Carries(out_buffer', n, called')
  BY <1>1, <1>5, SubscriptionsSent
<1>6. ASSUME SM!Connect(TRUE) \/ SM!Disconnect, UNCHANGED called
      PROVE  Carries(out_buffer', n, called')
  <2>1. \E e : ~IsMessage(e) /\ out_buffer' = Append(out_buffer, e)
    BY <1>6 DEF SM!Connect, SM!Disconnect, SM!Send, SM!Signal, IsMessage
  <2> QED BY <1>1, <1>6, <2>1, CarriesAnyOther
<1>7. ASSUME SM!Receive(Head(b2c)), UNCHANGED called
      PROVE  Carries(out_buffer', n, called')
  BY <1>1, <1>7, ReceiveSent DEF NothingPending
<1> QED BY <1>2, <1>3, <1>4, <1>5, <1>6, <1>7, Zenon DEF SessionMove

LEMMA NothingPendingStep ==
  ASSUME Types, Fresh, NothingPending, Next
  PROVE  NothingPending'
<1> SUFFICES ASSUME connects' <= 1, state' = "CONNECTING" PROVE pending' = <<>>
  BY DEF NothingPending
<1>1. connects \in Nat /\ SessionMove
  BY SessionMoves DEF Types, ClientTypes
<1>2. ASSUME Establish, SM!Connect(TRUE) PROVE pending' = <<>>
  <2>1. connects = 0
    BY <1>1, <1>2 DEF Establish
  <2> QED BY <1>2, <2>1 DEF Fresh, SM!Connect
<1>3. ASSUME ~Establish PROVE connects' = connects
  BY <1>3, Zenon DEF Next, ReaderRuns, TasksRun, Environment, TakeOutbound, SendOutbound,
     CallPublish, EnterContext, TakeMessage, LeaveContext, Return, CancelCall, CancelContext,
     Deliver, FinishHandshake, LoopConnection, Exit, CloseStream, FinishExit, EndOfStream,
     FinishDelivery, Feed, Handle, BrokerHandle, BrokerPublish, BrokerEnds, counters
<1>4. connects <= 1
  <2>1. CASE Establish
    BY <1>1, <2>1 DEF Establish
  <2>2. CASE ~Establish
    BY <1>3, <2>2
  <2> QED BY <2>1, <2>2
<1>5. ASSUME UNCHANGED <<state, pending>> PROVE pending' = <<>>
  BY <1>4, <1>5 DEF NothingPending
<1>6. ASSUME \/ \E m, q : SM!Publish(m, q)
             \/ \E S : SM!Subscribe(S) \/ SM!Unsubscribe(S)
             \/ SM!Disconnect
      PROVE  FALSE
  BY <1>6 DEF SM!Publish, SM!Subscribe, SM!Unsubscribe, SM!Disconnect
<1>7. ASSUME NEW p, SM!Receive(p) PROVE pending' = <<>>
  <2>1. CASE SM!ReceiveRefused(p)
    BY <1>5, <2>1 DEF SM!ReceiveRefused, SM!Fail
  <2>2. CASE SM!ReceiveAccepted(p)
    <3>1. SM!ReceiveConnAck(p) => state' # "CONNECTING"
      BY DEF SM!ReceiveConnAck
    <3>2. state = "CONNECTING"
      BY <2>2, <3>1 DEF SM!ReceiveAccepted, SM!ReceiveBase, SM!ReceivePublish,
         SM!ReceivePubAck, SM!ReceivePubRec, SM!ReceivePubRel, SM!ReceivePubComp,
         SM!ReceiveDisconnect, SM!ReceiveAuth, SM!ReceivePingResp, SM!ReceiveSubAck,
         SM!ReceiveUnsubAck, SM!ReceiveRequestAck, SM!Fail, SM!vars, SM!baseVars
    <3>3. p.type \in {"CONNACK", "AUTH"}
      BY <2>2, <3>2, Accepted DEF SM!ReceiveAccepted
    <3>4. SM!ReceiveAuth(p)
      BY <2>2, <3>1, <3>3 DEF SM!ReceiveAccepted, SM!ReceiveBase, SM!ReceivePublish,
         SM!ReceivePubAck, SM!ReceivePubRec, SM!ReceivePubRel, SM!ReceivePubComp,
         SM!ReceiveDisconnect, SM!ReceivePingResp, SM!ReceiveSubAck,
         SM!ReceiveUnsubAck, SM!ReceiveRequestAck
    <3> QED BY <1>5, <3>4 DEF SM!ReceiveAuth, SM!baseVars
  <2> QED BY <1>7, <2>1, <2>2 DEF SM!Receive
<1>8. ASSUME UNCHANGED smVars \/ SM!Flush PROVE pending' = <<>>
  BY <1>5, <1>8 DEF smVars, SM!Flush, SM!GetOutboundData
<1> QED BY <1>1, <1>2, <1>6, <1>7, <1>8, Zenon DEF SessionMove

\* A step that sends nothing, and takes nothing out of the state machine
LEMMA OutflowKept ==
  ASSUME Ind, Types, NothingPending, Outflow, SessionMove,
         UNCHANGED <<sending, c2b, arrived, connects>>, link' = "open" => link = "open"
  PROVE  Outflow'
<1> SUFFICES ASSUME connects <= 1 PROVE Outflow'
  BY DEF Outflow
<1>1. PICK m \in Nat :
        /\ Carries(c2b, Len(arrived), m)
        /\ link = "open" \/ connects = 0 => \E n \in Nat : OutflowAt(m, n)
  BY DEF Outflow
<1>2. ASSUME NEW n \in Nat, OutflowAt(m, n) PROVE OutflowAt(m, n)'
  <2>1. Carries(out_buffer', n, called')
    BY <1>2, SessionSent DEF OutflowAt
  <2> QED BY <1>2, <2>1 DEF OutflowAt
<1>3. link' = "open" \/ connects' = 0 => \E n \in Nat : OutflowAt(m, n)'
  BY <1>1, <1>2
<1>4. Carries(c2b', Len(arrived'), m)
  BY <1>1
<1>5. arrived' \in Seq(Nat) /\ \A k \in DOMAIN arrived' : arrived'[k] = k
  BY DEF Outflow
<1> QED BY <1>3, <1>4, <1>5 DEF Outflow

\* The messages leave the state machine, for the only task that sends.
LEMMA TakeOutboundOutflow ==
  ASSUME Ind, Types, Outflow, NEW w \in Workers, TakeOutbound(w)
  PROVE  Outflow'
<1> SUFFICES ASSUME connects <= 1 PROVE Outflow'
  BY DEF Outflow, TakeOutbound, counters
<1>1. UNCHANGED <<c2b, arrived, connects, link, called>> /\ w = Head(lock) /\ sending[w] = <<>>
  BY DEF TakeOutbound, netVars, counters
<1>2. /\ DOMAIN sending = Workers
      /\ \A v \in Workers : sending[v] = <<>>
  BY <1>1 DEF Ind, LockInv, Shape, Senders
<1>3. PICK m \in Nat :
        /\ Carries(c2b, Len(arrived), m)
        /\ link = "open" \/ connects = 0 => \E n \in Nat : OutflowAt(m, n)
  BY DEF Outflow
<1>4. ASSUME NEW n \in Nat, OutflowAt(m, n) PROVE \E k \in Nat : OutflowAt(m, k)'
  <2>1. m = n /\ Carries(out_buffer, n, called)
    BY <1>2, <1>4 DEF OutflowAt
  <2>2. CASE UNCHANGED <<smVars, sending>>
    BY <1>1, <1>4, <2>2 DEF OutflowAt, smVars
  <2>3. CASE /\ out_buffer # <<>> /\ out_buffer' = <<>>
             /\ sending' = [sending EXCEPT ![w] = out_buffer]
    <3>1. called \in Nat /\ Carries(out_buffer', called', called')
      BY <1>1, <2>3, CallsAssumption, CarriesNone DEF Types, CallTypes
    <3>2. sending'[w] # <<>> /\ \A v \in Workers \ {w} : sending'[v] = <<>>
      BY <1>2, <2>3
    <3>3. Carries(sending'[w], m, called')
      BY <1>1, <1>2, <2>1, <2>3
    <3>4. PICK k \in Nat : k = called'
      BY <1>1, <3>1
    <3>5. OutflowAt(m, k)'
      BY <3>1, <3>2, <3>3, <3>4 DEF OutflowAt
    <3> QED BY <3>5
  <2>4. \/ UNCHANGED <<smVars, sending>>
        \/ SM!Flush /\ sending' = [sending EXCEPT ![w] = out_buffer]
    BY Zenon DEF TakeOutbound
  <2>5. SM!Flush => out_buffer # <<>> /\ out_buffer' = <<>>
    BY DEF SM!Flush, SM!GetOutboundData
  <2> QED BY <2>2, <2>3, <2>4, <2>5, Zenon
<1>5. link' = "open" \/ connects' = 0 => \E n \in Nat : OutflowAt(m, n)'
  BY <1>1, <1>3, <1>4
<1>6. arrived' \in Seq(Nat) /\ \A k \in DOMAIN arrived' : arrived'[k] = k
  BY <1>1 DEF Outflow
<1> QED BY <1>1, <1>3, <1>5, <1>6 DEF Outflow

\* They reach the transport together, or are lost with it.
LEMMA SendOutboundOutflow ==
  ASSUME Ind, Types, Fresh, Outflow, NEW w \in Workers, SendOutbound(w)
  PROVE  Outflow'
<1> SUFFICES ASSUME connects <= 1 PROVE Outflow'
  BY DEF Outflow, SendOutbound, counters
<1>1. /\ UNCHANGED <<arrived, connects, link, called, out_buffer>> /\ sending[w] # <<>>
  BY DEF SendOutbound, counters, smVars
<1>2. connects # 0
  BY <1>1 DEF Fresh
<1>3. PICK m \in Nat :
        /\ Carries(c2b, Len(arrived), m)
        /\ link = "open" \/ connects = 0 => \E n \in Nat : OutflowAt(m, n)
  BY DEF Outflow
<1>4. arrived' \in Seq(Nat) /\ \A k \in DOMAIN arrived' : arrived'[k] = k
  BY <1>1 DEF Outflow
<1>5. CASE link # "open"
  <2>1. UNCHANGED c2b
    BY <1>5 DEF SendOutbound
  <2> QED BY <1>1, <1>2, <1>3, <1>4, <1>5, <2>1 DEF Outflow
<1>6. CASE link = "open"
  <2>1. c2b' = c2b \o sending[w] /\ sending' = [sending EXCEPT ![w] = <<>>]
    BY <1>6 DEF SendOutbound
  <2>2. PICK n \in Nat : OutflowAt(m, n)
    BY <1>3, <1>6
  <2>3. /\ DOMAIN sending = Workers
        /\ \A v \in Workers \ {w} : sending[v] = <<>>
    BY <1>1 DEF Ind, LockInv, Shape, Senders
  <2>4. \A v \in Workers : sending'[v] = <<>>
    BY <2>1, <2>3
  <2>5. Carries(c2b', Len(arrived), n)
    BY <1>1, <1>3, <2>1, <2>2, CarriesConcat DEF OutflowAt, Types, NetTypes
  <2>6. OutflowAt(n, n)'
    BY <1>1, <2>2, <2>4 DEF OutflowAt
  <2> QED BY <1>1, <1>4, <2>5, <2>6 DEF Outflow
<1> QED BY <1>5, <1>6

LEMMA EstablishOutflow ==
  ASSUME Ind, Types, Fresh, NothingPending, Outflow, crash = "none", SessionMove, Establish
  PROVE  Outflow'
<1> SUFFICES ASSUME connects' <= 1 PROVE Outflow'
  BY DEF Outflow
<1>1. /\ connects' = connects + 1 /\ connects \in Nat /\ c2b' = <<>>
      /\ UNCHANGED <<arrived, sending, called>>
  BY DEF Establish, Types, ClientTypes, Run, lockVars
<1>2. connects = 0
  BY <1>1
<1>3. /\ arrived = <<>> /\ out_buffer = <<>> /\ called = 0
      /\ \A w \in Workers : sending[w] = <<>>
  BY <1>2 DEF Fresh
<1>4. Carries(out_buffer', 0, called')
  BY <1>1, <1>2, <1>3, SessionSent, CarriesNone
<1>5. OutflowAt(0, 0)'
  BY <1>1, <1>3, <1>4 DEF OutflowAt
<1>6. Carries(c2b', Len(arrived'), 0)
  BY <1>1, <1>3, CarriesNone, EmptySeq
<1>7. arrived' \in Seq(Nat) /\ DOMAIN arrived' = {}
  BY <1>1, <1>3, EmptySeq
<1> QED BY <1>5, <1>6, <1>7 DEF Outflow

\* The broker takes the next packet; a message among them is the next one.
LEMMA BrokerHandleOutflow ==
  ASSUME Ind, Types, Outflow, BrokerHandle
  PROVE  Outflow'
<1> SUFFICES ASSUME connects <= 1 PROVE Outflow'
  BY DEF Outflow, BrokerHandle
<1> DEFINE p == Head(c2b)
<1>1. /\ UNCHANGED <<connects, called, out_buffer, sending>>
      /\ c2b # <<>> /\ c2b \in Seq(SM!Packets) /\ c2b' = Tail(c2b)
      /\ link' = "open" => link = "open"
      /\ arrived' = IF IsMessage(p) THEN Append(arrived, p.msg) ELSE arrived
  BY DEF BrokerHandle, Types, NetTypes, smVars, lockVars, IsMessage
<1>2. PICK m \in Nat :
        /\ Carries(c2b, Len(arrived), m)
        /\ link = "open" \/ connects = 0 => \E n \in Nat : OutflowAt(m, n)
  BY DEF Outflow
<1>3. arrived \in Seq(Nat) /\ \A k \in DOMAIN arrived : arrived[k] = k
  BY DEF Outflow
<1>4. link' = "open" \/ connects' = 0 => \E n \in Nat : OutflowAt(m, n)'
  BY <1>1, <1>2 DEF OutflowAt
<1>5. /\ Carries(c2b', Len(arrived'), m) /\ arrived' \in Seq(Nat)
      /\ \A k \in DOMAIN arrived' : arrived'[k] = k
  <2>1. CASE ~IsMessage(p)
    <3>1. UNCHANGED arrived
      BY <1>1, <2>1
    <3> QED BY <1>1, <1>2, <1>3, <2>1, <3>1, CarriesTail
  <2>2. CASE IsMessage(p)
    <3>1. p.msg = Len(arrived) + 1 /\ Carries(c2b', Len(arrived) + 1, m)
      BY <1>1, <1>2, <2>2, CarriesTail
    <3>2. Len(arrived) \in Nat
      BY <1>3, LenProperties
    <3> DEFINE r == Append(arrived, Len(arrived) + 1)
    <3>3. arrived' = r
      BY <1>1, <2>2, <3>1
    <3>4. /\ r \in Seq(Nat) /\ Len(r) = Len(arrived) + 1
          /\ \A k \in DOMAIN arrived : r[k] = arrived[k]
          /\ \A k \in DOMAIN r :
               k \in DOMAIN arrived \/ (k = Len(arrived) + 1 /\ r[k] = Len(arrived) + 1)
      <4>1. Len(arrived) + 1 \in Nat
        BY <3>2
      <4> QED BY <1>3, <4>1, AppendElements, AppendProperties
    <3> HIDE DEF r
    <3>5. \A k \in DOMAIN r : r[k] = k
      BY <1>3, <3>4
    <3> QED BY <3>1, <3>3, <3>4, <3>5
  <2> QED BY <2>1, <2>2
<1> QED BY <1>4, <1>5 DEF Outflow

\* The broker breaks the connection: what was on its way is lost.
LEMMA BrokerEndsOutflow ==
  ASSUME Ind, Types, Fresh, Outflow, NEW fault \in Faults, BrokerEnds(fault)
  PROVE  Outflow'
<1> SUFFICES ASSUME connects <= 1 PROVE Outflow'
  BY DEF Outflow, BrokerEnds, counters
<1>1. /\ UNCHANGED <<connects, arrived>> /\ c2b' = <<>>
      /\ link = "open" /\ link' # "open"
  BY DEF BrokerEnds, counters
<1>2. connects' # 0
  BY <1>1 DEF Fresh
<1>3. arrived' \in Seq(Nat) /\ \A k \in DOMAIN arrived' : arrived'[k] = k
  BY <1>1 DEF Outflow
<1>4. Len(arrived') \in Nat /\ Carries(c2b', Len(arrived'), Len(arrived'))
  BY <1>1, <1>3, LenProperties, CarriesNone
<1> QED BY <1>1, <1>2, <1>3, <1>4 DEF Outflow

LEMMA OutflowStep ==
  ASSUME Cancellable = {}, Ind, Types, Fresh, NothingPending, Outflow, Next
  PROVE  Outflow'
<1>1. crash = "none" /\ SessionMove
  BY SessionMoves DEF Next, Alive
<1>2. CASE Feed \/ Handle
  <2>1. UNCHANGED <<sending, c2b, arrived, connects, link>>
    BY <1>2 DEF Feed, Handle, lockVars, netVars, counters
  <2> QED BY <1>1, <2>1, OutflowKept
<1>3. ASSUME NEW w \in Workers, TakeOutbound(w) \/ SendOutbound(w) PROVE Outflow'
  BY <1>3, TakeOutboundOutflow, SendOutboundOutflow
<1>4. ASSUME \/ \E t \in Publishers, q \in 0 .. 2 : CallPublish(t, q)
             \/ \E t \in Subscribers, S \in PatternSets : EnterContext(t, S)
             \/ \E t \in Tasks : \/ TakeMessage(t) \/ LeaveContext(t) \/ Return(t)
                                 \/ CancelContext(t) \/ Deliver(t)
             \/ EndOfStream \/ FinishDelivery
      PROVE  Outflow'
  <2>1. UNCHANGED <<sending, netVars, arrived, connects>>
    BY <1>4, Zenon DEF CallPublish, EnterContext, TakeMessage, LeaveContext, Return, Run,
       CancelContext, Deliver, EndOfStream, FinishDelivery, lockVars, counters
  <2> QED BY <1>1, <2>1, OutflowKept DEF netVars
<1>5. ASSUME NEW t \in Tasks, CancelCall(t) PROVE Outflow'
  BY <1>5 DEF CancelCall
<1>6. CASE FinishHandshake \/ LoopConnection \/ Exit \/ CloseStream \/ FinishExit
  <2>1. /\ UNCHANGED <<sending, c2b, arrived, connects>>
        /\ UNCHANGED link \/ link' = "closed"
    BY <1>6 DEF FinishHandshake, LoopConnection, Exit, CloseStream, FinishExit, Run,
       lockVars, netVars, counters
  <2> QED BY <1>1, <2>1, OutflowKept
<1>7. CASE Establish
  BY <1>1, <1>7, EstablishOutflow
<1>8. CASE Environment
  <2>1. ASSUME BrokerPublish PROVE Outflow'
    <3>1. UNCHANGED <<sending, c2b, arrived, connects, link>>
      BY <2>1 DEF BrokerPublish, lockVars
    <3> QED BY <1>1, <3>1, OutflowKept
  <2> QED BY <1>8, <2>1, BrokerHandleOutflow, BrokerEndsOutflow DEF Environment
<1>9. CASE TasksRun
  BY <1>3, <1>4, <1>5, <1>6, <1>7, <1>9, Zenon DEF TasksRun
<1> QED BY <1>2, <1>8, <1>9, Zenon DEF Next, ReaderRuns

-----------------------------------------------------------------------------
(* The inductive invariant and what follows from it                        *)

LEMMA InitOrder ==
  ASSUME Init
  PROVE  OrderInv
<1>1. P!Ind
  BY PacketIdAssumption, SameCalls, P!InitInd DEF Init
<1>2. /\ main = "entering" /\ manager = "connecting" /\ reader = "none"
      /\ op = [w \in Callers |-> NoOperation]
      /\ answered = {} /\ pending_operations = <<>>
      /\ sending = [w \in Workers |-> <<>>]
      /\ inbox = <<>> /\ delivering = {}
      /\ where = [t \in Tasks |-> "out"] /\ patterns = [t \in Tasks |-> {}]
      /\ buffer = [t \in Tasks |-> <<>>] /\ taken = [t \in Tasks |-> <<>>]
      /\ link = "none" /\ c2b = <<>> /\ b2c = <<>> /\ granted = {}
      /\ connects = 0 /\ called = 0 /\ arrived = <<>> /\ delivered = 0
      /\ state = "DISCONNECTED" /\ pending = <<>> /\ out_buffer = <<>>
  BY DEF Init, SM!Init
<1>3. /\ \A S : <<>> \in Seq(S)
      /\ DOMAIN <<>> = {} /\ Len(<<>>) = 0 /\ <<>> \o <<>> = <<>>
  BY EmptySeq, ConcatEmptySeq
<1>4. CallTypes
  <2>1. NoOperation \in Operations
    BY PacketIdAssumption, CallsAssumption DEF NoOperation, Operations
  <2> QED BY <1>2, <1>3, <2>1, CallsAssumption DEF CallTypes
<1>5. ClientTypes /\ ReaderTypes
  BY <1>2, <1>3 DEF ClientTypes, ReaderTypes
<1>6. ContextTypes
  BY <1>2, <1>3, BufferAssumption DEF ContextTypes
<1>7. NetTypes
  <2>1. Len(Incoming) \in Nat
    BY IncomingAssumption, LenProperties
  <2> QED BY <1>2, <1>3, <2>1 DEF NetTypes
<1>8. Fresh
  BY <1>2 DEF Fresh
<1>9. Streams
  BY <1>2 DEF Streams, Drained
<1>10. Inflow
  <2>1. QueuesAt(0, 0, 0)
    BY <1>2, CarriesNone DEF QueuesAt
  <2>2. ReceivedAt(0)
    BY <1>2, <1>3, CompleteNothing DEF ReceivedAt
  <2> QED BY <2>1, <2>2 DEF Inflow
<1> QED BY <1>1, <1>4, <1>5, <1>6, <1>7, <1>8, <1>10, <1>9, InitInd DEF OrderInv, Types

LEMMA NextOrder ==
  ASSUME OrderInv, [Next]_vars
  PROVE  OrderInv'
<1>1. Ind'
  BY NextInd DEF OrderInv
<1>2. CASE Next
  BY <1>1, <1>2, TypesStep, FreshStep, StreamsStep, InflowStep DEF OrderInv
<1>3. CASE UNCHANGED vars
  <2>1. Types'
    <3>1. P!Ind'
      BY <1>3, SessionUnchanged DEF OrderInv, Types, vars
    <3> QED
      BY <1>3, <3>1 DEF OrderInv, Types, CallTypes, ClientTypes, ReaderTypes, ContextTypes,
         NetTypes, vars, opVars, lockVars, readerVars, contextVars, netVars, counters
  <2>2. Fresh'
    BY <1>3 DEF OrderInv, Fresh, vars, smVars, lockVars, readerVars, netVars, counters
  <2>3. UNCHANGED <<inbox, b2c, delivered, delivering, link, reader, contextVars, main,
                    manager, crash>>
    BY <1>3 DEF vars, readerVars, netVars, counters
  <2>4. Streams' /\ (Drained' <=> Drained)
    BY <2>3 DEF OrderInv, Streams, Drained, Closed
  <2>5. Inflow'
    BY <2>3, <2>4 DEF OrderInv, Inflow, QueuesAt, ReceivedAt, Progress, contextVars
  <2> QED BY <1>1, <2>1, <2>2, <2>4, <2>5 DEF OrderInv
<1> QED BY <1>2, <1>3

LEMMA Ordered == Spec => []OrderInv
BY InitOrder, NextOrder, PTL DEF Spec

(* Every variable keeps its type, whatever the tasks call and cancel and   *)
(* however the broker ends a connection; no buffer holds more than         *)
(* BufferSize messages.                                                    *)
THEOREM AsyncClientTypes == Spec => []TypeOK
<1>1. ASSUME OrderInv PROVE TypeOK
  <2>1. P!TypeOK
    <3>1. P!SidedEntries \subseteq P!Entries
      BY DEF P!SidedEntries
    <3> QED
      BY <1>1, <3>1, SeqMonotonic DEF OrderInv, Types, P!Ind, P!BaseInv, P!ClientInv, P!TypeOK
  <2>2. SM!TypeOK
    <3>1. /\ P!Entries = SM!Entries /\ P!States = SM!States /\ P!Failures = SM!Failures
          /\ P!QoS = SM!QoS
      BY SameSets DEF P!Entries, SM!Entries, P!States, SM!States, P!Failures, SM!Failures,
         P!QoS, SM!QoS, P!AckStates, SM!AckStates, P!SubscriptionRequests,
         SM!SubscriptionRequests
    <3> QED BY <2>1, <3>1, SameSets DEF P!TypeOK, SM!TypeOK
  <2>3. lock \in Seq(Workers)
    BY <1>1 DEF OrderInv, Ind, LockInv, Queue
  <2>4. inbox \in Seq(SM!Packets) /\ b2c \in Seq(SM!Packets)
    <3>1. Inbound \subseteq SM!Packets
      BY DEF Inbound
    <3> QED BY <1>1, <3>1, SeqMonotonic DEF OrderInv, Types, ReaderTypes, NetTypes
  <2>5. Range(pending_operations) \subseteq Tasks
    BY <1>1 DEF OrderInv, Types, CallTypes, Range
  <2>6. op \in [Callers -> [stage : {"idle", "flush", "wait"}, id : 0 .. MaxPacketId,
                            msg : 0 .. MaxPublishes]]
    BY <1>1 DEF OrderInv, Types, CallTypes, Operations
  <2> QED
    BY <1>1, <2>2, <2>3, <2>4, <2>5, <2>6
    DEF OrderInv, Types, CallTypes, ClientTypes, ReaderTypes, ContextTypes, NetTypes, TypeOK
<1> QED BY <1>1, Ordered, PTL

(* A subscription is handed the messages that match it in the broker's     *)
(* order and with none missing in between, however many tasks share the    *)
(* connection, however full their buffers are, whenever contexts are       *)
(* entered, left or cancelled, and over reconnections.                     *)
THEOREM MessagesWithoutGaps == Spec => []NoGaps
<1>1. ASSUME OrderInv PROVE NoGaps
  <2>1. PICK a \in Nat : ReceivedAt(a)
    BY <1>1 DEF OrderInv, Inflow
  <2> QED BY <2>1 DEF ReceivedAt, Complete, NoGaps
<1> QED BY <1>1, Ordered, PTL

(* When no call is cancelled, the broker gets the messages of the first    *)
(* connection in the order of the publish() calls of all tasks, each once  *)
(* and none left out, though each call flushes what any call has encoded,  *)
(* and whichever way the connection ends.  (A cancelled call loses what    *)
(* it had taken, as the runs with cancellations show.)                     *)
THEOREM PublishesInOrder ==
  ASSUME Cancellable = {}
  PROVE  Spec => [](connects <= 1 => ArrivesInOrder)
<1> DEFINE Inv == OrderInv /\ NothingPending /\ Outflow
<1>1. Init => Inv
  <2> SUFFICES ASSUME Init PROVE Inv
    OBVIOUS
  <2>1. OrderInv
    BY InitOrder
  <2>2. /\ connects = 0 /\ called = 0 /\ arrived = <<>> /\ c2b = <<>> /\ link = "none"
        /\ state = "DISCONNECTED" /\ out_buffer = <<>> /\ sending = [w \in Workers |-> <<>>]
    BY DEF Init, SM!Init
  <2>3. NothingPending
    BY <2>2 DEF NothingPending
  <2>4. OutflowAt(0, 0)
    BY <2>2, CarriesNone DEF OutflowAt
  <2>5. Len(<<>>) = 0 /\ <<>> \in Seq(Nat) /\ DOMAIN <<>> = {} /\ Carries(<<>>, 0, 0)
    BY EmptySeq, CarriesNone
  <2>6. Outflow
    BY <2>2, <2>4, <2>5 DEF Outflow
  <2> QED BY <2>1, <2>3, <2>6
<1>2. Inv /\ [Next]_vars => Inv'
  <2> SUFFICES ASSUME Inv, [Next]_vars PROVE Inv'
    OBVIOUS
  <2>1. OrderInv'
    BY NextOrder
  <2>2. CASE Next
    BY <2>1, <2>2, NothingPendingStep, OutflowStep DEF OrderInv
  <2>3. CASE UNCHANGED vars
    <3>1. UNCHANGED <<connects, state, pending, arrived, c2b, link, sending, out_buffer,
                      called>>
      BY <2>3 DEF vars, smVars, lockVars, netVars, counters
    <3> QED BY <2>1, <3>1 DEF NothingPending, Outflow, OutflowAt
  <2> QED BY <2>2, <2>3
<1>3. Inv => (connects <= 1 => ArrivesInOrder)
  BY DEF Outflow, ArrivesInOrder
<1> QED BY <1>1, <1>2, <1>3, PTL DEF Spec

-----------------------------------------------------------------------------
(* The answers to the calls                                                *)

(* A publish() takes one packet id, a context two at most: one for its     *)
(* SUBSCRIBE and one for its UNSUBSCRIBE.  There are more ids than that.   *)
LastId == MaxPublishes + 2 * MaxContexts
EnoughIds == MaxContexts \in Nat /\ LastId < MaxPacketId

(* The broker delivers under packet ids that the client does not reach.    *)
(* Only QoS 2 messages stay in the table of a client that acknowledges by  *)
(* itself.                                                                 *)
Separate == \A k \in DOMAIN Incoming : Incoming[k].qos = 2 => Incoming[k].packet_id > LastId

\* The contexts that may still send an UNSUBSCRIBE
Users == {t \in Tasks : where[t] \in {"entering", "in"}}

\* How many packet ids were enough for what was called so far, and one
Room == 1 + called + 2 * contexts - Cardinality(Users)

\* The packet ids are given out one after the other, from 1 on.
Counted ==
  /\ contexts \in 0 .. MaxContexts
  /\ IsFiniteSet(Users)
  /\ next_packet_id <= Room
  /\ connects = 0 \/ state = "CONNECTING" => next_packet_id = 1

(* A task that is in no call waits for nothing, and what is registered     *)
(* under a packet id is the call that has it.                              *)
Registered ==
  /\ \A t \in Tasks : Idle(t) => op[t].id = 0 /\ t \notin answered
  /\ \A i \in DOMAIN pending_operations : op[pending_operations[i]].id = i

\* No two calls have the same packet id, and the next one is unused.
Numbered ==
  /\ \A w \in Callers : op[w].id < next_packet_id
  /\ \A v, w \in Callers : op[v].id = op[w].id /\ op[v].id # 0 => v = w

\* What is on its way in either direction, from the state machine on
ToBroker(p) == \/ p \in Range(out_buffer) \/ p \in Range(c2b)
               \/ \E w \in Workers : p \in Range(sending[w])
ToClient(p) == p \in Range(b2c) \/ p \in Range(inbox)

\* The publish() calls that wait for an answer under packet id i
Published(i) == {t \in Tasks : op[t].id = i /\ op[t].msg # 0}

\* Packet id i was given out; if to a publish(), the broker has got its message.
Settled(i) ==
  /\ i \in 1 .. next_packet_id - 1
  /\ \A t \in Published(i) : op[t].msg \in Range(arrived)

\* Packet id i was given out; if to a publish(), its message is m.
Means(i, m) ==
  /\ i \in 1 .. next_packet_id - 1
  /\ \A t \in Published(i) : op[t].msg = m

\* What a packet that leads to an answer says, and what an answer says
SentTruly(p) ==
  /\ p.type = "PUBLISH" /\ p.qos # 0 => Means(p.packet_id, p.msg)
  /\ p.type \in {"PUBREL", "SUBSCRIBE", "UNSUBSCRIBE"} => Settled(p.packet_id)
AnsweredTruly(p) ==
  p.type \in {"PUBACK", "PUBREC", "PUBCOMP", "SUBACK", "UNSUBACK"} => Settled(p.packet_id)

Truthful ==
  /\ \A p : ToBroker(p) => SentTruly(p)
  /\ \A p : ToClient(p) => AnsweredTruly(p)
  /\ \A t \in Tasks : t \in answered /\ op[t].id # 0 => Settled(op[t].id)
  /\ arrived \in Seq(Messages)
  /\ returned \subseteq Range(arrived)

\* The requests of the two directions do not meet in the table.
Apart ==
  /\ \A p : ToClient(p) /\ p.type = "PUBLISH" /\ p.qos = 2 => p.packet_id > LastId
  /\ \A i \in DOMAIN pending :
       IF pending[i].own THEN pending[i].packet.packet_id \in 1 .. next_packet_id - 1
                         ELSE pending[i].packet.packet_id > LastId

\* The state machine holds an own request under packet id i.
Holds(i) == \E k \in DOMAIN pending : pending[k].own /\ pending[k].packet.packet_id = i

\* The answer to it waits to be handled.
Reached(i) == \E p \in Range(inbox) : p.type \in Answers /\ p.packet_id = i

Waits ==
  \A t \in Tasks : op[t].id # 0 /\ t \notin answered =>
    /\ op[t].id \in DOMAIN pending_operations
    /\ pending_operations[op[t].id] = t
    /\ Holds(op[t].id) \/ Reached(op[t].id)

-----------------------------------------------------------------------------
(* The kinds of steps                                                      *)

\* A packet that leads to no answer
Plain(p) == \/ p.type \notin {"PUBLISH", "PUBREL", "SUBSCRIBE", "UNSUBSCRIBE"}
            \/ p.type = "PUBLISH" /\ p.qos = 0

\* Nothing changes about the calls of the application's tasks.
CallsKept ==
  /\ UNCHANGED pending_operations
  /\ \A t \in Tasks : t \in answered' <=> t \in answered
  /\ \A w \in Callers : /\ op'[w].id = op[w].id /\ op'[w].msg = op[w].msg
                        /\ op'[w].stage = "idle" => Idle(w)

\* A call begins that needs no answer, or one ends.
CallEnds ==
  \/ \E w \in Callers, m \in 0 .. MaxPublishes : Idle(w) /\ Run(w, 0, m)
  \/ \E w \in Callers : Finish(w)

Silent ==
  /\ UNCHANGED <<pending, next_packet_id, arrived>>
  /\ \A p : ToBroker(p)' => ToBroker(p) \/ Plain(p)
  /\ \A p : ToClient(p)' => ToClient(p) \/ p.type = "DISCONNECT"
  /\ \A p \in Range(inbox) : p.type \in Answers => p \in Range(inbox')
  /\ CallsKept \/ CallEnds
  /\ \A m \in returned' :
       \/ m \in returned
       \/ \E t \in Tasks : t \in answered /\ op[t].id # 0 /\ op[t].msg # 0 /\ op[t].msg = m

\* A request is made of the state machine, under the next packet id.
Requests(p) ==
  /\ state = "CONNECTED" /\ UNCHANGED state
  /\ SM!AddPending(p, TRUE) /\ SM!GeneratePacketId
  /\ p.packet_id = next_packet_id

\* A call of task t makes the request p.
Calls(t, p) ==
  /\ Idle(t)
  /\ \/ p.type = "PUBLISH" /\ p.msg = called' /\ Run(t, next_packet_id, called')
     \/ p.type \in {"SUBSCRIBE", "UNSUBSCRIBE"} /\ Run(t, next_packet_id, 0)

\* The calls that may take a packet id
Asks ==
  \/ \E t \in Publishers, q \in 0 .. 2 : CallPublish(t, q)
  \/ \E t \in Subscribers, S \in PatternSets : EnterContext(t, S)
  \/ \E t \in Tasks : LeaveContext(t) \/ CancelContext(t)

\* With a context that is cancelled goes the call, but not its request.
Request(p) ==
  /\ Asks /\ Requests(p)
  /\ UNCHANGED <<sending, c2b, b2c, inbox, arrived, returned>>
  /\ \/ \E t \in Tasks : Calls(t, p)
     \/ p.type = "UNSUBSCRIBE" /\ UNCHANGED opVars

Answering ==
  /\ inbox # <<>> /\ HandleAnswer(Head(inbox))
  /\ UNCHANGED <<pending, next_packet_id, out_buffer, sending, c2b, b2c, arrived, returned, op>>

-----------------------------------------------------------------------------
(* What is in a queue                                                      *)

LEMMA RangeEmpty == \A x : x \notin Range(<<>>)
BY DEF Range

LEMMA RangeAppend ==
  ASSUME NEW S, NEW q \in Seq(S), NEW e
  PROVE  \A x : x \in Range(Append(q, e)) <=> x \in Range(q) \/ x = e
<1> DEFINE r == Append(q, e)
<1>1. q \in Seq(S \cup {e}) /\ e \in S \cup {e}
  BY SeqMonotonic
<1>2. /\ \A k \in DOMAIN q : k \in DOMAIN r /\ r[k] = q[k]
      /\ \A k \in DOMAIN r : k \in DOMAIN q \/ r[k] = e
      /\ \E k \in DOMAIN r : r[k] = e
  BY <1>1, AppendElements
<1> HIDE DEF r
<1>3. \A x : x \in Range(r) <=> x \in Range(q) \/ x = e
  BY <1>2 DEF Range
<1> QED BY <1>3 DEF r

LEMMA RangeTail ==
  ASSUME NEW S, NEW q \in Seq(S), q # <<>>
  PROVE  /\ Head(q) \in Range(q)
         /\ \A x : x \in Range(q) <=> x \in Range(Tail(q)) \/ x = Head(q)
<1> DEFINE r == Tail(q)
           e == Head(q)
<1>1. /\ 1 \in DOMAIN q /\ e = q[1]
      /\ \A k \in DOMAIN r : k + 1 \in DOMAIN q /\ r[k] = q[k + 1]
      /\ \A k \in DOMAIN q : k # 1 => k - 1 \in DOMAIN r
      /\ \A k \in DOMAIN q : k \in Nat
  BY TailElements, DomainOfSeq
<1>2. \A k \in DOMAIN q : k # 1 => r[k - 1] = q[k]
  <2>1. \A k \in DOMAIN q : (k - 1) + 1 = k
    BY <1>1
  <2> HIDE DEF r, e
  <2> QED BY <1>1, <2>1
<1> HIDE DEF r, e
<1>3. e \in Range(q)
  BY <1>1 DEF Range
<1>4. ASSUME NEW x, x \in Range(r) PROVE x \in Range(q)
  BY <1>1, <1>4 DEF Range
<1>5. ASSUME NEW x, x \in Range(q) PROVE x \in Range(r) \/ x = e
  <2>1. PICK k \in DOMAIN q : x = q[k]
    BY <1>5 DEF Range
  <2>2. CASE k = 1
    BY <1>1, <2>1, <2>2
  <2>3. CASE k # 1
    <3>1. k - 1 \in DOMAIN r /\ r[k - 1] = x
      BY <1>1, <1>2, <2>1, <2>3
    <3> QED BY <3>1 DEF Range
  <2> QED BY <2>2, <2>3
<1>6. e \in Range(q) /\ \A x : x \in Range(q) <=> x \in Range(r) \/ x = e
  BY <1>3, <1>4, <1>5
<1> QED BY <1>6 DEF r, e

LEMMA RangeConcat ==
  ASSUME NEW S, NEW q \in Seq(S), NEW r \in Seq(S)
  PROVE  \A x : x \in Range(q \o r) => x \in Range(q) \/ x \in Range(r)
<1> DEFINE s == q \o r
<1>1. /\ \A k \in DOMAIN q : s[k] = q[k]
      /\ \A k \in DOMAIN s \ DOMAIN q : k - Len(q) \in DOMAIN r /\ s[k] = r[k - Len(q)]
  BY ConcatElements
<1> HIDE DEF s
<1>2. ASSUME NEW k \in DOMAIN s PROVE s[k] \in Range(q) \/ s[k] \in Range(r)
  BY <1>1 DEF Range
<1>3. \A x : x \in Range(s) => x \in Range(q) \/ x \in Range(r)
  BY <1>2 DEF Range
<1> QED BY <1>3 DEF s

-----------------------------------------------------------------------------
(* The kinds of steps: every step of the first connection is of one        *)

LEMMA FlushedKeeps ==
  ASSUME CallTypes, NEW w \in Workers, Flushed(w), UNCHANGED <<answered, pending_operations>>
  PROVE  CallsKept
<1>1. CASE UNCHANGED op
  BY <1>1 DEF CallsKept, Idle
<1>2. CASE w # "reader" /\ op' = [op EXCEPT ![w].stage = "wait"]
  <2>1. w \in Callers /\ DOMAIN op = Callers
    BY <1>2, WorkerTypes DEF CallTypes
  <2>2. op[w] \in Operations
    BY <2>1 DEF CallTypes
  <2>3. /\ [op[w] EXCEPT !.stage = "wait"].id = op[w].id
        /\ [op[w] EXCEPT !.stage = "wait"].msg = op[w].msg
        /\ [op[w] EXCEPT !.stage = "wait"].stage = "wait"
    BY <2>2 DEF Operations
  <2>4. ASSUME NEW t \in Callers
        PROVE  /\ op'[t].id = op[t].id /\ op'[t].msg = op[t].msg
               /\ op'[t].stage = "idle" => Idle(t)
    <3>1. CASE t = w
      <4>1. op'[t] = [op[w] EXCEPT !.stage = "wait"]
        BY <1>2, <2>1, <3>1
      <4> QED BY <2>3, <3>1, <4>1
    <3>2. CASE t # w
      <4>1. op'[t] = op[t]
        BY <1>2, <2>1, <3>2
      <4> QED BY <4>1 DEF Idle
    <3> QED BY <3>1, <3>2
  <2> QED BY <2>4 DEF CallsKept
<1> QED BY <1>1, <1>2, Zenon DEF Flushed

LEMMA CallsUntouched ==
  ASSUME UNCHANGED opVars
  PROVE  CallsKept
BY DEF opVars, CallsKept, Idle

\* A step away from the state machine, the streams and the calls
LEMMA SilentElsewhere ==
  ASSUME UNCHANGED <<pending, next_packet_id, out_buffer, sending, c2b, b2c, inbox, arrived,
                     returned>>,
         CallsKept \/ CallEnds
  PROVE  Silent
BY DEF Silent, ToBroker, ToClient

\* What is left unchanged where the tuples of variables are
LEMMA Untouched ==
  /\ (UNCHANGED smVars) => UNCHANGED <<state, pending, out_buffer, next_packet_id, failure>>
  /\ (UNCHANGED netVars) => UNCHANGED <<link, c2b, b2c>>
  /\ (UNCHANGED counters) => UNCHANGED <<connects, contexts, called, arrived, returned>>
  /\ (UNCHANGED lockVars) => UNCHANGED sending
  /\ (UNCHANGED readerVars) => UNCHANGED inbox
BY DEF smVars, netVars, counters, lockVars, readerVars

LEMMA TakeOutboundSilent ==
  ASSUME Ind, Types, NEW w \in Workers, TakeOutbound(w)
  PROVE  Silent
<1>1. UNCHANGED <<inbox, c2b, b2c, arrived, returned, answered, pending_operations>>
  BY Untouched DEF TakeOutbound
<1>2. CASE Flushed(w) /\ UNCHANGED <<smVars, sending>>
  BY <1>1, <1>2, Untouched, FlushedKeeps, SilentElsewhere DEF Types
<1>3. CASE SM!Flush /\ sending' = [sending EXCEPT ![w] = out_buffer] /\ UNCHANGED op
  <2>1. UNCHANGED <<pending, next_packet_id>> /\ out_buffer' = <<>>
    BY <1>3 DEF SM!Flush, SM!GetOutboundData, SM!clientVars
  <2>2. DOMAIN sending = Workers
    BY DEF Ind, LockInv, Shape
  <2>3. ASSUME NEW p, ToBroker(p)' PROVE ToBroker(p)
    <3>1. CASE p \in Range(out_buffer')
      BY <2>1, <3>1, RangeEmpty
    <3>2. CASE p \in Range(c2b')
      BY <1>1, <3>2 DEF ToBroker
    <3>3. ASSUME NEW v \in Workers, p \in Range(sending'[v]) PROVE ToBroker(p)
      <4>1. CASE v = w
        BY <1>3, <2>2, <3>3, <4>1 DEF ToBroker
      <4>2. CASE v # w
        BY <1>3, <2>2, <3>3, <4>2 DEF ToBroker
      <4> QED BY <4>1, <4>2
    <3> QED BY <2>3, <3>1, <3>2, <3>3 DEF ToBroker
  <2>4. CallsKept
    BY <1>1, <1>3 DEF CallsKept, Idle
  <2> QED BY <1>1, <2>1, <2>3, <2>4 DEF Silent, ToClient
<1> QED BY <1>2, <1>3, Zenon DEF TakeOutbound

LEMMA SendOutboundSilent ==
  ASSUME Ind, Types, NEW w \in Workers, SendOutbound(w)
  PROVE  Silent
<1>1. UNCHANGED <<pending, next_packet_id, out_buffer, inbox, b2c, arrived, returned>>
  BY Untouched DEF SendOutbound
<1>2. /\ sending' = [sending EXCEPT ![w] = <<>>]
      /\ c2b' = c2b \/ c2b' = c2b \o sending[w]
  BY DEF SendOutbound, Abandon
<1>3. CallsKept \/ CallEnds
  <2>1. \/ Flushed(w) /\ UNCHANGED <<answered, pending_operations>>
        \/ w \in Tasks /\ Finish(w)
        \/ UNCHANGED opVars
        \/ w # "reader" /\ Finish(w)
    BY Zenon DEF SendOutbound, Abandon
  <2> QED BY <2>1, FlushedKeeps, CallsUntouched, WorkerTypes DEF CallEnds, Types
<1>4. DOMAIN sending = Workers /\ c2b \in Seq(SM!Packets) /\ sending[w] \in Seq(SM!Packets)
  BY DEF Ind, LockInv, Shape, Types, NetTypes
<1>5. \A v \in Workers : sending'[v] = IF v = w THEN <<>> ELSE sending[v]
  BY <1>2, <1>4
<1>6. \A p \in Range(c2b') : p \in Range(c2b) \/ p \in Range(sending[w])
  <2>1. \A p : p \in Range(c2b \o sending[w]) => p \in Range(c2b) \/ p \in Range(sending[w])
    BY <1>4, RangeConcat
  <2> QED BY <1>2, <2>1
<1>7. ASSUME NEW p, ToBroker(p)' PROVE ToBroker(p)
  <2>1. ASSUME NEW v \in Workers, p \in Range(sending'[v]) PROVE ToBroker(p)
    BY <1>5, <2>1, RangeEmpty DEF ToBroker
  <2> QED BY <1>1, <1>6, <1>7, <2>1 DEF ToBroker
<1> QED BY <1>1, <1>3, <1>7 DEF Silent, ToClient

\* The state machine is asked for a request, or for something that leads to no answer.
LEMMA PlainSent ==
  ASSUME Ind, Types, UNCHANGED <<pending, next_packet_id, sending, c2b, b2c, inbox, arrived, returned>>,
         NEW e, SM!Send(e), Plain(e), CallsKept \/ CallEnds
  PROVE  Silent
<1>1. out_buffer \in Seq(P!Packets) /\ out_buffer' = Append(out_buffer, e)
  BY DEF Types, P!Ind, P!BaseInv, SM!Send
<1>2. \A p : p \in Range(out_buffer') => p \in Range(out_buffer) \/ p = e
  BY <1>1, RangeAppend
<1>3. \A p : ToBroker(p)' => ToBroker(p) \/ Plain(p)
  BY <1>2 DEF ToBroker
<1> QED BY <1>3 DEF Silent, ToClient

LEMMA CallPublishKind ==
  ASSUME Ind, Types, NEW t \in Publishers, NEW q \in 0 .. 2, CallPublish(t, q)
  PROVE  Silent \/ \E p : Request(p)
<1>1. /\ t \in Tasks /\ t \in Callers /\ Idle(t)
      /\ Run(t, IF q = 0 THEN 0 ELSE next_packet_id, called')
      /\ SM!Publish(called', q)
      /\ UNCHANGED <<sending, inbox, c2b, b2c, arrived, returned>>
  BY TasksAssumption, WorkerTypes, Untouched DEF CallPublish, Run
<1>2. called' \in 0 .. MaxPublishes
  BY CallsAssumption DEF CallPublish, Types, CallTypes
<1>3. CASE q = 0
  <2>1. /\ SM!Send(SM!PublishPacket(called', 0, 0))
        /\ UNCHANGED <<pending, next_packet_id>>
    BY <1>1, <1>3 DEF SM!Publish
  <2>2. Plain(SM!PublishPacket(called', 0, 0))
    BY DEF Plain, SM!PublishPacket
  <2>3. CallEnds
    BY <1>1, <1>2, <1>3 DEF CallEnds
  <2> QED BY <1>1, <2>1, <2>2, <2>3, PlainSent
<1>4. CASE q # 0
  <2> DEFINE p == SM!PublishPacket(called', q, next_packet_id)
  <2>1. p.packet_id = next_packet_id /\ p.type = "PUBLISH" /\ p.msg = called'
    BY DEF SM!PublishPacket
  <2>2. SM!AddPending(p, TRUE) /\ SM!GeneratePacketId
    BY <1>1, <1>4 DEF SM!Publish
  <2>3. Run(t, next_packet_id, called')
    BY <1>1, <1>4
  <2> HIDE DEF p
  <2>4. state = "CONNECTED" /\ UNCHANGED state
    BY <1>1 DEF SM!Publish
  <2>5. Request(p)
    BY <1>1, <2>1, <2>2, <2>3, <2>4 DEF Request, Requests, Calls, Asks
  <2> QED BY <2>5
<1> QED BY <1>3, <1>4

LEMMA Subscribes ==
  ASSUME NEW S, SM!Subscribe(S)
  PROVE  \/ S \subseteq subscriptions /\ UNCHANGED <<pending, out_buffer, next_packet_id>>
         \/ /\ ~(S \subseteq subscriptions)
            /\ \E p : p.type = "SUBSCRIBE" /\ Requests(p)
<1>1. CASE S \ subscriptions = {}
  BY <1>1 DEF SM!Subscribe
<1>2. CASE S \ subscriptions # {}
  <2> DEFINE p == [type |-> "SUBSCRIBE", packet_id |-> next_packet_id,
                   patterns |-> S \ subscriptions]
  <2>1. /\ SM!AddPending(p, TRUE) /\ SM!GeneratePacketId
        /\ state = "CONNECTED" /\ UNCHANGED state
    BY <1>2 DEF SM!Subscribe
  <2>2. p.type = "SUBSCRIBE" /\ p.packet_id = next_packet_id
    OBVIOUS
  <2> HIDE DEF p
  <2> QED BY <1>2, <2>1, <2>2 DEF Requests
<1> QED BY <1>1, <1>2

LEMMA Unsubscribes ==
  ASSUME failure = "none", NEW S, SM!Unsubscribe(S)
  PROVE  \/ /\ \E p \in S : subscription_counts[p] = 1
            /\ UNCHANGED failure
            /\ \E p : p.type = "UNSUBSCRIBE" /\ Requests(p)
         \/ /\ ~(\E p \in S : subscription_counts[p] = 1) \/ failure' # failure
            /\ UNCHANGED <<pending, out_buffer, next_packet_id>>
<1> DEFINE last == {p \in S : subscription_counts[p] = 1}
<1>1. CASE failure' = "KeyError" /\ UNCHANGED <<pending, out_buffer, next_packet_id>>
  BY <1>1
<1>2. CASE last = {} /\ UNCHANGED <<pending, out_buffer, next_packet_id>>
  BY <1>2
<1>3. CASE /\ last # {} /\ UNCHANGED <<failure, state>> /\ state = "CONNECTED"
           /\ SM!AddPending([type |-> "UNSUBSCRIBE", packet_id |-> next_packet_id,
                             patterns |-> last], TRUE)
           /\ SM!GeneratePacketId
  <2> DEFINE r == [type |-> "UNSUBSCRIBE", packet_id |-> next_packet_id, patterns |-> last]
  <2>1. r.type = "UNSUBSCRIBE" /\ r.packet_id = next_packet_id
        /\ SM!AddPending(r, TRUE) /\ SM!GeneratePacketId
    BY <1>3
  <2>2. \E p \in S : subscription_counts[p] = 1
    BY <1>3
  <2> HIDE DEF r, last
  <2> QED BY <1>3, <2>1, <2>2 DEF Requests
<1> QED BY <1>1, <1>2, <1>3 DEF SM!Unsubscribe

LEMMA EnterContextKind ==
  ASSUME NEW t \in Subscribers, NEW S \in PatternSets, EnterContext(t, S)
  PROVE  Silent \/ \E p : Request(p)
<1>1. /\ UNCHANGED <<inbox, c2b, b2c, arrived, returned>> /\ SM!Subscribe(S) /\ Idle(t)
      /\ t \in Tasks
      /\ \/ ~(S \subseteq subscriptions) /\ Run(t, next_packet_id, 0)
         \/ S \subseteq subscriptions /\ UNCHANGED <<opVars, lockVars>>
  BY Untouched, TasksAssumption DEF EnterContext
<1>2. CASE S \subseteq subscriptions
  <2>1. UNCHANGED <<opVars, sending, pending, out_buffer, next_packet_id>>
    BY <1>1, <1>2, Subscribes, Untouched
  <2> QED BY <1>1, <2>1, CallsUntouched, SilentElsewhere
<1>3. CASE ~(S \subseteq subscriptions)
  <2>1. PICK p : p.type = "SUBSCRIBE" /\ Requests(p)
    BY <1>1, <1>3, Subscribes
  <2>2. Run(t, next_packet_id, 0) /\ UNCHANGED sending
    BY <1>1, <1>3 DEF Run
  <2>3. Request(p)
    BY <1>1, <2>1, <2>2 DEF Request, Calls, Asks
  <2> QED BY <2>3
<1> QED BY <1>2, <1>3

LEMMA LeaveContextKind ==
  ASSUME failure = "none", NEW t \in Tasks, LeaveContext(t)
  PROVE  Silent \/ \E p : Request(p)
<1>1. UNCHANGED <<inbox, c2b, b2c, arrived, returned>> /\ Idle(t)
  BY Untouched DEF LeaveContext
<1>2. CASE UNCHANGED <<smVars, opVars, lockVars>>
  BY <1>1, <1>2, Untouched, CallsUntouched, SilentElsewhere
<1>3. CASE SM!Unsubscribe(patterns[t]) /\ LastUser(t) /\ failure' = failure
           /\ Run(t, next_packet_id, 0)
  <2>1. PICK p : p.type = "UNSUBSCRIBE" /\ Requests(p)
    BY <1>3, Unsubscribes DEF LastUser
  <2>2. Request(p)
    BY <1>1, <1>3, <2>1 DEF Request, Calls, Run, Asks
  <2> QED BY <2>2
<1>4. CASE SM!Unsubscribe(patterns[t]) /\ (~LastUser(t) \/ failure' # failure)
           /\ UNCHANGED <<opVars, lockVars>>
  <2>1. UNCHANGED <<pending, out_buffer, next_packet_id>>
    BY <1>4, Unsubscribes DEF LastUser
  <2> QED BY <1>1, <1>4, <2>1, Untouched, CallsUntouched, SilentElsewhere
<1> QED BY <1>2, <1>3, <1>4, Zenon DEF LeaveContext

LEMMA CancelContextKind ==
  ASSUME failure = "none", NEW t \in Tasks, CancelContext(t)
  PROVE  Silent \/ \E p : Request(p)
<1>1. UNCHANGED <<opVars, sending, inbox, c2b, b2c, arrived, returned>>
  BY Untouched DEF CancelContext
<1>2. CASE UNCHANGED <<pending, out_buffer, next_packet_id>>
  BY <1>1, <1>2, CallsUntouched, SilentElsewhere
<1>3. ASSUME NEW p, p.type = "UNSUBSCRIBE", Requests(p) PROVE Request(p)
  BY <1>1, <1>3 DEF Request, Asks
<1> QED BY <1>2, <1>3, Untouched, Unsubscribes DEF CancelContext

LEMMA ReturnSilent ==
  ASSUME NEW t \in Tasks, Return(t)
  PROVE  Silent
<1>1. /\ UNCHANGED <<pending, next_packet_id, out_buffer, sending, c2b, b2c, inbox, arrived>>
      /\ CallEnds
  BY Untouched, WorkerTypes DEF Return, CallEnds
<1>2. ASSUME NEW m \in returned', m \notin returned
      PROVE  t \in answered /\ op[t].id # 0 /\ op[t].msg # 0 /\ op[t].msg = m
  BY <1>2 DEF Return, RequiresResponse
<1> QED BY <1>1, <1>2 DEF Silent, ToBroker, ToClient

LEMMA HandleKind ==
  ASSUME Types, Handle
  PROVE  Silent \/ Answering
<1>1. UNCHANGED <<pending, next_packet_id, out_buffer, sending, c2b, b2c, arrived, returned, op>>
  BY Untouched DEF Handle
<1>2. inbox # <<>> /\ inbox \in Seq(Inbound)
  BY DEF Handle, Types, ReaderTypes
<1>3. CASE HandleAnswer(Head(inbox))
  BY <1>1, <1>2, <1>3 DEF Answering
<1>4. CASE ~HandleAnswer(Head(inbox))
  <2> DEFINE p == Head(inbox)
  <2>1. /\ inbox' = inbox \/ inbox' = Tail(inbox)
        /\ p.type \notin Answers \/ inbox' = inbox
        /\ UNCHANGED pending_operations
        /\ answered' = answered \/ answered' = answered \cup {"manager"}
    BY <1>4 DEF Handle, HandleConnAck, HandlePublish, HandleOther, NextPacket, Answers
  <2>2. \A t \in Tasks : t \in answered' <=> t \in answered
    BY <2>1, WorkerTypes
  <2>3. CallsKept
    BY <1>1, <2>1, <2>2 DEF CallsKept, Idle
  <2>4. \A x : x \in Range(inbox) <=> x \in Range(Tail(inbox)) \/ x = p
    BY <1>2, RangeTail
  <2> HIDE DEF p
  <2>5. /\ \A x : x \in Range(inbox') => x \in Range(inbox)
        /\ \A x \in Range(inbox) : x.type \in Answers => x \in Range(inbox')
    BY <2>1, <2>4
  <2> QED BY <1>1, <2>3, <2>5 DEF Silent, ToBroker, ToClient
<1> QED BY <1>3, <1>4

LEMMA FinishDeliverySilent ==
  ASSUME Types, FinishDelivery
  PROVE  Silent
<1>1. UNCHANGED <<smVars, opVars, lockVars, netVars, counters>> /\ inbox' = Tail(inbox)
  BY DEF FinishDelivery, NextPacket
<1>2. inbox # <<>> /\ inbox \in Seq(Inbound) /\ Head(inbox).type = "PUBLISH"
  BY DEF FinishDelivery, Types, ReaderTypes
<1>3. \A x : x \in Range(inbox) <=> x \in Range(Tail(inbox)) \/ x = Head(inbox)
  BY <1>2, RangeTail
<1>4. /\ \A x : x \in Range(inbox') => x \in Range(inbox)
      /\ \A x \in Range(inbox) : x.type \in Answers => x \in Range(inbox')
  BY <1>1, <1>2, <1>3 DEF Answers
<1>5. CallsKept
  BY <1>1, CallsUntouched
<1> QED BY <1>1, <1>4, <1>5, Untouched DEF Silent, ToBroker, ToClient

LEMMA EstablishSilent ==
  ASSUME Ind, Types, Fresh, Establish, connects' <= 1
  PROVE  Silent
<1>1. inbox = <<>> /\ inbox' = <<>> /\ c2b' = <<>> /\ b2c' = <<>>
      /\ UNCHANGED <<arrived, returned>>
  BY DEF Establish, Fresh, Types, ClientTypes
<1>2. /\ \A x : x \in Range(c2b') => x \in Range(c2b)
      /\ \A x : x \in Range(b2c') => x \in Range(b2c)
  BY <1>1, RangeEmpty
<1>3. CASE UNCHANGED <<smVars, opVars, lockVars>>
  <2>1. CallsKept
    BY <1>3, CallsUntouched
  <2> QED BY <1>1, <1>2, <1>3, <2>1, Untouched DEF Silent, ToBroker, ToClient
<1>4. CASE SM!Connect(TRUE) /\ Run("manager", 0, 0)
  <2>1. /\ UNCHANGED <<pending, next_packet_id, sending>>
        /\ out_buffer' = Append(out_buffer, [type |-> "CONNECT", clean_start |-> TRUE])
    BY <1>4 DEF SM!Connect, SM!Send, Run, SM!clientVars
  <2>2. out_buffer \in Seq(P!Packets)
    BY DEF Types, P!Ind, P!BaseInv
  <2>3. \A x : x \in Range(out_buffer') => x \in Range(out_buffer) \/ Plain(x)
    BY <2>1, <2>2, RangeAppend DEF Plain
  <2>4. CallEnds
    <3>1. 0 \in 0 .. MaxPublishes
      BY CallsAssumption
    <3>2. Idle("manager")
      BY Zenon DEF Establish, Ind, Idlers
    <3> QED BY <3>2, <1>4, <3>1, WorkerTypes DEF CallEnds
  <2>5. \A x : ToBroker(x)' => ToBroker(x) \/ Plain(x)
    BY <1>2, <2>1, <2>3 DEF ToBroker
  <2> QED BY <1>1, <1>2, <2>1, <2>4, <2>5 DEF Silent, ToClient
<1> QED BY <1>3, <1>4, Zenon DEF Establish

LEMMA ExitSilent ==
  ASSUME Ind, Types, Exit
  PROVE  Silent
<1>1. UNCHANGED <<inbox, c2b, b2c, arrived, returned>>
  BY Untouched DEF Exit
<1>2. CASE UNCHANGED <<smVars, opVars, lockVars>>
  BY <1>1, <1>2, Untouched, CallsUntouched, SilentElsewhere
<1>3. CASE SM!Disconnect /\ Run("main", 0, 0)
  <2>1. /\ UNCHANGED <<pending, next_packet_id, sending>>
        /\ SM!Send(SM!Signal("DISCONNECT"))
    BY <1>3 DEF SM!Disconnect, Run, SM!clientVars
  <2>2. Plain(SM!Signal("DISCONNECT"))
    BY DEF Plain, SM!Signal
  <2>3. CallEnds
    <3>1. 0 \in 0 .. MaxPublishes
      BY CallsAssumption
    <3>2. Idle("main")
      BY Zenon DEF Exit, Ind, Idlers
    <3> QED BY <3>2, <1>3, <3>1, WorkerTypes DEF CallEnds
  <2> QED BY <1>1, <2>1, <2>2, <2>3, PlainSent
<1> QED BY <1>2, <1>3, Zenon DEF Exit

LEMMA BrokerEndsSilent ==
  ASSUME Types, NEW fault \in Faults, BrokerEnds(fault)
  PROVE  Silent
<1>1. UNCHANGED <<smVars, opVars, lockVars, inbox, arrived, returned>> /\ c2b' = <<>>
  BY Untouched DEF BrokerEnds
<1>2. \/ UNCHANGED b2c \/ b2c' = <<>> \/ b2c' = Append(b2c, SM!Signal("DISCONNECT"))
  BY DEF BrokerEnds
<1>3. \A x : x \in Range(Append(b2c, SM!Signal("DISCONNECT")))
             => x \in Range(b2c) \/ x = SM!Signal("DISCONNECT")
  BY RangeAppend DEF Types, NetTypes
<1>4. SM!Signal("DISCONNECT").type = "DISCONNECT"
  BY DEF SM!Signal
<1>5. \A x : x \in Range(b2c') => x \in Range(b2c) \/ x.type = "DISCONNECT"
  BY <1>2, <1>3, <1>4, RangeEmpty
<1>6. \A x : x \in Range(c2b') => x \in Range(c2b)
  BY <1>1, RangeEmpty
<1>7. CallsKept
  BY <1>1, CallsUntouched
<1> QED BY <1>1, <1>5, <1>6, <1>7, Untouched DEF Silent, ToBroker, ToClient

LEMMA Kinds ==
  ASSUME Ind, Types, Fresh, Next, connects' <= 1
  PROVE  \/ Silent \/ Answering \/ (\E p : Request(p))
         \/ Feed \/ BrokerHandle \/ BrokerPublish
<1>1. failure = "none"
  BY DEF Next, Alive
<1>2. ASSUME NEW t \in Tasks, CancelCall(t) PROVE Silent
  <2>1. UNCHANGED <<smVars, readerVars, netVars, counters>> /\ Finish(t)
        /\ sending' = [sending EXCEPT ![t] = <<>>]
    BY <1>2 DEF CancelCall, Abandon
  <2>2. \A w \in Workers : sending'[w] = sending[w] \/ sending'[w] = <<>>
    BY <2>1 DEF Ind, LockInv, Shape
  <2>3. \A p : ToBroker(p)' => ToBroker(p)
    BY <2>1, <2>2, RangeEmpty, Untouched DEF ToBroker
  <2>4. CallEnds
    BY <2>1, WorkerTypes DEF CallEnds
  <2> QED BY <2>1, <2>3, <2>4, Untouched DEF Silent, ToClient
<1>3. ASSUME NEW t \in Tasks, TakeMessage(t) \/ Deliver(t) PROVE Silent
  <2>1. UNCHANGED <<smVars, opVars, lockVars, inbox, netVars, counters>>
    BY <1>3, Untouched DEF TakeMessage, Deliver
  <2> QED BY <2>1, Untouched, CallsUntouched, SilentElsewhere
<1>4. ASSUME FinishHandshake \/ CloseStream PROVE Silent
  <2>1. /\ UNCHANGED <<smVars, lockVars, inbox, c2b, b2c, counters>>
        /\ Finish("manager") \/ Finish("main")
    BY <1>4, Untouched DEF FinishHandshake, CloseStream
  <2>2. CallEnds
    BY <2>1, WorkerTypes DEF CallEnds
  <2> QED BY <2>1, <2>2, Untouched, SilentElsewhere
<1>5. ASSUME LoopConnection \/ FinishExit \/ EndOfStream PROVE Silent
  <2>1. UNCHANGED <<smVars, opVars, lockVars, inbox, netVars, counters>>
    BY <1>5, Untouched DEF LoopConnection, FinishExit, EndOfStream
  <2> QED BY <2>1, Untouched, CallsUntouched, SilentElsewhere
<1>6. ASSUME NEW t \in Tasks,
             \/ TakeMessage(t) \/ LeaveContext(t) \/ Return(t)
             \/ CancelCall(t) \/ CancelContext(t) \/ Deliver(t)
      PROVE  Silent \/ \E p : Request(p)
  BY <1>1, <1>2, <1>3, <1>6, LeaveContextKind, CancelContextKind, ReturnSilent, Zenon
<1>7. ASSUME NEW w \in Workers, TakeOutbound(w) \/ SendOutbound(w) PROVE Silent
  BY <1>7, TakeOutboundSilent, SendOutboundSilent
<1>8. ASSUME NEW t \in Subscribers, NEW S \in PatternSets, EnterContext(t, S)
      PROVE  Silent \/ \E p : Request(p)
  BY <1>8, EnterContextKind
<1>9. ASSUME TasksRun PROVE Silent \/ \E p : Request(p)
  BY <1>4, <1>5, <1>6, <1>7, <1>8, <1>9, CallPublishKind, EstablishSilent, ExitSilent,
     FinishDeliverySilent, Zenon DEF TasksRun
<1>10. ASSUME Environment PROVE Silent \/ BrokerHandle \/ BrokerPublish
  BY <1>10, BrokerEndsSilent, Zenon DEF Environment
<1>11. ASSUME ReaderRuns PROVE Silent \/ Answering \/ Feed
  BY <1>11, HandleKind, Zenon DEF ReaderRuns
<1> QED BY <1>9, <1>10, <1>11, Zenon DEF Next

-----------------------------------------------------------------------------
(* The packet ids                                                          *)

\* Connections are counted where they open; a handshake begins there.
LEMMA ConnectingMoves ==
  ASSUME Types, Next
  PROVE  /\ IF Establish THEN connects' = connects + 1 ELSE connects' = connects
         /\ state' = "CONNECTING" => state = "CONNECTING" \/ Establish
<1>1. SessionMove
  BY SessionMoves
<1>2. ASSUME ~Establish PROVE connects' = connects
  BY <1>2, Zenon DEF Next, ReaderRuns, TasksRun, Environment, TakeOutbound, SendOutbound,
     CallPublish, EnterContext, TakeMessage, LeaveContext, Return, CancelCall, CancelContext,
     Deliver, FinishHandshake, LoopConnection, Exit, CloseStream, FinishExit, EndOfStream,
     FinishDelivery, Feed, Handle, BrokerHandle, BrokerPublish, BrokerEnds, counters
<1>3. Establish => connects' = connects + 1
  BY DEF Establish
<1>4. ASSUME \/ \E m, q : SM!Publish(m, q)
             \/ \E S : SM!Subscribe(S) \/ SM!Unsubscribe(S)
             \/ SM!Disconnect
      PROVE  state' # "CONNECTING"
  BY <1>4 DEF SM!Publish, SM!Subscribe, SM!Unsubscribe, SM!Disconnect
<1>5. ASSUME NEW p, SM!Receive(p), state' = "CONNECTING" PROVE state = "CONNECTING"
  BY <1>5 DEF SM!Receive, SM!ReceiveRefused, SM!ReceiveAccepted, SM!ReceiveBase,
     SM!ReceivePublish, SM!ReceivePubAck, SM!ReceivePubRec, SM!ReceivePubRel,
     SM!ReceivePubComp, SM!ReceiveDisconnect, SM!ReceiveAuth, SM!ReceivePingResp,
     SM!ReceiveConnAck, SM!ReceiveSubAck, SM!ReceiveUnsubAck, SM!ReceiveRequestAck,
     SM!Fail, SM!vars, SM!baseVars
<1>6. ASSUME UNCHANGED smVars \/ SM!Flush PROVE UNCHANGED state
  BY <1>6 DEF smVars, SM!Flush, SM!GetOutboundData
<1>7. state' = "CONNECTING" => state = "CONNECTING" \/ Establish
  BY <1>1, <1>4, <1>5, <1>6, Zenon DEF SessionMove
<1> QED BY <1>2, <1>3, <1>7

\* The contexts that are left, or whose call fails, are users no more.
LEMMA UsersLeave ==
  ASSUME Types, NEW t \in Tasks, where' = [where EXCEPT ![t] = "out"]
                             \/ where' = [where EXCEPT ![t] = "leaving"]
  PROVE  Users' = Users \ {t}
<1>1. where \in [Tasks -> {"out", "entering", "in", "leaving"}]
  BY DEF Types, ContextTypes
<1> QED BY <1>1 DEF Users

LEMMA UsersReturn ==
  ASSUME Types, NEW t \in Tasks, Return(t)
  PROVE  Users' = Users
<1>1. where \in [Tasks -> {"out", "entering", "in", "leaving"}]
  BY DEF Types, ContextTypes
<1>2. CASE where[t] = "leaving" /\ Close(t)
  <2>1. where' = [where EXCEPT ![t] = "out"]
    BY <1>2 DEF Close
  <2> QED BY <1>1, <1>2, <2>1 DEF Users
<1>3. CASE where' = [where EXCEPT ![t] = IF where[t] = "entering" THEN "in" ELSE where[t]]
  BY <1>1, <1>3 DEF Users
<1> QED BY <1>2, <1>3 DEF Return

LEMMA UsersMove ==
  ASSUME Types, Next
  PROVE  \/ /\ Users' = Users \/ \E t \in Tasks : Users' = Users \ {t}
            /\ ~Asks /\ UNCHANGED <<contexts, called>>
         \/ /\ \E t \in Publishers, q \in 0 .. 2 : CallPublish(t, q)
            /\ Users' = Users /\ UNCHANGED contexts
         \/ \E t \in Tasks :
              \/ /\ contexts < MaxContexts /\ contexts' = contexts + 1
                 /\ t \notin Users /\ Users' = Users \cup {t} /\ UNCHANGED called
              \/ t \in Users /\ Users' = Users \ {t} /\ UNCHANGED <<contexts, called>>
<1>1. where \in [Tasks -> {"out", "entering", "in", "leaving"}]
  BY DEF Types, ContextTypes
<1> DEFINE Stays == Users' = Users \/ \E t \in Tasks : Users' = Users \ {t}
<1>2. (UNCHANGED where) => Users' = Users
  BY DEF Users
<1>3. (UNCHANGED contextVars) => UNCHANGED where
  BY DEF contextVars
<1>4. ASSUME NEW t \in Publishers, NEW q \in 0 .. 2, CallPublish(t, q)
      PROVE  Users' = Users /\ UNCHANGED contexts
  BY <1>2, <1>3, <1>4 DEF CallPublish
<1>5. ASSUME NEW t \in Subscribers, NEW S \in PatternSets, EnterContext(t, S)
      PROVE  /\ t \in Tasks /\ contexts < MaxContexts /\ contexts' = contexts + 1
             /\ t \notin Users /\ Users' = Users \cup {t} /\ UNCHANGED called
  <2>1. /\ t \in Tasks /\ where[t] = "out" /\ UNCHANGED called
        /\ contexts < MaxContexts /\ contexts' = contexts + 1
        /\ where' = [where EXCEPT ![t] = "entering"] \/ where' = [where EXCEPT ![t] = "in"]
    BY <1>5, TasksAssumption DEF EnterContext
  <2> QED BY <1>1, <2>1 DEF Users
<1>6. ASSUME NEW t \in Tasks, LeaveContext(t) \/ CancelContext(t)
      PROVE  t \in Users /\ Users' = Users \ {t} /\ UNCHANGED <<contexts, called>>
  <2>1. /\ where[t] = "in" /\ UNCHANGED <<contexts, called>>
        /\ \/ where' = [where EXCEPT ![t] = "leaving"]
           \/ where' = [where EXCEPT ![t] = "out"]
    BY <1>6, Untouched, Zenon DEF LeaveContext, CancelContext, Close
  <2> QED BY <2>1, UsersLeave DEF Users
<1>7. ASSUME ~Asks PROVE Stays /\ UNCHANGED <<contexts, called>>
  <2>1. ASSUME ReaderRuns \/ Environment PROVE Users' = Users /\ UNCHANGED <<contexts, called>>
    <3>1. UNCHANGED contextVars /\ UNCHANGED <<contexts, called>>
      BY <2>1, Untouched, Zenon DEF ReaderRuns, Environment, Feed, Handle, BrokerHandle,
         BrokerPublish, BrokerEnds
    <3> QED BY <1>2, <1>3, <3>1
  <2>2. ASSUME NEW w \in Workers, TakeOutbound(w) \/ SendOutbound(w)
        PROVE  Stays /\ UNCHANGED <<contexts, called>>
    <3>1. UNCHANGED <<contexts, called>>
      BY <2>2, Untouched, Zenon DEF TakeOutbound, SendOutbound
    <3>2. UNCHANGED contextVars \/ (w \in Tasks /\ where' = [where EXCEPT ![w] = "out"])
      BY <2>2, Zenon DEF TakeOutbound, SendOutbound, Abandon, Close
    <3> QED BY <1>2, <1>3, <3>1, <3>2, UsersLeave
  <2>3. ASSUME NEW t \in Tasks, TakeMessage(t) \/ Deliver(t) \/ Return(t) \/ CancelCall(t)
        PROVE  Stays /\ UNCHANGED <<contexts, called>>
    <3>1. UNCHANGED <<contexts, called>>
      BY <2>3, Untouched, Zenon DEF TakeMessage, Deliver, Return, CancelCall
    <3>2. \/ UNCHANGED where \/ Return(t) \/ where' = [where EXCEPT ![t] = "out"]
      BY <2>3, <1>3, Zenon DEF TakeMessage, Deliver, CancelCall, Abandon, Close
    <3> QED BY <1>2, <3>1, <3>2, UsersLeave, UsersReturn
  <2>4. ASSUME \/ Establish \/ FinishHandshake \/ LoopConnection
               \/ Exit \/ CloseStream \/ FinishExit \/ EndOfStream \/ FinishDelivery
        PROVE  Users' = Users /\ UNCHANGED <<contexts, called>>
    <3>1. UNCHANGED contextVars /\ UNCHANGED <<contexts, called>>
      BY <2>4, Untouched, Zenon DEF Establish, FinishHandshake, LoopConnection, Exit,
         CloseStream, FinishExit, EndOfStream, FinishDelivery
    <3> QED BY <1>2, <1>3, <3>1
  <2> HIDE DEF Stays
  <2>5. Users' = Users => Stays
    BY DEF Stays
  <2> QED BY <1>7, <2>1, <2>2, <2>3, <2>4, <2>5, Zenon DEF Next, TasksRun, Asks
<1>8. ASSUME Asks
      PROVE  \/ \E t \in Publishers, q \in 0 .. 2 :
                  CallPublish(t, q) /\ Users' = Users /\ UNCHANGED contexts
             \/ \E t \in Tasks :
                  \/ /\ contexts < MaxContexts /\ contexts' = contexts + 1
                     /\ t \notin Users /\ Users' = Users \cup {t} /\ UNCHANGED called
                  \/ t \in Users /\ Users' = Users \ {t} /\ UNCHANGED <<contexts, called>>
  BY <1>4, <1>5, <1>6, <1>8, Zenon DEF Asks
<1> QED BY <1>7, <1>8

(* The room for packet ids does not shrink, and grows where one is asked   *)
(* for.                                                                    *)
LEMMA RoomGrows ==
  ASSUME EnoughIds, Types, contexts \in 0 .. MaxContexts, IsFiniteSet(Users), Next
  PROVE  /\ contexts' \in 0 .. MaxContexts
         /\ IsFiniteSet(Users')
         /\ Room \in Int /\ Room' \in Int /\ Room <= Room' /\ Room' <= LastId + 1
         /\ Asks => Room < Room'
<1>1. /\ called \in 0 .. MaxPublishes /\ called' \in 0 .. MaxPublishes
      /\ MaxPublishes \in Nat /\ MaxContexts \in Nat
  BY CallTypesStep, CallsAssumption DEF EnoughIds, Types, CallTypes
<1> DEFINE c == Cardinality(Users)
           d == Cardinality(Users')
<1>2. c \in Nat
  BY FS_CardinalityType
<1>3. ASSUME NEW t, Users' = Users \cup {t}, t \notin Users
      PROVE  IsFiniteSet(Users') /\ d = c + 1
  BY <1>3, FS_AddElement
<1>4. ASSUME NEW t, Users' = Users \ {t}
      PROVE  IsFiniteSet(Users') /\ d \in {c, c - 1} /\ (t \in Users => d = c - 1)
  BY <1>4, FS_RemoveElement
<1>5. Users' = Users => IsFiniteSet(Users') /\ d = c
  OBVIOUS
<1>6. Room = 1 + called + 2 * contexts - c /\ Room' = 1 + called' + 2 * contexts' - d
  BY DEF Room
<1>7. IsFiniteSet(Users') => d \in Nat
  BY FS_CardinalityType
<1> HIDE DEF c, d
<1>8. ASSUME contexts' \in 0 .. MaxContexts, IsFiniteSet(Users')
      PROVE  Room \in Int /\ Room' \in Int /\ Room' <= LastId + 1
  BY <1>1, <1>2, <1>6, <1>7, <1>8 DEF LastId
<1>9. CASE /\ Users' = Users \/ \E t \in Tasks : Users' = Users \ {t}
           /\ ~Asks /\ UNCHANGED <<contexts, called>>
  <2>1. IsFiniteSet(Users') /\ d \in {c, c - 1}
    BY <1>4, <1>5, <1>9
  <2>2. Room <= Room'
    BY <1>1, <1>2, <1>6, <1>9, <2>1
  <2> QED BY <1>8, <1>9, <2>1, <2>2
<1>10. ASSUME NEW t \in Publishers, NEW q \in 0 .. 2, CallPublish(t, q),
              Users' = Users, UNCHANGED contexts
       PROVE  /\ contexts' \in 0 .. MaxContexts /\ IsFiniteSet(Users') /\ Room < Room'
  <2>1. called' = called + 1
    BY <1>10 DEF CallPublish
  <2> QED BY <1>1, <1>2, <1>5, <1>6, <1>10, <2>1
<1>11. ASSUME NEW t \in Tasks, contexts < MaxContexts, contexts' = contexts + 1,
              t \notin Users, Users' = Users \cup {t}, UNCHANGED called
       PROVE  /\ contexts' \in 0 .. MaxContexts /\ IsFiniteSet(Users') /\ Room < Room'
  <2>1. IsFiniteSet(Users') /\ d = c + 1
    BY <1>3, <1>11
  <2> QED BY <1>1, <1>2, <1>6, <1>11, <2>1
<1>12. ASSUME NEW t \in Tasks, t \in Users, Users' = Users \ {t}, UNCHANGED <<contexts, called>>
       PROVE  /\ contexts' \in 0 .. MaxContexts /\ IsFiniteSet(Users') /\ Room < Room'
  <2>1. IsFiniteSet(Users') /\ d = c - 1
    BY <1>4, <1>12
  <2> QED BY <1>1, <1>2, <1>6, <1>12, <2>1
<1>13. CASE /\ contexts' \in 0 .. MaxContexts /\ IsFiniteSet(Users') /\ Room < Room'
  BY <1>8, <1>13
<1> QED BY <1>9, <1>10, <1>11, <1>12, <1>13, UsersMove

\* The id that a request takes is in reach, and the next one is the one after it.
LEMMA RequestNumber ==
  ASSUME EnoughIds, Types, Counted, Next, NEW p, Request(p)
  PROVE  /\ next_packet_id \in 1 .. LastId /\ next_packet_id' = next_packet_id + 1
         /\ next_packet_id' <= Room'
<1>1. next_packet_id \in 1 .. MaxPacketId /\ MaxPacketId \in Nat /\ LastId \in Int
  BY PacketIdType, PacketIdAssumption, CallsAssumption DEF EnoughIds, LastId
<1>2. /\ Room \in Int /\ Room' \in Int /\ Room < Room' /\ Room' <= LastId + 1
      /\ next_packet_id <= Room
  BY RoomGrows DEF Counted, Request
<1>3. next_packet_id <= LastId /\ next_packet_id # MaxPacketId
  BY <1>1, <1>2 DEF EnoughIds
<1>4. next_packet_id' = next_packet_id + 1
  BY <1>3 DEF Request, Requests, SM!GeneratePacketId
<1> QED BY <1>1, <1>2, <1>3, <1>4

-----------------------------------------------------------------------------
(* What the state machine does with a packet                               *)

(* The table keeps the own requests but those a packet answers, and gets   *)
(* QoS 2 publishes of the broker only.                                     *)
TableMoves(p) ==
  /\ \A i : Holds(i) => Holds(i)' \/ (p.type \in Answers /\ p.packet_id = i)
  /\ \A k \in DOMAIN pending' :
       \/ \E i \in DOMAIN pending :
            /\ pending'[k].own = pending[i].own
            /\ pending'[k].packet.packet_id = pending[i].packet.packet_id
       \/ /\ ~pending'[k].own /\ p.type = "PUBLISH" /\ p.qos \notin {0, 1}
          /\ pending'[k].packet.packet_id = p.packet_id

LEMMA TableKept ==
  ASSUME UNCHANGED pending, NEW p
  PROVE  TableMoves(p)
BY DEF TableMoves, Holds

LEMMA TableAppended ==
  ASSUME NEW S, pending \in Seq(S), NEW e, pending' = Append(pending, e)
  PROVE  /\ \A i : Holds(i) => Holds(i)'
         /\ \A k \in DOMAIN pending' : pending'[k] = e \/ \E i \in DOMAIN pending : pending'[k] = pending[i]
         /\ \E k \in DOMAIN pending' : pending'[k] = e
<1> DEFINE r == Append(pending, e)
<1>1. pending \in Seq(S \cup {e}) /\ e \in S \cup {e}
  BY SeqMonotonic
<1>2. /\ \A k \in DOMAIN pending : k \in DOMAIN r /\ r[k] = pending[k]
      /\ \A k \in DOMAIN r : k \in DOMAIN pending \/ r[k] = e
      /\ \E k \in DOMAIN r : r[k] = e
  BY <1>1, AppendElements
<1>3. pending' = r
  OBVIOUS
<1> HIDE DEF r
<1> QED BY <1>2, <1>3 DEF Holds

LEMMA TablePopped ==
  ASSUME NEW S, pending \in Seq(S), NEW p, NEW k \in SM!Slots(p.packet_id),
         pending' = RemoveAt(pending, k), p.type \in Answers \/ ~pending[k].own
  PROVE  TableMoves(p)
<1> DEFINE r == RemoveAt(pending, k)
<1>1. k \in DOMAIN pending /\ pending[k].packet.packet_id = p.packet_id
  BY DEF SM!Slots
<1>2. \A i \in DOMAIN pending : i # k => \E j \in DOMAIN r : r[j] = pending[i]
  BY <1>1, RemoveAtKeeps
<1>3. \A j \in DOMAIN r : \E i \in DOMAIN pending : r[j] = pending[i]
  <2>1. /\ DOMAIN r = 1 .. Len(pending) - 1
        /\ \A j \in 1 .. Len(pending) - 1 : r[j] = IF j < k THEN pending[j] ELSE pending[j + 1]
    BY <1>1, RemoveAtElements
  <2>2. Len(pending) \in Nat /\ DOMAIN pending = 1 .. Len(pending)
    BY LenProperties
  <2> HIDE DEF r
  <2>3. ASSUME NEW j \in DOMAIN r PROVE \E i \in DOMAIN pending : r[j] = pending[i]
    <3>1. j \in DOMAIN pending /\ j + 1 \in DOMAIN pending
      BY <2>1, <2>2
    <3> QED BY <2>1, <3>1
  <2> QED BY <2>3
<1>4. pending' = r
  OBVIOUS
<1> HIDE DEF r
<1>5. ASSUME NEW i, Holds(i), ~(p.type \in Answers /\ p.packet_id = i) PROVE Holds(i)'
  <2>1. PICK j \in DOMAIN pending : pending[j].own /\ pending[j].packet.packet_id = i
    BY <1>5 DEF Holds
  <2>2. j # k
    BY <1>1, <1>5, <2>1
  <2> QED BY <1>2, <1>4, <2>1, <2>2 DEF Holds
<1> QED BY <1>3, <1>4, <1>5 DEF TableMoves

LEMMA TableReplaced ==
  ASSUME pending \in Seq(P!SidedEntries), NEW p, NEW k \in DOMAIN pending, NEW s,
         pending' = [pending EXCEPT ![k].ack_state = s]
  PROVE  TableMoves(p)
<1>1. pending[k] \in P!SidedEntries
  BY ElementType
<1>2. /\ [pending[k] EXCEPT !.ack_state = s].own = pending[k].own
      /\ [pending[k] EXCEPT !.ack_state = s].packet = pending[k].packet
  BY <1>1 DEF P!SidedEntries, P!Entries
<1>3. /\ DOMAIN pending' = DOMAIN pending
      /\ pending'[k] = [pending[k] EXCEPT !.ack_state = s]
      /\ \A j \in DOMAIN pending : j # k => pending'[j] = pending[j]
  OBVIOUS
<1>4. \A j \in DOMAIN pending : /\ pending'[j].own = pending[j].own
                               /\ pending'[j].packet = pending[j].packet
  BY <1>2, <1>3
<1> QED BY <1>3, <1>4 DEF TableMoves, Holds

\* What is encoded on the way leads to no answer, or is the PUBREL that a PUBREC leads to.
SendsPlain(p) ==
  \A x \in Range(out_buffer') :
    \/ x \in Range(out_buffer) \/ Plain(x)
    \/ x.type = "PUBREL" /\ p.type = "PUBREC" /\ x.packet_id = p.packet_id

LEMMA NothingSent ==
  ASSUME UNCHANGED out_buffer, NEW p
  PROVE  SendsPlain(p)
BY DEF SendsPlain

LEMMA AckSent ==
  ASSUME Types, NEW type, NEW p, NEW reason, SM!Send(SM!Ack(type, p.packet_id, reason)),
         type \in {"PUBACK", "PUBREC", "PUBCOMP"} \/ (type = "PUBREL" /\ p.type = "PUBREC")
  PROVE  SendsPlain(p)
<1> DEFINE e == SM!Ack(type, p.packet_id, reason)
<1>1. out_buffer \in Seq(P!Packets) /\ out_buffer' = Append(out_buffer, e)
  BY DEF Types, P!Ind, P!BaseInv, SM!Send
<1>2. e.type = type /\ e.packet_id = p.packet_id
  BY DEF SM!Ack
<1> HIDE DEF e
<1>3. \A x : x \in Range(out_buffer') => x \in Range(out_buffer) \/ x = e
  BY <1>1, RangeAppend
<1> QED BY <1>2, <1>3 DEF SendsPlain, Plain

\* A request, or the refusal of one: what is added to the table and encoded
LEMMA Added ==
  ASSUME Types, NEW p, NEW own, SM!AddPending(p, own)
  PROVE  /\ \A x \in Range(out_buffer') : x \in Range(out_buffer) \/ Plain(x) \/ (own /\ x = p)
         /\ \A i : Holds(i) => Holds(i)'
         /\ \A k \in DOMAIN pending' : pending'[k] = SM!Entry(p, own)
                                     \/ \E i \in DOMAIN pending : pending'[k] = pending[i]
         /\ \/ SM!Slots(p.packet_id) # {} /\ UNCHANGED pending
            \/ \E k \in DOMAIN pending' : pending'[k] = SM!Entry(p, own)
<1>1. out_buffer \in Seq(P!Packets) /\ pending \in Seq(P!SidedEntries)
  BY DEF Types, P!Ind, P!BaseInv
<1> DEFINE sent == IF own THEN Append(out_buffer, p) ELSE out_buffer
<1>2. /\ \A x : x \in Range(sent) => x \in Range(out_buffer) \/ (own /\ x = p)
      /\ sent \in Seq(P!Packets \cup {p})
  <2>1. out_buffer \in Seq(P!Packets \cup {p})
    BY <1>1, SeqMonotonic
  <2>2. Append(out_buffer, p) \in Seq(P!Packets \cup {p})
    BY <2>1, AppendProperties
  <2> QED BY <1>1, <2>1, <2>2, RangeAppend
<1>3. Plain(SM!InUse(p))
  BY DEF SM!InUse, SM!SubAck, SM!Ack, Plain
<1>4. \/ /\ pending' = Append(pending, SM!Entry(p, own)) /\ out_buffer' = sent
      \/ /\ SM!Slots(p.packet_id) # {} /\ UNCHANGED pending
         /\ out_buffer' = Append(sent, SM!InUse(p))
  BY DEF SM!AddPending
<1> HIDE DEF sent
<1>5. \A x : x \in Range(Append(sent, SM!InUse(p))) => x \in Range(sent) \/ x = SM!InUse(p)
  BY <1>2, RangeAppend
<1>6. \A x \in Range(out_buffer') : x \in Range(out_buffer) \/ Plain(x) \/ (own /\ x = p)
  <2>1. CASE out_buffer' = sent
    BY <1>2, <2>1
  <2>2. CASE out_buffer' = Append(sent, SM!InUse(p))
    BY <1>2, <1>3, <1>5, <2>2
  <2> QED BY <1>4, <2>1, <2>2, Zenon
<1>7. CASE pending' = Append(pending, SM!Entry(p, own))
  <2>1. /\ \A i : Holds(i) => Holds(i)'
        /\ \A k \in DOMAIN pending' : pending'[k] = SM!Entry(p, own)
                                    \/ \E i \in DOMAIN pending : pending'[k] = pending[i]
        /\ \E k \in DOMAIN pending' : pending'[k] = SM!Entry(p, own)
    BY <1>1, <1>7, TableAppended
  <2> QED BY <1>6, <2>1
<1>8. CASE SM!Slots(p.packet_id) # {} /\ UNCHANGED pending
  BY <1>6, <1>8 DEF Holds
<1> QED BY <1>4, <1>7, <1>8

LEMMA ReceivePublishMoves ==
  ASSUME Types, NEW p, SM!ReceivePublish(p)
  PROVE  TableMoves(p) /\ SendsPlain(p)
<1>1. CASE UNCHANGED <<pending, out_buffer>>
  BY <1>1, TableKept, NothingSent
<1>2. p.type = "PUBLISH" /\ pending \in Seq(P!SidedEntries)
  BY DEF SM!ReceivePublish, Types, P!Ind, P!BaseInv
<1>3. CASE SM!Slots(p.packet_id) # {} /\ SM!AddPending(p, FALSE)
  <2>1. UNCHANGED pending
    BY <1>3 DEF SM!AddPending
  <2> QED BY <1>3, <2>1, TableKept, Added DEF SendsPlain
<1>4. CASE UNCHANGED pending /\ SM!Send(SM!Ack("PUBACK", p.packet_id, "SUCCESS"))
  BY <1>4, TableKept, AckSent
<1>5. CASE /\ p.qos \notin {0, 1}
           /\ pending' = Append(pending, [packet |-> p, ack_state |-> "ACKNOWLEDGED", own |-> FALSE])
           /\ SM!Send(SM!Ack("PUBREC", p.packet_id, "SUCCESS"))
  <2> DEFINE e == [packet |-> p, ack_state |-> "ACKNOWLEDGED", own |-> FALSE]
  <2>1. ~e.own /\ e.packet = p
    OBVIOUS
  <2>2. pending' = Append(pending, e)
    BY <1>5
  <2> HIDE DEF e
  <2>3. /\ \A i : Holds(i) => Holds(i)'
        /\ \A k \in DOMAIN pending' : pending'[k] = e
                                    \/ \E i \in DOMAIN pending : pending'[k] = pending[i]
    BY <1>2, <2>2, TableAppended
  <2>4. TableMoves(p)
    BY <1>2, <1>5, <2>1, <2>3 DEF TableMoves
  <2> QED BY <1>5, <2>4, AckSent
<1>6. p.qos > 0 => p.qos # 0
  OBVIOUS
<1> QED BY <1>1, <1>3, <1>4, <1>5, <1>6 DEF SM!ReceivePublish

LEMMA ReceiveAcksMove ==
  ASSUME Types, NEW p,
         \/ SM!ReceivePubAck(p) \/ SM!ReceivePubComp(p)
         \/ SM!ReceiveSubAck(p) \/ SM!ReceiveUnsubAck(p)
  PROVE  TableMoves(p) /\ SendsPlain(p)
<1>1. UNCHANGED out_buffer /\ p.type \in Answers
  BY DEF SM!ReceivePubAck, SM!ReceivePubComp, SM!ReceiveSubAck, SM!ReceiveUnsubAck,
     SM!ReceiveRequestAck, SM!Fail, Answers
<1>2. \/ UNCHANGED pending
      \/ \E k \in SM!Slots(p.packet_id) : pending' = RemoveAt(pending, k)
  BY DEF SM!ReceivePubAck, SM!ReceivePubComp, SM!ReceiveSubAck, SM!ReceiveUnsubAck,
     SM!ReceiveRequestAck, SM!Fail, SM!RemoveAt, RemoveAt
<1>3. pending \in Seq(P!SidedEntries)
  BY DEF Types, P!Ind, P!BaseInv
<1> QED BY <1>1, <1>2, <1>3, NothingSent, TableKept, TablePopped

LEMMA ReceivePubRecMoves ==
  ASSUME Types, NEW p, SM!ReceivePubRec(p)
  PROVE  TableMoves(p) /\ SendsPlain(p)
<1>1. p.type = "PUBREC" /\ pending \in Seq(P!SidedEntries)
  BY DEF SM!ReceivePubRec, Types, P!Ind, P!BaseInv
<1>2. \/ UNCHANGED pending
      \/ \E k \in SM!Slots(p.packet_id) : pending' = [pending EXCEPT ![k].ack_state = "RELEASED"]
  BY DEF SM!ReceivePubRec, SM!Fail
<1>3. \/ UNCHANGED out_buffer
      \/ SM!Send(SM!Ack("PUBREL", p.packet_id, "SUCCESS"))
      \/ SM!Send(SM!Ack("PUBREL", p.packet_id, "PACKET_IDENTIFIER_NOT_FOUND"))
  BY DEF SM!ReceivePubRec, SM!Fail
<1>4. TableMoves(p)
  BY <1>1, <1>2, TableKept, TableReplaced DEF SM!Slots
<1>5. SendsPlain(p)
  BY <1>1, <1>3, NothingSent, AckSent
<1> QED BY <1>4, <1>5

\* A PUBREL ends an exchange of the broker's, never one of the client's.
LEMMA ReceivePubRelMoves ==
  ASSUME Types, NEW p, SM!ReceivePubRel(p)
  PROVE  TableMoves(p) /\ SendsPlain(p)
<1>1. p.type = "PUBREL" /\ pending \in Seq(P!SidedEntries)
  BY DEF SM!ReceivePubRel, Types, P!Ind, P!BaseInv
<1>2. \/ UNCHANGED pending
      \/ \E k \in SM!Slots(p.packet_id) :
           pending' = RemoveAt(pending, k) /\ SM!Awaits(pending[k], "ACKNOWLEDGED")
  BY DEF SM!ReceivePubRel, SM!Fail, SM!RemoveAt, RemoveAt
<1>3. \/ UNCHANGED out_buffer
      \/ SM!Send(SM!Ack("PUBCOMP", p.packet_id, "SUCCESS"))
      \/ SM!Send(SM!Ack("PUBCOMP", p.packet_id, "PACKET_IDENTIFIER_NOT_FOUND"))
  BY DEF SM!ReceivePubRel, SM!Fail
<1>4. ASSUME NEW k \in SM!Slots(p.packet_id), SM!Awaits(pending[k], "ACKNOWLEDGED")
      PROVE  ~pending[k].own
  <2>1. pending[k] \in P!SidedEntries
    BY <1>1, ElementType DEF SM!Slots
  <2> QED BY <1>4, <2>1 DEF P!SidedEntries, P!Sided, P!Awaits, SM!Awaits
<1>5. TableMoves(p)
  BY <1>1, <1>2, <1>4, TableKept, TablePopped
<1>6. SendsPlain(p)
  BY <1>3, NothingSent, AckSent
<1> QED BY <1>5, <1>6

LEMMA Received ==
  ASSUME Types, state = "CONNECTING" => pending = <<>> /\ next_packet_id = 1,
         NEW p, SM!Receive(p)
  PROVE  /\ UNCHANGED next_packet_id
         /\ TableMoves(p) /\ SendsPlain(p)
<1>1. CASE SM!ReceiveRefused(p)
  BY <1>1, TableKept, NothingSent DEF SM!ReceiveRefused, SM!Fail, SM!clientVars
<1>2. CASE SM!Accepts(SM!ClientAccepting, p) /\ SM!ReceiveConnAck(p)
  <2>1. p.type = "CONNACK" /\ (UNCHANGED next_packet_id \/ next_packet_id' = 1)
    BY <1>2 DEF SM!ReceiveConnAck, SM!clientVars
  <2>2. pending = <<>> /\ next_packet_id = 1
    BY <1>2, <2>1, Accepted
  <2>3. UNCHANGED <<pending, out_buffer>>
    BY <1>2, <2>2, NothingResent, SameSets DEF Types, P!Ind, P!BaseInv
  <2> QED BY <2>1, <2>2, <2>3, TableKept, NothingSent
<1>3. ASSUME SM!ReceiveDisconnect(p) \/ SM!ReceiveAuth(p)
      PROVE  TableMoves(p) /\ SendsPlain(p)
  BY <1>3, TableKept, NothingSent DEF SM!ReceiveDisconnect, SM!ReceiveAuth, SM!baseVars
<1>4. CASE SM!ReceivePingResp(p)
  BY <1>4, TableKept, NothingSent DEF SM!ReceivePingResp, SM!vars, SM!baseVars, SM!clientVars
<1>5. CASE SM!ReceiveBase(p) /\ UNCHANGED SM!clientVars
  <2>1. UNCHANGED next_packet_id
    BY <1>5 DEF SM!clientVars
  <2>2. TableMoves(p) /\ SendsPlain(p)
    BY <1>3, <1>5, ReceivePublishMoves, ReceiveAcksMove, ReceivePubRecMoves,
       ReceivePubRelMoves, Zenon DEF SM!ReceiveBase
  <2> QED BY <2>1, <2>2
<1>6. CASE SM!ReceiveSubAck(p) \/ SM!ReceiveUnsubAck(p)
  <2>1. UNCHANGED next_packet_id
    BY <1>6 DEF SM!ReceiveSubAck, SM!ReceiveUnsubAck, SM!ReceiveRequestAck, SM!clientVars
  <2> QED BY <1>6, <2>1, ReceiveAcksMove
<1> QED BY <1>1, <1>2, <1>4, <1>5, <1>6, Zenon DEF SM!Receive, SM!ReceiveAccepted

-----------------------------------------------------------------------------
(* The packet ids and the calls                                            *)

\* A step that asks for nothing gives out no packet id.
LEMMA NumberKinds ==
  ASSUME Ind, Types, Fresh, NothingPending, Counted, Next, connects' <= 1
  PROVE  /\ connects <= 1
         /\ \/ UNCHANGED next_packet_id /\ (CallsKept \/ CallEnds \/ Answering)
            \/ \E p : Request(p)
<1>1. connects <= 1
  <2>1. connects \in Nat
    BY DEF Types, ClientTypes
  <2> QED BY <2>1, ConnectingMoves
<1>2. CASE Silent
  BY <1>1, <1>2 DEF Silent
<1>3. CASE Answering
  BY <1>1, <1>3 DEF Answering
<1>4. CASE BrokerHandle \/ BrokerPublish
  <2>1. UNCHANGED <<next_packet_id, opVars>>
    BY <1>4, Untouched DEF BrokerHandle, BrokerPublish, smVars
  <2> QED BY <1>1, <2>1, CallsUntouched
<1>5. CASE Feed
  <2>1. b2c # <<>> /\ SM!Receive(Head(b2c)) /\ UNCHANGED opVars
    BY <1>5 DEF Feed
  <2>2. state = "CONNECTING" => pending = <<>> /\ next_packet_id = 1
    BY <1>1 DEF NothingPending, Counted
  <2>3. UNCHANGED next_packet_id
    BY <2>1, <2>2, Received
  <2> QED BY <1>1, <2>1, <2>3, CallsUntouched
<1> QED BY <1>1, <1>2, <1>3, <1>4, <1>5, Kinds

LEMMA CountedStep ==
  ASSUME EnoughIds, Ind, Types, Fresh, NothingPending, Counted, Next, connects' <= 1
  PROVE  Counted'
<1>1. /\ connects \in Nat /\ connects <= 1
      /\ IF Establish THEN connects' = connects + 1 ELSE connects' = connects
      /\ state' = "CONNECTING" => state = "CONNECTING" \/ Establish
  BY ConnectingMoves, NumberKinds DEF Types, ClientTypes
<1>2. /\ contexts' \in 0 .. MaxContexts /\ IsFiniteSet(Users')
      /\ Room \in Int /\ Room' \in Int /\ Room <= Room'
      /\ next_packet_id \in Int /\ next_packet_id <= Room
  BY RoomGrows, PacketIdType DEF Counted
<1>3. CASE UNCHANGED next_packet_id
  <2>1. next_packet_id' <= Room'
    BY <1>2, <1>3
  <2>2. ASSUME connects' = 0 PROVE next_packet_id' = 1
    <3>1. connects = 0
      BY <1>1, <2>2
    <3> QED BY <1>3, <3>1 DEF Counted
  <2>3. ASSUME state' = "CONNECTING" PROVE next_packet_id' = 1
    <3>1. CASE state = "CONNECTING"
      BY <1>3, <3>1 DEF Counted
    <3>2. CASE Establish
      <4>1. connects = 0
        BY <1>1, <3>2
      <4> QED BY <1>3, <4>1 DEF Counted
    <3> QED BY <1>1, <2>3, <3>1, <3>2
  <2> QED BY <1>2, <2>1, <2>2, <2>3 DEF Counted
<1>4. ASSUME NEW p, Request(p) PROVE Counted'
  <2>1. next_packet_id' <= Room'
    BY <1>4, RequestNumber
  <2>2. state = "CONNECTED" /\ state' = "CONNECTED"
    BY <1>4 DEF Request, Requests
  <2>3. connects # 0
    BY <2>2 DEF Fresh
  <2>4. connects' # 0
    BY <1>1, <2>3
  <2> QED BY <1>2, <2>1, <2>2, <2>4 DEF Counted
<1> QED BY <1>3, <1>4, NumberKinds

\* What the steps of a call do to what is registered
LEMMA RunRegisters ==
  ASSUME CallTypes, Registered, NEW w \in Callers, Idle(w), NEW id \in Nat, NEW m, Run(w, id, m),
         id # 0 => w \in Tasks
  PROVE  /\ Registered'
         /\ op'[w].id = id /\ op'[w].msg = m
         /\ \A v \in Callers : v # w => op'[v] = op[v]
         /\ w \in Tasks => w \notin answered /\ op[w].id = 0
<1>1. /\ op' = [op EXCEPT ![w] = [stage |-> "flush", id |-> id, msg |-> m]]
      /\ UNCHANGED answered
      /\ pending_operations' =
           IF id = 0 THEN pending_operations
           ELSE [i \in DOMAIN pending_operations \cup {id} |->
                   IF i = id THEN w ELSE pending_operations[i]]
  BY DEF Run
<1>2. /\ op'[w].id = id /\ op'[w].msg = m /\ op'[w].stage = "flush"
      /\ \A v \in Callers : v # w => op'[v] = op[v]
  BY <1>1 DEF CallTypes
<1>3. w \in Tasks => w \notin answered /\ op[w].id = 0
  BY DEF Registered
<1>4. \A t \in Tasks : Idle(t)' => op'[t].id = 0 /\ t \notin answered'
  <2>1. ASSUME NEW t \in Tasks, Idle(t)' PROVE op'[t].id = 0 /\ t \notin answered'
    <3>1. t # w /\ t \in Callers
      BY <1>2, <2>1, WorkerTypes DEF Idle
    <3>2. op'[t] = op[t]
      BY <1>2, <3>1
    <3> QED BY <1>1, <2>1, <3>2 DEF Registered, Idle
  <2> QED BY <2>1
<1>5. ASSUME NEW i \in DOMAIN pending_operations'
      PROVE  op'[pending_operations'[i]].id = i
  <2>1. CASE id # 0 /\ i = id
    <3>1. pending_operations'[i] = w
      BY <1>1, <1>5, <2>1
    <3> QED BY <1>2, <2>1, <3>1
  <2>2. CASE ~(id # 0 /\ i = id)
    <3>1. i \in DOMAIN pending_operations /\ pending_operations'[i] = pending_operations[i]
      BY <1>1, <1>5, <2>2
    <3>2. /\ pending_operations[i] \in Tasks /\ pending_operations[i] \in Callers
          /\ op[pending_operations[i]].id = i /\ i # 0
      BY <3>1, WorkerTypes DEF CallTypes, Registered
    <3>3. pending_operations[i] # w
      BY <1>3, <3>2
    <3> QED BY <1>2, <3>1, <3>2, <3>3
  <2> QED BY <2>1, <2>2
<1> QED BY <1>2, <1>3, <1>4, <1>5 DEF Registered

LEMMA FinishRegisters ==
  ASSUME CallTypes, Registered, NEW w \in Callers, Finish(w)
  PROVE  /\ Registered'
         /\ op'[w] = NoOperation
         /\ \A v \in Callers : v # w => op'[v] = op[v]
<1>1. /\ op' = [op EXCEPT ![w] = NoOperation] /\ answered' = answered \ {w}
      /\ pending_operations' =
           [i \in DOMAIN pending_operations \ {op[w].id} |-> pending_operations[i]]
  BY DEF Finish, Restrict
<1>2. /\ op'[w] = NoOperation /\ w \notin answered'
      /\ \A v \in Callers : v # w => op'[v] = op[v]
  BY <1>1 DEF CallTypes
<1>3. ASSUME NEW t \in Tasks, Idle(t)' PROVE op'[t].id = 0 /\ t \notin answered'
  <2>1. CASE t = w
    BY <1>2, <2>1 DEF NoOperation
  <2>2. CASE t # w
    <3>1. op'[t] = op[t]
      BY <1>2, <2>2, WorkerTypes
    <3> QED BY <1>1, <1>3, <3>1 DEF Registered, Idle
  <2> QED BY <2>1, <2>2
<1>4. ASSUME NEW i \in DOMAIN pending_operations'
      PROVE  op'[pending_operations'[i]].id = i
  <2>1. /\ i \in DOMAIN pending_operations /\ i # op[w].id
        /\ pending_operations'[i] = pending_operations[i]
    BY <1>1, <1>4
  <2>2. /\ pending_operations[i] \in Callers /\ op[pending_operations[i]].id = i
    BY <2>1, WorkerTypes DEF CallTypes, Registered
  <2>3. pending_operations[i] # w
    BY <2>1, <2>2
  <2> QED BY <1>2, <2>1, <2>2, <2>3
<1> QED BY <1>2, <1>3, <1>4 DEF Registered

LEMMA AnswerRegisters ==
  ASSUME CallTypes, Registered, Answering
  PROVE  /\ Registered'
         /\ \A t \in Tasks : t \in answered' =>
              \/ t \in answered
              \/ op[t].id # 0 /\ op[t].id = Head(inbox).packet_id
<1> DEFINE p == Head(inbox)
<1>1. /\ UNCHANGED op /\ p.type \in Answers
      /\ \/ /\ p.packet_id \in DOMAIN pending_operations
            /\ answered' = answered \cup {pending_operations[p.packet_id]}
            /\ pending_operations' =
                 [i \in DOMAIN pending_operations \ {p.packet_id} |-> pending_operations[i]]
         \/ UNCHANGED <<answered, pending_operations>>
  BY DEF Answering, HandleAnswer, Restrict
<1> HIDE DEF p
<1>2. CASE UNCHANGED <<answered, pending_operations>>
  BY <1>1, <1>2 DEF Registered, Idle
<1>3. CASE /\ p.packet_id \in DOMAIN pending_operations
           /\ answered' = answered \cup {pending_operations[p.packet_id]}
           /\ pending_operations' =
                [i \in DOMAIN pending_operations \ {p.packet_id} |-> pending_operations[i]]
  <2>1. op[pending_operations[p.packet_id]].id = p.packet_id /\ p.packet_id # 0
    BY <1>3 DEF Registered, CallTypes
  <2>2. \A t \in Tasks : t \in answered' =>
          t \in answered \/ (op[t].id # 0 /\ op[t].id = p.packet_id)
    BY <1>3, <2>1
  <2>3. Registered'
    BY <1>1, <1>3, <2>1 DEF Registered, Idle
  <2> QED BY <2>2, <2>3 DEF p
<1> QED BY <1>1, <1>2, <1>3 DEF p

LEMMA KeptRegisters ==
  ASSUME CallTypes, Registered, CallsKept
  PROVE  Registered'
<1>1. \A t \in Tasks : t \in Callers
  BY WorkerTypes
<1> QED BY <1>1 DEF Registered, CallsKept, CallTypes, Idle

\* A call gets the next packet id or keeps what it has.
LEMMA CallsMove ==
  ASSUME Ind, Types, Fresh, NothingPending, Counted, Registered, Next, connects' <= 1
  PROVE  /\ Registered'
         /\ \/ /\ UNCHANGED next_packet_id
               /\ \A w \in Callers : \/ op'[w].id = op[w].id /\ op'[w].msg = op[w].msg
                                     \/ op'[w].id = 0
            \/ \E p : /\ Request(p)
                      /\ \A w \in Callers : op'[w].id = op[w].id /\ op'[w].msg = op[w].msg
            \/ \E p : \E t \in Tasks :
                 /\ Request(p) /\ Calls(t, p)
                 /\ op[t].id = 0 /\ t \notin answered /\ op'[t].id = next_packet_id
                 /\ p.type = "PUBLISH" => op'[t].msg = p.msg
                 /\ p.type # "PUBLISH" => op'[t].msg = 0
                 /\ \A v \in Callers : v # t => op'[v] = op[v]
<1>1. CallTypes /\ next_packet_id \in Nat
  BY PacketIdType DEF Types
<1>2. ASSUME CallsKept
      PROVE  Registered' /\ \A w \in Callers : op'[w].id = op[w].id /\ op'[w].msg = op[w].msg
  BY <1>1, <1>2, KeptRegisters DEF CallsKept
<1>3. ASSUME CallEnds
      PROVE  /\ Registered'
             /\ \A w \in Callers : \/ op'[w].id = op[w].id /\ op'[w].msg = op[w].msg
                                   \/ op'[w].id = 0
  <2>1. ASSUME NEW w \in Callers, NEW m \in 0 .. MaxPublishes, Idle(w), Run(w, 0, m)
        PROVE  /\ Registered'
               /\ \A v \in Callers : \/ op'[v].id = op[v].id /\ op'[v].msg = op[v].msg
                                     \/ op'[v].id = 0
    BY <1>1, <2>1, RunRegisters
  <2>2. ASSUME NEW w \in Callers, Finish(w)
        PROVE  /\ Registered'
               /\ \A v \in Callers : \/ op'[v].id = op[v].id /\ op'[v].msg = op[v].msg
                                     \/ op'[v].id = 0
    BY <1>1, <2>2, FinishRegisters DEF NoOperation
  <2> QED BY <1>3, <2>1, <2>2, Zenon DEF CallEnds
<1>4. ASSUME Answering
      PROVE  Registered' /\ \A w \in Callers : op'[w].id = op[w].id /\ op'[w].msg = op[w].msg
  BY <1>1, <1>4, AnswerRegisters DEF Answering
<1>5. ASSUME NEW p, Request(p), NEW t \in Tasks, Calls(t, p)
      PROVE  /\ Registered'
             /\ op[t].id = 0 /\ t \notin answered /\ op'[t].id = next_packet_id
             /\ p.type = "PUBLISH" => op'[t].msg = p.msg
             /\ p.type # "PUBLISH" => op'[t].msg = 0
             /\ \A v \in Callers : v # t => op'[v] = op[v]
  <2>1. t \in Callers /\ Idle(t)
    BY <1>5, WorkerTypes DEF Calls
  <2>2. PICK m : /\ Run(t, next_packet_id, m)
                 /\ p.type = "PUBLISH" => m = p.msg
                 /\ p.type # "PUBLISH" => m = 0
    BY <1>5 DEF Calls
  <2>3. /\ Registered' /\ op'[t].id = next_packet_id /\ op'[t].msg = m
        /\ \A v \in Callers : v # t => op'[v] = op[v]
        /\ t \notin answered /\ op[t].id = 0
    BY <1>1, <2>1, <2>2, RunRegisters
  <2> QED BY <2>2, <2>3
<1>6. ASSUME NEW p, Request(p), UNCHANGED opVars
      PROVE  Registered' /\ \A w \in Callers : op'[w].id = op[w].id /\ op'[w].msg = op[w].msg
  BY <1>2, <1>6, CallsUntouched
<1>7. ASSUME NEW p, Request(p)
      PROVE  UNCHANGED opVars \/ \E t \in Tasks : Calls(t, p)
  BY <1>7 DEF Request
<1>8. CASE UNCHANGED next_packet_id /\ (CallsKept \/ CallEnds \/ Answering)
  BY <1>2, <1>3, <1>4, <1>8
<1>9. CASE \E p : Request(p)
  <2>1. PICK p : Request(p)
    BY <1>9
  <2>2. CASE UNCHANGED opVars
    BY <1>6, <2>1, <2>2
  <2>3. ASSUME NEW t \in Tasks, Calls(t, p)
        PROVE  Registered' /\ \E r : \E u \in Tasks :
                 /\ Request(r) /\ Calls(u, r)
                 /\ op[u].id = 0 /\ u \notin answered /\ op'[u].id = next_packet_id
                 /\ r.type = "PUBLISH" => op'[u].msg = r.msg
                 /\ r.type # "PUBLISH" => op'[u].msg = 0
                 /\ \A v \in Callers : v # u => op'[v] = op[v]
    BY <1>5, <2>1, <2>3
  <2> QED BY <1>7, <2>1, <2>2, <2>3
<1> QED BY <1>8, <1>9, NumberKinds

LEMMA NumberedStep ==
  ASSUME EnoughIds, Ind, Types, Fresh, NothingPending, Counted, Registered, Numbered, Next,
         connects' <= 1
  PROVE  Numbered'
<1>1. /\ next_packet_id \in Nat /\ 0 < next_packet_id
      /\ \A w \in Callers : op[w].id \in Nat
  BY PacketIdType, PacketIdAssumption DEF Types, CallTypes, Operations
<1>2. CASE /\ UNCHANGED next_packet_id
           /\ \A w \in Callers : op'[w].id = op[w].id \/ op'[w].id = 0
  BY <1>1, <1>2 DEF Numbered
<1>3. ASSUME NEW p, Request(p), \A w \in Callers : op'[w].id = op[w].id
      PROVE  Numbered'
  <2>1. next_packet_id' = next_packet_id + 1
    BY <1>3, RequestNumber
  <2> QED BY <1>1, <1>3, <2>1 DEF Numbered
<1>4. ASSUME NEW p, Request(p), NEW t \in Tasks, op'[t].id = next_packet_id,
             \A v \in Callers : v # t => op'[v] = op[v]
      PROVE  Numbered'
  <2>1. next_packet_id' = next_packet_id + 1
    BY <1>4, RequestNumber
  <2>2. \A v \in Callers : op'[v].id = IF v = t THEN next_packet_id ELSE op[v].id
    BY <1>4
  <2>3. \A v \in Callers : op[v].id < next_packet_id
    BY DEF Numbered
  <2> QED BY <1>1, <2>1, <2>2, <2>3 DEF Numbered
<1> QED BY <1>2, <1>3, <1>4, CallsMove

-----------------------------------------------------------------------------
(* Answers come after what they answer                                     *)

LEMMA Replies ==
  ASSUME Types, BrokerHandle
  PROVE  /\ c2b \in Seq(SM!Packets) /\ c2b # <<>> /\ Head(c2b) \in SM!Packets
         /\ c2b' = Tail(c2b)
         /\ arrived' = IF Head(c2b).type = "PUBLISH" THEN Append(arrived, Head(c2b).msg)
                                                     ELSE arrived
         /\ \A x \in Range(b2c') :
              \/ x \in Range(b2c)
              \/ /\ x.type # "PUBLISH"
                 /\ x.type \in {"PUBACK", "PUBREC", "PUBCOMP", "SUBACK", "UNSUBACK"} =>
                      /\ x.packet_id = Head(c2b).packet_id
                      /\ \/ Head(c2b).type = "PUBLISH" /\ Head(c2b).qos # 0
                         \/ Head(c2b).type \in {"PUBREL", "SUBSCRIBE", "UNSUBSCRIBE"}
<1>1. /\ c2b \in Seq(SM!Packets) /\ c2b # <<>> /\ Head(c2b) \in SM!Packets
      /\ c2b' = Tail(c2b) /\ b2c \in Seq(Inbound)
      /\ arrived' = IF Head(c2b).type = "PUBLISH" THEN Append(arrived, Head(c2b).msg)
                                                  ELSE arrived
  BY BrokerAnswers DEF BrokerHandle, Types, NetTypes
<1> DEFINE p == Head(c2b)
           Good(x) ==
             /\ x.type # "PUBLISH"
             /\ x.type \in {"PUBACK", "PUBREC", "PUBCOMP", "SUBACK", "UNSUBACK"} =>
                  /\ x.packet_id = p.packet_id
                  /\ \/ p.type = "PUBLISH" /\ p.qos # 0
                     \/ p.type \in {"PUBREL", "SUBSCRIBE", "UNSUBSCRIBE"}
<1>2. \/ b2c' = b2c \o Reply(p)
      \/ p.type = "CONNECT" /\ b2c' = Append(b2c, [Reply(p)[1] EXCEPT !.reason = "REFUSED"])
  BY DEF BrokerHandle
<1>3. ASSUME NEW e \in Inbound, Reply(p) = <<e>>, e.type # "PUBLISH" PROVE Good(e)
  <2> DEFINE q == p
  <2>1. e = <<e>>[1]
    OBVIOUS
  <2>2. CASE p.type = "CONNECT"
    <3>1. e = [type |-> "CONNACK", reason |-> "SUCCESS", session_present |-> FALSE,
               maximum_qos |-> 2]
      BY <1>3, <2>1, <2>2 DEF Reply
    <3> QED BY <3>1
  <2>3. ASSUME p.type = "PUBLISH"
        PROVE  (p.qos = 1 /\ e = SM!Ack("PUBACK", p.packet_id, "SUCCESS"))
               \/ (p.qos = 2 /\ e = SM!Ack("PUBREC", p.packet_id, "SUCCESS"))
    <3>1. CASE p.qos = 1
      BY <1>3, <2>1, <2>3, <3>1 DEF Reply
    <3>2. CASE p.qos = 2
      BY <1>3, <2>1, <2>3, <3>2 DEF Reply
    <3>3. CASE p.qos # 1 /\ p.qos # 2
      <4>1. Reply(p) = <<>>
        BY <2>3, <3>3 DEF Reply
      <4> QED BY <1>3, <4>1
    <3> QED BY <3>1, <3>2, <3>3
  <2>4. p.type = "PUBREC" => e = SM!Ack("PUBREL", p.packet_id, "SUCCESS")
    BY <1>3, <2>1 DEF Reply
  <2>5. p.type = "PUBREL" => e = SM!Ack("PUBCOMP", p.packet_id, "SUCCESS")
    BY <1>3, <2>1 DEF Reply
  <2>6. p.type = "SUBSCRIBE" => e = SM!SubAck(p.packet_id, p.patterns)
    BY <1>3, <2>1 DEF Reply
  <2>7. p.type = "UNSUBSCRIBE" => e = SM!Ack("UNSUBACK", p.packet_id, "SUCCESS")
    BY <1>3, <2>1 DEF Reply
  <2>8. CASE p.type \notin {"CONNECT", "PUBLISH", "PUBREC", "PUBREL", "SUBSCRIBE", "UNSUBSCRIBE"}
    <3>1. Reply(p) = <<>>
      BY <2>8 DEF Reply
    <3>2. <<e>> # <<>>
      OBVIOUS
    <3> QED BY <1>3, <3>1, <3>2, Zenon
  <2>9. /\ \A type, id, reason : SM!Ack(type, id, reason).type = type
                                /\ SM!Ack(type, id, reason).packet_id = id
        /\ \A id, S : SM!SubAck(id, S).type = "SUBACK" /\ SM!SubAck(id, S).packet_id = id
    BY DEF SM!Ack, SM!SubAck
  <2>10. CASE p.type = "PUBLISH"
    BY <2>3, <2>9, <2>10
  <2> HIDE DEF p
  <2> QED BY <2>2, <2>4, <2>5, <2>6, <2>7, <2>8, <2>9, <2>10
<1>4. ASSUME NEW x \in Range(b2c') PROVE x \in Range(b2c) \/ Good(x)
  <2>1. CASE b2c' = b2c \o Reply(p)
    <3>1. CASE Reply(p) = <<>>
      <4>1. b2c' = b2c
        BY <1>1, <2>1, <3>1, ConcatEmptySeq
      <4> QED BY <1>4, <4>1
    <3>2. ASSUME NEW e \in Inbound, Reply(p) = <<e>>, e.type # "PUBLISH"
          PROVE  x \in Range(b2c) \/ Good(x)
      <4>1. b2c' = Append(b2c, e)
        BY <1>1, <2>1, <3>2, AppendIsConcat
      <4>2. x \in Range(b2c) \/ x = e
        BY <1>1, <1>4, <4>1, RangeAppend
      <4>3. Good(e)
        BY <1>3, <3>2
      <4> HIDE DEF Good
      <4> QED BY <4>2, <4>3
    <3> HIDE DEF Good
    <3> QED BY <1>1, <3>1, <3>2, ReplyTypes
  <2>2. CASE p.type = "CONNECT" /\ b2c' = Append(b2c, [Reply(p)[1] EXCEPT !.reason = "REFUSED"])
    <3> DEFINE e == [Reply(p)[1] EXCEPT !.reason = "REFUSED"]
    <3>1. e.type = "CONNACK"
      BY <2>2 DEF Reply
    <3> HIDE DEF e
    <3>2. b2c' = Append(b2c, e)
      BY <2>2 DEF e
    <3>3. x \in Range(b2c) \/ x = e
      BY <1>1, <1>4, <3>2, RangeAppend
    <3> QED BY <3>1, <3>3
  <2> HIDE DEF Good
  <2> QED BY <1>2, <2>1, <2>2
<1> QED BY <1>1, <1>4

\* Nothing that arrived is forgotten.
LEMMA ArrivedGrows ==
  ASSUME Ind, Types, Fresh, arrived \in Seq(Messages), Next, connects' <= 1
  PROVE  /\ arrived' \in Seq(Messages)
         /\ \A m : m \in Range(arrived) => m \in Range(arrived')
         /\ BrokerHandle /\ Head(c2b).type = "PUBLISH" => Head(c2b).msg \in Range(arrived')
         /\ BrokerHandle \/ UNCHANGED arrived
<1>1. CASE BrokerHandle
  <2>1. CASE Head(c2b).type = "PUBLISH"
    <3>1. Head(c2b).msg \in Messages /\ arrived' = Append(arrived, Head(c2b).msg)
      BY <1>1, <2>1, Replies DEF SM!Packets, SM!Publishes, SM!Acks, SM!SubscriptionRequests,
         SM!Signals, SM!Handshakes
    <3>2. arrived' \in Seq(Messages)
      BY <3>1, AppendProperties
    <3>3. \A m : m \in Range(arrived') <=> m \in Range(arrived) \/ m = Head(c2b).msg
      BY <3>1, RangeAppend
    <3> QED BY <1>1, <3>2, <3>3
  <2>2. CASE Head(c2b).type # "PUBLISH"
    BY <1>1, <2>2, Replies
  <2> QED BY <2>1, <2>2
<1>2. CASE Silent \/ Answering \/ \E p : Request(p)
  BY <1>2, Replies DEF Silent, Answering, Request
<1>3. CASE Feed \/ BrokerPublish
  <2>1. UNCHANGED arrived
    BY <1>3, Untouched DEF Feed, BrokerPublish
  <2> QED BY <2>1, Replies
<1> QED BY <1>1, <1>2, <1>3, Kinds

\* What is known of a packet id stays known.
LEMMA MeansKept ==
  ASSUME next_packet_id \in Nat, next_packet_id' \in Nat, next_packet_id <= next_packet_id',
         \A t \in Tasks : op'[t].id \in 1 .. next_packet_id - 1
                            => op'[t].id = op[t].id /\ op'[t].msg = op[t].msg,
         \A m : m \in Range(arrived) => m \in Range(arrived')
  PROVE  /\ \A i : Settled(i) => Settled(i)'
         /\ \A i, m : Means(i, m) => Means(i, m)'
<1>1. \A i \in 1 .. next_packet_id - 1 : i \in 1 .. next_packet_id' - 1
  <2>1. \A a, b \in Nat : a <= b => \A i \in 1 .. a - 1 : i \in 1 .. b - 1
    OBVIOUS
  <2> QED BY <2>1, Zenon
<1>2. \A i \in 1 .. next_packet_id - 1 : \A t \in Tasks :
        t \in Published(i)' => t \in Published(i) /\ op'[t].msg = op[t].msg
  BY DEF Published
<1>3. ASSUME NEW i, Settled(i) PROVE Settled(i)'
  <2>1. i \in 1 .. next_packet_id - 1 /\ \A t \in Published(i)' : t \in Tasks
    BY <1>3 DEF Settled, Published
  <2> QED BY <1>1, <1>2, <1>3, <2>1 DEF Settled
<1>4. ASSUME NEW i, NEW m, Means(i, m) PROVE Means(i, m)'
  <2>1. i \in 1 .. next_packet_id - 1 /\ \A t \in Published(i)' : t \in Tasks
    BY <1>4 DEF Means, Published
  <2> QED BY <1>1, <1>2, <1>4, <2>1 DEF Means
<1> QED BY <1>3, <1>4

LEMMA IdsKept ==
  ASSUME EnoughIds, Ind, Types, Fresh, NothingPending, Counted, Registered, Numbered,
         arrived \in Seq(Messages), Next, connects' <= 1
  PROVE  /\ \A i : Settled(i) => Settled(i)'
         /\ \A i, m : Means(i, m) => Means(i, m)'
<1>1. next_packet_id \in Nat
  BY PacketIdType
<1>2. CASE /\ UNCHANGED next_packet_id
           /\ \A w \in Callers : \/ op'[w].id = op[w].id /\ op'[w].msg = op[w].msg
                                 \/ op'[w].id = 0
  <2>1. \A t \in Tasks : op'[t].id \in 1 .. next_packet_id - 1
                           => op'[t].id = op[t].id /\ op'[t].msg = op[t].msg
    BY <1>1, <1>2, WorkerTypes
  <2> QED BY <1>1, <1>2, <2>1, ArrivedGrows, MeansKept
<1>3. ASSUME NEW p, Request(p),
             \A w \in Callers : \/ op'[w].id = op[w].id /\ op'[w].msg = op[w].msg
                                \/ op'[w].id = next_packet_id
      PROVE  /\ \A i : Settled(i) => Settled(i)'
             /\ \A i, m : Means(i, m) => Means(i, m)'
  <2>1. next_packet_id' = next_packet_id + 1
    BY <1>3, RequestNumber
  <2>2. \A t \in Tasks : op'[t].id \in 1 .. next_packet_id - 1
                           => op'[t].id = op[t].id /\ op'[t].msg = op[t].msg
    BY <1>1, <1>3, WorkerTypes
  <2> QED BY <1>1, <2>1, <2>2, ArrivedGrows, MeansKept
<1>4. CASE \E p : \E t \in Tasks :
             /\ Request(p) /\ op'[t].id = next_packet_id
             /\ \A v \in Callers : v # t => op'[v] = op[v]
  BY <1>3, <1>4
<1> QED BY <1>2, <1>3, <1>4, CallsMove

\* A call has its answer only if it is the one that an answer is about.
LEMMA AnsweredMove ==
  ASSUME Ind, Types, Fresh, NothingPending, Counted, Registered, Next, connects' <= 1,
         NEW t \in Tasks, t \in answered', op'[t].id # 0
  PROVE  /\ op'[t].id = op[t].id
         /\ t \in answered \/ (Answering /\ op[t].id = Head(inbox).packet_id)
<1>1. t \in Callers /\ CallTypes
  BY WorkerTypes DEF Types
<1>2. CASE CallsKept
  BY <1>1, <1>2 DEF CallsKept
<1>3. CASE CallEnds
  <2>1. ASSUME NEW w \in Callers, NEW m \in 0 .. MaxPublishes, Idle(w), Run(w, 0, m)
        PROVE  op'[t].id = op[t].id /\ t \in answered
    BY <1>1, <2>1, RunRegisters DEF Run
  <2>2. ASSUME NEW w \in Callers, Finish(w)
        PROVE  op'[t].id = op[t].id /\ t \in answered
    BY <1>1, <2>2, FinishRegisters DEF Finish, NoOperation
  <2> QED BY <1>3, <2>1, <2>2, Zenon DEF CallEnds
<1>4. CASE Answering
  BY <1>1, <1>4, AnswerRegisters DEF Answering
<1>5. ASSUME NEW p, Request(p) PROVE op'[t].id = op[t].id /\ t \in answered
  <2>1. CASE UNCHANGED opVars
    BY <2>1 DEF opVars
  <2>2. ASSUME NEW u \in Tasks, Calls(u, p) PROVE op'[t].id = op[t].id /\ t \in answered
    <3>1. PICK m : Run(u, next_packet_id, m)
      BY <2>2 DEF Calls
    <3>2. u \in Callers /\ Idle(u) /\ next_packet_id \in Nat
      BY <2>2, WorkerTypes, PacketIdType DEF Calls
    <3>3. t \in answered
      BY <3>1 DEF Run
    <3>4. u \notin answered /\ \A v \in Callers : v # u => op'[v] = op[v]
      BY <1>1, <3>1, <3>2, RunRegisters
    <3> QED BY <1>1, <3>3, <3>4
  <2> QED BY <1>5, <2>1, <2>2 DEF Request
<1> QED BY <1>2, <1>3, <1>4, <1>5, NumberKinds

\* What a request says is true: the id is new, and given to the call at most.
LEMMA RequestTruthful ==
  ASSUME EnoughIds, Ind, Types, Fresh, NothingPending, Counted, Registered, Numbered, Next,
         NEW p, Request(p), arrived \in Seq(Messages), connects' <= 1,
         \/ \A w \in Callers : op'[w].id = op[w].id
         \/ \E t \in Tasks :
              /\ op'[t].id = next_packet_id
              /\ p.type = "PUBLISH" => op'[t].msg = p.msg
              /\ p.type # "PUBLISH" => op'[t].msg = 0
              /\ \A v \in Callers : v # t => op'[v] = op[v]
  PROVE  SentTruly(p)'
<1>1. /\ next_packet_id \in Nat /\ next_packet_id # 0
      /\ next_packet_id' = next_packet_id + 1 /\ p.packet_id = next_packet_id
      /\ \A w \in Callers : op[w].id \in Nat
  <2>1. next_packet_id \in Nat /\ next_packet_id # 0
    BY PacketIdType
  <2>2. next_packet_id' = next_packet_id + 1 /\ p.packet_id = next_packet_id
    BY RequestNumber DEF Request, Requests
  <2>3. \A w \in Callers : op[w].id \in Nat
    BY PacketIdAssumption DEF Types, CallTypes, Operations
  <2> QED BY <2>1, <2>2, <2>3
<1>2. p.packet_id \in 1 .. next_packet_id' - 1
  BY <1>1
<1>3. \A w \in Callers : op[w].id # next_packet_id
  BY <1>1 DEF Numbered
<1>4. ASSUME NEW u \in Tasks, op'[u].id = p.packet_id, op'[u].msg # 0
      PROVE  p.type = "PUBLISH" /\ op'[u].msg = p.msg
  BY <1>1, <1>3, <1>4, WorkerTypes
<1>5. p.type = "PUBLISH" => Means(p.packet_id, p.msg)'
  BY <1>2, <1>4 DEF Means, Published
<1>6. p.type # "PUBLISH" => Settled(p.packet_id)'
  BY <1>2, <1>4 DEF Settled, Published
<1> QED BY <1>5, <1>6 DEF SentTruly

\* What is on its way to the broker says what is true.
LEMMA SentTrulyStep ==
  ASSUME EnoughIds, Ind, Types, Fresh, NothingPending, Counted, Registered, Numbered,
         Truthful, Next, connects' <= 1, NEW p, ToBroker(p)'
  PROVE  SentTruly(p)'
<1>1. /\ \A i : Settled(i) => Settled(i)'
      /\ \A i, m : Means(i, m) => Means(i, m)'
  BY IdsKept DEF Truthful
<1>2. ASSUME ToBroker(p) PROVE SentTruly(p)'
  <2>1. SentTruly(p)
    BY <1>2 DEF Truthful
  <2> QED BY <1>1, <2>1 DEF SentTruly
<1>3. ASSUME Plain(p) PROVE SentTruly(p)'
  BY <1>3 DEF Plain, SentTruly
<1>4. CASE Silent
  BY <1>2, <1>3, <1>4 DEF Silent
<1>5. CASE Answering
  <2>1. ToBroker(p)
    BY <1>5 DEF Answering, ToBroker
  <2> QED BY <1>2, <2>1
<1>6. CASE \E r : Request(r)
  <2>1. PICK r : /\ Request(r)
                 /\ \/ \A w \in Callers : op'[w].id = op[w].id
                    \/ \E t \in Tasks :
                         /\ op'[t].id = next_packet_id
                         /\ r.type = "PUBLISH" => op'[t].msg = r.msg
                         /\ r.type # "PUBLISH" => op'[t].msg = 0
                         /\ \A v \in Callers : v # t => op'[v] = op[v]
    <3>1. PICK r : Request(r)
      BY <1>6
    <3>2. next_packet_id' # next_packet_id
      BY <3>1, PacketIdType, RequestNumber
    <3> QED BY <3>2, CallsMove
  <2>2. SentTruly(r)'
    <3>1. arrived \in Seq(Messages)
      BY DEF Truthful
    <3> QED BY <2>1, <3>1, RequestTruthful
  <2>3. UNCHANGED <<sending, c2b>> /\ SM!AddPending(r, TRUE)
    BY <2>1 DEF Request, Requests
  <2>4. ASSUME p \in Range(out_buffer') PROVE ToBroker(p) \/ Plain(p) \/ p = r
    BY <2>3, <2>4, Added DEF ToBroker
  <2>5. ToBroker(p) \/ Plain(p) \/ p = r
    BY <2>3, <2>4 DEF ToBroker
  <2> QED BY <1>2, <1>3, <2>2, <2>5
<1>7. CASE Feed
  <2>1. /\ b2c # <<>> /\ b2c \in Seq(Inbound) /\ SM!Receive(Head(b2c))
        /\ UNCHANGED <<sending, c2b>>
    BY <1>7 DEF Feed, Types, NetTypes
  <2>2. state = "CONNECTING" => pending = <<>> /\ next_packet_id = 1
    BY NumberKinds DEF NothingPending, Counted
  <2>3. SendsPlain(Head(b2c))
    BY <2>1, <2>2, Received
  <2>4. ToBroker(p) \/ Plain(p)
        \/ (p.type = "PUBREL" /\ Head(b2c).type = "PUBREC" /\ p.packet_id = Head(b2c).packet_id)
    BY <2>1, <2>3 DEF ToBroker, SendsPlain
  <2>5. ASSUME p.type = "PUBREL", Head(b2c).type = "PUBREC", p.packet_id = Head(b2c).packet_id
        PROVE  SentTruly(p)'
    <3>1. ToClient(Head(b2c))
      BY <2>1, RangeTail DEF ToClient
    <3>2. Settled(p.packet_id)
      BY <2>5, <3>1 DEF Truthful, AnsweredTruly
    <3> QED BY <1>1, <2>5, <3>2 DEF SentTruly
  <2> QED BY <1>2, <1>3, <2>4, <2>5
<1>8. CASE BrokerHandle
  <2>1. UNCHANGED <<sending, out_buffer>>
    BY <1>8, Untouched DEF BrokerHandle
  <2>2. \A x : x \in Range(c2b') => x \in Range(c2b)
    BY <1>8, Replies, RangeTail
  <2>3. ToBroker(p)
    BY <2>1, <2>2 DEF ToBroker
  <2> QED BY <1>2, <2>3
<1>9. CASE BrokerPublish
  <2>1. UNCHANGED <<sending, out_buffer, c2b>>
    BY <1>9, Untouched DEF BrokerPublish
  <2>2. ToBroker(p)
    BY <2>1 DEF ToBroker
  <2> QED BY <1>2, <2>2
<1> QED BY <1>4, <1>5, <1>6, <1>7, <1>8, <1>9, Kinds

\* What is on its way to the client was there, or is an answer, or a message of Incoming.
LEMMA ToClientMoves ==
  ASSUME Ind, Types, Fresh, Next, connects' <= 1, NEW p, ToClient(p)'
  PROVE  \/ ToClient(p)
         \/ p.type = "DISCONNECT"
         \/ /\ BrokerHandle /\ p.type # "PUBLISH"
            /\ p.type \in {"PUBACK", "PUBREC", "PUBCOMP", "SUBACK", "UNSUBACK"} =>
                 /\ p.packet_id = Head(c2b).packet_id
                 /\ \/ Head(c2b).type = "PUBLISH" /\ Head(c2b).qos # 0
                    \/ Head(c2b).type \in {"PUBREL", "SUBSCRIBE", "UNSUBSCRIBE"}
         \/ p.type = "PUBLISH" /\ \E k \in DOMAIN Incoming : p = Incoming[k]
<1>0. b2c \in Seq(Inbound) /\ inbox \in Seq(Inbound)
  BY DEF Types, NetTypes, ReaderTypes
<1>1. CASE Silent
  BY <1>1 DEF Silent
<1>2. CASE Answering
  <2>1. UNCHANGED b2c /\ inbox # <<>> /\ inbox' = Tail(inbox)
    BY <1>2 DEF Answering, HandleAnswer, NextPacket
  <2>2. \A x : x \in Range(inbox') => x \in Range(inbox)
    BY <1>0, <2>1, RangeTail
  <2> QED BY <2>1, <2>2 DEF ToClient
<1>3. CASE \E r : Request(r)
  BY <1>3 DEF Request, ToClient
<1>4. CASE Feed
  <2>1. b2c # <<>> /\ b2c' = Tail(b2c) /\ inbox' = Append(inbox, Head(b2c))
    BY <1>4 DEF Feed
  <2>2. \A x : x \in Range(b2c') => x \in Range(b2c)
    BY <1>0, <2>1, RangeTail
  <2>3. \A x : x \in Range(inbox') => x \in Range(inbox) \/ x \in Range(b2c)
    BY <1>0, <2>1, RangeTail, RangeAppend
  <2> QED BY <2>2, <2>3 DEF ToClient
<1>5. CASE BrokerHandle
  <2>1. UNCHANGED inbox
    BY <1>5, Untouched DEF BrokerHandle
  <2>2. CASE p \in Range(b2c')
    BY <1>5, <2>2, Replies DEF ToClient
  <2> QED BY <2>1, <2>2 DEF ToClient
<1>6. CASE BrokerPublish
  <2>1. /\ UNCHANGED inbox /\ delivered < Len(Incoming) /\ delivered' = delivered + 1
        /\ b2c' = Append(b2c, Incoming[delivered'])
    BY <1>6, Untouched DEF BrokerPublish
  <2>2. delivered' \in DOMAIN Incoming
    BY <2>1, IncomingAssumption, DomainOfSeq DEF Types, NetTypes
  <2>3. Incoming[delivered'].type = "PUBLISH"
    BY <2>2, IncomingAssumption, DomainOfSeq DEF SM!Publishes
  <2>4. \A x : x \in Range(b2c') => x \in Range(b2c) \/ x = Incoming[delivered']
    BY <1>0, <2>1, RangeAppend
  <2> QED BY <2>1, <2>2, <2>3, <2>4 DEF ToClient
<1> QED BY <1>1, <1>2, <1>3, <1>4, <1>5, <1>6, Kinds

LEMMA AnsweredTrulyStep ==
  ASSUME EnoughIds, Ind, Types, Fresh, NothingPending, Counted, Registered, Numbered,
         Truthful, Next, connects' <= 1, NEW p, ToClient(p)'
  PROVE  AnsweredTruly(p)'
<1>1. /\ \A i : Settled(i) => Settled(i)'
      /\ \A i, m : Means(i, m) => Means(i, m)'
  BY IdsKept DEF Truthful
<1>2. CASE ToClient(p)
  <2>1. AnsweredTruly(p)
    BY <1>2 DEF Truthful
  <2> QED BY <1>1, <2>1 DEF AnsweredTruly
<1>3. CASE p.type \in {"DISCONNECT", "PUBLISH"}
  BY <1>3 DEF AnsweredTruly
<1>4. CASE /\ BrokerHandle
           /\ p.type \in {"PUBACK", "PUBREC", "PUBCOMP", "SUBACK", "UNSUBACK"} =>
                /\ p.packet_id = Head(c2b).packet_id
                /\ \/ Head(c2b).type = "PUBLISH" /\ Head(c2b).qos # 0
                   \/ Head(c2b).type \in {"PUBREL", "SUBSCRIBE", "UNSUBSCRIBE"}
  <2>0. PICK r : r = Head(c2b)
    OBVIOUS
  <2>1. SentTruly(r)
    <3>1. c2b \in Seq(SM!Packets) /\ c2b # <<>>
      BY <1>4, Replies
    <3>2. ToBroker(r)
      BY <2>0, <3>1, RangeTail DEF ToBroker
    <3> QED BY <3>2 DEF Truthful
  <2>2. r.type = "PUBLISH" => r.msg \in Range(arrived')
    BY <1>4, <2>0, ArrivedGrows DEF Truthful
  <2>3. ASSUME p.type \in {"PUBACK", "PUBREC", "PUBCOMP", "SUBACK", "UNSUBACK"}
        PROVE  p.packet_id = r.packet_id
               /\ ((r.type = "PUBLISH" /\ r.qos # 0)
                   \/ r.type \in {"PUBREL", "SUBSCRIBE", "UNSUBSCRIBE"})
    BY <1>4, <2>0, <2>3
  <2>4. ASSUME r.type = "PUBLISH", r.qos # 0 PROVE Settled(r.packet_id)'
    <3>1. Means(r.packet_id, r.msg)'
      BY <1>1, <2>1, <2>4 DEF SentTruly
    <3> QED BY <2>2, <2>4, <3>1 DEF Means, Settled
  <2>5. ASSUME r.type \in {"PUBREL", "SUBSCRIBE", "UNSUBSCRIBE"} PROVE Settled(r.packet_id)'
    BY <1>1, <2>1, <2>5 DEF SentTruly
  <2> QED BY <2>3, <2>4, <2>5 DEF AnsweredTruly
<1> QED BY <1>2, <1>3, <1>4, ToClientMoves

LEMMA TruthfulStep ==
  ASSUME EnoughIds, Ind, Types, Fresh, NothingPending, Counted, Registered, Numbered,
         Truthful, Next, connects' <= 1
  PROVE  Truthful'
<1>1. /\ \A i : Settled(i) => Settled(i)'
      /\ arrived' \in Seq(Messages)
      /\ \A m : m \in Range(arrived) => m \in Range(arrived')
  BY IdsKept, ArrivedGrows DEF Truthful
<1>2. ASSUME NEW t \in Tasks, t \in answered', op'[t].id # 0 PROVE Settled(op[t].id)'
  <2>1. /\ op'[t].id = op[t].id
        /\ t \in answered \/ (Answering /\ op[t].id = Head(inbox).packet_id)
    BY <1>2, AnsweredMove
  <2>2. Settled(op[t].id)
    <3>1. CASE t \in answered
      BY <1>2, <2>1, <3>1 DEF Truthful
    <3>2. CASE Answering /\ op[t].id = Head(inbox).packet_id
      <4>1. inbox # <<>> /\ Head(inbox).type \in Answers
        BY <3>2 DEF Answering, HandleAnswer
      <4>2. ToClient(Head(inbox))
        BY <4>1, RangeTail DEF ToClient, Types, ReaderTypes
      <4> QED BY <3>2, <4>1, <4>2 DEF Truthful, AnsweredTruly, Answers
    <3> QED BY <2>1, <3>1, <3>2
  <2>3. PICK i : i = op[t].id
    OBVIOUS
  <2>4. Settled(i)'
    BY <1>1, <2>2, <2>3
  <2> QED BY <2>1, <2>3, <2>4 DEF Settled, Published
<1>3. ASSUME NEW m \in returned' PROVE m \in Range(arrived')
  <2>1. CASE Silent
    <3>1. CASE m \in returned
      BY <1>1, <3>1 DEF Truthful
    <3>2. ASSUME NEW t \in Tasks, t \in answered, op[t].id # 0, op[t].msg # 0, op[t].msg = m
          PROVE  m \in Range(arrived')
      <4>1. t \in Published(op[t].id) /\ Settled(op[t].id)
        BY <3>2 DEF Truthful, Published
      <4> QED BY <1>1, <3>2, <4>1 DEF Settled
    <3> QED BY <1>3, <2>1, <3>1, <3>2 DEF Silent
  <2>2. CASE ~Silent
    <3>1. UNCHANGED returned
      BY <2>2, Kinds, Untouched DEF Answering, Request, Feed, BrokerHandle, BrokerPublish
    <3> QED BY <1>1, <1>3, <3>1 DEF Truthful
  <2> QED BY <2>1, <2>2
<1> QED BY <1>1, <1>2, <1>3, SentTrulyStep, AnsweredTrulyStep DEF Truthful

-----------------------------------------------------------------------------
(* The invariant, and what follows from it                                 *)

AnswerInv ==
  /\ OrderInv /\ NothingPending
  /\ connects <= 1 => Counted /\ Registered /\ Numbered /\ Truthful

LEMMA InitAnswers ==
  ASSUME EnoughIds, Init
  PROVE  AnswerInv
<1>1. /\ op = [w \in Callers |-> NoOperation] /\ answered = {} /\ pending_operations = <<>>
      /\ where = [t \in Tasks |-> "out"] /\ sending = [w \in Workers |-> <<>>]
      /\ inbox = <<>> /\ c2b = <<>> /\ b2c = <<>> /\ out_buffer = <<>>
      /\ contexts = 0 /\ called = 0 /\ arrived = <<>> /\ returned = {}
      /\ next_packet_id = 1 /\ state = "DISCONNECTED" /\ pending = <<>>
  BY DEF Init, SM!Init
<1>2. OrderInv /\ NothingPending
  BY <1>1, InitOrder DEF NothingPending
<1>3. Counted
  <2>1. Users = {}
    BY <1>1 DEF Users
  <2>2. IsFiniteSet({}) /\ Cardinality({}) = 0
    BY FS_EmptySet
  <2>3. Room = 1
    BY <1>1, <2>1, <2>2 DEF Room
  <2> QED BY <1>1, <2>1, <2>2, <2>3 DEF Counted, EnoughIds
<1>4. /\ \A w \in Callers : op[w].id = 0
      /\ \A t \in Tasks : t \in Callers
  BY <1>1, WorkerTypes DEF NoOperation
<1>5. Registered /\ Numbered
  BY <1>1, <1>4, EmptySeq DEF Registered, Numbered
<1>6. Truthful
  BY <1>1, <1>4, RangeEmpty, EmptySeq DEF Truthful, ToBroker, ToClient
<1> QED BY <1>2, <1>3, <1>5, <1>6 DEF AnswerInv

LEMMA NextAnswers ==
  ASSUME EnoughIds, AnswerInv, [Next]_vars
  PROVE  AnswerInv'
<1>1. OrderInv'
  BY NextOrder DEF AnswerInv
<1>2. CASE Next
  <2>1. Ind /\ Types /\ Fresh /\ NothingPending
    BY DEF AnswerInv, OrderInv
  <2>2. NothingPending'
    BY <1>2, <2>1, NothingPendingStep
  <2>3. ASSUME connects' <= 1 PROVE (Counted /\ Registered /\ Numbered /\ Truthful)'
    <3>1. connects <= 1
      <4>1. connects \in Nat
        BY <2>1 DEF Types, ClientTypes
      <4> QED BY <1>2, <2>1, <2>3, <4>1, ConnectingMoves
    <3>2. Counted /\ Registered /\ Numbered /\ Truthful
      BY <3>1 DEF AnswerInv
    <3>3. Counted' /\ Registered'
      BY <1>2, <2>1, <2>3, <3>2, CountedStep, CallsMove
    <3>4. Numbered' /\ Truthful'
      BY <1>2, <2>1, <2>3, <3>2, NumberedStep, TruthfulStep
    <3> QED BY <3>3, <3>4
  <2> QED BY <1>1, <2>2, <2>3 DEF AnswerInv
<1>3. CASE UNCHANGED vars
  <2>1. UNCHANGED <<connects, contexts, called, where, state, pending, next_packet_id,
                    out_buffer, sending, c2b, b2c, inbox, op, answered, pending_operations,
                    arrived, returned>>
    BY <1>3 DEF vars, smVars, opVars, lockVars, readerVars, contextVars, netVars, counters
  <2>2. NothingPending'
    BY <2>1 DEF AnswerInv, NothingPending
  <2>3. Counted => Counted'
    BY <2>1 DEF Counted, Users, Room
  <2>4. (Registered => Registered') /\ (Numbered => Numbered')
    BY <2>1 DEF Registered, Numbered, Idle
  <2>5. Truthful => Truthful'
    BY <2>1 DEF Truthful, ToBroker, ToClient, SentTruly, AnsweredTruly, Settled, Means,
       Published
  <2> QED BY <1>1, <2>1, <2>2, <2>3, <2>4, <2>5 DEF AnswerInv
<1> QED BY <1>2, <1>3

LEMMA Answered ==
  ASSUME EnoughIds
  PROVE  Spec => []AnswerInv
<1>1. Init => AnswerInv
  BY InitAnswers
<1>2. AnswerInv /\ [Next]_vars => AnswerInv'
  BY NextAnswers
<1> QED BY <1>1, <1>2, PTL DEF Spec

(* A QoS 1 or 2 publish() of the first connection does not return before   *)
(* the broker has got its message, whoever shares the connection and is    *)
(* cancelled with packets of his and of others on the way, and however the *)
(* connection ends: a packet id is never given out twice, and every packet *)
(* on the way from the PUBLISH to the PUBACK or PUBCOMP is about the       *)
(* message of the call that waits under its id.                            *)
THEOREM ReturnedPublishesArrived ==
  ASSUME EnoughIds
  PROVE  Spec => []ReturnedArrived
<1>1. AnswerInv => ReturnedArrived
  BY DEF AnswerInv, Truthful, ReturnedArrived
<1> QED BY <1>1, Answered, PTL

-----------------------------------------------------------------------------
(* A call that waits can get its answer                                    *)

LEMMA ApartStep ==
  ASSUME EnoughIds, Separate, Ind, Types, Fresh, NothingPending, Counted, Registered,
         Apart, Next, connects' <= 1
  PROVE  Apart'
<1>1. /\ \A p : ToClient(p) /\ p.type = "PUBLISH" /\ p.qos = 2 => p.packet_id > LastId
      /\ \A k \in DOMAIN pending :
           IF pending[k].own THEN pending[k].packet.packet_id \in 1 .. next_packet_id - 1
                             ELSE pending[k].packet.packet_id > LastId
  BY DEF Apart
<1>2. ASSUME NEW p, ToClient(p)', p.type = "PUBLISH", p.qos = 2
      PROVE  p.packet_id > LastId
  <2>1. CASE ToClient(p)
    BY <1>1, <1>2, <2>1
  <2>2. ASSUME NEW k \in DOMAIN Incoming, p = Incoming[k] PROVE p.packet_id > LastId
    BY <1>2, <2>2 DEF Separate
  <2> QED BY <1>2, <2>1, <2>2, ToClientMoves
<1>3. ASSUME UNCHANGED <<pending, next_packet_id>> PROVE Apart'
  BY <1>1, <1>2, <1>3 DEF Apart
<1>4. CASE Silent \/ Answering
  BY <1>3, <1>4 DEF Silent, Answering
<1>5. CASE BrokerHandle \/ BrokerPublish
  BY <1>3, <1>5, Untouched DEF BrokerHandle, BrokerPublish
<1>6. ASSUME NEW r, Request(r) PROVE Apart'
  <2>1. /\ SM!AddPending(r, TRUE) /\ r.packet_id = next_packet_id
        /\ next_packet_id \in 1 .. LastId /\ next_packet_id' = next_packet_id + 1
    BY <1>6, RequestNumber DEF Request, Requests
  <2>2. \A k \in DOMAIN pending' : pending'[k] = SM!Entry(r, TRUE)
                                 \/ \E i \in DOMAIN pending : pending'[k] = pending[i]
    BY <2>1, Added
  <2>3. SM!Entry(r, TRUE).own /\ SM!Entry(r, TRUE).packet.packet_id = next_packet_id
    BY <2>1 DEF SM!Entry
  <2>4. \A i \in 1 .. next_packet_id - 1 : i \in 1 .. next_packet_id' - 1
    BY <2>1
  <2>5. next_packet_id \in 1 .. next_packet_id' - 1
    BY <2>1
  <2>6. ASSUME NEW k \in DOMAIN pending'
        PROVE  IF pending'[k].own THEN pending'[k].packet.packet_id \in 1 .. next_packet_id' - 1
                                  ELSE pending'[k].packet.packet_id > LastId
    <3>1. CASE pending'[k] = SM!Entry(r, TRUE)
      BY <2>3, <2>5, <3>1
    <3>2. ASSUME NEW i \in DOMAIN pending, pending'[k] = pending[i]
          PROVE  IF pending'[k].own THEN pending'[k].packet.packet_id \in 1 .. next_packet_id' - 1
                                    ELSE pending'[k].packet.packet_id > LastId
      BY <1>1, <2>4, <3>2
    <3> QED BY <2>2, <3>1, <3>2
  <2> QED BY <1>2, <2>6 DEF Apart
<1>7. CASE Feed
  <2> DEFINE p == Head(b2c)
  <2>1. /\ b2c # <<>> /\ b2c \in Seq(Inbound) /\ SM!Receive(p)
    BY <1>7 DEF Feed, Types, NetTypes
  <2>2. state = "CONNECTING" => pending = <<>> /\ next_packet_id = 1
    BY NumberKinds DEF NothingPending, Counted
  <2>3. UNCHANGED next_packet_id /\ TableMoves(p)
    BY <2>1, <2>2, Received
  <2>4. ASSUME p.type = "PUBLISH", p.qos \notin {0, 1} PROVE p.packet_id > LastId
    <3>1. p \in SM!Packets /\ ToClient(p)
      BY <2>1, RangeTail, TailElements DEF ToClient, Inbound
    <3>2. p.qos \in {0, 1, 2}
      BY <2>4, <3>1 DEF SM!Packets, SM!Publishes, SM!Acks, SM!SubscriptionRequests,
         SM!Signals, SM!Handshakes, SM!QoS
    <3> QED BY <1>1, <2>4, <3>1, <3>2
  <2> HIDE DEF p
  <2>5. \A k \in DOMAIN pending' :
          IF pending'[k].own THEN pending'[k].packet.packet_id \in 1 .. next_packet_id' - 1
                             ELSE pending'[k].packet.packet_id > LastId
    BY <1>1, <2>3, <2>4 DEF TableMoves
  <2> QED BY <1>2, <2>5 DEF Apart
<1> QED BY <1>4, <1>5, <1>6, <1>7, Kinds

\* The call of task t can get its answer.
CanGet(t) ==
  /\ op[t].id \in DOMAIN pending_operations
  /\ pending_operations[op[t].id] = t
  /\ Holds(op[t].id) \/ Reached(op[t].id)

LEMMA CanGetKept ==
  ASSUME NEW t, CanGet(t), op'[t].id = op[t].id,
         op[t].id \in DOMAIN pending_operations',
         pending_operations'[op[t].id] = pending_operations[op[t].id],
         \A i : Holds(i) => Holds(i)' \/ Reached(i)',
         \A p \in Range(inbox) : p.type \in Answers /\ p.packet_id = op[t].id
                                   => p \in Range(inbox')
  PROVE  CanGet(t)'
<1>1. PICK i : i = op[t].id
  OBVIOUS
<1>2. Holds(i) \/ Reached(i)
  BY <1>1 DEF CanGet
<1>3. Reached(i) => Reached(i)'
  BY <1>1 DEF Reached
<1>4. Holds(i)' \/ Reached(i)'
  BY <1>2, <1>3
<1> QED BY <1>1, <1>4 DEF CanGet, Holds, Reached

LEMMA WaitsEnds ==
  ASSUME CallTypes, Numbered, Registered, Waits, CallEnds,
         UNCHANGED pending, \A p \in Range(inbox) : p.type \in Answers => p \in Range(inbox'),
         NEW t \in Tasks, op'[t].id # 0, t \notin answered'
  PROVE  CanGet(t)'
<1>1. /\ t \in Callers
      /\ \A i : Holds(i) => Holds(i)'
      /\ op[t].id # 0 /\ t \notin answered => CanGet(t)
  BY WorkerTypes DEF Holds, Waits, CanGet
<1>2. ASSUME NEW w \in Callers, NEW m \in 0 .. MaxPublishes, Idle(w), Run(w, 0, m)
      PROVE  CanGet(t)'
  <2>1. op'[w].id = 0 /\ \A v \in Callers : v # w => op'[v] = op[v]
    BY <1>2, RunRegisters
  <2>2. op'[t] = op[t] /\ UNCHANGED <<answered, pending_operations>>
    BY <1>1, <1>2, <2>1 DEF Run
  <2>3. CanGet(t)
    BY <1>1, <2>2
  <2>4. op[t].id \in DOMAIN pending_operations'
    BY <2>2, <2>3 DEF CanGet
  <2> QED BY <1>1, <2>2, <2>3, <2>4, CanGetKept
<1>3. ASSUME NEW w \in Callers, Finish(w) PROVE CanGet(t)'
  <2>1. /\ answered' = answered \ {w}
        /\ pending_operations' =
             [i \in DOMAIN pending_operations \ {op[w].id} |-> pending_operations[i]]
        /\ op'[w].id = 0 /\ \A v \in Callers : v # w => op'[v] = op[v]
    <3>1. op'[w].id = 0 /\ \A v \in Callers : v # w => op'[v] = op[v]
      BY <1>3, FinishRegisters DEF NoOperation
    <3> QED BY <1>3, <3>1 DEF Finish, Restrict
  <2>2. t # w /\ op'[t] = op[t] /\ op[t].id # 0
    BY <1>1, <2>1
  <2>3. CanGet(t)
    BY <1>1, <2>1, <2>2
  <2>4. op[t].id # op[w].id
    BY <1>1, <2>2 DEF Numbered
  <2>5. /\ op[t].id \in DOMAIN pending_operations'
        /\ pending_operations'[op[t].id] = pending_operations[op[t].id]
    BY <2>1, <2>3, <2>4 DEF CanGet
  <2> QED BY <1>1, <2>2, <2>3, <2>5, CanGetKept
<1> QED BY <1>2, <1>3, Zenon DEF CallEnds

LEMMA WaitsAnswering ==
  ASSUME Types, Waits, Answering, NEW t \in Tasks, op'[t].id # 0, t \notin answered'
  PROVE  CanGet(t)'
<1> DEFINE p == Head(inbox)
<1>1. /\ UNCHANGED <<op, pending>> /\ inbox # <<>> /\ inbox' = Tail(inbox)
      /\ inbox \in Seq(Inbound)
      /\ \/ /\ p.packet_id \in DOMAIN pending_operations
            /\ answered' = answered \cup {pending_operations[p.packet_id]}
            /\ pending_operations' =
                 [i \in DOMAIN pending_operations \ {p.packet_id} |-> pending_operations[i]]
         \/ /\ p.packet_id \notin DOMAIN pending_operations
            /\ UNCHANGED <<answered, pending_operations>>
  BY DEF Answering, HandleAnswer, NextPacket, Restrict, Types, ReaderTypes
<1>2. \A x \in Range(inbox) : x = p \/ x \in Range(inbox')
  BY <1>1, RangeTail
<1> HIDE DEF p
<1>3. CanGet(t)
  BY <1>1 DEF Waits, CanGet
<1>4. op[t].id # p.packet_id
  BY <1>1, <1>3 DEF CanGet
<1>5. /\ op[t].id \in DOMAIN pending_operations'
      /\ pending_operations'[op[t].id] = pending_operations[op[t].id]
  BY <1>1, <1>3, <1>4 DEF CanGet
<1>6. \A i : Holds(i) => Holds(i)'
  BY <1>1 DEF Holds
<1>7. \A x \in Range(inbox) : x.type \in Answers /\ x.packet_id = op[t].id => x \in Range(inbox')
  BY <1>2, <1>4
<1> QED BY <1>1, <1>3, <1>5, <1>6, <1>7, CanGetKept

LEMMA WaitsRequest ==
  ASSUME EnoughIds, Types, Counted, Registered, Numbered, Apart, Waits, Next,
         NEW p, Request(p), NEW t \in Tasks, op'[t].id # 0, t \notin answered'
  PROVE  CanGet(t)'
<1>1. /\ SM!AddPending(p, TRUE) /\ p.packet_id = next_packet_id /\ UNCHANGED inbox
      /\ next_packet_id \in 1 .. LastId
  BY RequestNumber DEF Request, Requests
<1>2. /\ \A i : Holds(i) => Holds(i)'
      /\ \/ SM!Slots(p.packet_id) # {} /\ UNCHANGED pending
         \/ \E k \in DOMAIN pending' : pending'[k] = SM!Entry(p, TRUE)
  BY <1>1, Added
<1>3. ASSUME NEW i, i = next_packet_id PROVE Holds(i)'
  <2>1. ASSUME NEW k \in DOMAIN pending PROVE pending[k].packet.packet_id # i
    <3>1. CASE pending[k].own
      <4>1. pending[k].packet.packet_id \in 1 .. next_packet_id - 1
        BY <3>1, Zenon DEF Apart
      <4> QED BY <1>1, <1>3, <4>1
    <3>2. CASE ~pending[k].own
      <4>1. pending[k].packet.packet_id > LastId
        BY <3>2, Zenon DEF Apart
      <4>2. LastId \in Int
        BY CallsAssumption DEF EnoughIds, LastId
      <4> QED BY <1>1, <1>3, <4>1, <4>2
    <3> QED BY <3>1, <3>2
  <2>2. SM!Slots(i) = {}
    BY <2>1 DEF SM!Slots
  <2>3. SM!Entry(p, TRUE).own /\ SM!Entry(p, TRUE).packet.packet_id = i
    BY <1>1, <1>3 DEF SM!Entry
  <2> QED BY <1>1, <1>2, <1>3, <2>2, <2>3 DEF Holds
<1>4. CASE UNCHANGED opVars
  <2>1. UNCHANGED <<op, answered, pending_operations>>
    BY <1>4 DEF opVars
  <2>2. CanGet(t)
    BY <2>1 DEF Waits, CanGet
  <2>3. op[t].id \in DOMAIN pending_operations'
    BY <2>1, <2>2 DEF CanGet
  <2> QED BY <1>1, <1>2, <2>1, <2>2, <2>3, CanGetKept
<1>5. ASSUME NEW u \in Tasks, Calls(u, p) PROVE CanGet(t)'
  <2>1. PICK m : Run(u, next_packet_id, m)
    BY <1>5 DEF Calls
  <2>2. u \in Callers /\ Idle(u) /\ t \in Callers /\ next_packet_id \in Nat /\ next_packet_id # 0
    BY <1>1, <1>5, WorkerTypes, PacketIdType DEF Calls
  <2>3. /\ UNCHANGED answered
        /\ pending_operations' = [i \in DOMAIN pending_operations \cup {next_packet_id} |->
                                    IF i = next_packet_id THEN u ELSE pending_operations[i]]
    BY <2>1, <2>2 DEF Run
  <2>4. op'[u].id = next_packet_id /\ \A v \in Callers : v # u => op'[v] = op[v]
    BY <1>5, <2>1, <2>2, RunRegisters DEF Types
  <2>5. CASE t = u
    <3>1. PICK i : i = next_packet_id
      OBVIOUS
    <3>2. Holds(i)'
      BY <1>3, <3>1
    <3> QED BY <2>3, <2>4, <2>5, <3>1, <3>2 DEF CanGet, Holds
  <2>6. CASE t # u
    <3>1. op'[t] = op[t]
      BY <2>2, <2>4, <2>6
    <3>2. CanGet(t)
      BY <2>3, <3>1 DEF Waits, CanGet
    <3>3. op[t].id \in Nat /\ op[t].id < next_packet_id
      BY <2>2, PacketIdAssumption DEF Numbered, Types, CallTypes, Operations
    <3>4. /\ op[t].id \in DOMAIN pending_operations'
          /\ pending_operations'[op[t].id] = pending_operations[op[t].id]
      <4>1. op[t].id # next_packet_id
        BY <2>2, <3>3
      <4> QED BY <2>3, <3>2, <4>1 DEF CanGet
    <3> QED BY <1>1, <1>2, <3>1, <3>2, <3>4, CanGetKept
  <2> QED BY <2>5, <2>6
<1> QED BY <1>4, <1>5 DEF Request

LEMMA WaitsStep ==
  ASSUME EnoughIds, Ind, Types, Fresh, NothingPending, Counted, Registered, Numbered,
         Apart, Waits, Next, connects' <= 1
  PROVE  Waits'
<1> SUFFICES ASSUME NEW t \in Tasks, op'[t].id # 0, t \notin answered' PROVE CanGet(t)'
  BY DEF Waits, CanGet
<1>1. CallTypes /\ t \in Callers
  BY WorkerTypes DEF Types
<1>2. ASSUME CallsKept, \A i : Holds(i) => Holds(i)' \/ Reached(i)',
             \A p \in Range(inbox) : p.type \in Answers => p \in Range(inbox')
      PROVE  CanGet(t)'
  <2>1. op'[t].id = op[t].id /\ t \notin answered /\ UNCHANGED pending_operations
    BY <1>1, <1>2 DEF CallsKept
  <2>2. CanGet(t)
    BY <2>1 DEF Waits, CanGet
  <2>3. op[t].id \in DOMAIN pending_operations'
    BY <2>1, <2>2 DEF CanGet
  <2> QED BY <1>2, <2>1, <2>2, <2>3, CanGetKept
<1>3. CASE Silent
  <2>1. UNCHANGED pending /\ \A p \in Range(inbox) : p.type \in Answers => p \in Range(inbox')
    BY <1>3 DEF Silent
  <2>2. CASE CallsKept
    BY <1>2, <2>1, <2>2 DEF Holds
  <2>3. CASE CallEnds
    BY <1>1, <2>1, <2>3, WaitsEnds
  <2> QED BY <1>3, <2>2, <2>3 DEF Silent
<1>4. CASE Answering
  BY <1>4, WaitsAnswering
<1>5. CASE \E p : Request(p)
  BY <1>5, WaitsRequest
<1>6. CASE BrokerHandle \/ BrokerPublish
  <2>1. UNCHANGED <<opVars, inbox, pending>>
    BY <1>6, Untouched DEF BrokerHandle, BrokerPublish
  <2> QED BY <1>2, <2>1, CallsUntouched DEF Holds
<1>7. CASE Feed
  <2> DEFINE p == Head(b2c)
  <2>1. /\ b2c # <<>> /\ SM!Receive(p) /\ UNCHANGED opVars /\ inbox' = Append(inbox, p)
        /\ inbox \in Seq(Inbound)
    BY <1>7 DEF Feed, Types, ReaderTypes
  <2>2. state = "CONNECTING" => pending = <<>> /\ next_packet_id = 1
    BY NumberKinds DEF NothingPending, Counted
  <2>3. TableMoves(p)
    BY <2>1, <2>2, Received
  <2> HIDE DEF p
  <2>4. \A x : x \in Range(inbox') <=> x \in Range(inbox) \/ x = p
    BY <2>1, RangeAppend
  <2>5. \A i : Holds(i) => Holds(i)' \/ Reached(i)'
    BY <2>3, <2>4 DEF TableMoves, Reached
  <2> QED BY <1>2, <2>1, <2>4, <2>5, CallsUntouched
<1> QED BY <1>3, <1>4, <1>5, <1>6, <1>7, Kinds

WaitInv == AnswerInv /\ (connects <= 1 => Apart /\ Waits)

LEMMA NextWaits ==
  ASSUME EnoughIds, Separate, WaitInv, [Next]_vars
  PROVE  WaitInv'
<1>1. AnswerInv'
  BY NextAnswers DEF WaitInv
<1>2. CASE Next
  <2>1. Ind /\ Types /\ Fresh /\ NothingPending
    BY DEF WaitInv, AnswerInv, OrderInv
  <2>2. ASSUME connects' <= 1 PROVE (Apart /\ Waits)'
    <3>1. connects <= 1
      <4>1. connects \in Nat
        BY <2>1 DEF Types, ClientTypes
      <4> QED BY <1>2, <2>1, <2>2, <4>1, ConnectingMoves
    <3>2. Counted /\ Registered /\ Numbered /\ Apart /\ Waits
      BY <3>1 DEF WaitInv, AnswerInv
    <3> QED BY <1>2, <2>1, <2>2, <3>2, ApartStep, WaitsStep
  <2> QED BY <1>1, <2>2 DEF WaitInv
<1>3. CASE UNCHANGED vars
  <2>1. UNCHANGED <<connects, pending, next_packet_id, b2c, inbox, op, answered,
                    pending_operations>>
    BY <1>3 DEF vars, smVars, opVars, readerVars, netVars, counters
  <2>2. (Apart => Apart') /\ (Waits => Waits')
    BY <2>1 DEF Apart, ToClient, Waits, Holds, Reached
  <2> QED BY <1>1, <2>1, <2>2 DEF WaitInv
<1> QED BY <1>2, <1>3

(* An answer of the first connection finds the call it is for, whatever    *)
(* other calls are made, answered and cancelled: nobody else is registered *)
(* under the packet id of a call that waits, and the id stays in the state *)
(* machine's table until the answer is in the reader's hands.  The broker  *)
(* has to deliver under packet ids that the client does not reach: the     *)
(* table does not tell the ids of the two directions apart.                *)
THEOREM AnswersFindCalls ==
  ASSUME EnoughIds, Separate
  PROVE  Spec => []AnswerFindsCall
<1>1. Init => WaitInv
  <2> SUFFICES ASSUME Init PROVE WaitInv
    OBVIOUS
  <2>1. /\ op = [w \in Callers |-> NoOperation] /\ pending = <<>> /\ inbox = <<>>
        /\ b2c = <<>>
    BY DEF Init, SM!Init
  <2>2. \A t \in Tasks : op[t].id = 0
    BY <2>1, WorkerTypes DEF NoOperation
  <2>3. Apart /\ Waits
    BY <2>1, <2>2, RangeEmpty, EmptySeq DEF Apart, Waits, ToClient
  <2> QED BY <2>3, InitAnswers DEF WaitInv
<1>2. WaitInv /\ [Next]_vars => WaitInv'
  BY NextWaits
<1>3. WaitInv => AnswerFindsCall
  <2>1. \A i : Holds(i) => SM!Slots(i) # {}
    BY DEF Holds, SM!Slots
  <2> QED BY <2>1 DEF WaitInv, Waits, AnswerFindsCall, Reached
<1> QED BY <1>1, <1>2, <1>3, PTL DEF Spec

-----------------------------------------------------------------------------
(* The contexts, and what the broker grants                                *)

\* What the broker grants once it has processed the packets of q
Granting(G, q) == FoldLeft(GrantedAfter, G, q)

\* u[i] is what it grants once it has processed the first i of them.
Grants(G, q, u) ==
  /\ u \in [0 .. Len(q) -> SUBSET Patterns]
  /\ u[0] = G
  /\ \A i \in 1 .. Len(q) : u[i] = GrantedAfter(u[i - 1], q[i])

LEMMA GrantingGrants ==
  ASSUME NEW q \in Seq(SM!Packets), NEW G \in SUBSET Patterns
  PROVE  \E u : Grants(G, q, u) /\ Granting(G, q) = u[Len(q)]
<1> DEFINE n == Len(q)
           D == SUBSET (1 .. n)
           X == SUBSET Patterns
           rank == [T \in D |-> Cardinality(T)]
           next == [T \in D |-> IF T = {} THEN T ELSE T \ {Max(T)}]
           first == [T \in D |-> G]
           step == [x \in D \X X |-> IF x[1] = {} THEN G
                                     ELSE GrantedAfter(x[2], q[Max(x[1])])]
           body(g) == [T \in D |-> IF T = {} THEN G
                                   ELSE GrantedAfter(g[T \ {Max(T)}], q[Max(T)])]
<1>0. n \in Nat
  BY LenProperties
<1>1. \A T \in D : T # {} => Max(T) \in T
  BY <1>0, LargestOf
<1>2. ASSUME NEW T \in D
      PROVE  /\ IsFiniteSet(T) /\ Cardinality(T) \in Nat
             /\ T # {} => Cardinality(T \ {Max(T)}) < Cardinality(T)
  <2>1. IsFiniteSet(1 .. n)
    BY <1>0, FS_Interval
  <2>2. IsFiniteSet(T) /\ Cardinality(T) \in Nat
    BY <2>1, FS_Subset, FS_CardinalityType
  <2>3. T # {} => Cardinality(T \ {Max(T)}) = Cardinality(T) - 1
    BY <1>1, <2>2, FS_RemoveElement
  <2> QED BY <2>2, <2>3
<1>3. rank \in [D -> Nat] /\ next \in [D -> D] /\ first \in [D -> X]
  BY <1>2
<1>4. \A T \in D, x \in X : T # {} => GrantedAfter(x, q[Max(T)]) \in X
  <2>1. SUFFICES ASSUME NEW T \in D, NEW x \in X, T # {}
                 PROVE  GrantedAfter(x, q[Max(T)]) \in X
    OBVIOUS
  <2>2. q[Max(T)] \in SM!Packets
    BY <1>1, <2>1, ElementOfSeq
  <2> QED BY <2>2, GrantType
<1>5. step \in [D \X X -> X]
  <2> HIDE DEF D
  <2> QED BY <1>4
<1>6. \A T \in D \ {{}} : rank[next[T]] < rank[T]
  BY <1>2, <1>3
<1>7. PICK g \in [D -> X] : Recurses(g, D, {{}}, first, next, step)
  <2> HIDE DEF D, X, rank, next, first, step
  <2> QED BY <1>3, <1>5, <1>6, Recursion
<1>8. g = body(g)
  <2>1. ASSUME NEW T \in D
        PROVE  g[T] = IF T = {} THEN G
                      ELSE GrantedAfter(g[T \ {Max(T)}], q[Max(T)])
    <3>1. g[T] = IF T \in {{}} THEN first[T] ELSE step[<<T, g[next[T]]>>]
      BY <1>7 DEF Recurses
    <3>2. CASE T = {}
      BY <3>1, <3>2
    <3>3. CASE T # {}
      <4>1. next[T] = T \ {Max(T)} /\ T \ {Max(T)} \in D
        BY <3>3
      <4>2. g[T \ {Max(T)}] \in X
        BY <1>7, <4>1
      <4>3. step[<<T, g[T \ {Max(T)}]>>] = GrantedAfter(g[T \ {Max(T)}], q[Max(T)])
        BY <3>3, <4>2
      <4> HIDE DEF D, next, first, step
      <4> QED BY <3>1, <3>3, <4>1, <4>3
    <3> QED BY <3>2, <3>3
  <2> QED BY <1>7, <2>1
<1> DEFINE iter == CHOOSE h : h = body(h)
<1>9. iter = body(iter)
  <2> HIDE DEF body
  <2> QED BY <1>8
<1>10. Granting(G, q) = iter[1 .. n]
  <2>1. DOMAIN q = 1 .. n
    BY LenProperties
  <2> QED BY <2>1 DEF Granting, FoldLeft, MapThenFoldSet
<1> HIDE DEF iter
<1>11. iter[{}] = G
  BY <1>9
<1>12. ASSUME NEW j \in 1 .. n
       PROVE  iter[1 .. j] = GrantedAfter(iter[1 .. j - 1], q[j])
  <2>1. 1 .. j \in D /\ 1 .. j # {} /\ (1 .. j) \ {j} = 1 .. j - 1
    <3>1. j \in Nat /\ 1 <= j /\ j <= n
      BY <1>0
    <3>2. j \in 1 .. j /\ \A i \in 1 .. j : i \in 1 .. n
      BY <1>0, <3>1
    <3>3. \A i : i \in (1 .. j) \ {j} <=> i \in 1 .. j - 1
      BY <3>1
    <3> QED BY <3>2, <3>3
  <2>2. Max(1 .. j) = j
    BY <1>0, MaxOf
  <2>3. iter[1 .. j] = GrantedAfter(iter[(1 .. j) \ {Max(1 .. j)}], q[Max(1 .. j)])
    BY <1>9, <2>1
  <2> QED BY <2>1, <2>2, <2>3
<1>13. iter[1 .. 0] = G
  <2>1. 1 .. 0 = {}
    OBVIOUS
  <2> QED BY <1>11, <2>1
<1>14. \A j \in 0 .. n : iter[1 .. j] \in X
  <2> DEFINE T == {j \in 0 .. n : iter[1 .. j] \notin X}
  <2>1. SUFFICES ASSUME T # {} PROVE FALSE
    OBVIOUS
  <2>2. PICK j \in 0 .. n : iter[1 .. j] \notin X /\ \A k \in 0 .. n : iter[1 .. k] \notin X => j <= k
    <3>1. T \subseteq Nat
      BY <1>0
    <3>2. PICK j \in T : \A k \in T : j <= k
      BY <2>1, <3>1, SmallestOf
    <3> QED BY <3>2
  <2>3. j # 0
    BY <1>13, <2>2
  <2>4. j \in 1 .. n /\ j - 1 \in 0 .. n /\ ~(j <= j - 1)
    BY <1>0, <2>2, <2>3
  <2>5. iter[1 .. j - 1] \in X
    BY <2>2, <2>4
  <2>6. q[j] \in SM!Packets
    BY <2>4, ElementOfSeq
  <2>7. GrantedAfter(iter[1 .. j - 1], q[j]) \in X
    <3> HIDE DEF X
    <3>1. PICK Y \in X : Y = iter[1 .. j - 1]
      BY <2>5
    <3> QED BY <2>6, <3>1, GrantType DEF X
  <2> QED BY <1>12, <2>2, <2>4, <2>7
<1> DEFINE u == [j \in 0 .. n |-> iter[1 .. j]]
<1>15. Grants(G, q, u)
  <2>1. u \in [0 .. n -> X]
    BY <1>14
  <2>2. u[0] = G
    BY <1>0, <1>13
  <2>3. ASSUME NEW j \in 1 .. n
        PROVE  u[j] = GrantedAfter(u[j - 1], q[j])
    <3>1. u[j] = iter[1 .. j] /\ u[j - 1] = iter[1 .. j - 1]
      BY <1>0
    <3> QED BY <1>12, <3>1
  <2> QED BY <2>1, <2>2, <2>3 DEF Grants
<1>16. u[n] = iter[1 .. n]
  BY <1>0
<1> QED BY <1>10, <1>15, <1>16

LEMMA GrantsUnique ==
  ASSUME NEW q \in Seq(SM!Packets), NEW G, NEW u, Grants(G, q, u), NEW w, Grants(G, q, w)
  PROVE  u[Len(q)] = w[Len(q)]
<1> DEFINE n == Len(q)
           T == {i \in 0 .. n : u[i] # w[i]}
<1>0. n \in Nat
  BY LenProperties
<1>1. SUFFICES ASSUME T # {} PROVE FALSE
  BY <1>0
<1>2. PICK i \in 0 .. n : u[i] # w[i] /\ \A j \in 0 .. n : u[j] # w[j] => i <= j
  <2>1. T \subseteq Nat
    BY <1>0
  <2>2. PICK i \in T : \A j \in T : i <= j
    BY <1>1, <2>1, SmallestOf
  <2> QED BY <2>2
<1>3. i # 0
  BY <1>2 DEF Grants
<1>4. i \in 1 .. n /\ i - 1 \in 0 .. n /\ ~(i <= i - 1)
  BY <1>0, <1>2, <1>3
<1>5. u[i - 1] = w[i - 1]
  BY <1>2, <1>4
<1>6. u[i] = GrantedAfter(u[i - 1], q[i]) /\ w[i] = GrantedAfter(w[i - 1], q[i])
  BY <1>4 DEF Grants
<1> QED BY <1>2, <1>5, <1>6

LEMMA GrantingNothing ==
  ASSUME NEW G \in SUBSET Patterns
  PROVE  Granting(G, <<>>) = G
<1>1. <<>> \in Seq(SM!Packets) /\ Len(<<>>) = 0
  BY EmptySeq
<1>2. PICK u : Grants(G, <<>>, u) /\ Granting(G, <<>>) = u[0]
  BY <1>1, GrantingGrants
<1> QED BY <1>2 DEF Grants

LEMMA GrantingType ==
  ASSUME NEW q \in Seq(SM!Packets), NEW G \in SUBSET Patterns
  PROVE  Granting(G, q) \in SUBSET Patterns
<1>1. PICK u : Grants(G, q, u) /\ Granting(G, q) = u[Len(q)]
  BY GrantingGrants
<1>2. Len(q) \in 0 .. Len(q)
  BY LenProperties
<1> QED BY <1>1, <1>2 DEF Grants

LEMMA GrantingLast ==
  ASSUME NEW q \in Seq(SM!Packets), NEW e \in SM!Packets, NEW G \in SUBSET Patterns
  PROVE  Granting(G, Append(q, e)) = GrantedAfter(Granting(G, q), e)
<1> DEFINE n == Len(q)
           r == Append(q, e)
<1>0. n \in Nat
  BY LenProperties
<1>1. PICK u : Grants(G, q, u) /\ Granting(G, q) = u[n]
  BY GrantingGrants
<1>2. r \in Seq(SM!Packets) /\ Len(r) = n + 1 /\ r[n + 1] = e /\ \A i \in 1 .. n : r[i] = q[i]
  BY AppendProperties
<1> DEFINE w == [i \in 0 .. n + 1 |-> IF i = n + 1 THEN GrantedAfter(u[n], e) ELSE u[i]]
<1>3. w[n + 1] = GrantedAfter(u[n], e) /\ \A i \in 0 .. n : w[i] = u[i]
  BY <1>0
<1>4. \A i \in 0 .. n : u[i] \in SUBSET Patterns
  BY <1>1 DEF Grants
<1>5. GrantedAfter(u[n], e) \in SUBSET Patterns
  <2>1. PICK Y \in SUBSET Patterns : Y = u[n]
    BY <1>0, <1>4
  <2> QED BY <2>1, GrantType
<1>6. w \in [0 .. n + 1 -> SUBSET Patterns]
  BY <1>4, <1>5
<1> HIDE DEF w, r
<1>7. Grants(G, r, w)
  <2>1. ASSUME NEW i \in 1 .. n + 1 PROVE w[i] = GrantedAfter(w[i - 1], r[i])
    <3>1. CASE i = n + 1
      <4>1. i - 1 = n /\ n \in 0 .. n
        BY <1>0, <3>1
      <4> QED BY <1>2, <1>3, <3>1, <4>1
    <3>2. CASE i # n + 1
      <4>1. i \in 1 .. n /\ i - 1 \in 0 .. n /\ i \in 0 .. n
        BY <1>0, <3>2
      <4>2. u[i] = GrantedAfter(u[i - 1], q[i])
        BY <1>1, <4>1 DEF Grants
      <4> QED BY <1>2, <1>3, <4>1, <4>2
    <3> QED BY <3>1, <3>2
  <2>2. w[0] = G
    <3>1. 0 \in 0 .. n
      BY <1>0
    <3> QED BY <1>1, <1>3, <3>1 DEF Grants
  <2> QED BY <1>2, <1>6, <2>1, <2>2 DEF Grants
<1>8. PICK v : Grants(G, r, v) /\ Granting(G, r) = v[Len(r)]
  BY <1>2, GrantingGrants
<1>9. v[Len(r)] = w[Len(r)]
  BY <1>2, <1>7, <1>8, GrantsUnique
<1> QED BY <1>1, <1>2, <1>3, <1>8, <1>9 DEF r

LEMMA GrantingFirst ==
  ASSUME NEW q \in Seq(SM!Packets), q # <<>>, NEW G \in SUBSET Patterns
  PROVE  Granting(G, q) = Granting(GrantedAfter(G, Head(q)), Tail(q))
<1> DEFINE r == Tail(q)
           n == Len(r)
<1>1. /\ Head(q) \in SM!Packets /\ r \in Seq(SM!Packets) /\ n = Len(q) - 1
      /\ \A i \in 1 .. n : r[i] = q[i + 1]
      /\ Head(q) = q[1]
  BY HeadTailProperties
<1>0. n \in Nat /\ Len(q) = n + 1
  BY <1>1, LenProperties
<1>2. PICK H \in SUBSET Patterns : H = GrantedAfter(G, Head(q))
  BY <1>1, GrantType
<1>3. PICK u : Grants(H, r, u) /\ Granting(H, r) = u[n]
  BY <1>1, GrantingGrants
<1> DEFINE w == [i \in 0 .. n + 1 |-> IF i = 0 THEN G ELSE u[i - 1]]
<1>4. w[0] = G /\ \A i \in 1 .. n + 1 : w[i] = u[i - 1]
  BY <1>0
<1>5. \A i \in 0 .. n : u[i] \in SUBSET Patterns
  BY <1>3 DEF Grants
<1>6. w \in [0 .. n + 1 -> SUBSET Patterns]
  <2>1. \A i \in 0 .. n + 1 : i = 0 \/ i - 1 \in 0 .. n
    BY <1>0
  <2> QED BY <1>5, <2>1
<1> HIDE DEF w, r
<1>7. Grants(G, q, w)
  <2>1. ASSUME NEW i \in 1 .. n + 1 PROVE w[i] = GrantedAfter(w[i - 1], q[i])
    <3>1. CASE i = 1
      <4>1. i \in 1 .. n + 1 /\ i - 1 = 0
        BY <3>1
      <4>2. w[1] = u[0] /\ u[0] = H
        BY <1>3, <1>4, <3>1, <4>1 DEF Grants
      <4> QED BY <1>1, <1>2, <1>4, <3>1, <4>1, <4>2
    <3>2. CASE i # 1
      <4>1. i - 1 \in 1 .. n /\ i - 1 \in 1 .. n + 1 /\ (i - 1) + 1 = i
        BY <1>0, <3>2
      <4>2. u[i - 1] = GrantedAfter(u[(i - 1) - 1], q[i])
        BY <1>1, <1>3, <4>1 DEF Grants, n
      <4>3. w[i] = u[i - 1] /\ w[i - 1] = u[(i - 1) - 1]
        BY <1>4, <4>1
      <4> QED BY <4>2, <4>3
    <3> QED BY <3>1, <3>2
  <2> QED BY <1>0, <1>4, <1>6, <2>1 DEF Grants
<1>8. PICK v : Grants(G, q, v) /\ Granting(G, q) = v[Len(q)]
  BY GrantingGrants
<1>9. v[Len(q)] = w[Len(q)]
  BY <1>7, <1>8, GrantsUnique
<1>10. w[n + 1] = u[n]
  <2>1. n + 1 \in 1 .. n + 1 /\ (n + 1) - 1 = n
    BY <1>0
  <2> QED BY <1>4, <2>1
<1> QED BY <1>0, <1>2, <1>3, <1>8, <1>9, <1>10 DEF r

Enters == \E t \in Subscribers, S \in PatternSets : EnterContext(t, S)

\* What the holder of the lock has taken out of the state machine
Held == IF lock = <<>> THEN <<>> ELSE sending[Head(lock)]

\* The packets on their way to the broker, in the order it will get them
Way == c2b \o Held \o out_buffer

\* What the broker grants once they have arrived
Promised == Granting(granted, Way)

\* A packet that ends no connection, and one that asks for no subscription either
Steady == {p \in SM!Packets : p.type # "DISCONNECT"}
Neutral == {p \in Steady : p.type \notin {"SUBSCRIBE", "UNSUBSCRIBE"}}

\* The users of a pattern
UsersOf(p) == {t \in Users : p \in patterns[t]}

Calm ==
  /\ out_buffer \in Seq(Steady) /\ c2b \in Seq(Steady) /\ b2c \in Seq(Steady)
  /\ \A w \in Workers : sending[w] \in Seq(Steady)

\* The first connection lasts: nothing ends it while the client is open.
Lasting ==
  /\ link \in {"none", "open"} /\ reader # "ended"
  /\ connects <= 1 /\ (manager = "connecting" => connects = 0)
  /\ Calm

\* The state machine knows of every user of a pattern.
Shared ==
  /\ state # "CONNECTED" => subscriptions = {}
  /\ \A t \in Users : patterns[t] \subseteq subscriptions
  /\ \A p \in Patterns : subscription_counts[p] >= Cardinality(UsersOf(p))

\* What it takes for granted is granted, or will be.
Agreed == subscriptions \subseteq Promised

GrantInv ==
  /\ OrderInv /\ NothingPending
  /\ IsFiniteSet(Users)
  /\ Closed => Users = {}
  /\ ~Closed => Lasting /\ Shared /\ Agreed

\* No call is cancelled, and the broker ends no connection.
Undisturbed == Cancellable = {} /\ Faults \subseteq {"error"}

-----------------------------------------------------------------------------
(* The users of the contexts                                               *)

LEMMA UsersClose ==
  ASSUME Types, NEW t \in Tasks, Close(t)
  PROVE  Users' \subseteq Users /\ \A u \in Users' : patterns'[u] = patterns[u]
<1>1. /\ where \in [Tasks -> {"out", "entering", "in", "leaving"}]
      /\ patterns \in [Tasks -> SUBSET Patterns]
  BY DEF Types, ContextTypes
<1>2. /\ where' = [where EXCEPT ![t] = "out"]
      /\ patterns' = [patterns EXCEPT ![t] = {}]
  BY DEF Close
<1>3. Users' = Users \ {t}
  BY <1>2, UsersLeave
<1> QED BY <1>1, <1>2, <1>3 DEF Users

\* The users only get fewer, and keep their patterns, unless a context is entered.
LEMMA UsersStay ==
  ASSUME Types, Next, ~Enters
  PROVE  Users' \subseteq Users /\ \A t \in Users' : patterns'[t] = patterns[t]
<1> DEFINE Claim == Users' \subseteq Users /\ \A t \in Users' : patterns'[t] = patterns[t]
<1>1. (UNCHANGED <<where, patterns>>) => Claim
  BY DEF Users
<1>2. (UNCHANGED contextVars) => Claim
  BY <1>1 DEF contextVars
<1>3. \A t \in Tasks : Close(t) => Claim
  BY UsersClose
<1> HIDE DEF Claim
<1>4. ASSUME NEW w \in Workers, TakeOutbound(w) \/ SendOutbound(w) PROVE Claim
  <2>1. UNCHANGED contextVars \/ (w \in Tasks /\ Close(w))
    BY <1>4, Zenon DEF TakeOutbound, SendOutbound, Abandon
  <2> QED BY <1>2, <1>3, <2>1
<1>5. ASSUME NEW t \in Publishers, NEW q \in 0 .. 2, CallPublish(t, q) PROVE Claim
  BY <1>2, <1>5 DEF CallPublish
<1>6. ASSUME NEW t \in Tasks, LeaveContext(t) PROVE Claim
  <2>1. Close(t) \/ (where' = [where EXCEPT ![t] = "leaving"] /\ UNCHANGED patterns)
    BY <1>6, Zenon DEF LeaveContext
  <2>2. ASSUME where' = [where EXCEPT ![t] = "leaving"], UNCHANGED patterns PROVE Claim
    <3>1. Users' = Users \ {t}
      BY <2>2, UsersLeave
    <3> QED BY <2>2, <3>1 DEF Claim
  <2> QED BY <1>3, <2>1, <2>2
<1>7. ASSUME NEW t \in Tasks, CancelCall(t) \/ CancelContext(t) PROVE Claim
  <2>1. Close(t) \/ UNCHANGED contextVars
    BY <1>7, Zenon DEF CancelCall, CancelContext, Abandon
  <2> QED BY <1>2, <1>3, <2>1
<1>8. ASSUME NEW t \in Tasks, Return(t) PROVE Claim
  <2>1. Close(t) \/ UNCHANGED patterns
    BY <1>8, Zenon DEF Return
  <2>2. Users' = Users
    BY <1>8, UsersReturn
  <2>3. (UNCHANGED patterns) => Claim
    BY <2>2 DEF Claim
  <2> QED BY <1>3, <2>1, <2>3
<1>9. ASSUME NEW t \in Tasks, TakeMessage(t) \/ Deliver(t) PROVE Claim
  BY <1>1, <1>9 DEF TakeMessage, Deliver
<1>10. ASSUME \/ Establish \/ FinishHandshake \/ LoopConnection
              \/ Exit \/ CloseStream \/ FinishExit \/ EndOfStream \/ FinishDelivery
              \/ ReaderRuns \/ Environment
       PROVE  Claim
  <2>1. UNCHANGED contextVars
    BY <1>10, Zenon DEF Establish, FinishHandshake, LoopConnection, Exit, CloseStream,
       FinishExit, EndOfStream, FinishDelivery, ReaderRuns, Environment, Feed, Handle,
       BrokerHandle, BrokerPublish, BrokerEnds
  <2> QED BY <1>2, <2>1
<1>11. Claim
  BY <1>4, <1>5, <1>6, <1>7, <1>8, <1>9, <1>10, Zenon DEF Next, TasksRun, Enters
<1> QED BY <1>11 DEF Claim

LEMMA UsersEnter ==
  ASSUME Types, NEW t \in Subscribers, NEW S \in PatternSets, EnterContext(t, S)
  PROVE  /\ t \in Tasks /\ t \notin Users /\ Users' = Users \cup {t}
         /\ patterns'[t] = S
         /\ \A u \in Users : patterns'[u] = patterns[u]
<1>1. /\ where \in [Tasks -> {"out", "entering", "in", "leaving"}]
      /\ patterns \in [Tasks -> SUBSET Patterns]
      /\ t \in Tasks
  BY TasksAssumption DEF Types, ContextTypes
<1>2. /\ where[t] = "out" /\ patterns' = [patterns EXCEPT ![t] = S]
      /\ where' = [where EXCEPT ![t] = "entering"] \/ where' = [where EXCEPT ![t] = "in"]
  BY DEF EnterContext
<1>3. t \notin Users /\ Users' = Users \cup {t}
  BY <1>1, <1>2 DEF Users
<1> QED BY <1>1, <1>2, <1>3

\* Only an exit closes the client.
LEMMA Closes ==
  ASSUME Next, Closed', ~Closed
  PROVE  Exit /\ \A t \in Tasks : where[t] = "out" /\ where'[t] = "out"
<1>1. (UNCHANGED main) => FALSE
  BY DEF Closed
<1>2. ASSUME ReaderRuns \/ Environment PROVE UNCHANGED main
  BY <1>2, Zenon DEF ReaderRuns, Environment, Feed, Handle, BrokerHandle, BrokerPublish,
     BrokerEnds
<1>3. ASSUME \/ \E w \in Workers : TakeOutbound(w) \/ SendOutbound(w)
             \/ \E t \in Publishers, q \in 0 .. 2 : CallPublish(t, q)
             \/ \E t \in Subscribers, S \in PatternSets : EnterContext(t, S)
             \/ \E t \in Tasks : \/ TakeMessage(t) \/ LeaveContext(t) \/ Return(t)
                                 \/ CancelCall(t) \/ CancelContext(t) \/ Deliver(t)
             \/ EndOfStream \/ FinishDelivery \/ Establish \/ LoopConnection
      PROVE  UNCHANGED main
  BY <1>3, Zenon DEF TakeOutbound, SendOutbound, CallPublish, EnterContext, TakeMessage,
     LeaveContext, Return, CancelCall, CancelContext, Deliver, EndOfStream, FinishDelivery,
     Establish, LoopConnection
<1>4. ASSUME FinishHandshake \/ CloseStream \/ FinishExit PROVE FALSE
  BY <1>4 DEF FinishHandshake, CloseStream, FinishExit, Closed
<1>5. Exit
  BY <1>1, <1>2, <1>3, <1>4, Zenon DEF Next, TasksRun
<1>6. UNCHANGED where
  BY <1>5 DEF Exit, contextVars
<1> QED BY <1>5, <1>6 DEF Exit

LEMMA UsersStep ==
  ASSUME GrantInv, Next
  PROVE  IsFiniteSet(Users') /\ (Closed' => Users' = {})
<1>1. Types /\ IsFiniteSet(Users)
  BY DEF GrantInv, OrderInv
<1>2. IsFiniteSet(Users')
  <2>1. CASE ~Enters
    BY <1>1, <2>1, UsersStay, FS_Subset
  <2>2. ASSUME NEW t \in Subscribers, NEW S \in PatternSets, EnterContext(t, S)
        PROVE  IsFiniteSet(Users')
    BY <1>1, <2>2, UsersEnter, FS_AddElement
  <2> QED BY <2>1, <2>2 DEF Enters
<1>3. ASSUME Closed' PROVE Users' = {}
  <2>1. CASE Closed
    <3>1. ~Enters
      BY <2>1 DEF Enters, EnterContext, Closed
    <3> QED BY <1>1, <2>1, <3>1, UsersStay DEF GrantInv
  <2>2. CASE ~Closed
    BY <1>3, <2>2, Closes DEF Users
  <2> QED BY <2>1, <2>2
<1> QED BY <1>2, <1>3

-----------------------------------------------------------------------------
(* What is promised                                                        *)

LEMMA WayTypes ==
  ASSUME Ind, Types
  PROVE  /\ c2b \in Seq(SM!Packets) /\ Held \in Seq(SM!Packets)
         /\ out_buffer \in Seq(SM!Packets)
         /\ c2b \o Held \in Seq(SM!Packets) /\ Way \in Seq(SM!Packets)
         /\ granted \in SUBSET Patterns
         /\ Promised \in SUBSET Patterns
<1>1. /\ c2b \in Seq(SM!Packets) /\ out_buffer \in Seq(SM!Packets)
      /\ granted \in SUBSET Patterns
      /\ \A w \in Workers : sending[w] \in Seq(SM!Packets)
      /\ lock \in Seq(Workers)
  BY SameSets DEF Types, NetTypes, P!Ind, P!BaseInv, Ind, LockInv, Queue
<1>2. Held \in Seq(SM!Packets)
  <2>1. lock # <<>> => Head(lock) \in Workers
    BY <1>1, TailElements
  <2> QED BY <1>1, <2>1, EmptySeq DEF Held
<1>3. c2b \o Held \in Seq(SM!Packets)
  BY <1>1, <1>2, ConcatProperties
<1>4. Way \in Seq(SM!Packets)
  BY <1>1, <1>3, ConcatProperties DEF Way
<1> QED BY <1>1, <1>2, <1>3, <1>4, GrantingType DEF Promised

\* Who holds the lock may change, but nobody else has packets to send.
LEMMA HeldKept ==
  ASSUME Ind, Ind', UNCHANGED sending
  PROVE  Held' = Held
<1>1. lock \in Seq(Workers) /\ lock' \in Seq(Workers)
  BY DEF Ind, LockInv, Queue
<1>2. /\ \A w \in Workers : sending[w] # <<>> => lock # <<>> /\ w = Head(lock)
      /\ \A w \in Workers : sending[w] # <<>> => lock' # <<>> /\ w = Head(lock')
  BY DEF Ind, LockInv, Senders
<1>3. /\ lock # <<>> => Head(lock) \in Workers
      /\ lock' # <<>> => Head(lock') \in Workers
  BY <1>1, TailElements
<1>4. CASE lock # <<>> /\ sending[Head(lock)] # <<>>
  <2>1. lock' # <<>> /\ Head(lock') = Head(lock)
    BY <1>2, <1>3, <1>4
  <2> QED BY <1>4, <2>1 DEF Held
<1>5. CASE ~(lock # <<>> /\ sending[Head(lock)] # <<>>)
  <2>1. Held = <<>>
    BY <1>5 DEF Held
  <2>2. \A w \in Workers : sending[w] = <<>>
    BY <1>2, <1>5
  <2>3. Held' = <<>>
    BY <1>3, <2>2 DEF Held
  <2> QED BY <2>1, <2>3
<1> QED BY <1>4, <1>5

LEMMA PromiseKept ==
  ASSUME Ind, Ind', UNCHANGED <<sending, c2b, granted, out_buffer>>
  PROVE  Promised' = Promised
<1>1. Way' = Way
  BY HeldKept DEF Way
<1> QED BY <1>1 DEF Promised

LEMMA GrantingSent ==
  ASSUME NEW q \in Seq(SM!Packets), NEW r \in Seq(SM!Packets), NEW e \in SM!Packets,
         NEW G \in SUBSET Patterns
  PROVE  /\ Granting(G, q \o Append(r, e)) = GrantedAfter(Granting(G, q \o r), e)
         /\ e \in Neutral => Granting(G, q \o Append(r, e)) = Granting(G, q \o r)
<1>1. q \o Append(r, e) = Append(q \o r, e) /\ q \o r \in Seq(SM!Packets)
  BY ConcatAppend, ConcatProperties
<1>2. Granting(G, Append(q \o r, e)) = GrantedAfter(Granting(G, q \o r), e)
  BY <1>1, GrantingLast
<1>3. e \in Neutral => \A H : GrantedAfter(H, e) = H
  BY DEF Neutral, GrantedAfter
<1> QED BY <1>1, <1>2, <1>3

\* A packet that the state machine encodes is the last on the way.
LEMMA PromiseSent ==
  ASSUME Ind, Types, Ind', UNCHANGED <<sending, c2b, granted>>, NEW e \in SM!Packets,
         out_buffer' = Append(out_buffer, e)
  PROVE  /\ Promised' = GrantedAfter(Promised, e)
         /\ e \in Neutral => Promised' = Promised
<1>1. PICK q \in Seq(SM!Packets) : q = c2b \o Held
  BY WayTypes
<1>2. PICK r \in Seq(SM!Packets) : r = out_buffer
  BY WayTypes
<1>3. PICK G \in SUBSET Patterns : G = granted
  BY WayTypes
<1>4. Promised = Granting(G, q \o r)
  BY <1>1, <1>2, <1>3 DEF Promised, Way
<1>5. Promised' = Granting(G, q \o Append(r, e))
  BY <1>1, <1>2, <1>3, HeldKept DEF Promised, Way
<1> QED BY <1>4, <1>5, GrantingSent

\* The requests, and what refuses them
LEMMA RefusalNeutral ==
  ASSUME NEW p \in {r \in SM!Publishes : r.qos > 0} \cup SM!SubscriptionRequests
  PROVE  SM!InUse(p) \in Neutral /\ p \in Steady
<1>1. p.packet_id \in SM!PacketIds
  BY DEF SM!Publishes, SM!SubscriptionRequests
<1>2. p.type # "DISCONNECT" /\ p \in SM!Packets
  BY DEF SM!Publishes, SM!SubscriptionRequests, SM!Packets
<1>3. SM!SubAck(p.packet_id, {}) \in Neutral
  BY <1>1 DEF SM!SubAck, SM!Packets, SM!Acks, Neutral, Steady
<1>4. \A type \in {"PUBACK", "PUBREC"} :
        SM!Ack(type, p.packet_id, "PACKET_IDENTIFIER_IN_USE") \in Neutral
  BY <1>1 DEF SM!Ack, SM!Packets, SM!Acks, SM!ReceiveReasons, Neutral, Steady
<1> QED BY <1>2, <1>3, <1>4 DEF SM!InUse, Steady

LEMMA PromiseRequested ==
  ASSUME Ind, Types, Ind', UNCHANGED <<sending, c2b, granted>>,
         NEW p \in {r \in SM!Publishes : r.qos > 0} \cup SM!SubscriptionRequests,
         SM!AddPending(p, TRUE)
  PROVE  Promised' = GrantedAfter(Promised, p)
<1>1. p \in SM!Packets /\ SM!InUse(p) \in SM!Packets /\ SM!InUse(p) \in Neutral
  BY RefusalNeutral DEF Neutral, Steady
<1>2. CASE out_buffer' = Append(out_buffer, p)
  BY <1>1, <1>2, PromiseSent
<1>3. CASE out_buffer' = Append(Append(out_buffer, p), SM!InUse(p))
  <2>1. PICK q \in Seq(SM!Packets) : q = c2b \o Held
    BY WayTypes
  <2>2. PICK r \in Seq(SM!Packets) : r = out_buffer
    BY WayTypes
  <2>3. PICK G \in SUBSET Patterns : G = granted
    BY WayTypes
  <2>4. PICK f \in SM!Packets : f = SM!InUse(p) /\ f \in Neutral
    BY <1>1
  <2>5. Append(r, p) \in Seq(SM!Packets)
    BY <1>1, AppendProperties
  <2>6. Promised = Granting(G, q \o r)
    BY <2>1, <2>2, <2>3 DEF Promised, Way
  <2>7. Promised' = Granting(G, q \o Append(Append(r, p), f))
    BY <1>3, <2>1, <2>2, <2>3, <2>4, HeldKept DEF Promised, Way
  <2>8. Granting(G, q \o Append(Append(r, p), f)) = Granting(G, q \o Append(r, p))
    BY <2>4, <2>5, GrantingSent
  <2>9. Granting(G, q \o Append(r, p)) = GrantedAfter(Granting(G, q \o r), p)
    BY <1>1, GrantingSent
  <2> QED BY <2>6, <2>7, <2>8, <2>9
<1> QED BY <1>2, <1>3 DEF SM!AddPending

\* The holder of the lock takes the packets along, in their order.
LEMMA TakeOutboundPromise ==
  ASSUME Ind, Types, Ind', NEW w \in Workers, TakeOutbound(w)
  PROVE  Promised' = Promised
<1>1. /\ lock # <<>> /\ w = Head(lock) /\ sending[w] = <<>>
      /\ UNCHANGED <<c2b, granted>>
  BY DEF TakeOutbound, netVars
<1>2. CASE UNCHANGED <<smVars, sending>>
  BY <1>1, <1>2, PromiseKept DEF smVars
<1>3. CASE SM!Flush /\ sending' = [sending EXCEPT ![w] = out_buffer] /\ UNCHANGED lock
  <2>1. out_buffer' = <<>>
    BY <1>3 DEF SM!Flush, SM!GetOutboundData
  <2>2. Held = <<>> /\ Held' = out_buffer
    BY <1>1, <1>3 DEF Held, Ind, LockInv, Shape
  <2>3. PICK q \in Seq(SM!Packets) : q = c2b
    BY WayTypes
  <2>4. PICK r \in Seq(SM!Packets) : r = out_buffer
    BY WayTypes
  <2>5. q \o <<>> = q /\ (q \o r) \o <<>> = q \o r
    <3>1. q \o r \in Seq(SM!Packets)
      BY ConcatProperties
    <3> QED BY <3>1, ConcatEmptySeq
  <2>6. Way = (q \o <<>>) \o r /\ Way' = (q \o r) \o <<>>
    BY <1>1, <2>1, <2>2, <2>3, <2>4 DEF Way
  <2> QED BY <1>1, <2>5, <2>6 DEF Promised
<1> QED BY <1>2, <1>3, Zenon DEF TakeOutbound

\* ... and hands them over to an open transport.
LEMMA SendOutboundPromise ==
  ASSUME Ind, Types, Ind', NEW w \in Workers, sending[w] # <<>>,
         sending' = [sending EXCEPT ![w] = <<>>], c2b' = c2b \o sending[w],
         UNCHANGED <<granted, out_buffer>>
  PROVE  Promised' = Promised
<1>1. lock # <<>> /\ w = Head(lock)
  BY DEF Ind, LockInv, Senders
<1>2. \A v \in Workers : sending'[v] = <<>>
  BY <1>1 DEF Ind, LockInv, Senders, Shape
<1>3. Held = sending[w]
  BY <1>1 DEF Held
<1>4. Held' = <<>>
  <2>1. lock' # <<>> => Head(lock') \in Workers
    BY TailElements DEF Ind, LockInv, Queue
  <2> QED BY <1>2, <2>1 DEF Held
<1>5. PICK q \in Seq(SM!Packets) : q = c2b \o Held
  BY WayTypes
<1>6. q \o <<>> = q
  BY ConcatEmptySeq
<1>7. Way = q \o out_buffer /\ Way' = (q \o <<>>) \o out_buffer
  BY <1>3, <1>4, <1>5 DEF Way
<1> QED BY <1>6, <1>7 DEF Promised

\* The broker grants what the first packet of the way asks for.
LEMMA BrokerHandlePromise ==
  ASSUME Ind, Types, Ind', BrokerHandle
  PROVE  Promised' = Promised
<1>1. /\ c2b # <<>> /\ c2b' = Tail(c2b) /\ granted' = GrantedAfter(granted, Head(c2b))
      /\ UNCHANGED <<sending, out_buffer>>
  BY DEF BrokerHandle, lockVars, smVars
<1>2. Held' = Held
  BY <1>1, HeldKept
<1>3. PICK q \in Seq(SM!Packets) : q = c2b
  BY WayTypes
<1>4. PICK h \in Seq(SM!Packets) : h = Held
  BY WayTypes
<1>5. PICK r \in Seq(SM!Packets) : r = out_buffer
  BY WayTypes
<1>6. PICK G \in SUBSET Patterns : G = granted
  BY WayTypes
<1> DEFINE way == (q \o h) \o r
           rest == (Tail(q) \o h) \o r
<1>7. /\ q # <<>>
      /\ Promised = Granting(G, way) /\ Promised' = Granting(GrantedAfter(G, Head(q)), rest)
  BY <1>1, <1>2, <1>3, <1>4, <1>5, <1>6 DEF Promised, Way
<1>8. way \in Seq(SM!Packets) /\ way # <<>> /\ Head(way) = Head(q) /\ Tail(way) = rest
  <2>1. /\ q \o h \in Seq(SM!Packets) /\ q \o h # <<>>
        /\ Head(q \o h) = Head(q) /\ Tail(q \o h) = Tail(q) \o h
    BY <1>7, ConcatHeadTail
  <2>2. PICK x \in Seq(SM!Packets) : x = q \o h
    BY <2>1
  <2>3. x # <<>>
    BY <2>1, <2>2
  <2>4. /\ x \o r \in Seq(SM!Packets) /\ x \o r # <<>>
        /\ Head(x \o r) = Head(x) /\ Tail(x \o r) = Tail(x) \o r
    BY <2>3, ConcatHeadTail
  <2>5. way = x \o r /\ rest = Tail(x) \o r /\ Head(x) = Head(q)
    BY <2>1, <2>2
  <2> HIDE DEF way, rest
  <2> QED BY <2>4, <2>5
<1> HIDE DEF way, rest
<1> QED BY <1>7, <1>8, GrantingFirst

-----------------------------------------------------------------------------
(* What the state machine does with the packets it receives                *)

LEMMA ReceiveSends ==
  ASSUME out_buffer \in Seq(SM!Packets), state = "CONNECTING" => pending = <<>>,
         NEW p \in SM!Packets, SM!Receive(p)
  PROVE  UNCHANGED out_buffer \/ \E e \in Neutral : out_buffer' = Append(out_buffer, e)
<1> DEFINE Claim == UNCHANGED out_buffer \/ \E e \in Neutral : out_buffer' = Append(out_buffer, e)
<1>1. (UNCHANGED out_buffer) => Claim
  OBVIOUS
<1>2. \A e \in Neutral : SM!Send(e) => Claim
  BY DEF SM!Send
<1>3. p.type \in {"PUBREC", "PUBREL"} => p.packet_id \in SM!PacketIds
  BY DEF SM!Packets, SM!Publishes, SM!Acks, SM!SubscriptionRequests, SM!Signals,
     SM!Handshakes
<1>4. p.type = "PUBLISH" => p \in SM!Publishes /\ (p.qos > 0 => p.packet_id \in SM!PacketIds)
  BY DEF SM!Packets, SM!Publishes, SM!Acks, SM!SubscriptionRequests, SM!Signals,
     SM!Handshakes
<1>5. \A id \in SM!PacketIds :
        /\ \A type \in {"PUBACK", "PUBREC", "PUBREL", "PUBCOMP"} :
             SM!Ack(type, id, "SUCCESS") \in Neutral
        /\ \A type \in {"PUBREL", "PUBCOMP"} :
             SM!Ack(type, id, "PACKET_IDENTIFIER_NOT_FOUND") \in Neutral
  BY DEF SM!Ack, SM!Packets, SM!Acks, SM!ReceiveReasons, SM!ReleaseReasons, Neutral, Steady
<1>6. ASSUME SM!ReceivePublish(p) PROVE Claim
  <2>1. p.type = "PUBLISH"
    BY <1>6 DEF SM!ReceivePublish
  <2>2. CASE UNCHANGED out_buffer
    BY <1>1, <2>2
  <2>3. CASE p.qos > 0 /\ SM!AddPending(p, FALSE)
    <3>1. SM!InUse(p) \in Neutral
      BY <1>4, <2>1, <2>3, RefusalNeutral
    <3>2. UNCHANGED out_buffer \/ out_buffer' = Append(out_buffer, SM!InUse(p))
      BY <2>3 DEF SM!AddPending
    <3> QED BY <3>1, <3>2
  <2>4. CASE p.qos > 0 /\ (\/ SM!Send(SM!Ack("PUBACK", p.packet_id, "SUCCESS"))
                           \/ SM!Send(SM!Ack("PUBREC", p.packet_id, "SUCCESS")))
    <3> HIDE DEF Claim
    <3> QED BY <1>2, <1>4, <1>5, <2>1, <2>4
  <2> HIDE DEF Claim
  <2> QED BY <1>6, <2>2, <2>3, <2>4, Zenon DEF SM!ReceivePublish
<1>7. ASSUME SM!ReceivePubRec(p) PROVE Claim
  <2>1. p.type = "PUBREC"
    BY <1>7 DEF SM!ReceivePubRec
  <2>2. \/ UNCHANGED out_buffer
        \/ SM!Send(SM!Ack("PUBREL", p.packet_id, "PACKET_IDENTIFIER_NOT_FOUND"))
        \/ SM!Send(SM!Ack("PUBREL", p.packet_id, "SUCCESS"))
    BY <1>7, Zenon DEF SM!ReceivePubRec, SM!Fail
  <2> HIDE DEF Claim
  <2> QED BY <1>1, <1>2, <1>3, <1>5, <2>1, <2>2
<1>8. ASSUME SM!ReceivePubRel(p) PROVE Claim
  <2>1. p.type = "PUBREL"
    BY <1>8 DEF SM!ReceivePubRel
  <2>2. \/ UNCHANGED out_buffer
        \/ SM!Send(SM!Ack("PUBCOMP", p.packet_id, "PACKET_IDENTIFIER_NOT_FOUND"))
        \/ SM!Send(SM!Ack("PUBCOMP", p.packet_id, "SUCCESS"))
    BY <1>8, Zenon DEF SM!ReceivePubRel, SM!Fail
  <2> HIDE DEF Claim
  <2> QED BY <1>1, <1>2, <1>3, <1>5, <2>1, <2>2
<1>9. ASSUME \/ SM!ReceivePubAck(p) \/ SM!ReceivePubComp(p) \/ SM!ReceiveDisconnect(p)
             \/ SM!ReceiveAuth(p) \/ SM!ReceivePingResp(p)
             \/ SM!ReceiveSubAck(p) \/ SM!ReceiveUnsubAck(p)
      PROVE  UNCHANGED out_buffer
  BY <1>9 DEF SM!ReceivePubAck, SM!ReceivePubComp, SM!ReceiveDisconnect, SM!ReceiveAuth,
     SM!ReceivePingResp, SM!ReceiveSubAck, SM!ReceiveUnsubAck, SM!ReceiveRequestAck,
     SM!Fail, SM!vars, SM!baseVars
<1>10. ASSUME SM!Accepts(SM!ClientAccepting, p), SM!ReceiveConnAck(p)
       PROVE  UNCHANGED out_buffer
  <2>1. p.type = "CONNACK"
    BY <1>10 DEF SM!ReceiveConnAck
  <2>2. pending = <<>>
    BY <1>10, <2>1, Accepted
  <2> QED BY <1>10, <2>2, NothingResent
<1>11. ASSUME SM!ReceiveRefused(p) PROVE UNCHANGED out_buffer
  BY <1>11 DEF SM!ReceiveRefused, SM!Fail
<1> HIDE DEF Claim
<1>12. ASSUME SM!ReceiveAccepted(p) PROVE Claim
  BY <1>1, <1>6, <1>7, <1>8, <1>9, <1>10, <1>12, Zenon
  DEF SM!ReceiveAccepted, SM!ReceiveBase
<1>13. Claim
  BY <1>1, <1>11, <1>12, Zenon DEF SM!Receive
<1> QED BY <1>13 DEF Claim

\* The subscriptions are those of the session; a DISCONNECT apart, no packet ends it.
LEMMA ReceiveKeeps ==
  ASSUME NEW p, SM!Receive(p), p.type # "DISCONNECT"
  PROVE  /\ UNCHANGED subscription_counts
         /\ UNCHANGED subscriptions \/ (state = "CONNECTING" /\ subscriptions' = {})
         /\ state # "CONNECTING" => UNCHANGED <<state, subscriptions>>
<1>1. ASSUME SM!ReceiveBase(p) \/ SM!Fail PROVE UNCHANGED state
  BY <1>1 DEF SM!ReceiveBase, SM!ReceivePublish, SM!ReceivePubAck, SM!ReceivePubRec,
     SM!ReceivePubRel, SM!ReceivePubComp, SM!ReceiveDisconnect, SM!ReceiveAuth,
     SM!Fail, SM!baseVars
<1>2. (UNCHANGED SM!clientVars) => UNCHANGED <<subscriptions, subscription_counts>>
  BY DEF SM!clientVars
<1>3. ASSUME SM!ReceivePingResp(p) \/ SM!ReceiveSubAck(p) \/ SM!ReceiveUnsubAck(p)
      PROVE  UNCHANGED <<state, subscriptions, subscription_counts>>
  BY <1>3 DEF SM!ReceivePingResp, SM!ReceiveSubAck, SM!ReceiveUnsubAck,
     SM!ReceiveRequestAck, SM!vars, SM!baseVars, SM!clientVars
<1>4. ASSUME SM!Accepts(SM!ClientAccepting, p), SM!ReceiveConnAck(p)
      PROVE  /\ state = "CONNECTING" /\ UNCHANGED subscription_counts
             /\ subscriptions' = {} \/ UNCHANGED subscriptions
  <2>1. state = "CONNECTING"
    BY <1>4, Accepted DEF SM!ReceiveConnAck
  <2> QED BY <1>4, <2>1 DEF SM!ReceiveConnAck, SM!clientVars
<1>5. CASE SM!ReceiveRefused(p)
  BY <1>1, <1>2, <1>5, Zenon DEF SM!ReceiveRefused
<1>6. CASE SM!ReceiveAccepted(p)
  BY <1>1, <1>2, <1>3, <1>4, <1>6, Zenon DEF SM!ReceiveAccepted
<1> QED BY <1>5, <1>6 DEF SM!Receive

-----------------------------------------------------------------------------
(* The steps of an open client                                             *)

Open == Lasting /\ Shared /\ Agreed
OpenInv == OrderInv /\ NothingPending /\ IsFiniteSet(Users) /\ Open

LEMMA CountsAre ==
  ASSUME Types
  PROVE  /\ subscription_counts \in [Patterns -> Int]
         /\ subscriptions \in SUBSET Patterns
         /\ patterns \in [Tasks -> SUBSET Patterns]
         /\ b2c \in Seq(Inbound)
BY DEF Types, P!Ind, P!ClientInv, ContextTypes, NetTypes

\* Fewer users, of the same patterns, need no more counting.
LEMMA SharedKept ==
  ASSUME Types, IsFiniteSet(Users), Shared, UNCHANGED <<subscriptions, subscription_counts>>,
         Users' \subseteq Users, \A t \in Users' : patterns'[t] = patterns[t],
         state' # "CONNECTED" => subscriptions = {}
  PROVE  Shared'
<1>1. ASSUME NEW p \in Patterns
      PROVE  subscription_counts[p] >= Cardinality(UsersOf(p)')
  <2>1. UsersOf(p)' \subseteq UsersOf(p) /\ UsersOf(p) \subseteq Users
    BY DEF UsersOf
  <2>2. IsFiniteSet(UsersOf(p)) /\ IsFiniteSet(UsersOf(p)')
    BY <2>1, FS_Subset
  <2>3. /\ Cardinality(UsersOf(p)) \in Nat /\ Cardinality(UsersOf(p)') \in Nat
        /\ Cardinality(UsersOf(p)') <= Cardinality(UsersOf(p))
    BY <2>1, <2>2, FS_Subset, FS_CardinalityType
  <2>4. subscription_counts[p] \in Int /\ subscription_counts[p] >= Cardinality(UsersOf(p))
    BY CountsAre DEF Shared
  <2> QED BY <2>3, <2>4
<1> QED BY <1>1 DEF Shared

\* A step away from the state machine and from what is on its way to the broker
LEMMA StillOpen ==
  ASSUME OpenInv, Ind', Next, ~Enters,
         UNCHANGED <<smVars, sending, c2b, granted, link, connects>>, b2c' \in Seq(Steady),
         reader' # "ended", manager' = "connecting" => manager = "connecting"
  PROVE  Open'
<1>1. /\ Ind /\ Types /\ IsFiniteSet(Users) /\ Lasting /\ Shared /\ Agreed
      /\ UNCHANGED <<state, out_buffer, subscriptions, subscription_counts>>
  BY DEF OpenInv, OrderInv, Open, smVars
<1>2. Lasting'
  BY <1>1 DEF Lasting, Calm
<1>3. Shared'
  <2>1. state' # "CONNECTED" => subscriptions = {}
    BY <1>1 DEF Shared
  <2> QED BY <1>1, <2>1, UsersStay, SharedKept
<1>4. Agreed'
  BY <1>1, PromiseKept DEF Agreed
<1> QED BY <1>2, <1>3, <1>4 DEF Open

LEMMA TakeOutboundOpen ==
  ASSUME OpenInv, Ind', Next, ~Enters, NEW w \in Workers, TakeOutbound(w)
  PROVE  Open'
<1>1. Ind /\ Types /\ IsFiniteSet(Users) /\ Lasting /\ Shared /\ Agreed
  BY DEF OpenInv, OrderInv, Open
<1>2. /\ UNCHANGED <<manager, link, c2b, b2c, connects>>
      /\ UNCHANGED <<state, subscriptions, subscription_counts>>
  BY DEF TakeOutbound, netVars, counters, smVars, SM!Flush, SM!GetOutboundData, SM!clientVars
<1>3. reader' # "ended"
  BY <1>1, Zenon DEF TakeOutbound, Flushed, Lasting
<1>4. Calm'
  <2>1. CASE UNCHANGED <<smVars, sending>>
    BY <1>1, <1>2, <2>1 DEF Lasting, Calm, smVars
  <2>2. CASE SM!Flush /\ sending' = [sending EXCEPT ![w] = out_buffer]
    <3>1. out_buffer' = <<>> /\ <<>> \in Seq(Steady)
      BY <2>2, EmptySeq DEF SM!Flush, SM!GetOutboundData
    <3>2. \A v \in Workers : sending'[v] \in Seq(Steady)
      BY <1>1, <2>2 DEF Lasting, Calm, Ind, LockInv, Shape
    <3> QED BY <1>1, <1>2, <3>1, <3>2 DEF Lasting, Calm
  <2> QED BY <2>1, <2>2, Zenon DEF TakeOutbound
<1>5. Lasting'
  BY <1>1, <1>2, <1>3, <1>4 DEF Lasting
<1>6. Shared'
  <2>1. state' # "CONNECTED" => subscriptions = {}
    BY <1>1, <1>2 DEF Shared
  <2> QED BY <1>1, <1>2, <2>1, UsersStay, SharedKept
<1>7. Agreed'
  BY <1>1, <1>2, TakeOutboundPromise DEF Agreed
<1> QED BY <1>5, <1>6, <1>7 DEF Open

LEMMA SendOutboundOpen ==
  ASSUME OpenInv, Ind', Next, ~Enters, NEW w \in Workers, SendOutbound(w)
  PROVE  Open'
<1>1. Ind /\ Types /\ IsFiniteSet(Users) /\ Lasting /\ Shared /\ Agreed
  BY DEF OpenInv, OrderInv, Open
<1>2. /\ UNCHANGED <<smVars, manager, link, b2c, granted, connects>>
      /\ UNCHANGED <<state, subscriptions, subscription_counts, out_buffer>>
  BY DEF SendOutbound, counters, smVars
<1>3. /\ link = "open" /\ sending[w] # <<>> /\ c2b' = c2b \o sending[w]
      /\ sending' = [sending EXCEPT ![w] = <<>>] /\ Flushed(w)
  <2>1. link \notin {"eof", "reset", "closed"}
    BY <1>1 DEF Lasting
  <2> QED BY <2>1 DEF SendOutbound
<1>4. reader' # "ended"
  BY <1>1, <1>3 DEF Flushed, Lasting
<1>5. Calm'
  <2>1. c2b \o sending[w] \in Seq(Steady) /\ <<>> \in Seq(Steady)
    BY <1>1, ConcatProperties, EmptySeq DEF Lasting, Calm
  <2>2. \A v \in Workers : sending'[v] \in Seq(Steady)
    BY <1>1, <1>3, <2>1 DEF Lasting, Calm, Ind, LockInv, Shape
  <2> QED BY <1>1, <1>2, <1>3, <2>1, <2>2 DEF Lasting, Calm
<1>6. Lasting'
  BY <1>1, <1>2, <1>4, <1>5 DEF Lasting
<1>7. Shared'
  <2>1. state' # "CONNECTED" => subscriptions = {}
    BY <1>1, <1>2 DEF Shared
  <2> QED BY <1>1, <1>2, <2>1, UsersStay, SharedKept
<1>8. Agreed'
  BY <1>1, <1>2, <1>3, SendOutboundPromise DEF Agreed
<1> QED BY <1>6, <1>7, <1>8 DEF Open

\* A call of a task encodes packets and changes nothing else that lasts.
LEMMA CallLasts ==
  ASSUME Lasting, UNCHANGED <<main, manager, reader, sending, link, c2b, b2c, connects>>,
         out_buffer' \in Seq(Steady)
  PROVE  Lasting'
BY DEF Lasting, Calm

\* What AddPending encodes
LEMMA RequestCalm ==
  ASSUME Calm, NEW p \in {r \in SM!Publishes : r.qos > 0} \cup SM!SubscriptionRequests,
         SM!AddPending(p, TRUE)
  PROVE  out_buffer' \in Seq(Steady)
<1>1. p \in Steady /\ SM!InUse(p) \in Steady /\ out_buffer \in Seq(Steady)
  BY RefusalNeutral DEF Calm, Neutral
<1>2. Append(out_buffer, p) \in Seq(Steady)
  BY <1>1, AppendProperties
<1>3. Append(Append(out_buffer, p), SM!InUse(p)) \in Seq(Steady)
  BY <1>1, <1>2, AppendProperties
<1> QED BY <1>2, <1>3 DEF SM!AddPending

LEMMA CallPublishOpen ==
  ASSUME OpenInv, Ind', Next, ~Enters, NEW t \in Publishers, NEW q \in 0 .. 2,
         CallPublish(t, q)
  PROVE  Open'
<1>1. /\ Ind /\ Types /\ IsFiniteSet(Users) /\ Lasting /\ Shared /\ Agreed
      /\ next_packet_id \in SM!PacketIds
  BY SameSets DEF OpenInv, OrderInv, Open, Types, P!Ind, P!ClientInv
<1>2. /\ UNCHANGED <<main, manager, reader, sending, link, c2b, b2c, granted, connects>>
      /\ SM!Publish(called', q)
      /\ UNCHANGED <<state, subscriptions, subscription_counts>>
  BY DEF CallPublish, Run, readerVars, netVars, SM!Publish
<1>3. called' \in Messages
  BY CallsAssumption DEF CallPublish, OpenInv, OrderInv, Types, CallTypes
<1>4. out_buffer' \in Seq(Steady) /\ Promised' = Promised
  <2>1. CASE q = 0
    <3> DEFINE e == SM!PublishPacket(called', 0, 0)
    <3>1. e \in Neutral
      BY <1>3 DEF SM!PublishPacket, SM!Publishes, SM!Packets, Neutral, Steady
    <3>2. out_buffer' = Append(out_buffer, e)
      BY <1>2, <2>1 DEF SM!Publish, SM!Send
    <3> HIDE DEF e
    <3>3. e \in Steady /\ e \in SM!Packets /\ out_buffer \in Seq(Steady)
      BY <1>1, <3>1 DEF Neutral, Steady, Lasting, Calm
    <3>4. out_buffer' \in Seq(Steady)
      BY <3>2, <3>3, AppendProperties
    <3>5. Promised' = Promised
      BY <1>1, <1>2, <3>1, <3>2, <3>3, PromiseSent
    <3> QED BY <3>4, <3>5
  <2>2. CASE q # 0
    <3> DEFINE p == SM!PublishPacket(called', q, next_packet_id)
    <3>1. p \in {r \in SM!Publishes : r.qos > 0} /\ p.type = "PUBLISH"
      BY <1>1, <1>3, <2>2 DEF SM!PublishPacket, SM!Publishes
    <3>2. SM!AddPending(p, TRUE)
      BY <1>2, <2>2 DEF SM!Publish
    <3> HIDE DEF p
    <3>3. out_buffer' \in Seq(Steady)
      BY <1>1, <3>1, <3>2, RequestCalm DEF Lasting
    <3>4. Promised' = GrantedAfter(Promised, p)
      BY <1>1, <1>2, <3>1, <3>2, PromiseRequested
    <3> QED BY <3>1, <3>3, <3>4 DEF GrantedAfter
  <2> QED BY <2>1, <2>2
<1>5. Lasting'
  BY <1>1, <1>2, <1>4, CallLasts
<1>6. Shared'
  <2>1. state' # "CONNECTED" => subscriptions = {}
    BY <1>1, <1>2 DEF Shared
  <2> QED BY <1>1, <1>2, <2>1, UsersStay, SharedKept
<1>7. Agreed'
  BY <1>1, <1>2, <1>4 DEF Agreed
<1> QED BY <1>5, <1>6, <1>7 DEF Open

LEMMA RequestType ==
  ASSUME NEW type \in {"SUBSCRIBE", "UNSUBSCRIBE"}, NEW id \in SM!PacketIds,
         NEW S \in SUBSET Patterns, S # {}
  PROVE  [type |-> type, packet_id |-> id, patterns |-> S] \in SM!SubscriptionRequests
BY DEF SM!SubscriptionRequests

\* What a subscribe() asks for is subscribed to, counted and promised.
LEMMA EnterContextOpen ==
  ASSUME OpenInv, Ind', Next, NEW t \in Subscribers, NEW S \in PatternSets,
         EnterContext(t, S)
  PROVE  Open'
<1>1. /\ Ind /\ Types /\ IsFiniteSet(Users) /\ Lasting /\ Shared /\ Agreed
      /\ next_packet_id \in SM!PacketIds /\ S \in SUBSET Patterns
  BY SameSets, CallsAssumption DEF OpenInv, OrderInv, Open, Types, P!Ind, P!ClientInv
<1>2. /\ UNCHANGED <<main, manager, reader, sending, link, c2b, b2c, granted, connects>>
      /\ SM!Subscribe(S)
  BY DEF EnterContext, Run, readerVars, netVars, lockVars
<1>3. /\ UNCHANGED state /\ state = "CONNECTED"
      /\ subscriptions' = subscriptions \cup S
      /\ subscription_counts' = [p \in Patterns |->
            IF p \in S \ subscriptions THEN 1
            ELSE subscription_counts[p] + (IF p \in S THEN 1 ELSE 0)]
  BY <1>2, Zenon DEF SM!Subscribe
<1>4. /\ t \in Tasks /\ t \notin Users /\ Users' = Users \cup {t} /\ patterns'[t] = S
      /\ \A u \in Users : patterns'[u] = patterns[u]
  BY <1>1, UsersEnter
<1>5. out_buffer' \in Seq(Steady) /\ Promised \subseteq Promised'
      /\ S \ subscriptions \subseteq Promised'
  <2>1. CASE S \ subscriptions = {}
    <3>1. UNCHANGED out_buffer
      BY <1>2, <2>1 DEF SM!Subscribe
    <3>2. Promised' = Promised
      BY <1>1, <1>2, <3>1, PromiseKept
    <3> QED BY <1>1, <2>1, <3>1, <3>2 DEF Lasting, Calm
  <2>2. CASE S \ subscriptions # {}
    <3> DEFINE p == [type |-> "SUBSCRIBE", packet_id |-> next_packet_id,
                     patterns |-> S \ subscriptions]
    <3>1. p \in SM!SubscriptionRequests
      BY <1>1, <2>2, RequestType
    <3>2. SM!AddPending(p, TRUE)
      BY <1>2, <2>2 DEF SM!Subscribe
    <3>3. p.type = "SUBSCRIBE" /\ p.patterns = S \ subscriptions
      OBVIOUS
    <3> HIDE DEF p
    <3>4. out_buffer' \in Seq(Steady)
      BY <1>1, <3>1, <3>2, RequestCalm DEF Lasting
    <3>5. Promised' = GrantedAfter(Promised, p)
      BY <1>1, <1>2, <3>1, <3>2, PromiseRequested
    <3>6. Promised' = Promised \cup (S \ subscriptions)
      BY <3>3, <3>5 DEF GrantedAfter
    <3> QED BY <3>4, <3>6
  <2> QED BY <2>1, <2>2
<1>6. Lasting'
  BY <1>1, <1>2, <1>5, CallLasts
<1>7. Agreed'
  BY <1>1, <1>3, <1>5 DEF Agreed
<1>8. ASSUME NEW p \in Patterns
      PROVE  subscription_counts'[p] >= Cardinality(UsersOf(p)')
  <2>1. /\ UsersOf(p) \subseteq Users /\ t \notin UsersOf(p)
        /\ UsersOf(p)' = IF p \in S THEN UsersOf(p) \cup {t} ELSE UsersOf(p)
    BY <1>4 DEF UsersOf
  <2>2. IsFiniteSet(UsersOf(p)) /\ Cardinality(UsersOf(p)) \in Nat
    BY <1>1, <2>1, FS_Subset, FS_CardinalityType
  <2>3. Cardinality(UsersOf(p) \cup {t}) = Cardinality(UsersOf(p)) + 1
    BY <2>1, <2>2, FS_AddElement
  <2>4. subscription_counts[p] \in Int /\ subscription_counts[p] >= Cardinality(UsersOf(p))
    BY <1>1, CountsAre DEF Shared
  <2>5. p \in S \ subscriptions => Cardinality(UsersOf(p)) = 0
    <3>1. ASSUME p \in S \ subscriptions PROVE UsersOf(p) = {}
      BY <1>1, <3>1 DEF Shared, UsersOf
    <3> QED BY <3>1, FS_EmptySet
  <2>6. CASE p \in S \ subscriptions
    <3>1. subscription_counts'[p] = 1 /\ Cardinality(UsersOf(p)') = 1
      BY <1>3, <2>1, <2>3, <2>5, <2>6
    <3> QED BY <3>1
  <2>7. CASE p \in S /\ p \in subscriptions
    <3>1. /\ subscription_counts'[p] = subscription_counts[p] + 1
          /\ Cardinality(UsersOf(p)') = Cardinality(UsersOf(p)) + 1
      BY <1>3, <2>1, <2>3, <2>7
    <3> QED BY <2>2, <2>4, <3>1
  <2>8. CASE p \notin S
    <3>1. /\ subscription_counts'[p] = subscription_counts[p] + 0
          /\ UsersOf(p)' = UsersOf(p)
      BY <1>3, <2>1, <2>8
    <3> QED BY <2>2, <2>4, <3>1
  <2> QED BY <2>6, <2>7, <2>8
<1>9. Shared'
  <2>1. state' = "CONNECTED"
    BY <1>3
  <2>2. \A u \in Users' : patterns'[u] \subseteq subscriptions'
    BY <1>1, <1>3, <1>4 DEF Shared
  <2> QED BY <1>8, <2>1, <2>2 DEF Shared
<1> QED BY <1>6, <1>7, <1>9 DEF Open

\* A pattern that is counted once has no user but one.
LEMMA LastUserAlone ==
  ASSUME Types, IsFiniteSet(Users), Shared, NEW t \in Users, NEW p \in patterns[t],
         p \in Patterns
  PROVE  /\ IsFiniteSet(UsersOf(p)) /\ Cardinality(UsersOf(p)) \in Nat
         /\ Cardinality(UsersOf(p) \ {t}) = Cardinality(UsersOf(p)) - 1
         /\ subscription_counts[p] \in Int
         /\ subscription_counts[p] >= Cardinality(UsersOf(p))
         /\ subscription_counts[p] = 1 => UsersOf(p) \subseteq {t}
<1>1. UsersOf(p) \subseteq Users /\ t \in UsersOf(p)
  BY DEF UsersOf
<1>2. IsFiniteSet(UsersOf(p)) /\ Cardinality(UsersOf(p)) \in Nat
  BY <1>1, FS_Subset, FS_CardinalityType
<1>3. /\ IsFiniteSet(UsersOf(p) \ {t})
      /\ Cardinality(UsersOf(p) \ {t}) = Cardinality(UsersOf(p)) - 1
  BY <1>1, <1>2, FS_RemoveElement
<1>4. subscription_counts[p] \in Int /\ subscription_counts[p] >= Cardinality(UsersOf(p))
  BY CountsAre DEF Shared
<1>5. ASSUME subscription_counts[p] = 1 PROVE UsersOf(p) \subseteq {t}
  <2>1. Cardinality(UsersOf(p) \ {t}) \in Nat
    BY <1>3, FS_CardinalityType
  <2>2. Cardinality(UsersOf(p) \ {t}) = 0
    BY <1>2, <1>3, <1>4, <1>5, <2>1
  <2>3. UsersOf(p) \ {t} = {}
    BY <1>3, <2>2, FS_EmptySet
  <2> QED BY <2>3
<1> QED BY <1>2, <1>3, <1>4, <1>5

\* unsubscribe() for a user finds all its patterns; those it drops have no other user.
LEMMA UnsubscribeOpen ==
  ASSUME OpenInv, Ind', NEW t \in Users, SM!Unsubscribe(patterns[t]), t \in Tasks,
         UNCHANGED <<main, manager, reader, sending, link, c2b, b2c, granted, connects>>,
         Users' = Users \ {t}, \A u \in Users' : patterns'[u] = patterns[u]
  PROVE  Open'
<1> DEFINE S == patterns[t]
           last == {p \in S : subscription_counts[p] = 1}
<1>1. /\ Ind /\ Types /\ IsFiniteSet(Users) /\ Lasting /\ Shared /\ Agreed
      /\ next_packet_id \in SM!PacketIds /\ S \in SUBSET Patterns
      /\ subscription_counts \in [Patterns -> Int]
  BY SameSets, CountsAre DEF OpenInv, OrderInv, Open, Types, P!Ind, P!ClientInv
<1>2. S \subseteq subscriptions /\ last \ subscriptions = {}
  BY <1>1 DEF Shared
<1>3. /\ state = "CONNECTED" /\ UNCHANGED state
      /\ subscription_counts' = SM!CountDown(S) /\ subscriptions' = subscriptions \ last
      /\ \/ last = {} /\ UNCHANGED out_buffer
         \/ /\ last # {}
            /\ SM!AddPending([type |-> "UNSUBSCRIBE", packet_id |-> next_packet_id,
                              patterns |-> last], TRUE)
  BY <1>2 DEF SM!Unsubscribe
<1>4. last \in SUBSET Patterns
  BY <1>1
<1> HIDE DEF last
<1>5. out_buffer' \in Seq(Steady) /\ Promised \ last \subseteq Promised'
  <2>1. CASE last = {} /\ UNCHANGED out_buffer
    <3>1. Promised' = Promised
      BY <1>1, <2>1, PromiseKept
    <3> QED BY <1>1, <2>1, <3>1 DEF Lasting, Calm
  <2>2. CASE /\ last # {}
             /\ SM!AddPending([type |-> "UNSUBSCRIBE", packet_id |-> next_packet_id,
                               patterns |-> last], TRUE)
    <3> DEFINE p == [type |-> "UNSUBSCRIBE", packet_id |-> next_packet_id,
                     patterns |-> last]
    <3>1. p \in SM!SubscriptionRequests
      BY <1>1, <1>4, <2>2, RequestType
    <3>2. SM!AddPending(p, TRUE) /\ p.type = "UNSUBSCRIBE" /\ p.patterns = last
      BY <2>2
    <3> HIDE DEF p
    <3>3. out_buffer' \in Seq(Steady)
      BY <1>1, <3>1, <3>2, RequestCalm DEF Lasting
    <3>4. Promised' = GrantedAfter(Promised, p)
      BY <1>1, <3>1, <3>2, PromiseRequested
    <3>5. Promised' = Promised \ last
      BY <3>2, <3>4 DEF GrantedAfter
    <3> QED BY <3>3, <3>5
  <2> QED BY <1>3, <2>1, <2>2
<1>6. Lasting'
  BY <1>1, <1>5, CallLasts
<1>7. Agreed'
  BY <1>1, <1>3, <1>5 DEF Agreed
<1>8. ASSUME NEW u \in Users' PROVE patterns'[u] \subseteq subscriptions'
  <2>1. u \in Users /\ u # t /\ patterns'[u] = patterns[u]
    BY <1>8
  <2>2. patterns[u] \subseteq subscriptions
    BY <1>1, <2>1 DEF Shared
  <2>3. ASSUME NEW p \in last, p \in patterns[u] PROVE FALSE
    <3>1. p \in S /\ p \in Patterns /\ subscription_counts[p] = 1
      BY <1>1 DEF last
    <3>2. UsersOf(p) \subseteq {t}
      BY <1>1, <3>1, LastUserAlone
    <3> QED BY <2>1, <2>3, <3>2 DEF UsersOf
  <2> QED BY <1>3, <2>1, <2>2, <2>3
<1>9. ASSUME NEW p \in Patterns
      PROVE  subscription_counts'[p] >= Cardinality(UsersOf(p)')
  <2>1. UsersOf(p)' = UsersOf(p) \ {t}
    BY DEF UsersOf
  <2>2. CASE p \in S
    <3>1. /\ Cardinality(UsersOf(p)') = Cardinality(UsersOf(p)) - 1
          /\ Cardinality(UsersOf(p)) \in Nat /\ subscription_counts[p] \in Int
          /\ subscription_counts[p] >= Cardinality(UsersOf(p))
      BY <1>1, <2>1, <2>2, LastUserAlone
    <3>2. subscription_counts'[p] = IF subscription_counts[p] = 1 THEN 0
                                    ELSE subscription_counts[p] - 1
      BY <1>3, <2>2 DEF SM!CountDown
    <3> QED BY <3>1, <3>2
  <2>3. CASE p \notin S
    <3>1. UsersOf(p)' = UsersOf(p)
      BY <2>1, <2>3 DEF UsersOf
    <3>2. subscription_counts'[p] = subscription_counts[p]
      BY <1>3, <2>3 DEF SM!CountDown
    <3> QED BY <1>1, <3>1, <3>2 DEF Shared
  <2> QED BY <2>2, <2>3
<1>10. Shared'
  <2>1. state' = "CONNECTED"
    BY <1>3
  <2> QED BY <1>8, <1>9, <2>1 DEF Shared
<1> QED BY <1>6, <1>7, <1>10 DEF Open

LEMMA LeaveContextOpen ==
  ASSUME OpenInv, Ind', Next, ~Enters, NEW t \in Tasks, LeaveContext(t)
  PROVE  Open'
<1>1. /\ Types /\ Lasting /\ where \in [Tasks -> {"out", "entering", "in", "leaving"}]
  BY DEF OpenInv, OrderInv, Open, Types, ContextTypes
<1>2. /\ UNCHANGED <<main, manager, reader, sending, link, c2b, b2c, granted, connects>>
      /\ where[t] = "in"
  BY DEF LeaveContext, Run, readerVars, netVars, lockVars, counters
<1>3. Users' = Users \ {t}
  <2>1. where' = [where EXCEPT ![t] = "leaving"] \/ where' = [where EXCEPT ![t] = "out"]
    BY Zenon DEF LeaveContext, Close
  <2> QED BY <1>1, <2>1, UsersLeave
<1>4. CASE SM!Unsubscribe(patterns[t])
  <2>1. t \in Users /\ \A u \in Users' : patterns'[u] = patterns[u]
    BY <1>1, <1>2, UsersStay DEF Users
  <2> QED BY <1>2, <1>3, <1>4, <2>1, UnsubscribeOpen
<1>5. CASE UNCHANGED smVars
  BY <1>1, <1>2, <1>5, StillOpen DEF Lasting, Calm
<1> QED BY <1>4, <1>5, Zenon DEF LeaveContext

\* The first connection opens.
LEMMA EstablishOpen ==
  ASSUME OpenInv, Ind', Next, ~Enters, Establish
  PROVE  Open'
<1>1. /\ Ind /\ Types /\ Fresh /\ IsFiniteSet(Users) /\ Lasting /\ Shared /\ Agreed
  BY DEF OpenInv, OrderInv, Open
<1>2. /\ connects = 0 /\ connects' = connects + 1 /\ link' = "open"
      /\ c2b' = <<>> /\ b2c' = <<>> /\ reader' = "reading"
  BY <1>1 DEF Establish, Lasting
<1>3. state = "DISCONNECTED" /\ out_buffer = <<>> /\ \A w \in Workers : sending[w] = <<>>
  BY <1>1, <1>2 DEF Fresh
<1>4. SM!Connect(TRUE) /\ manager' = "handshake" /\ UNCHANGED sending
  BY <1>3 DEF Establish, Run
<1>5. /\ state' = "CONNECTING" /\ UNCHANGED <<subscriptions, subscription_counts>>
      /\ out_buffer' = Append(out_buffer, [type |-> "CONNECT", clean_start |-> TRUE])
  BY <1>4 DEF SM!Connect, SM!Send, SM!clientVars
<1>6. subscriptions = {}
  BY <1>1, <1>3 DEF Shared
<1>7. out_buffer' \in Seq(Steady) /\ <<>> \in Seq(Steady)
  <2>1. [type |-> "CONNECT", clean_start |-> TRUE] \in Steady
    BY DEF SM!Packets, SM!Handshakes, Steady
  <2> QED BY <1>1, <1>5, <2>1, AppendProperties, EmptySeq DEF Lasting, Calm
<1>8. Lasting'
  BY <1>1, <1>2, <1>4, <1>7 DEF Lasting, Calm
<1>9. Shared'
  BY <1>1, <1>5, <1>6, UsersStay, SharedKept
<1>10. Agreed'
  BY <1>5, <1>6 DEF Agreed
<1> QED BY <1>8, <1>9, <1>10 DEF Open

\* The reader feeds the state machine a packet.
LEMMA FeedOpen ==
  ASSUME OpenInv, Ind', Next, ~Enters, Feed
  PROVE  Open'
<1>1. /\ Ind /\ Types /\ IsFiniteSet(Users) /\ Lasting /\ Shared /\ Agreed
  BY DEF OpenInv, OrderInv, Open
<1>2. /\ b2c # <<>> /\ SM!Receive(Head(b2c)) /\ b2c' = Tail(b2c)
      /\ UNCHANGED <<manager, sending, link, c2b, granted, connects>>
      /\ reader' \in {"feeding", "flushing"}
  BY DEF Feed, counters
<1>3. Head(b2c) \in Steady /\ b2c' \in Seq(Steady)
  BY <1>1, <1>2, TailElements DEF Lasting, Calm
<1>4. PICK p \in SM!Packets : p = Head(b2c) /\ p.type # "DISCONNECT"
  BY <1>3 DEF Steady
<1>5. out_buffer \in Seq(SM!Packets) /\ (state = "CONNECTING" => pending = <<>>)
  BY <1>1, WayTypes DEF OpenInv, NothingPending, Lasting
<1>6. UNCHANGED out_buffer \/ \E e \in Neutral : out_buffer' = Append(out_buffer, e)
  BY <1>2, <1>4, <1>5, ReceiveSends
<1>7. /\ UNCHANGED subscription_counts
      /\ UNCHANGED subscriptions \/ (state = "CONNECTING" /\ subscriptions' = {})
      /\ state # "CONNECTING" => UNCHANGED <<state, subscriptions>>
  BY <1>2, <1>4, ReceiveKeeps
<1>8. UNCHANGED subscriptions /\ (state' # "CONNECTED" => subscriptions = {})
  BY <1>1, <1>7 DEF Shared
<1>9. out_buffer' \in Seq(Steady) /\ Promised' = Promised
  <2>1. CASE UNCHANGED out_buffer
    <3>1. Promised' = Promised
      BY <1>1, <1>2, <2>1, PromiseKept
    <3> QED BY <1>1, <2>1, <3>1 DEF Lasting, Calm
  <2>2. ASSUME NEW e \in Neutral, out_buffer' = Append(out_buffer, e)
        PROVE  out_buffer' \in Seq(Steady) /\ Promised' = Promised
    <3>1. e \in Steady /\ e \in SM!Packets /\ out_buffer \in Seq(Steady)
      BY <1>1 DEF Neutral, Steady, Lasting, Calm
    <3>2. out_buffer' \in Seq(Steady)
      BY <2>2, <3>1, AppendProperties
    <3>3. Promised' = Promised
      BY <1>1, <1>2, <2>2, <3>1, PromiseSent
    <3> QED BY <3>2, <3>3
  <2> QED BY <1>6, <2>1, <2>2
<1>10. Lasting'
  BY <1>1, <1>2, <1>3, <1>9 DEF Lasting, Calm
<1>11. Shared'
  BY <1>1, <1>7, <1>8, UsersStay, SharedKept
<1>12. Agreed'
  BY <1>1, <1>8, <1>9 DEF Agreed
<1> QED BY <1>10, <1>11, <1>12 DEF Open

\* No answer of the broker ends the connection.
LEMMA ReplySteady ==
  ASSUME NEW p \in SM!Packets
  PROVE  Reply(p) \in Seq(Steady)
<1>1. <<>> \in Seq(Steady)
  BY EmptySeq
<1>2. ASSUME NEW e \in Inbound, Reply(p) = <<e>> PROVE Reply(p) \in Seq(Steady)
  <2>1. Reply(p)[1].type # "DISCONNECT"
    <3>1. Reply(p) # <<>>
      BY <1>2, IsASeq
    <3> QED BY <3>1 DEF Reply, SM!Ack, SM!SubAck
  <2>2. e \in Steady
    BY <1>2, <2>1 DEF Inbound, Steady
  <2> QED BY <1>2, <2>2, IsASeq
<1> QED BY <1>1, <1>2, ReplyTypes

LEMMA BrokerHandleOpen ==
  ASSUME Undisturbed, OpenInv, Ind', Next, ~Enters, BrokerHandle
  PROVE  Open'
<1>1. /\ Ind /\ Types /\ IsFiniteSet(Users) /\ Lasting /\ Shared /\ Agreed
  BY DEF OpenInv, OrderInv, Open
<1>2. /\ c2b # <<>> /\ c2b' = Tail(c2b)
      /\ UNCHANGED <<manager, reader, sending, connects, smVars>>
      /\ UNCHANGED <<state, subscriptions, subscription_counts, out_buffer>>
  BY DEF BrokerHandle, lockVars, readerVars, smVars
<1>3. Head(c2b) \in Steady /\ c2b' \in Seq(Steady)
  BY <1>1, <1>2, TailElements DEF Lasting, Calm
<1>4. b2c' = b2c \o Reply(Head(c2b)) /\ UNCHANGED link
  <2>1. "refuse" \notin Faults /\ Head(c2b).type # "DISCONNECT"
    BY <1>3 DEF Undisturbed, Steady
  <2> QED BY <2>1 DEF BrokerHandle
<1>5. b2c' \in Seq(Steady)
  <2>1. Reply(Head(c2b)) \in Seq(Steady)
    BY <1>3, ReplySteady DEF Steady
  <2>2. b2c \in Seq(Steady)
    BY <1>1 DEF Lasting, Calm
  <2> QED BY <1>4, <2>1, <2>2, ConcatProperties
<1>6. Lasting'
  BY <1>1, <1>2, <1>3, <1>4, <1>5 DEF Lasting, Calm
<1>7. Shared'
  <2>1. state' # "CONNECTED" => subscriptions = {}
    BY <1>1, <1>2 DEF Shared
  <2> QED BY <1>1, <1>2, <2>1, UsersStay, SharedKept
<1>8. Agreed'
  BY <1>1, <1>2, BrokerHandlePromise DEF Agreed
<1> QED BY <1>6, <1>7, <1>8 DEF Open

-----------------------------------------------------------------------------
(* The invariant                                                           *)

LEMMA OpenStep ==
  ASSUME Undisturbed, OpenInv, Ind', Next, ~Closed, ~Closed'
  PROVE  Open'
<1>1. Lasting /\ Types
  BY DEF OpenInv, OrderInv, Open
<1>2. b2c \in Seq(Steady) /\ reader # "ended" /\ link \in {"none", "open"}
  BY <1>1 DEF Lasting, Calm
<1>3. ASSUME ~Enters,
             UNCHANGED <<smVars, sending, c2b, granted, link, connects>>, b2c' \in Seq(Steady),
             reader' # "ended", manager' = "connecting" => manager = "connecting"
      PROVE  Open'
  BY <1>3, StillOpen
<1>4. NextPacket => reader' # "ended"
  BY DEF NextPacket
<1>5. ASSUME NEW t \in Subscribers, NEW S \in PatternSets, EnterContext(t, S) PROVE Open'
  BY <1>5, EnterContextOpen
<1>6. ASSUME ~Enters, Handle PROVE Open'
  <2>1. /\ UNCHANGED <<smVars, sending, c2b, granted, link, connects, b2c, manager>>
        /\ NextPacket \/ reader' = "delivering" \/ UNCHANGED reader
    BY <1>6, Zenon DEF Handle, HandleAnswer, HandleConnAck, HandlePublish, HandleOther,
       lockVars, netVars, counters
  <2> QED BY <1>2, <1>3, <1>4, <1>6, <2>1
<1>7. ASSUME ~Enters, NEW t \in Tasks, TakeMessage(t) \/ Return(t) \/ Deliver(t) PROVE Open'
  <2>1. UNCHANGED <<smVars, sending, c2b, granted, link, connects, b2c, manager, reader>>
    BY <1>7, Zenon DEF TakeMessage, Return, Deliver, lockVars, readerVars, netVars, counters
  <2> QED BY <1>2, <1>3, <1>7, <2>1
<1>8. ASSUME ~Enters, FinishHandshake \/ FinishDelivery PROVE Open'
  <2>1. /\ UNCHANGED <<smVars, sending, c2b, granted, link, connects, b2c>>
        /\ NextPacket \/ UNCHANGED reader
        /\ manager' = "serving" \/ UNCHANGED manager
    BY <1>8, Zenon DEF FinishHandshake, FinishDelivery, lockVars, readerVars, netVars, counters
  <2> QED BY <1>2, <1>3, <1>4, <1>8, <2>1
<1>9. ASSUME ~Enters, Exit PROVE Open'
  <2>1. UNCHANGED <<smVars, sending, c2b, granted, link, connects, b2c, manager, reader>>
    BY <1>9, Zenon DEF Exit, Closed, lockVars, readerVars, counters
  <2> QED BY <1>2, <1>3, <1>9, <2>1
<1>10. ASSUME ~Enters, BrokerPublish PROVE Open'
  <2>1. /\ UNCHANGED <<smVars, sending, c2b, granted, link, connects, manager, reader>>
        /\ delivered < Len(Incoming) /\ delivered' = delivered + 1
        /\ b2c' = Append(b2c, Incoming[delivered'])
    BY <1>10, Zenon DEF BrokerPublish, lockVars, readerVars
  <2>2. delivered' \in DOMAIN Incoming
    BY <1>1, <2>1, IncomingAssumption, DomainOfSeq DEF Types, NetTypes
  <2>3. Incoming[delivered'] \in Steady
    BY <2>2, IncomingAssumption, ElementOfSeq, DomainOfSeq DEF SM!Publishes, SM!Packets, Steady
  <2>4. b2c' \in Seq(Steady)
    BY <1>2, <2>1, <2>3, AppendProperties
  <2> QED BY <1>2, <1>3, <1>10, <2>1, <2>4
<1>11. ASSUME \/ LoopConnection \/ CloseStream \/ FinishExit \/ EndOfStream
              \/ \E t \in Tasks : CancelCall(t) \/ CancelContext(t)
              \/ \E fault \in Faults : BrokerEnds(fault)
       PROVE  FALSE
  <2>1. ~LoopConnection /\ ~EndOfStream
    BY <1>2 DEF LoopConnection, EndOfStream
  <2>2. ~CloseStream /\ ~FinishExit
    BY DEF CloseStream, FinishExit, Closed
  <2>3. \A t \in Tasks : ~CancelCall(t) /\ ~CancelContext(t)
    BY DEF Undisturbed, CancelCall, CancelContext
  <2>4. \A fault \in Faults : ~BrokerEnds(fault)
    BY DEF Undisturbed, BrokerEnds
  <2> QED BY <1>11, <2>1, <2>2, <2>3, <2>4
<1>12. ASSUME ~Enters, TasksRun PROVE Open'
  BY <1>7, <1>8, <1>9, <1>11, <1>12, TakeOutboundOpen, SendOutboundOpen, CallPublishOpen,
     LeaveContextOpen, EstablishOpen, Zenon DEF TasksRun, Enters
<1>13. ASSUME ~Enters, Environment PROVE Open'
  BY <1>10, <1>11, <1>13, BrokerHandleOpen, Zenon DEF Environment
<1>14. ASSUME ~Enters, ReaderRuns PROVE Open'
  BY <1>6, <1>14, FeedOpen, Zenon DEF ReaderRuns
<1>15. CASE ~Enters
  BY <1>12, <1>13, <1>14, <1>15, Zenon DEF Next
<1>16. CASE Enters
  BY <1>5, <1>16 DEF Enters
<1> QED BY <1>15, <1>16

LEMMA InitGrant == Init => GrantInv
<1> SUFFICES ASSUME Init PROVE GrantInv
  OBVIOUS
<1>1. OrderInv
  BY InitOrder
<1>2. NothingPending
  BY DEF Init, SM!Init, NothingPending
<1>3. Users = {} /\ ~Closed
  BY DEF Init, Users, Closed
<1>4. <<>> \in Seq(Steady)
  BY EmptySeq
<1>5. /\ out_buffer = <<>> /\ c2b = <<>> /\ b2c = <<>> /\ link = "none" /\ reader = "none"
      /\ connects = 0 /\ subscriptions = {} /\ subscription_counts = [p \in Patterns |-> 0]
      /\ \A w \in Workers : sending[w] = <<>>
  BY DEF Init, SM!Init
<1>6. Lasting
  <2>1. Calm
    BY <1>4, <1>5 DEF Calm
  <2> QED BY <1>5, <2>1 DEF Lasting
<1>7. Shared
  <2>1. \A p \in Patterns : UsersOf(p) = {} /\ subscription_counts[p] = 0
    BY <1>3, <1>5 DEF UsersOf
  <2> QED BY <1>3, <1>5, <2>1, FS_EmptySet DEF Shared
<1>8. Agreed
  BY <1>5 DEF Agreed
<1> QED BY <1>1, <1>2, <1>3, <1>6, <1>7, <1>8, FS_EmptySet DEF GrantInv

LEMMA NextGrant ==
  ASSUME Undisturbed, GrantInv, [Next]_vars
  PROVE  GrantInv'
<1>1. OrderInv /\ OrderInv'
  BY NextOrder DEF GrantInv
<1>2. CASE Next
  <2>1. NothingPending'
    BY <1>1, <1>2, NothingPendingStep DEF GrantInv, OrderInv
  <2>2. IsFiniteSet(Users') /\ (Closed' => Users' = {})
    BY <1>2, UsersStep
  <2>3. ASSUME ~Closed' PROVE Open'
    <3>1. ~Closed
      BY <1>2, <2>3, MainMoves
    <3>2. OpenInv
      BY <3>1 DEF GrantInv, OpenInv, Open
    <3> QED BY <1>1, <1>2, <2>3, <3>1, <3>2, OpenStep DEF OrderInv
  <2> QED BY <1>1, <2>1, <2>2, <2>3 DEF GrantInv, Open
<1>3. CASE UNCHANGED vars
  <2>1. UNCHANGED <<smVars, main, manager, lock, sending, reader, where, patterns, link, c2b,
                    b2c, granted, connects>>
    BY <1>3 DEF vars, lockVars, readerVars, contextVars, netVars, counters
  <2>2. UNCHANGED <<state, pending, out_buffer, subscriptions, subscription_counts>>
    BY <2>1 DEF smVars
  <2>3. NothingPending'
    BY <2>1, <2>2 DEF GrantInv, NothingPending
  <2>4. Users' = Users /\ Closed' = Closed /\ \A p : UsersOf(p)' = UsersOf(p)
    BY <2>1 DEF Users, Closed, UsersOf
  <2>5. Held' = Held
    BY <2>1 DEF Held
  <2>6. Promised' = Promised
    BY <2>1, <2>2, <2>5 DEF Promised, Way
  <2>7. Lasting => Lasting'
    BY <2>1, <2>2 DEF Lasting, Calm
  <2>8. Shared => Shared'
    BY <2>1, <2>2, <2>4 DEF Shared
  <2>9. Agreed => Agreed'
    BY <2>2, <2>6 DEF Agreed
  <2> QED BY <1>1, <2>3, <2>4, <2>7, <2>8, <2>9 DEF GrantInv
<1> QED BY <1>2, <1>3

(* If no call is cancelled and the broker ends no connection, the patterns *)
(* of a context a task is in are granted once what is on its way to the    *)
(* broker has arrived there, whatever contexts of any number of other      *)
(* tasks share its patterns and are entered and left in the meantime: the  *)
(* state machine counts at least the users of each pattern, so that the    *)
(* one that drops it is its last user, and what it takes for subscribed    *)
(* is granted or will be, the packets taken in their order.                *)
THEOREM ContextsGranted ==
  ASSUME Undisturbed
  PROVE  Spec => []ContextGranted
<1>1. ASSUME GrantInv PROVE ContextGranted
  <2>1. ASSUME NEW t \in Tasks, where[t] = "in" PROVE patterns[t] \subseteq Promised
    <3>1. t \in Users
      BY <2>1 DEF Users
    <3>2. Shared /\ Agreed
      BY <1>1, <3>1 DEF GrantInv
    <3> QED BY <3>1, <3>2 DEF Shared, Agreed
  <2>2. Promised = FoldLeft(GrantedAfter, granted, c2b \o Held \o out_buffer)
    BY DEF Promised, Granting, Way
  <2> QED BY <2>1, <2>2 DEF ContextGranted, Held
<1>2. GrantInv /\ [Next]_vars => GrantInv'
  BY NextGrant
<1> QED BY <1>1, <1>2, InitGrant, PTL DEF Spec
=============================================================================
