----------------------- MODULE SessionRuntime_proofs -----------------------
(***************************************************************************)
(* What holds of the session runtime for every value of its constants:     *)
(* crashes, failing writes and the lockless first start included.          *)
(*                                                                         *)
(* Types.  TypeOK alone is not inductive: a queued write moves the verb    *)
(* that waits for it, so the proof needs to know which verb that is        *)
(* (VerbTasks), which verbs have chosen a run, and that a redelivery has   *)
(* an attempt left (VerbInv).                                              *)
(*                                                                         *)
(* Messages.  Each is delivered and logged once (MessageInv).              *)
(***************************************************************************)
EXTENDS SessionRuntimeInv, SequenceTheorems, FiniteSetTheorems, TLAPS
USE RuntimeAssumption
    DEF TypeOK, At, Go, recordVars, runVars, memVars, endVars, turnVars, queueVars,
        bootVars, adapterVars

(* The free lock is a state of the lock.                                   *)
LEMMA FreeInOps == Free \in Ops
BY DEF Free, Ops, OpPcs, SessionStates, NoRun, NoQuestion, MAX_DELIVERY_ATTEMPTS

(* The tasks that adapter events and verbs put in the queue are tasks, of  *)
(* the kind and the run they were made for.                                *)
LEMMA TaskFacts ==
  ASSUME NEW r \in Runs,
         NEW k \in {"message", "answered", "turn", "question", "unasked", "ended"}
  PROVE  /\ Task(k, r) \in Tasks /\ Task(k, r).kind = k /\ Task(k, r).run = r
         /\ \A n \in Nat : LET t == [Task(k, r) EXCEPT !.count = n] IN
               t \in Tasks /\ t.kind = k /\ t.run = r
         /\ \A q \in Questions \union {NoQuestion} : LET t == [Task(k, r) EXCEPT !.ask = q] IN
               t \in Tasks /\ t.kind = k /\ t.run = r
         /\ \A e \in RunEndReasons : LET t == [Task(k, r) EXCEPT !.reason = e] IN
               t \in Tasks /\ t.kind = k /\ t.run = r
BY DEF Task, Tasks, RunEndReasons

(* Enqueue appends: what waits keeps its place.                            *)
LEMMA TaskQueued ==
  ASSUME queue \in Seq(Tasks), NEW t \in Tasks, Enqueue(t)
  PROVE  /\ queue' \in Seq(Tasks)
         /\ DOMAIN queue = 1..Len(queue) /\ DOMAIN queue' = 1..(Len(queue) + 1) /\ Len(queue) \in Nat
         /\ \A i \in DOMAIN queue : queue'[i] = queue[i]
         /\ queue'[Len(queue) + 1] = t
BY AppendProperties, LenProperties DEF Enqueue

(* What the handler works on is a queued task.                             *)
LEMMA HeadTask ==
  ASSUME queue \in Seq(Tasks), queue # <<>>
  PROVE  Head(queue) \in Tasks /\ Head(queue) = queue[1] /\ 1 \in DOMAIN queue
BY HeadTailProperties, LenProperties, EmptySeq

(* A handled task leaves the queue, the rest keep their order.             *)
LEMMA TaskHandled ==
  ASSUME queue \in Seq(Tasks), queue # <<>>, Dequeue
  PROVE  /\ queue' \in Seq(Tasks)
         /\ DOMAIN queue = 1..Len(queue) /\ DOMAIN queue' = 1..(Len(queue) - 1) /\ Len(queue) \in Nat
         /\ \A i \in DOMAIN queue' : queue'[i] = queue[i + 1]
BY HeadTailProperties, LenProperties, EmptySeq DEF Dequeue

(* The queue has its type after a task was handled.                        *)
LEMMA QueueAfterTask ==
  ASSUME QueueTypeOK, queue # <<>>, Dequeue
  PROVE  QueueTypeOK'
BY TaskHandled DEF QueueTypeOK, Dequeue, NoEvent, RunEndReasons

(* The queue has its type after a task was put in it.                      *)
LEMMA QueueAfterEvent ==
  ASSUME QueueTypeOK, NEW t \in Tasks, Enqueue(t), UNCHANGED <<ev, draining>>
  PROVE  QueueTypeOK'
BY TaskQueued DEF QueueTypeOK

(* A verb that waits for no write of its own may go anywhere.              *)
LEMMA VerbMoves ==
  ASSUME VerbTasks, op.pc \notin {"log", "record"}, UNCHANGED queue
  PROVE  VerbTasks'
BY DEF VerbTasks, IsVerbTask, AwaitedAt

(* A verb with no write in the queue may put one there and wait for it.    *)
LEMMA VerbQueues ==
  ASSUME QueueTypeOK, VerbTasks, op.pc \notin {"log", "record"},
         NEW t \in Tasks, t.kind \in {"message", "answered"}, Enqueue(t), op'.pc = AwaitedAt(t.kind)
  PROVE  VerbTasks'
<1>1. \A i \in DOMAIN queue : ~IsVerbTask(i)
  BY DEF VerbTasks, AwaitedAt
<1> QED BY <1>1, TaskQueued DEF VerbTasks, IsVerbTask, QueueTypeOK

(* An adapter event does not disturb the write a verb waits for.           *)
LEMMA EventQueued ==
  ASSUME QueueTypeOK, VerbTasks, NEW t \in Tasks, t.kind \notin {"message", "answered"},
         Enqueue(t), UNCHANGED op
  PROVE  VerbTasks'
BY TaskQueued DEF VerbTasks, IsVerbTask, QueueTypeOK

(* Nor does handling one.                                                  *)
LEMMA EventHandled ==
  ASSUME QueueTypeOK, VerbTasks, queue # <<>>, Dequeue, UNCHANGED op
  PROVE  VerbTasks'
<1>1. \A i \in DOMAIN queue' : queue'[i] = queue[i + 1] /\ i + 1 \in DOMAIN queue
  BY TaskHandled DEF QueueTypeOK
<1>2. ASSUME NEW i \in DOMAIN queue', IsVerbTask(i)'
      PROVE  /\ op'.pc = AwaitedAt(queue'[i].kind)
             /\ \A j \in DOMAIN queue' : IsVerbTask(j)' => i = j
  <2>1. IsVerbTask(i + 1) /\ op.pc = AwaitedAt(queue[i + 1].kind)
    BY <1>1, <1>2 DEF VerbTasks, IsVerbTask
  <2>2. ASSUME NEW j \in DOMAIN queue', IsVerbTask(j)' PROVE i = j
    <3>1. IsVerbTask(j + 1)
      BY <1>1, <2>2 DEF IsVerbTask
    <3>2. i + 1 = j + 1
      BY <1>1, <2>1, <3>1 DEF VerbTasks
    <3>3. i \in Nat /\ j \in Nat
      BY TaskHandled DEF QueueTypeOK
    <3> QED BY <3>2, <3>3
  <2> QED BY <1>1, <2>1, <2>2
<1> QED BY <1>2 DEF VerbTasks

(* When a write is handled, the verb that waits for it holds the lock, and *)
(* no other write is queued.                                               *)
LEMMA VerbTaskHandled ==
  ASSUME QueueTypeOK, VerbTasks, queue # <<>>, Dequeue,
         Head(queue).kind \in {"message", "answered"}
  PROVE  VerbTasks' /\ op.pc = AwaitedAt(Head(queue).kind)
<1>1. Head(queue) = queue[1] /\ 1 \in DOMAIN queue
  BY HeadTask DEF QueueTypeOK
<1>2. \A i \in DOMAIN queue' : ~IsVerbTask(i)'
  BY SMTT(30), <1>1, TaskHandled DEF VerbTasks, IsVerbTask, QueueTypeOK
<1> QED BY <1>1, <1>2 DEF VerbTasks, IsVerbTask

(* A verb that returns releases the lock, and its message has an outcome.  *)
LEMMA Returned ==
  ASSUME TypeOK, NEW o \in {"ok", "noLiveRun", "failed", "exhausted"}, Return(o)
  PROVE  op' \in Ops /\ msgs' \in [Msgs -> Messages] /\ VerbInv' /\ op'.pc = "free"
BY FreeInOps DEF Return, Messages, VerbInv, Free

(* A question puts itself in the queue, under the next id.                 *)
LEMMA QuestionQueued ==
  ASSUME TypeOK, NEW r \in Runs, Asks(r)
  PROVE  \E t \in Tasks : /\ t.kind = "question" /\ t.run = r /\ t.ask = asked + 1
                          /\ Enqueue(t)
<1>1. asked + 1 \in Questions
  BY DEF Asks, AdapterTypeOK, Questions
<1> DEFINE t(q) == [Task("question", r) EXCEPT !.ask = q]
<1>2. ASSUME NEW q \in Questions
      PROVE  t(q) \in Tasks /\ t(q).kind = "question" /\ t(q).run = r /\ t(q).ask = q
  <2>1. t(q) \in Tasks /\ t(q).kind = "question" /\ t(q).run = r
    BY TaskFacts
  <2>2. t(q).ask = q
    BY DEF Task
  <2> QED BY <2>1, <2>2
<1>3. Enqueue(t(asked + 1))
  BY DEF Asks
<1> HIDE DEF t
<1> QED BY <1>1, <1>2, <1>3

(* An abandoned question puts word of it in the queue.                     *)
LEMMA WithdrawalQueued ==
  ASSUME TypeOK, NEW r \in Runs, Abandons(r)
  PROVE  \E t \in Tasks : /\ t.kind = "unasked" /\ t.run = r /\ t.ask = asking[r]
                          /\ Enqueue(t)
<1>1. asking[r] \in Questions \union {NoQuestion}
  BY DEF AdapterTypeOK
<1> DEFINE t(q) == [Task("unasked", r) EXCEPT !.ask = q]
<1>2. ASSUME NEW q \in Questions \union {NoQuestion}
      PROVE  t(q) \in Tasks /\ t(q).kind = "unasked" /\ t(q).run = r /\ t(q).ask = q
  <2>1. t(q) \in Tasks /\ t(q).kind = "unasked" /\ t(q).run = r
    BY TaskFacts
  <2>2. t(q).ask = q
    BY DEF Task
  <2> QED BY <2>1, <2>2
<1>3. Enqueue(t(asking[r]))
  BY DEF Abandons
<1> HIDE DEF t
<1> QED BY <1>1, <1>2, <1>3

(* The end of a turn puts the number of messages it answers in the queue.  *)
LEMMA TurnQueued ==
  ASSUME NEW r \in Runs, NEW k \in Nat, Emits(r, k)
  PROVE  \E t \in Tasks : /\ t.kind = "turn" /\ t.run = r /\ t.count = k
                          /\ Enqueue(t)
<1> DEFINE t == [Task("turn", r) EXCEPT !.count = k]
<1>1. t \in Tasks /\ t.kind = "turn" /\ t.run = r
  BY TaskFacts
<1>2. t.count = k
  BY DEF Task
<1>3. Enqueue(t)
  BY DEF Emits
<1> HIDE DEF t
<1> QED BY <1>1, <1>2, <1>3

(* All three are adapter events of their run.                              *)
LEMMA EventOfRun ==
  ASSUME TypeOK, NEW r \in Runs,
         Asks(r) \/ Abandons(r) \/ \E k \in 0..(Cardinality(Msgs) + 1) : Emits(r, k)
  PROVE  \E t \in Tasks : t.kind \in {"turn", "question", "unasked"} /\ t.run = r /\ Enqueue(t)
<1>1. ASSUME NEW k \in 0..(Cardinality(Msgs) + 1), Emits(r, k)
      PROVE  \E t \in Tasks : t.kind = "turn" /\ t.run = r /\ Enqueue(t)
  BY <1>1, TurnQueued
<1> QED BY <1>1, QuestionQueued, WithdrawalQueued

(* It is no write of a verb and no end.                                    *)
LEMMA EventEmitted ==
  ASSUME TypeOK, NEW r \in Runs,
         Asks(r) \/ Abandons(r) \/ \E k \in 0..(Cardinality(Msgs) + 1) : Emits(r, k)
  PROVE  \E t \in Tasks : t.kind \notin {"message", "answered", "ended"} /\ Enqueue(t)
<1>1. PICK t \in Tasks : t.kind \in {"turn", "question", "unasked"} /\ t.run = r /\ Enqueue(t)
  BY EventOfRun
<1>2. t.kind \notin {"message", "answered", "ended"}
  BY <1>1
<1> QED BY <1>1, <1>2

(* A process that ends queues the end of its run.                          *)
LEMMA EndEmitted ==
  ASSUME TypeOK, NEW r \in Runs, ProcessEnds(r)
  PROVE  \E t \in Tasks : t.kind = "ended" /\ t.run = r /\ Enqueue(t)
<1> DEFINE e == IF proc[r] = "failing" THEN "error" ELSE "completed"
<1>1. e \in RunEndReasons
  BY DEF RunEndReasons
<1> DEFINE t == [Task("ended", r) EXCEPT !.reason = e]
<1>2. Enqueue(t)
  BY DEF ProcessEnds
<1> HIDE DEF e
<1>3. t \in Tasks /\ t.kind = "ended" /\ t.run = r
  BY <1>1, TaskFacts
<1> HIDE DEF t
<1> QED BY <1>2, <1>3

(* DeliverAfterRunEnd waits for the next attempt only while one is left.   *)
LEMMA Redelivered ==
  ASSUME TypeOK, NEW logged \in BOOLEAN, DeliverAfterRunEnd(logged)
  PROVE  /\ op' \in Ops /\ msgs' \in [Msgs -> Messages] /\ VerbInv'
         /\ op'.pc \in {"free", "settle"}
<1>1. CASE op.attempt + 1 >= MAX_DELIVERY_ATTEMPTS
  BY <1>1, Returned DEF DeliverAfterRunEnd
<1>2. CASE ~(op.attempt + 1 >= MAX_DELIVERY_ATTEMPTS)
  <2>1. op' = [op EXCEPT !.pc = "settle", !.run = settling, !.logged = logged] /\ UNCHANGED msgs
    BY <1>2 DEF DeliverAfterRunEnd
  <2>2. op' \in Ops
    BY <2>1 DEF Ops, OpPcs, MemoryTypeOK
  <2>3. op.attempt \in 0..2
    BY DEF Ops, MAX_DELIVERY_ATTEMPTS
  <2>4. op'.pc = "settle" /\ op'.attempt = op.attempt
    BY <2>1 DEF Ops
  <2>5. VerbInv'
    BY <1>2, <2>3, <2>4 DEF VerbInv, MAX_DELIVERY_ATTEMPTS
  <2> QED BY <2>1, <2>2, <2>4, <2>5
<1> QED BY <1>1, <1>2

(* What a step does not touch keeps its type.                              *)
LEMMA Untouched ==
  /\ RecordTypeOK /\ UNCHANGED <<state, waiting, handoff, runRow, ended, pidFile>>
       => RecordTypeOK'
  /\ MemoryTypeOK /\ UNCHANGED <<live, current, settling, closing, pendingEndReason,
                                 turnsInFlight, question, quiet>> => MemoryTypeOK'
  /\ QueueTypeOK /\ UNCHANGED <<queue, ev, draining>> => QueueTypeOK'
  /\ SweepTypeOK /\ UNCHANGED <<fresh, sweep, boot, bootList, bootRun, crashes>> => SweepTypeOK'
  /\ AdapterTypeOK /\ UNCHANGED <<proc, owed, asking, asked>> => AdapterTypeOK'
  /\ VerbInv /\ UNCHANGED op => VerbInv'
  /\ VerbTasks /\ UNCHANGED <<op, queue>> => VerbTasks'
BY DEF RecordTypeOK, MemoryTypeOK, QueueTypeOK, SweepTypeOK, AdapterTypeOK, VerbInv,
       VerbTasks, IsVerbTask


(* A verb that takes the lock keeps the types and both control invariants. *)
LEMMA VerbBeginsTypes ==
  ASSUME TypeOK, VerbInv, VerbTasks, VerbBegins
  PROVE  TypeOK' /\ VerbInv' /\ VerbTasks'
<1>1. CASE Answer
  <2>1. MemoryTypeOK'
    BY <1>1 DEF Answer, Touch, Enqueue, MemoryTypeOK, NoRun, NoQuestion
  <2>2. QueueTypeOK'
    <3>1. Task("answered", live) \in Tasks
      BY <1>1, TaskFacts DEF Answer, MemoryTypeOK
    <3> QED BY <1>1, <3>1, QueueAfterEvent DEF Answer
  <2>3. op' \in Ops
    BY <1>1, FreeInOps DEF Answer, MemoryTypeOK, Ops, OpPcs, VerbKinds
  <2>4. VerbInv'
    BY <1>1 DEF Answer, Touch, Enqueue, VerbInv, Ops, Free, MAX_DELIVERY_ATTEMPTS
  <2>5. VerbTasks'
    <3>1. Task("answered", live) \in Tasks /\ Task("answered", live).kind = "answered"
      BY <1>1, TaskFacts DEF Answer, MemoryTypeOK
    <3>2. op'.pc = AwaitedAt("answered")
      BY <1>1, FreeInOps DEF Answer, AwaitedAt, Ops
    <3> QED BY <1>1, <3>1, <3>2, VerbQueues DEF Answer
  <2> QED BY <1>1, <2>1, <2>2, <2>3, <2>4, <2>5, Untouched DEF Answer
<1>2. CASE Interrupt
  <2>1. MemoryTypeOK'
    BY <1>2 DEF Interrupt, Touch, MemoryTypeOK, NoRun, NoQuestion
  <2>2. QueueTypeOK'
    BY <1>2 DEF Interrupt, Touch, QueueTypeOK
  <2>3. op' \in Ops
    BY <1>2, FreeInOps DEF Interrupt, Touch, Ops, OpPcs, VerbKinds
  <2>4. VerbInv'
    BY <1>2 DEF Interrupt, Touch, VerbInv, Ops, Free, MAX_DELIVERY_ATTEMPTS
  <2>5. VerbTasks'
    BY <1>2, VerbMoves DEF Interrupt
  <2> QED BY <1>2, <2>1, <2>2, <2>3, <2>4, <2>5, Untouched DEF Interrupt
<1>3. CASE Close
  <2>1. MemoryTypeOK'
    BY <1>3 DEF Close, CloseLive, Shutdown, MemoryTypeOK, NoRun, NoQuestion
  <2>2. AdapterTypeOK'
    BY <1>3 DEF Close, CloseLive, Shutdown, AdapterTypeOK, ProcStates, NoQuestion
  <2>3. op' \in Ops
    <3>1. Free \in [kind : VerbKinds \union {"none"}, pc : OpPcs,
            msg : Msgs \union {NoMsg}, run : Runs \union {NoRun},
            ask : Questions \union {NoQuestion}, attempt : 0..(MAX_DELIVERY_ATTEMPTS - 1),
            logged : BOOLEAN, seen : SessionStates,
            next : {"end", "endRun", "closeLoad", "note"}]
      BY FreeInOps DEF Ops
    <3>2. "close" \in VerbKinds /\ "closeWait" \in OpPcs /\ "closeLoad" \in OpPcs
      BY DEF VerbKinds, OpPcs
    <3>3. [Free EXCEPT !.kind = "close", !.pc = "closeWait", !.next = "closeLoad"] \in Ops
      BY <3>1, <3>2 DEF Ops
    <3>4. [Free EXCEPT !.kind = "close", !.pc = "closeLoad"] \in Ops
      BY <3>1, <3>2 DEF Ops
    <3> QED BY <1>3, <3>3, <3>4 DEF Close
  <2>4. VerbInv'
    BY ZenonT(60), <1>3 DEF Close, CloseLive, Shutdown, VerbInv, Ops, Free, MAX_DELIVERY_ATTEMPTS
  <2>5. VerbTasks'
    BY <1>3, VerbMoves DEF Close, CloseLive, Shutdown
  <2> QED BY <1>3, <2>1, <2>2, <2>3, <2>4, <2>5, Untouched DEF Close, CloseLive, Shutdown
<1>4. CASE Continue
  <2>1. op' \in Ops
    BY <1>4, FreeInOps DEF Continue, RecordTypeOK, Ops, OpPcs, VerbKinds
  <2>2. VerbInv'
    BY <1>4 DEF Continue, VerbInv, Ops, Free, MAX_DELIVERY_ATTEMPTS
  <2>3. VerbTasks'
    BY <1>4, VerbMoves DEF Continue
  <2> QED BY <1>4, <2>1, <2>2, <2>3, Untouched DEF Continue
<1>5. CASE Handoff
  <2>1. op' \in Ops
    BY <1>5, FreeInOps DEF Handoff, RecordTypeOK, Ops, OpPcs, VerbKinds
  <2>2. VerbInv'
    BY <1>5 DEF Handoff, VerbInv, Ops, Free, MAX_DELIVERY_ATTEMPTS
  <2>3. VerbTasks'
    BY <1>5, VerbMoves DEF Handoff
  <2> QED BY <1>5, <2>1, <2>2, <2>3, Untouched DEF Handoff
<1>6. ASSUME NEW m \in Msgs, SendMessage(m)
      PROVE  TypeOK' /\ VerbInv' /\ VerbTasks'
  <2>1. op' \in Ops
    BY <1>6, FreeInOps DEF SendMessage, Ops, OpPcs, VerbKinds
  <2>2. msgs' \in [Msgs -> Messages]
    BY <1>6 DEF SendMessage, Messages
  <2>3. VerbInv'
    BY <1>6 DEF SendMessage, VerbInv, Ops, Free, MAX_DELIVERY_ATTEMPTS
  <2>4. VerbTasks'
    BY <1>6, VerbMoves DEF SendMessage
  <2> QED BY <1>6, <2>1, <2>2, <2>3, <2>4, Untouched DEF SendMessage
<1> QED BY <1>1, <1>2, <1>3, <1>4, <1>5, <1>6 DEF VerbBegins

(* So does every step of sendMessage.                                      *)
LEMMA SendStepTypes ==
  ASSUME TypeOK, VerbInv, VerbTasks, SendStep
  PROVE  TypeOK' /\ VerbInv' /\ VerbTasks'
<1>1. CASE SendToLiveRun
  <2>1. MemoryTypeOK'
    <3>1. turnsInFlight' \in Nat
      BY <1>1 DEF SendToLiveRun, MemoryTypeOK
    <3>2. quiet' \in BOOLEAN /\ UNCHANGED <<memVars, endVars, question>>
      BY <1>1 DEF SendToLiveRun, Touch
    <3> QED BY <3>1, <3>2 DEF MemoryTypeOK
  <2>2. QueueTypeOK'
    <3>1. Task("message", live) \in Tasks
      BY <1>1, TaskFacts DEF SendToLiveRun, MemoryTypeOK
    <3>2. CASE op.logged
      BY <1>1, <3>2 DEF SendToLiveRun, QueueTypeOK
    <3>3. CASE ~op.logged
      BY <1>1, <3>1, <3>3, QueueAfterEvent DEF SendToLiveRun
    <3> QED BY <3>2, <3>3
  <2>3. op' \in Ops
    <3>1. live \in Runs \union {NoRun} /\ (IF op.logged THEN "give" ELSE "log") \in OpPcs
      BY DEF MemoryTypeOK, OpPcs
    <3>2. op' = [op EXCEPT !.run = live, !.pc = IF op.logged THEN "give" ELSE "log"]
      BY <1>1 DEF SendToLiveRun
    <3> QED BY <3>1, <3>2 DEF Ops
  <2>4. VerbInv'
    <3>1. live \in Runs
      BY <1>1 DEF SendToLiveRun, MemoryTypeOK
    <3>2. op' = [op EXCEPT !.run = live, !.pc = IF op.logged THEN "give" ELSE "log"]
      BY <1>1 DEF SendToLiveRun
    <3> QED BY <3>1, <3>2 DEF VerbInv, Ops
  <2>5. VerbTasks'
    <3>1. Task("message", live) \in Tasks /\ Task("message", live).kind = "message"
      BY <1>1, TaskFacts DEF SendToLiveRun, MemoryTypeOK
    <3>2. CASE op.logged
      BY <1>1, <3>2, VerbMoves DEF SendToLiveRun
    <3>3. CASE ~op.logged
      <4>1. op'.pc = AwaitedAt("message")
        BY <1>1, <3>3 DEF SendToLiveRun, AwaitedAt, Ops
      <4> QED BY <1>1, <3>1, <3>3, <4>1, VerbQueues DEF SendToLiveRun
    <3> QED BY <3>2, <3>3
  <2> QED BY <1>1, <2>1, <2>2, <2>3, <2>4, <2>5, Untouched DEF SendToLiveRun
<1>2. CASE SendWhileRunSettles
  <2>1. op' \in Ops
    <3>1. op.logged \in BOOLEAN
      BY DEF Ops
    <3> QED BY <1>2, <3>1, Redelivered DEF SendWhileRunSettles
  <2>2. msgs' \in [Msgs -> Messages]
    <3>1. op.logged \in BOOLEAN
      BY DEF Ops
    <3> QED BY <1>2, <3>1, Redelivered DEF SendWhileRunSettles
  <2>3. VerbInv'
    <3>1. op.logged \in BOOLEAN
      BY DEF Ops
    <3> QED BY <1>2, <3>1, Redelivered DEF SendWhileRunSettles
  <2>4. VerbTasks'
    BY <1>2, VerbMoves DEF SendWhileRunSettles, DeliverAfterRunEnd
  <2> QED BY <1>2, <2>1, <2>2, <2>3, <2>4, Untouched DEF SendWhileRunSettles
<1>3. CASE SendReadsRecord
  <2>1. op' \in Ops
    BY <1>3, FreeInOps, Returned DEF SendReadsRecord, Ops, OpPcs, VerbKinds
  <2>2. msgs' \in [Msgs -> Messages]
    BY <1>3, Returned DEF SendReadsRecord, Messages
  <2>3. VerbInv'
    BY <1>3, Returned DEF SendReadsRecord, VerbInv, Ops, Free, MAX_DELIVERY_ATTEMPTS
  <2>4. VerbTasks'
    BY <1>3, VerbMoves DEF SendReadsRecord
  <2> QED BY <1>3, <2>1, <2>2, <2>3, <2>4, Untouched DEF SendReadsRecord
<1>4. CASE Give
  <2>1. MemoryTypeOK'
    BY <1>4 DEF Give, Dropped, DeliverAfterRunEnd, Return, MemoryTypeOK, NoRun, NoQuestion
  <2>2. AdapterTypeOK'
    BY <1>4 DEF Give, Dropped, DeliverAfterRunEnd, Return, AdapterTypeOK, ProcStates,
       NoQuestion
  <2>3. op' \in Ops
    BY <1>4, Redelivered, FreeInOps DEF Give
  <2>4. msgs' \in [Msgs -> Messages]
    <3>1. CASE proc[op.run] = "up"
      BY <1>4, <3>1 DEF Give, VerbInv, Messages
    <3>2. CASE proc[op.run] # "up"
      BY <1>4, <3>2, Redelivered DEF Give
    <3> QED BY <3>1, <3>2
  <2>5. VerbInv'
    <3>1. CASE proc[op.run] = "up"
      BY <1>4, <3>1 DEF Give, VerbInv, Free
    <3>2. CASE proc[op.run] # "up"
      BY <1>4, <3>2, Redelivered DEF Give
    <3> QED BY <3>1, <3>2
  <2>6. VerbTasks'
    BY <1>4, VerbMoves DEF Give, Dropped, DeliverAfterRunEnd
  <2> QED BY <1>4, <2>1, <2>2, <2>3, <2>4, <2>5, <2>6, Untouched DEF Give
<1>5. CASE RunSettled
  <2>1. op' \in Ops
    <3>1. op.attempt + 1 \in 0..(MAX_DELIVERY_ATTEMPTS - 1)
      BY <1>5 DEF RunSettled, VerbInv, Ops, MAX_DELIVERY_ATTEMPTS
    <3> QED BY <1>5, <3>1 DEF RunSettled, Ops, OpPcs
  <2>2. VerbInv'
    BY <1>5 DEF RunSettled, VerbInv, Ops, Free, MAX_DELIVERY_ATTEMPTS
  <2>3. VerbTasks'
    BY <1>5, VerbMoves DEF RunSettled
  <2> QED BY <1>5, <2>1, <2>2, <2>3, Untouched DEF RunSettled
<1>6. CASE Refused
  <2>1. op' \in Ops
    BY <1>6, FreeInOps, Returned DEF Refused, Ops, OpPcs, VerbKinds
  <2>2. msgs' \in [Msgs -> Messages]
    BY <1>6, Returned DEF Refused, Messages
  <2>3. VerbInv'
    BY <1>6, Returned DEF Refused, VerbInv, Ops, Free, MAX_DELIVERY_ATTEMPTS
  <2>4. VerbTasks'
    BY <1>6, VerbMoves DEF Refused
  <2> QED BY <1>6, <2>1, <2>2, <2>3, <2>4, Untouched DEF Refused
<1>7. CASE Promote
  <2>1. op' \in Ops
    BY <1>7, FreeInOps, Returned DEF Promote, Ops, OpPcs, VerbKinds
  <2>2. msgs' \in [Msgs -> Messages]
    BY <1>7, Returned DEF Promote, Messages
  <2>3. VerbInv'
    BY <1>7, Returned DEF Promote, VerbInv, Ops, Free, MAX_DELIVERY_ATTEMPTS
  <2>4. VerbTasks'
    BY <1>7, VerbMoves DEF Promote
  <2> QED BY <1>7, <2>1, <2>2, <2>3, <2>4, Untouched DEF Promote
<1>8. CASE Wake
  <2>1. op' \in Ops
    BY <1>8, FreeInOps, Returned DEF Wake, AfterWake, Ops, OpPcs, VerbKinds
  <2>2. msgs' \in [Msgs -> Messages]
    BY <1>8, Returned DEF Wake, AfterWake, Messages
  <2>3. VerbInv'
    BY <1>8, Returned DEF Wake, AfterWake, VerbInv, Ops, Free, MAX_DELIVERY_ATTEMPTS
  <2>4. VerbTasks'
    BY <1>8, VerbMoves DEF Wake, AfterWake
  <2> QED BY <1>8, <2>1, <2>2, <2>3, <2>4, Untouched DEF Wake
<1>9. CASE WakeWrite
  <2>1. RecordTypeOK'
    BY <1>9 DEF WakeWrite, AfterWake, RecordTypeOK, SessionStates
  <2>2. op' \in Ops
    BY <1>9, FreeInOps DEF WakeWrite, AfterWake, Ops, OpPcs, VerbKinds
  <2>3. VerbInv'
    BY <1>9 DEF WakeWrite, AfterWake, VerbInv, Ops, Free, MAX_DELIVERY_ATTEMPTS
  <2>4. VerbTasks'
    BY <1>9, VerbMoves DEF WakeWrite, AfterWake
  <2> QED BY <1>9, <2>1, <2>2, <2>3, <2>4, Untouched DEF WakeWrite
<1>10. CASE StartRun
  <2>1. MemoryTypeOK'
    BY <1>10 DEF StartRun, BeginRun, MemoryTypeOK, Ops
  <2>2. AdapterTypeOK'
    BY <1>10 DEF StartRun, BeginRun, AdapterTypeOK, ProcStates, NoQuestion
  <2>3. op' \in Ops
    BY <1>10, FreeInOps DEF StartRun, BeginRun, Ops, OpPcs, VerbKinds
  <2>4. msgs' \in [Msgs -> Messages]
    <3>1. \A m \in Msgs : msgs[m].log + 1 \in Nat
      BY DEF Messages
    <3>2. CASE op.logged
      BY <1>10, <3>2 DEF StartRun, Messages
    <3>3. CASE ~op.logged
      <4>1. msgs' = [msgs EXCEPT ![op.msg].log = @ + 1]
        BY <1>10, <3>3 DEF StartRun
      <4> QED BY <3>1, <4>1 DEF Messages
    <3> QED BY <3>2, <3>3
  <2>5. VerbInv'
    BY <1>10 DEF StartRun, BeginRun, VerbInv, Ops, Free, MAX_DELIVERY_ATTEMPTS
  <2>6. VerbTasks'
    BY <1>10, VerbMoves DEF StartRun, BeginRun
  <2> QED BY <1>10, <2>1, <2>2, <2>3, <2>4, <2>5, <2>6, Untouched DEF StartRun, BeginRun
<1>11. CASE StartDone
  <2>1. MemoryTypeOK'
    BY <1>11 DEF StartDone, RunStarted, Touch, MemoryTypeOK, Ops
  <2>2. AdapterTypeOK'
    BY <1>11 DEF StartDone, RunStarted, Touch, AdapterTypeOK, ProcStates, NoQuestion
  <2>3. op' \in Ops
    BY <1>11, FreeInOps DEF StartDone, RunStarted, Touch, Ops, OpPcs, VerbKinds
  <2>4. msgs' \in [Msgs -> Messages]
    BY <1>11 DEF StartDone, VerbInv, Messages
  <2>5. VerbInv'
    BY <1>11 DEF StartDone, RunStarted, Touch, VerbInv, Ops, Free, MAX_DELIVERY_ATTEMPTS
  <2>6. VerbTasks'
    BY <1>11, VerbMoves DEF StartDone, RunStarted
  <2> QED BY <1>11, <2>1, <2>2, <2>3, <2>4, <2>5, <2>6, Untouched DEF StartDone,
             RunStarted
<1>12. CASE StartFails
  <2>1. MemoryTypeOK'
    BY <1>12 DEF StartFails, Return, StartFailed, Dropped, MemoryTypeOK, NoRun, NoQuestion
  <2>2. AdapterTypeOK'
    BY <1>12 DEF StartFails, Return, StartFailed, Dropped, AdapterTypeOK, ProcStates,
       NoQuestion
  <2>3. op' \in Ops
    BY <1>12, FreeInOps, Returned DEF StartFails, StartFailed, Dropped, Ops, OpPcs,
       VerbKinds
  <2>4. msgs' \in [Msgs -> Messages]
    BY <1>12, Returned DEF StartFails, StartFailed, Dropped, Messages
  <2>5. VerbInv'
    BY <1>12, Returned DEF StartFails, StartFailed, Dropped, VerbInv, Ops, Free,
       MAX_DELIVERY_ATTEMPTS
  <2>6. VerbTasks'
    BY <1>12, VerbMoves DEF StartFails, StartFailed, Dropped
  <2> QED BY <1>12, <2>1, <2>2, <2>3, <2>4, <2>5, <2>6, Untouched DEF StartFails,
             StartFailed
<1>13. CASE WritePid
  <2>1. RecordTypeOK'
    BY <1>13 DEF WritePid, WritePidFile, DrainThen, VerbInv, RecordTypeOK
  <2>2. QueueTypeOK'
    BY <1>13 DEF WritePid, WritePidFile, DrainThen, QueueTypeOK
  <2>3. op' \in Ops
    BY <1>13, FreeInOps DEF WritePid, WritePidFile, DrainThen, Ops, OpPcs, VerbKinds
  <2>4. VerbInv'
    BY <1>13 DEF WritePid, WritePidFile, DrainThen, VerbInv, Ops, Free,
       MAX_DELIVERY_ATTEMPTS
  <2>5. VerbTasks'
    BY <1>13, VerbMoves DEF WritePid, WritePidFile, DrainThen
  <2> QED BY <1>13, <2>1, <2>2, <2>3, <2>4, <2>5, Untouched DEF WritePid,
             WritePidFile, DrainThen
<1>14. CASE Drained
  <2>1. op' \in Ops
    BY <1>14, FreeInOps, Returned DEF Drained, Ops, OpPcs, VerbKinds
  <2>2. msgs' \in [Msgs -> Messages]
    BY <1>14, Returned DEF Drained, Messages
  <2>3. VerbInv'
    BY <1>14, Returned DEF Drained, VerbInv, Ops, Free, MAX_DELIVERY_ATTEMPTS
  <2>4. VerbTasks'
    BY <1>14, VerbMoves DEF Drained
  <2> QED BY <1>14, <2>1, <2>2, <2>3, <2>4, Untouched DEF Drained
<1>15. CASE SendStoreFails
  <2>1. op' \in Ops
    BY <1>15, FreeInOps, Returned DEF SendStoreFails, Ops, OpPcs, VerbKinds
  <2>2. msgs' \in [Msgs -> Messages]
    BY <1>15, Returned DEF SendStoreFails, Messages
  <2>3. VerbInv'
    BY <1>15, Returned DEF SendStoreFails, VerbInv, Ops, Free, MAX_DELIVERY_ATTEMPTS
  <2>4. VerbTasks'
    BY <1>15, VerbMoves DEF SendStoreFails
  <2> QED BY <1>15, <2>1, <2>2, <2>3, <2>4, Untouched DEF SendStoreFails
<1>16. ASSUME NEW r \in Runs, ResumeCreatesRun(r)
      PROVE  TypeOK' /\ VerbInv' /\ VerbTasks'
  <2>1. RecordTypeOK'
    BY <1>16 DEF ResumeCreatesRun, RecordTypeOK, SessionStates
  <2>2. op' \in Ops
    BY <1>16, FreeInOps DEF ResumeCreatesRun, Ops, OpPcs, VerbKinds
  <2>3. VerbInv'
    BY <1>16 DEF ResumeCreatesRun, VerbInv, Ops, Free, MAX_DELIVERY_ATTEMPTS
  <2>4. VerbTasks'
    BY <1>16, VerbMoves DEF ResumeCreatesRun
  <2> QED BY <1>16, <2>1, <2>2, <2>3, <2>4, Untouched DEF ResumeCreatesRun
<1>17. ASSUME NEW r \in Runs, CreateRun(r)
      PROVE  TypeOK' /\ VerbInv' /\ VerbTasks'
  <2>1. RecordTypeOK'
    BY <1>17 DEF CreateRun, RecordTypeOK, SessionStates
  <2>2. op' \in Ops
    BY <1>17, FreeInOps DEF CreateRun, Ops, OpPcs, VerbKinds
  <2>3. VerbInv'
    BY <1>17 DEF CreateRun, VerbInv, Ops, Free, MAX_DELIVERY_ATTEMPTS
  <2>4. VerbTasks'
    BY <1>17, VerbMoves DEF CreateRun
  <2> QED BY <1>17, <2>1, <2>2, <2>3, <2>4, Untouched DEF CreateRun
<1> QED BY <1>1, <1>2, <1>3, <1>4, <1>5, <1>6, <1>7, <1>8, <1>9, <1>10, <1>11, <1>12,
           <1>13, <1>14, <1>15, <1>16, <1>17 DEF SendStep

(* And of the other verbs.                                                 *)
LEMMA VerbStepTypes ==
  ASSUME TypeOK, VerbInv, VerbTasks, VerbStep
  PROVE  TypeOK' /\ VerbInv' /\ VerbTasks'
<1>1. CASE TellAgent
  <2>1. QueueTypeOK'
    BY <1>1 DEF TellAgent, DrainThen, QueueTypeOK
  <2>2. AdapterTypeOK'
    BY <1>1 DEF TellAgent, DrainThen, AdapterTypeOK, ProcStates, NoQuestion
  <2>3. op' \in Ops
    BY <1>1, FreeInOps DEF TellAgent, DrainThen, Ops, OpPcs, VerbKinds
  <2>4. VerbInv'
    BY <1>1 DEF TellAgent, DrainThen, VerbInv, Ops, Free, MAX_DELIVERY_ATTEMPTS
  <2>5. VerbTasks'
    BY <1>1, VerbMoves DEF TellAgent, DrainThen
  <2> QED BY <1>1, <2>1, <2>2, <2>3, <2>4, <2>5, Untouched DEF TellAgent, DrainThen
<1>2. CASE ContinueCloses
  <2>1. MemoryTypeOK'
    BY <1>2 DEF ContinueCloses, CloseLive, Shutdown, AfterClose, MemoryTypeOK, NoRun,
       NoQuestion
  <2>2. AdapterTypeOK'
    BY <1>2 DEF ContinueCloses, CloseLive, Shutdown, AfterClose, AdapterTypeOK,
       ProcStates, NoQuestion
  <2>3. op' \in Ops
    <3>1. AfterClose \in {"note", "closeLoad"}
      BY DEF AfterClose
    <3>2. [op EXCEPT !.pc = "closeWait", !.next = AfterClose] \in Ops
      BY <3>1 DEF Ops, OpPcs
    <3>3. [op EXCEPT !.pc = AfterClose] \in Ops
      BY <3>1 DEF Ops, OpPcs
    <3> QED BY <1>2, <3>2, <3>3 DEF ContinueCloses
  <2>4. VerbInv'
    BY ZenonT(60), <1>2 DEF ContinueCloses, AfterClose, VerbInv, Ops
  <2>5. VerbTasks'
    BY <1>2, VerbMoves DEF ContinueCloses, CloseLive, Shutdown, AfterClose
  <2> QED BY <1>2, <2>1, <2>2, <2>3, <2>4, <2>5, Untouched DEF ContinueCloses,
             CloseLive, Shutdown
<1>3. CASE CloseReturns
  <2>1. QueueTypeOK'
    BY <1>3 DEF CloseReturns, QueueTypeOK
  <2>2. op' \in Ops
    BY <1>3, FreeInOps DEF CloseReturns, Ops, OpPcs, VerbKinds
  <2>3. VerbInv'
    BY <1>3 DEF CloseReturns, VerbInv, Ops, Free, MAX_DELIVERY_ATTEMPTS
  <2>4. VerbTasks'
    BY <1>3, VerbMoves DEF CloseReturns
  <2> QED BY <1>3, <2>1, <2>2, <2>3, <2>4, Untouched DEF CloseReturns
<1>4. CASE CloseLoads
  <2>1. op' \in Ops
    BY <1>4, FreeInOps, Returned DEF CloseLoads, Ops, OpPcs, VerbKinds
  <2>2. msgs' \in [Msgs -> Messages]
    BY <1>4, Returned DEF CloseLoads, Messages
  <2>3. VerbInv'
    BY <1>4, Returned DEF CloseLoads, VerbInv, Ops, Free, MAX_DELIVERY_ATTEMPTS
  <2>4. VerbTasks'
    BY <1>4, VerbMoves DEF CloseLoads
  <2> QED BY <1>4, <2>1, <2>2, <2>3, <2>4, Untouched DEF CloseLoads
<1>5. CASE CloseWrites
  <2>1. RecordTypeOK'
    BY <1>5 DEF CloseWrites, Return, RecordTypeOK, SessionStates
  <2>2. op' \in Ops
    BY <1>5, FreeInOps, Returned DEF CloseWrites, Ops, OpPcs, VerbKinds
  <2>3. msgs' \in [Msgs -> Messages]
    BY <1>5, Returned DEF CloseWrites, Messages
  <2>4. VerbInv'
    BY <1>5, Returned DEF CloseWrites, VerbInv, Ops, Free, MAX_DELIVERY_ATTEMPTS
  <2>5. VerbTasks'
    BY <1>5, VerbMoves DEF CloseWrites
  <2> QED BY <1>5, <2>1, <2>2, <2>3, <2>4, <2>5, Untouched DEF CloseWrites
<1>6. CASE ContinueNotesFile
  <2>1. RecordTypeOK'
    BY <1>6 DEF ContinueNotesFile, Return, RecordTypeOK, SessionStates
  <2>2. op' \in Ops
    BY <1>6, FreeInOps, Returned DEF ContinueNotesFile, Ops, OpPcs, VerbKinds
  <2>3. msgs' \in [Msgs -> Messages]
    BY <1>6, Returned DEF ContinueNotesFile, Messages
  <2>4. VerbInv'
    BY <1>6, Returned DEF ContinueNotesFile, VerbInv, Ops, Free, MAX_DELIVERY_ATTEMPTS
  <2>5. VerbTasks'
    BY <1>6, VerbMoves DEF ContinueNotesFile
  <2> QED BY <1>6, <2>1, <2>2, <2>3, <2>4, <2>5, Untouched DEF ContinueNotesFile
<1>7. CASE VerbStoreFails
  <2>1. op' \in Ops
    BY <1>7, FreeInOps, Returned DEF VerbStoreFails, Ops, OpPcs, VerbKinds
  <2>2. msgs' \in [Msgs -> Messages]
    BY <1>7, Returned DEF VerbStoreFails, Messages
  <2>3. VerbInv'
    BY <1>7, Returned DEF VerbStoreFails, VerbInv, Ops, Free, MAX_DELIVERY_ATTEMPTS
  <2>4. VerbTasks'
    BY <1>7, VerbMoves DEF VerbStoreFails
  <2> QED BY <1>7, <2>1, <2>2, <2>3, <2>4, Untouched DEF VerbStoreFails
<1>8. CASE HandoffInterrupts
  <2>1. MemoryTypeOK'
    BY <1>8 DEF HandoffInterrupts, Touch, DrainThen, MemoryTypeOK, NoRun, NoQuestion
  <2>2. QueueTypeOK'
    BY <1>8 DEF HandoffInterrupts, Touch, DrainThen, QueueTypeOK
  <2>3. op' \in Ops
    BY <1>8, FreeInOps DEF HandoffInterrupts, Touch, DrainThen, Ops, OpPcs, VerbKinds
  <2>4. VerbInv'
    BY <1>8 DEF HandoffInterrupts, Touch, DrainThen, VerbInv, Ops, Free,
       MAX_DELIVERY_ATTEMPTS
  <2>5. VerbTasks'
    BY <1>8, VerbMoves DEF HandoffInterrupts, DrainThen
  <2> QED BY <1>8, <2>1, <2>2, <2>3, <2>4, <2>5, Untouched DEF HandoffInterrupts,
             DrainThen
<1>9. CASE HandoffWithoutRun
  <2>1. op' \in Ops
    BY <1>9, FreeInOps DEF HandoffWithoutRun, SuspendFromVerb, Ops, OpPcs, VerbKinds
  <2>2. sus' \in [Suspenders -> Suspends]
    <3>1. \A f \in BOOLEAN : [pc |-> "read", reason |-> "handoff", force |-> f] \in Suspends
      BY DEF Suspends, SuspendReasons
    <3> QED BY <1>9, <3>1 DEF HandoffWithoutRun, SuspendFromVerb, Suspenders
  <2>3. VerbInv'
    BY <1>9 DEF HandoffWithoutRun, SuspendFromVerb, VerbInv, Ops, Free,
       MAX_DELIVERY_ATTEMPTS
  <2>4. VerbTasks'
    BY <1>9, VerbMoves DEF HandoffWithoutRun, SuspendFromVerb
  <2> QED BY <1>9, <2>1, <2>2, <2>3, <2>4, Untouched DEF HandoffWithoutRun,
             SuspendFromVerb
<1>10. CASE HandoffEndsRun
  <2>1. MemoryTypeOK'
    BY <1>10 DEF HandoffEndsRun, Shutdown, MemoryTypeOK, NoRun, NoQuestion
  <2>2. AdapterTypeOK'
    BY <1>10 DEF HandoffEndsRun, Shutdown, AdapterTypeOK, ProcStates, NoQuestion
  <2>3. op' \in Ops
    BY <1>10, FreeInOps DEF HandoffEndsRun, Shutdown, Ops, OpPcs, VerbKinds
  <2>4. VerbInv'
    BY <1>10 DEF HandoffEndsRun, Shutdown, VerbInv, Ops, Free, MAX_DELIVERY_ATTEMPTS
  <2>5. VerbTasks'
    BY <1>10, VerbMoves DEF HandoffEndsRun, Shutdown
  <2> QED BY <1>10, <2>1, <2>2, <2>3, <2>4, <2>5, Untouched DEF HandoffEndsRun, Shutdown
<1>11. CASE HandoffSuspended
  <2>1. op' \in Ops
    BY <1>11, FreeInOps, Returned DEF HandoffSuspended, Ops, OpPcs, VerbKinds
  <2>2. sus' \in [Suspenders -> Suspends]
    BY <1>11 DEF HandoffSuspended, Return, Suspends, SuspendReasons, Suspenders, NoSuspend
  <2>3. msgs' \in [Msgs -> Messages]
    BY <1>11, Returned DEF HandoffSuspended, Messages
  <2>4. VerbInv'
    BY <1>11, Returned DEF HandoffSuspended, VerbInv, Ops, Free, MAX_DELIVERY_ATTEMPTS
  <2>5. VerbTasks'
    BY <1>11, VerbMoves DEF HandoffSuspended
  <2> QED BY <1>11, <2>1, <2>2, <2>3, <2>4, <2>5, Untouched DEF HandoffSuspended
<1> QED BY <1>1, <1>2, <1>3, <1>4, <1>5, <1>6, <1>7, <1>8, <1>9, <1>10, <1>11 DEF VerbStep

(* The lockless start of a thread created running.                         *)
LEMMA FreshStepTypes ==
  ASSUME TypeOK, VerbInv, VerbTasks, FreshStep
  PROVE  TypeOK' /\ VerbInv' /\ VerbTasks'
<1>1. CASE FreshStart
  <2>1. MemoryTypeOK'
    BY <1>1 DEF FreshStart, BeginRun, MemoryTypeOK, Runs
  <2>2. SweepTypeOK'
    BY <1>1 DEF FreshStart, BeginRun, SweepTypeOK
  <2>3. AdapterTypeOK'
    BY <1>1 DEF FreshStart, BeginRun, AdapterTypeOK, ProcStates, NoQuestion
  <2> QED BY <1>1, <2>1, <2>2, <2>3, Untouched DEF FreshStart, BeginRun
<1>2. CASE FreshStarted
  <2>1. MemoryTypeOK'
    <3>1. live' \in Runs /\ settling' \in Runs
      BY <1>2 DEF FreshStarted, RunStarted, Runs
    <3>2. quiet' \in BOOLEAN /\ UNCHANGED <<current, endVars, turnsInFlight, question>>
      BY <1>2 DEF FreshStarted, RunStarted, Touch
    <3> QED BY <3>1, <3>2 DEF MemoryTypeOK
  <2>2. SweepTypeOK'
    BY <1>2 DEF FreshStarted, RunStarted, Touch, SweepTypeOK
  <2>3. AdapterTypeOK'
    BY <1>2 DEF FreshStarted, RunStarted, Touch, AdapterTypeOK, ProcStates, NoQuestion
  <2>4. op' \in Ops
    BY <1>2, FreeInOps DEF FreshStarted, RunStarted, Touch, Ops, OpPcs, VerbKinds
  <2>5. VerbInv'
    BY <1>2 DEF FreshStarted, RunStarted, Touch, VerbInv, Ops, Free, MAX_DELIVERY_ATTEMPTS
  <2>6. VerbTasks'
    <3>1. CASE op' = op
      BY <1>2, <3>1 DEF FreshStarted, VerbTasks, IsVerbTask
    <3>2. CASE op' # op
      BY <1>2, <3>2, VerbMoves DEF FreshStarted
    <3> QED BY <3>1, <3>2
  <2> QED BY <1>2, <2>1, <2>2, <2>3, <2>4, <2>5, <2>6, Untouched DEF FreshStarted,
             RunStarted
<1>3. CASE FreshFails
  <2>1. MemoryTypeOK'
    BY <1>3 DEF FreshFails, StartFailed, Dropped, MemoryTypeOK, NoRun, NoQuestion
  <2>2. SweepTypeOK'
    BY <1>3 DEF FreshFails, StartFailed, Dropped, SweepTypeOK
  <2>3. AdapterTypeOK'
    BY <1>3 DEF FreshFails, StartFailed, Dropped, AdapterTypeOK, ProcStates, NoQuestion
  <2> QED BY <1>3, <2>1, <2>2, <2>3, Untouched DEF FreshFails, StartFailed
<1>4. CASE FreshWritesPid
  <2>1. RecordTypeOK'
    BY <1>4 DEF FreshWritesPid, WritePidFile, RecordTypeOK, Runs
  <2>2. SweepTypeOK'
    BY <1>4 DEF FreshWritesPid, WritePidFile, SweepTypeOK
  <2> QED BY <1>4, <2>1, <2>2, Untouched DEF FreshWritesPid, WritePidFile
<1> QED BY <1>1, <1>2, <1>3, <1>4 DEF FreshStep

(* The idle sweep.                                                         *)
LEMMA SweepStepTypes ==
  ASSUME TypeOK, VerbInv, VerbTasks, SweepStep
  PROVE  TypeOK' /\ VerbInv' /\ VerbTasks'
<1>1. CASE TimePasses
  <2>1. MemoryTypeOK'
    BY <1>1 DEF TimePasses, MemoryTypeOK, NoRun, NoQuestion
  <2> QED BY <1>1, <2>1, Untouched DEF TimePasses
<1>2. CASE SweepPicks
  <2>1. SweepTypeOK'
    BY <1>2 DEF SweepPicks, SweepTypeOK
  <2> QED BY <1>2, <2>1, Untouched DEF SweepPicks
<1>3. CASE SweepEnds
  <2>1. MemoryTypeOK'
    BY <1>3 DEF SweepEnds, Shutdown, MemoryTypeOK, NoRun, NoQuestion
  <2>2. SweepTypeOK'
    BY <1>3 DEF SweepEnds, Shutdown, SweepTypeOK
  <2>3. AdapterTypeOK'
    BY <1>3 DEF SweepEnds, Shutdown, AdapterTypeOK, ProcStates, NoQuestion
  <2> QED BY <1>3, <2>1, <2>2, <2>3, Untouched DEF SweepEnds, Shutdown
<1>4. CASE SweepSkips
  <2>1. SweepTypeOK'
    BY <1>4 DEF SweepSkips, SweepTypeOK
  <2> QED BY <1>4, <2>1, Untouched DEF SweepSkips
<1> QED BY <1>1, <1>2, <1>3, <1>4 DEF SweepStep

(* Whatever an agent does.                                                 *)
LEMMA AdapterChoiceTypes ==
  ASSUME TypeOK, VerbInv, VerbTasks, AdapterChoice
  PROVE  TypeOK' /\ VerbInv' /\ VerbTasks'
<1>1. ASSUME NEW r \in Runs, Asks(r)
      PROVE  TypeOK' /\ VerbInv' /\ VerbTasks'
  <2>1. QueueTypeOK'
    BY <1>1, EventEmitted, QueueAfterEvent DEF Asks
  <2>2. AdapterTypeOK'
    <3>1. asked + 1 \in Questions /\ asked + 1 \in 0..MaxAsks
      BY <1>1 DEF Asks, AdapterTypeOK, Questions
    <3> QED BY <1>1, <3>1 DEF Asks, AdapterTypeOK
  <2>3. VerbTasks'
    BY <1>1, EventEmitted, EventQueued DEF Asks
  <2> QED BY <1>1, <2>1, <2>2, <2>3, Untouched DEF Asks
<1>2. ASSUME NEW r \in Runs, Abandons(r)
      PROVE  TypeOK' /\ VerbInv' /\ VerbTasks'
  <2>1. QueueTypeOK'
    BY <1>2, EventEmitted, QueueAfterEvent DEF Abandons
  <2>2. AdapterTypeOK'
    BY <1>2 DEF Abandons, Enqueue, AdapterTypeOK, ProcStates, NoQuestion
  <2>3. VerbTasks'
    BY <1>2, EventEmitted, EventQueued DEF Abandons
  <2> QED BY <1>2, <2>1, <2>2, <2>3, Untouched DEF Abandons
<1>3. ASSUME NEW r \in Runs, ProviderFails(r)
      PROVE  TypeOK' /\ VerbInv' /\ VerbTasks'
  <2>1. AdapterTypeOK'
    BY <1>3 DEF ProviderFails, AdapterTypeOK, ProcStates, NoQuestion
  <2> QED BY <1>3, <2>1, Untouched DEF ProviderFails
<1>4. ASSUME NEW r \in Runs, NEW k \in 0..(Cardinality(Msgs) + 1), Emits(r, k)
      PROVE  TypeOK' /\ VerbInv' /\ VerbTasks'
  <2>1. QueueTypeOK'
    BY <1>4, EventEmitted, QueueAfterEvent DEF Emits
  <2>2. AdapterTypeOK'
    BY <1>4 DEF Emits, Enqueue, AdapterTypeOK, ProcStates, NoQuestion
  <2>3. VerbTasks'
    BY <1>4, EventEmitted, EventQueued DEF Emits
  <2> QED BY <1>4, <2>1, <2>2, <2>3, Untouched DEF Emits
<1>5. ASSUME NEW r \in Runs, OrphanExits(r)
      PROVE  TypeOK' /\ VerbInv' /\ VerbTasks'
  <2>1. AdapterTypeOK'
    BY <1>5 DEF OrphanExits, AdapterTypeOK, ProcStates
  <2> QED BY <1>5, <2>1, Untouched DEF OrphanExits
<1> QED BY <1>1, <1>2, <1>3, <1>4, <1>5 DEF AdapterChoice

(* The handler of the event queue.                                         *)
LEMMA HandlerStepTypes ==
  ASSUME TypeOK, VerbInv, VerbTasks, HandlerStep
  PROVE  TypeOK' /\ VerbInv' /\ VerbTasks'
<1>1. CASE HandleMessage
  <2>1. MemoryTypeOK'
    BY <1>1 DEF HandleMessage, AtHead, Dequeue, Return, Dropped, MemoryTypeOK, NoRun,
       NoQuestion
  <2>2. QueueTypeOK'
    BY <1>1, QueueAfterTask DEF HandleMessage, AtHead, Return, Dropped
  <2>3. op' \in Ops
    BY <1>1, FreeInOps, Returned DEF HandleMessage, AtHead, Dequeue, Dropped, Ops,
       OpPcs, VerbKinds
  <2>4. msgs' \in [Msgs -> Messages]
    BY <1>1, Returned DEF HandleMessage, Messages
  <2>5. VerbInv'
    <3>1. op.pc = "log"
      BY <1>1, VerbTaskHandled DEF HandleMessage, AtHead, AwaitedAt
    <3> QED BY <1>1, <3>1, Returned DEF HandleMessage, VerbInv, Ops
  <2>6. VerbTasks'
    BY <1>1, VerbTaskHandled DEF HandleMessage, AtHead, Dropped
  <2> QED BY <1>1, <2>1, <2>2, <2>3, <2>4, <2>5, <2>6, Untouched DEF HandleMessage
<1>2. CASE HandleAnswered
  <2>1. RecordTypeOK'
    BY <1>2 DEF HandleAnswered, ClearWaiting, RecordTypeOK, SessionStates
  <2>2. MemoryTypeOK'
    BY <1>2 DEF HandleAnswered, ClearWaiting, MemoryTypeOK, NoQuestion
  <2>3. QueueTypeOK'
    BY <1>2, QueueAfterTask DEF HandleAnswered, AtHead
  <2>4. op.pc = "record" /\ VerbTasks'
    BY <1>2, VerbTaskHandled DEF HandleAnswered, AtHead, AwaitedAt
  <2>5. CASE Go("tell") /\ UNCHANGED msgs
    <3>1. op' \in Ops /\ VerbInv'
      BY <2>4, <2>5 DEF Ops, OpPcs, VerbInv
    <3> QED BY <1>2, <2>1, <2>2, <2>3, <2>4, <2>5, <3>1, Untouched DEF HandleAnswered
  <2>6. CASE Return("failed")
    <3>1. op' \in Ops /\ VerbInv' /\ msgs' \in [Msgs -> Messages]
      BY <2>6, Returned
    <3> QED BY <1>2, <2>1, <2>2, <2>3, <2>4, <3>1, Untouched DEF HandleAnswered
  <2> QED BY <1>2, <2>5, <2>6 DEF HandleAnswered
<1>3. CASE HandleTurn
  <2>1. MemoryTypeOK'
    <3>1. Head(queue).count \in Nat
      BY <1>3, HeadTask DEF HandleTurn, AtHead, QueueTypeOK, Tasks
    <3>2. turnsInFlight' \in Nat
      BY <1>3, <3>1 DEF HandleTurn, Dropped, MemoryTypeOK
    <3> QED BY <1>3, <3>2 DEF HandleTurn, Touch, MemoryTypeOK
  <2>2. QueueTypeOK'
    BY <1>3, QueueAfterTask DEF HandleTurn, AtHead, Touch, HeadRun, Dropped
  <2>3. VerbTasks'
    BY <1>3, EventHandled DEF HandleTurn, AtHead, HeadRun, Dropped
  <2> QED BY <1>3, <2>1, <2>2, <2>3, Untouched DEF HandleTurn
<1>4. CASE HandleQuestion
  <2>1. RecordTypeOK'
    BY <1>4 DEF HandleQuestion, AtHead, Dequeue, Touch, RecordTypeOK, SessionStates
  <2>2. MemoryTypeOK'
    <3>1. Head(queue) \in Tasks
      BY <1>4, HeadTask DEF HandleQuestion, AtHead, QueueTypeOK
    <3> QED BY <1>4, <3>1 DEF HandleQuestion, Touch, Tasks, MemoryTypeOK
  <2>3. QueueTypeOK'
    BY <1>4, QueueAfterTask DEF HandleQuestion, AtHead, Touch
  <2>4. VerbTasks'
    BY <1>4, EventHandled DEF HandleQuestion, AtHead
  <2> QED BY <1>4, <2>1, <2>2, <2>3, <2>4, Untouched DEF HandleQuestion
<1>5. CASE HandleUnasked
  <2>1. RecordTypeOK'
    BY <1>5 DEF HandleUnasked, AtHead, Dequeue, Touch, ClearWaiting, RecordTypeOK,
       SessionStates
  <2>2. MemoryTypeOK'
    BY <1>5 DEF HandleUnasked, AtHead, Dequeue, Touch, ClearWaiting, MemoryTypeOK,
       NoRun, NoQuestion
  <2>3. QueueTypeOK'
    BY <1>5, QueueAfterTask DEF HandleUnasked, AtHead, Touch, ClearWaiting
  <2>4. VerbTasks'
    BY <1>5, EventHandled DEF HandleUnasked, AtHead, ClearWaiting
  <2> QED BY <1>5, <2>1, <2>2, <2>3, <2>4, Untouched DEF HandleUnasked, ClearWaiting
<1>6. CASE EndIsLogged
  <2>1. RecordTypeOK'
    BY <1>6 DEF EndIsLogged, AtHead, HeadRun, RecordTypeOK, SessionStates
  <2>2. MemoryTypeOK'
    <3>1. live' \in Runs \union {NoRun} /\ current' \in Runs \union {NoRun}
      BY <1>6 DEF EndIsLogged, MemoryTypeOK
    <3>2. turnsInFlight' \in Nat
      BY <1>6 DEF EndIsLogged, MemoryTypeOK
    <3>3. quiet' \in BOOLEAN /\ UNCHANGED <<settling, endVars, question>>
      BY <1>6 DEF EndIsLogged, Touch
    <3> QED BY <3>1, <3>2, <3>3 DEF MemoryTypeOK
  <2>3. QueueTypeOK'
    <3>1. SuspendReason \in RunEndReasons
      BY <1>6, HeadTask DEF EndIsLogged, AtHead, QueueTypeOK, Tasks, SuspendReason,
         RunEndReasons
    <3> QED BY <1>6, <3>1 DEF EndIsLogged, QueueTypeOK
  <2> QED BY <1>6, <2>1, <2>2, <2>3, Untouched DEF EndIsLogged
<1>7. CASE EndPatchesRun
  <2>1. RecordTypeOK'
    <3>1. ev.reason \in RunEndReasons
      BY DEF QueueTypeOK
    <3> QED BY <1>7, <3>1 DEF EndPatchesRun, HeadRun, RecordTypeOK
  <2>2. MemoryTypeOK'
    BY <1>7 DEF EndPatchesRun, AtHead, HeadRun, EndHandled, Dequeue, MemoryTypeOK,
       NoRun, NoQuestion
  <2>3. QueueTypeOK'
    <3>1. CASE ev.wasCurrent
      BY <1>7, <3>1 DEF EndPatchesRun, QueueTypeOK
    <3>2. CASE ~ev.wasCurrent
      BY <1>7, <3>2, QueueAfterTask DEF EndPatchesRun, EndHandled, AtHead
    <3> QED BY <3>1, <3>2
  <2>4. VerbTasks'
    <3>1. CASE ev.wasCurrent
      BY <1>7, <3>1 DEF EndPatchesRun, VerbTasks, IsVerbTask
    <3>2. CASE ~ev.wasCurrent
      BY <1>7, <3>2, EventHandled DEF EndPatchesRun, EndHandled, AtHead
    <3> QED BY <3>1, <3>2
  <2> QED BY <1>7, <2>1, <2>2, <2>3, <2>4, Untouched DEF EndPatchesRun
<1>8. CASE EndClearsQuestion
  <2>1. RecordTypeOK'
    BY <1>8 DEF EndClearsQuestion, AtHead, ClearWaiting, RecordTypeOK, SessionStates
  <2>2. MemoryTypeOK'
    BY <1>8 DEF EndClearsQuestion, AtHead, ClearWaiting, MemoryTypeOK, NoRun, NoQuestion
  <2>3. QueueTypeOK'
    BY <1>8 DEF EndClearsQuestion, AtHead, ClearWaiting, QueueTypeOK
  <2> QED BY <1>8, <2>1, <2>2, <2>3, Untouched DEF EndClearsQuestion, ClearWaiting
<1>9. CASE EndOfClose
  <2>1. MemoryTypeOK'
    BY <1>9 DEF EndOfClose, AtHead, EndHandled, Dequeue, HeadRun, MemoryTypeOK, NoRun,
       NoQuestion
  <2>2. QueueTypeOK'
    BY <1>9, QueueAfterTask DEF EndOfClose, AtHead, EndHandled, HeadRun
  <2>3. VerbTasks'
    BY <1>9, EventHandled DEF EndOfClose, AtHead, EndHandled, HeadRun
  <2> QED BY <1>9, <2>1, <2>2, <2>3, Untouched DEF EndOfClose
<1>10. CASE EndSuspends
  <2>1. MemoryTypeOK'
    BY <1>10 DEF EndSuspends, AtHead, MemoryTypeOK, NoRun, NoQuestion
  <2>2. QueueTypeOK'
    BY <1>10 DEF EndSuspends, AtHead, QueueTypeOK
  <2>3. sus' \in [Suspenders -> Suspends]
    <3>1. [pc |-> "read", force |-> FALSE,
            reason |-> IF pendingEndReason = "none" THEN "run_ended" ELSE pendingEndReason] \in Suspends
      BY DEF Suspends, SuspendReasons, MemoryTypeOK
    <3> QED BY <1>10, <3>1 DEF EndSuspends, Suspenders
  <2> QED BY <1>10, <2>1, <2>2, <2>3, Untouched DEF EndSuspends
<1>11. CASE EndSuspended
  <2>1. MemoryTypeOK'
    BY <1>11 DEF EndSuspended, AtHead, EndHandled, Dequeue, HeadRun, MemoryTypeOK,
       NoRun, NoQuestion
  <2>2. QueueTypeOK'
    BY <1>11, QueueAfterTask DEF EndSuspended, AtHead, EndHandled, HeadRun
  <2>3. sus' \in [Suspenders -> Suspends]
    BY <1>11 DEF EndSuspended, AtHead, EndHandled, Dequeue, HeadRun, Suspends,
       SuspendReasons, Suspenders, NoSuspend
  <2>4. VerbTasks'
    BY <1>11, EventHandled DEF EndSuspended, AtHead, EndHandled, HeadRun
  <2> QED BY <1>11, <2>1, <2>2, <2>3, <2>4, Untouched DEF EndSuspended
<1>12. CASE EndStoreFails
  <2>1. MemoryTypeOK'
    BY <1>12 DEF EndStoreFails, AtHead, EndHandled, Dequeue, HeadRun, MemoryTypeOK,
       NoRun, NoQuestion
  <2>2. QueueTypeOK'
    BY <1>12, QueueAfterTask DEF EndStoreFails, AtHead, EndHandled, HeadRun
  <2>3. VerbTasks'
    BY <1>12, EventHandled DEF EndStoreFails, AtHead, EndHandled, HeadRun
  <2> QED BY <1>12, <2>1, <2>2, <2>3, Untouched DEF EndStoreFails
<1>13. CASE EventStoreFails
  <2>1. MemoryTypeOK'
    <3>1. Head(queue) \in Tasks
      BY <1>13, HeadTask DEF EventStoreFails, AtHead, QueueTypeOK
    <3>2. question' \in Questions \union {NoQuestion} /\ quiet' \in BOOLEAN
      BY <1>13, <3>1 DEF EventStoreFails, Touch, Tasks, MemoryTypeOK
    <3> QED BY <1>13, <3>2 DEF EventStoreFails, MemoryTypeOK
  <2>2. QueueTypeOK'
    BY <1>13, QueueAfterTask DEF EventStoreFails, AtHead
  <2>3. VerbTasks'
    BY <1>13, EventHandled DEF EventStoreFails, AtHead
  <2> QED BY <1>13, <2>1, <2>2, <2>3, Untouched DEF EventStoreFails
<1> QED BY <1>1, <1>2, <1>3, <1>4, <1>5, <1>6, <1>7, <1>8, <1>9, <1>10, <1>11, <1>12,
           <1>13 DEF HandlerStep

(* A suspend, whoever called it.                                           *)
LEMMA SuspendTypes ==
  ASSUME TypeOK, VerbInv, VerbTasks, NEW p \in Suspenders, SuspendStep(p)
  PROVE  TypeOK' /\ VerbInv' /\ VerbTasks'
<1>1. CASE SuspendReads(p)
  <2>1. sus' \in [Suspenders -> Suspends]
    BY <1>1 DEF SuspendReads, SusGo, Suspends, SuspendReasons, Suspenders, NoSuspend
  <2> QED BY <1>1, <2>1, Untouched DEF SuspendReads, SusGo
<1>2. CASE SuspendEndsRuns(p)
  <2>1. RecordTypeOK'
    BY <1>2 DEF SuspendEndsRuns, RunEndReasons, RecordTypeOK
  <2>2. sus' \in [Suspenders -> Suspends]
    BY <1>2 DEF SuspendEndsRuns, SusGo, Suspends, SuspendReasons, Suspenders, NoSuspend
  <2> QED BY <1>2, <2>1, <2>2, Untouched DEF SuspendEndsRuns, SusGo
<1>3. CASE SuspendLoads(p)
  <2>1. sus' \in [Suspenders -> Suspends]
    BY <1>3 DEF SuspendLoads, SusGo, Suspends, SuspendReasons, Suspenders, NoSuspend
  <2> QED BY <1>3, <2>1, Untouched DEF SuspendLoads, SusGo
<1>4. CASE SuspendWrites(p)
  <2>1. RecordTypeOK'
    BY <1>4 DEF SuspendWrites, SusGo, RecordTypeOK, SessionStates
  <2>2. sus' \in [Suspenders -> Suspends]
    BY <1>4 DEF SuspendWrites, SusGo, Suspends, SuspendReasons, Suspenders, NoSuspend
  <2> QED BY <1>4, <2>1, <2>2, Untouched DEF SuspendWrites, SusGo
<1>5. CASE SuspendFails(p)
  <2>1. sus' \in [Suspenders -> Suspends]
    BY <1>5 DEF SuspendFails, SusGo, Suspends, SuspendReasons, Suspenders, NoSuspend
  <2> QED BY <1>5, <2>1, Untouched DEF SuspendFails, SusGo
<1> QED BY <1>1, <1>2, <1>3, <1>4, <1>5 DEF SuspendStep

(* The sweeps of a boot.                                                   *)
LEMMA BootStepTypes ==
  ASSUME TypeOK, VerbInv, VerbTasks, BootStep
  PROVE  TypeOK' /\ VerbInv' /\ VerbTasks'
<1>1. CASE BootRunSwept
  <2>1. SweepTypeOK'
    BY <1>1 DEF BootRunSwept, SweepTypeOK
  <2>2. sus' \in [Suspenders -> Suspends]
    BY <1>1 DEF BootRunSwept, Suspends, SuspendReasons, Suspenders, NoSuspend
  <2> QED BY <1>1, <2>1, <2>2, Untouched DEF BootRunSwept
<1>2. CASE BootRunsSwept
  <2>1. SweepTypeOK'
    BY <1>2 DEF BootRunsSwept, SweepTypeOK
  <2> QED BY <1>2, <2>1, Untouched DEF BootRunsSwept
<1>3. CASE BootSelectsRows
  <2>1. SweepTypeOK'
    BY <1>3 DEF BootSelectsRows, SweepTypeOK
  <2>2. sus' \in [Suspenders -> Suspends]
    <3>1. [pc |-> "read", reason |-> "boot_sweep", force |-> FALSE] \in Suspends
      BY DEF Suspends, SuspendReasons
    <3> QED BY <1>3, <3>1 DEF BootSelectsRows, Suspenders
  <2> QED BY <1>3, <2>1, <2>2, Untouched DEF BootSelectsRows
<1>4. CASE BootSuspended
  <2>1. SweepTypeOK'
    BY <1>4 DEF BootSuspended, SweepTypeOK
  <2>2. sus' \in [Suspenders -> Suspends]
    BY <1>4 DEF BootSuspended, Suspends, SuspendReasons, Suspenders, NoSuspend
  <2> QED BY <1>4, <2>1, <2>2, Untouched DEF BootSuspended
<1>5. ASSUME NEW r \in Runs, BootSweepsRun(r)
      PROVE  TypeOK' /\ VerbInv' /\ VerbTasks'
  <2>1. RecordTypeOK'
    BY <1>5 DEF BootSweepsRun, RecordTypeOK
  <2>2. SweepTypeOK'
    BY <1>5 DEF BootSweepsRun, SweepTypeOK
  <2> QED BY <1>5, <2>1, <2>2, Untouched DEF BootSweepsRun
<1>6. CASE BootReapsRun
  <2>0. bootRun \in Runs
    BY <1>6 DEF BootReapsRun, SweepTypeOK
  <2>1. RecordTypeOK'
    BY <1>6, <2>0 DEF BootReapsRun, RunEndReasons, RecordTypeOK
  <2>2. SweepTypeOK'
    BY <1>6 DEF BootReapsRun, SweepTypeOK
  <2>3. sus' \in [Suspenders -> Suspends]
    <3>1. [pc |-> "load", reason |-> "host_lost", force |-> FALSE] \in Suspends
      BY DEF Suspends, SuspendReasons
    <3> QED BY <1>6, <3>1 DEF BootReapsRun, Suspenders
  <2>4. AdapterTypeOK'
    BY <1>6, <2>0 DEF BootReapsRun, AdapterTypeOK, ProcStates
  <2> QED BY <1>6, <2>1, <2>2, <2>3, <2>4, Untouched DEF BootReapsRun
<1> QED BY <1>1, <1>2, <1>3, <1>4, <1>5, <1>6 DEF BootStep

(* The archiving sweep.                                                    *)
LEMMA ArchiveTypes ==
  ASSUME TypeOK, VerbInv, VerbTasks, Archive
  PROVE  TypeOK' /\ VerbInv' /\ VerbTasks'
<1>1. RecordTypeOK'
  BY DEF Archive, RecordTypeOK, SessionStates
<1> QED BY <1>1, Untouched DEF Archive

(* The end of a process.                                                   *)
LEMMA ProcessEndsTypes ==
  ASSUME TypeOK, VerbInv, VerbTasks, NEW r \in Runs, ProcessEnds(r)
  PROVE  TypeOK' /\ VerbInv' /\ VerbTasks'
<1>1. QueueTypeOK'
  BY EndEmitted, QueueAfterEvent DEF ProcessEnds
<1>2. AdapterTypeOK'
  BY DEF ProcessEnds, Enqueue, AdapterTypeOK, ProcStates, NoQuestion
<1>3. VerbTasks'
  BY EndEmitted, EventQueued DEF ProcessEnds
<1> QED BY <1>1, <1>2, <1>3, Untouched DEF ProcessEnds

(* And the death of the server, which empties the memory.                  *)
LEMMA CrashTypes ==
  ASSUME TypeOK, VerbInv, VerbTasks, Crash
  PROVE  TypeOK' /\ VerbInv' /\ VerbTasks'
<1>1. MemoryTypeOK'
  BY DEF Crash, MemoryTypeOK, NoRun, NoQuestion
<1>2. QueueTypeOK'
  BY EmptySeq DEF Crash, QueueTypeOK, NoEvent, RunEndReasons
<1>3. SweepTypeOK'
  <2>1. crashes + 1 \in 0..MaxCrashes
    BY DEF Crash, SweepTypeOK
  <2> QED BY <2>1 DEF Crash, SweepTypeOK, RecordTypeOK
<1>4. AdapterTypeOK'
  BY DEF Crash, AdapterTypeOK, ProcStates
<1>5. op' \in Ops
  BY FreeInOps DEF Crash
<1>6. sus' \in [Suspenders -> Suspends]
  BY DEF Crash, NoSuspend, Suspends, SuspendReasons
<1>7. msgs' \in [Msgs -> Messages]
  BY DEF Crash, Messages
<1>8. VerbInv'
  BY DEF Crash, VerbInv, Free
<1>9. VerbTasks'
  BY DEF Crash, VerbTasks
<1> QED BY <1>1, <1>2, <1>3, <1>4, <1>5, <1>6, <1>7, <1>8, <1>9, Untouched DEF Crash

(* Together: TypeOK with VerbInv and VerbTasks is inductive.               *)
LEMMA TypesInductive ==
  TypeOK /\ VerbInv /\ VerbTasks /\ [Next]_vars => TypeOK' /\ VerbInv' /\ VerbTasks'
<1> SUFFICES ASSUME TypeOK, VerbInv, VerbTasks, [Next]_vars
             PROVE  TypeOK' /\ VerbInv' /\ VerbTasks'
  OBVIOUS
<1>1. CASE UNCHANGED vars
  BY <1>1, Untouched DEF vars
<1>2. CASE Next
  BY <1>2, VerbBeginsTypes, SendStepTypes, VerbStepTypes, FreshStepTypes, SweepStepTypes,
     ArchiveTypes, AdapterChoiceTypes, ProcessEndsTypes, HandlerStepTypes, SuspendTypes,
     CrashTypes, BootStepTypes DEF Next
<1> QED BY <1>1, <1>2

(* The type invariant and both control invariants hold in every behaviour: *)
(* whoever holds the lock when a queued write of sendMessage or            *)
(* answerQuestion is handled is the verb that queued it (enqueue and       *)
(* withLifecycleLock of session-runtime.ts).                               *)
THEOREM TypeCorrect == Spec => [](TypeOK /\ VerbInv /\ VerbTasks)
<1>1. Init => TypeOK /\ VerbInv /\ VerbTasks
  <2> SUFFICES ASSUME Init PROVE TypeOK /\ VerbInv /\ VerbTasks
    OBVIOUS
  <2>1. RecordTypeOK /\ MemoryTypeOK
    BY DEF Init, RecordTypeOK, MemoryTypeOK, SessionStates, NoRun, NoQuestion
  <2>6. AdapterTypeOK
    BY DEF Init, AdapterTypeOK, ProcStates, NoRun, NoQuestion
  <2>2. QueueTypeOK /\ SweepTypeOK
    BY EmptySeq DEF Init, QueueTypeOK, SweepTypeOK, NoEvent, RunEndReasons
  <2>3. op \in Ops /\ VerbInv
    BY FreeInOps DEF Init, VerbInv, Free
  <2>4. sus \in [Suspenders -> Suspends] /\ msgs \in [Msgs -> Messages]
    BY DEF Init, Suspends, NoSuspend, SuspendReasons, Messages
  <2>5. VerbTasks
    BY DEF Init, VerbTasks
  <2> QED BY <2>1, <2>2, <2>3, <2>4, <2>5, <2>6
<1> QED BY <1>1, TypesInductive, PTL DEF Spec

(* The type invariant of the runs, for every number of runs, messages and  *)
(* questions and whatever may fail (all state of session-runtime.ts).      *)
THEOREM TypesHold == Spec => []TypeOK
BY TypeCorrect, PTL

-----------------------------------------------------------------------------
(* A message is delivered once.  While a message is on its way its verb    *)
(* holds the lock, and the place the verb has reached says whether the     *)
(* transcript has the message and whether a run took it (MessageInv); a    *)
(* redelivery remembers the first in `logged`, and goes back to a place    *)
(* before the second.                                                      *)

(* A step that touches neither the lock nor a message.                     *)
LEMMA MessageKept ==
  ASSUME MessageInv, UNCHANGED <<op, msgs>>
  PROVE  MessageInv'
BY DEF MessageInv, Carries, IsLogged, IsTaken

(* A verb moves on: if it carries a message, to a place that says the same *)
(* of it.                                                                  *)
LEMMA MessageMoves ==
  ASSUME MessageInv, UNCHANGED msgs, op'.kind = op.kind, op'.msg = op.msg,
         op.kind = "send" =>
           /\ op'.pc \in SendPcs \union {"drain"}
           /\ op'.pc = "drain" => op'.next = "end"
           /\ op'.pc = "log" => ~op'.logged
           /\ IsLogged' <=> IsLogged
           /\ IsTaken' <=> IsTaken,
         op.kind # "send" => op'.pc \notin SendPcs
  PROVE  MessageInv'
BY DEF MessageInv, Carries

(* A verb other than a message moves on.                                   *)
LEMMA OtherMoves ==
  ASSUME MessageInv, UNCHANGED msgs, op.pc \notin SendPcs \union {"drain"},
         op'.kind = op.kind, op'.pc \notin SendPcs
  PROVE  MessageInv'
<1>1. op.kind # "send"
  BY DEF MessageInv
<1> QED BY <1>1 DEF MessageInv, Carries

(* A verb other than a message takes the free lock.                        *)
LEMMA OtherBegins ==
  ASSUME MessageInv, UNCHANGED msgs, op.pc = "free", op'.kind # "send", op'.pc \notin SendPcs
  PROVE  MessageInv'
<1>1. op.kind # "send"
  BY DEF MessageInv, SendPcs, StartPcs
<1> QED BY <1>1 DEF MessageInv, Carries

(* A verb returns: its message, if it carries one, is accepted only when a *)
(* run took it.                                                            *)
LEMMA MessageReturned ==
  ASSUME TypeOK, MessageInv, NEW o \in {"ok", "noLiveRun", "failed", "exhausted"}, Return(o),
         o = "ok" => op.pc \notin SendPcs
  PROVE  MessageInv'
<1>1. op' = Free /\ op'.kind = "none" /\ op'.pc = "free"
  BY DEF Return, Free
<1>2. \A m \in Msgs : ~Carries(m)'
  BY <1>1 DEF Carries
<1>3. CASE op.kind # "send"
  BY <1>1, <1>2, <1>3 DEF Return, MessageInv, Carries, SendPcs, StartPcs
<1>4. CASE op.kind = "send"
  <2>1. op.msg \in Msgs /\ msgs' = [msgs EXCEPT ![op.msg].st = o]
    BY <1>4 DEF Return, MessageInv
  <2>2. ASSUME NEW m \in Msgs
        PROVE  /\ msgs'[m].log = msgs[m].log /\ msgs'[m].to = msgs[m].to
               /\ msgs'[m].st = IF m = op.msg THEN o ELSE msgs[m].st
    BY <2>1 DEF Messages
  <2>3. o = "ok" => op.pc = "drain"
    BY <1>4 DEF MessageInv
  <2>4. Carries(op.msg) /\ \A m \in Msgs : Carries(m) => m = op.msg
    BY <1>4 DEF Carries
  <2>5. o = "ok" => msgs[op.msg].log = 1 /\ msgs[op.msg].to # {}
    BY <2>1, <2>3, <2>4 DEF MessageInv, IsLogged, IsTaken
  <2>6. ASSUME NEW m \in Msgs
        PROVE  /\ msgs'[m].st = "held" <=> Carries(m)'
               /\ msgs'[m].st = "new" => msgs'[m].log = 0 /\ msgs'[m].to = {}
               /\ msgs'[m].st = "ok" => msgs'[m].log = 1 /\ msgs'[m].to # {}
               /\ msgs'[m].log <= 1
               /\ msgs'[m].to = {} \/ \E r \in Runs : msgs'[m].to = {r}
    <3>1. CASE m = op.msg
      BY <1>2, <2>2, <2>5, <3>1 DEF MessageInv
    <3>2. CASE m # op.msg
      BY <1>2, <2>2, <2>4, <3>2 DEF MessageInv
    <3> QED BY <3>1, <3>2
  <2> QED BY <1>1, <1>2, <2>6 DEF MessageInv, SendPcs, StartPcs
<1> QED BY <1>3, <1>4

(* DeliverAfterRunEnd gives up, or goes back with what the transcript has. *)
LEMMA MessageRedelivered ==
  ASSUME TypeOK, MessageInv, op.kind = "send", ~IsTaken,
         NEW logged \in BOOLEAN, DeliverAfterRunEnd(logged), logged <=> IsLogged
  PROVE  MessageInv'
<1>1. CASE Return("exhausted")
  BY <1>1, MessageReturned
<1>2. CASE op' = [op EXCEPT !.pc = "settle", !.run = settling, !.logged = logged] /\ UNCHANGED msgs
  <2>1. /\ op'.kind = op.kind /\ op'.msg = op.msg /\ op'.pc = "settle" /\ op'.logged = logged
    BY <1>2 DEF Ops
  <2> QED BY <1>2, <2>1, MessageMoves DEF IsLogged, IsTaken, SendPcs
<1> QED BY <1>1, <1>2 DEF DeliverAfterRunEnd

(* A verb that takes the lock is that of a message never sent before.      *)
LEMMA VerbBeginsMessage ==
  ASSUME TypeOK, MessageInv, VerbBegins
  PROVE  MessageInv'
<1> USE DEF SendPcs, StartPcs
<1>1. CASE Answer
  BY <1>1, OtherBegins DEF Answer, Free
<1>2. CASE Interrupt
  BY <1>2, OtherBegins DEF Interrupt, Free
<1>3. CASE Close
  BY <1>3, OtherBegins DEF Close, Free
<1>4. CASE Continue
  BY <1>4, OtherBegins DEF Continue, Free
<1>5. CASE Handoff
  BY <1>5, OtherBegins DEF Handoff, Free
<1>6. ASSUME NEW m \in Msgs, SendMessage(m)
      PROVE  MessageInv'
  <2>1. /\ op.pc = "free" /\ msgs[m].st = "new" /\ msgs' = [msgs EXCEPT ![m].st = "held"]
        /\ op' = [Free EXCEPT !.kind = "send", !.pc = "send", !.msg = m]
    BY <1>6 DEF SendMessage
  <2>2. op'.kind = "send" /\ op'.pc = "send" /\ op'.msg = m /\ op'.logged = FALSE
    BY <2>1 DEF Free
  <2>3. ~IsLogged' /\ ~IsTaken'
    BY <2>2 DEF IsLogged, IsTaken
  <2>4. \A n \in Msgs : ~Carries(n)
    BY <2>1 DEF MessageInv, Carries
  <2>5. \A n \in Msgs : Carries(n)' <=> n = m
    BY <2>2 DEF Carries
  <2>6. ASSUME NEW n \in Msgs
        PROVE  /\ msgs'[n].log = msgs[n].log /\ msgs'[n].to = msgs[n].to
               /\ msgs'[n].st = IF n = m THEN "held" ELSE msgs[n].st
    BY <2>1 DEF Messages
  <2>7. msgs[m].log = 0 /\ msgs[m].to = {}
    BY <2>1 DEF MessageInv
  <2>8. ASSUME NEW n \in Msgs
        PROVE  /\ msgs'[n].st = "held" <=> Carries(n)'
               /\ msgs'[n].st = "new" => msgs'[n].log = 0 /\ msgs'[n].to = {}
               /\ msgs'[n].st = "ok" => msgs'[n].log = 1 /\ msgs'[n].to # {}
               /\ Carries(n)' => msgs'[n].log = 0 /\ msgs'[n].to = {}
               /\ msgs'[n].log <= 1
               /\ msgs'[n].to = {} \/ \E r \in Runs : msgs'[n].to = {r}
    <3>1. CASE n = m
      BY <2>5, <2>6, <2>7, <3>1
    <3>2. CASE n # m
      BY <2>4, <2>5, <2>6, <3>2 DEF MessageInv
    <3> QED BY <3>1, <3>2
  <2> QED BY <2>2, <2>3, <2>8 DEF MessageInv
<1> QED BY <1>1, <1>2, <1>3, <1>4, <1>5, <1>6 DEF VerbBegins

(* The steps of a message.                                                 *)
LEMMA SendStepMessage ==
  ASSUME TypeOK, VerbInv, MessageInv, SendStep
  PROVE  MessageInv'
<1>0. op \in Ops /\ (op.pc \in SendPcs => op.kind = "send")
  BY DEF MessageInv
<1> USE DEF SendPcs, StartPcs
<1>1. CASE SendToLiveRun
  <2>1. /\ op'.kind = op.kind /\ op'.msg = op.msg /\ op'.logged = op.logged
        /\ op'.pc = IF op.logged THEN "give" ELSE "log"
    BY <1>1 DEF SendToLiveRun, Ops
  <2> QED BY <1>0, <1>1, <2>1, MessageMoves DEF SendToLiveRun, IsLogged, IsTaken
<1>2. CASE SendWhileRunSettles
  <2>1. op.pc = "send" /\ op.logged \in BOOLEAN /\ DeliverAfterRunEnd(op.logged)
    BY <1>2 DEF SendWhileRunSettles, Ops
  <2> QED BY <1>0, <2>1, MessageRedelivered DEF IsLogged, IsTaken
<1>3. CASE SendReadsRecord
  <2>1. CASE Return("noLiveRun")
    BY <2>1, MessageReturned
  <2>2. CASE op'.pc \in {"promote", "resume"} /\ UNCHANGED msgs
    <3>1. op'.kind = op.kind /\ op'.msg = op.msg /\ op'.logged = op.logged
      BY <1>3, <2>2 DEF SendReadsRecord, Return, Free, Ops
    <3> QED BY <1>0, <1>3, <2>2, <3>1, MessageMoves DEF SendReadsRecord, IsLogged, IsTaken
  <2> QED BY <1>3, <2>1, <2>2 DEF SendReadsRecord, Ops
<1>4. CASE Give
  <2>1. CASE proc[op.run] = "up"
    <3>1. /\ op.pc = "give" /\ op.kind = "send" /\ op.msg \in Msgs /\ op.run \in Runs
      BY <1>0, <1>4 DEF Give, MessageInv, VerbInv
    <3>2. /\ op' = Free
          /\ msgs' = [msgs EXCEPT ![op.msg].st = "ok", ![op.msg].to = @ \union {op.run}]
      BY <1>4, <2>1 DEF Give
    <3>3. msgs[op.msg].log = 1 /\ msgs[op.msg].to = {}
      BY <3>1 DEF MessageInv, Carries, IsLogged, IsTaken
    <3>4. ASSUME NEW m \in Msgs
          PROVE  /\ msgs'[m].log = msgs[m].log
                 /\ msgs'[m].to = IF m = op.msg THEN {op.run} ELSE msgs[m].to
                 /\ msgs'[m].st = IF m = op.msg THEN "ok" ELSE msgs[m].st
      BY <3>1, <3>2, <3>3 DEF Messages
    <3>5. op'.kind = "none" /\ op'.pc = "free" /\ \A m \in Msgs : ~Carries(m)'
      BY <3>2 DEF Free, Carries
    <3>6. ASSUME NEW m \in Msgs
          PROVE  /\ msgs'[m].st = "held" <=> Carries(m)'
                 /\ msgs'[m].st = "new" => msgs'[m].log = 0 /\ msgs'[m].to = {}
                 /\ msgs'[m].st = "ok" => msgs'[m].log = 1 /\ msgs'[m].to # {}
                 /\ msgs'[m].log <= 1
                 /\ msgs'[m].to = {} \/ \E r \in Runs : msgs'[m].to = {r}
      <4>1. CASE m = op.msg
        <5>1. msgs'[m].log = 1 /\ msgs'[m].st = "ok" /\ msgs'[m].to = {op.run} /\ ~Carries(m)'
          BY <3>3, <3>4, <3>5, <4>1
        <5> QED BY <3>1, <5>1
      <4>2. CASE m # op.msg
        BY <3>1, <3>4, <3>5, <4>2 DEF MessageInv, Carries
      <4> QED BY <4>1, <4>2
    <3> QED BY <3>5, <3>6 DEF MessageInv
  <2>2. CASE proc[op.run] # "up"
    <3>1. op.pc = "give" /\ DeliverAfterRunEnd(TRUE)
      BY <1>4, <2>2 DEF Give
    <3> QED BY <1>0, <3>1, MessageRedelivered DEF IsLogged, IsTaken
  <2> QED BY <2>1, <2>2
<1>5. CASE RunSettled
  <2>1. op.pc = "settle" /\ op' = [op EXCEPT !.pc = "send", !.run = NoRun, !.attempt = @ + 1]
    BY <1>5 DEF RunSettled
  <2>2. op'.kind = op.kind /\ op'.msg = op.msg /\ op'.logged = op.logged /\ op'.pc = "send"
    BY <2>1 DEF Ops
  <2> QED BY <1>0, <1>5, <2>1, <2>2, MessageMoves DEF RunSettled, IsLogged, IsTaken
<1>6. CASE Refused
  BY <1>6, MessageReturned DEF Refused
<1>7. CASE Promote
  <2>1. CASE Return("noLiveRun")
    BY <2>1, MessageReturned
  <2>2. CASE Go("wake") /\ UNCHANGED msgs
    <3>1. op'.kind = op.kind /\ op'.msg = op.msg /\ op'.logged = op.logged /\ op'.pc = "wake"
      BY <2>2 DEF Ops
    <3> QED BY <1>0, <1>7, <2>2, <3>1, MessageMoves DEF Promote, IsLogged, IsTaken
  <2> QED BY <1>7, <2>1, <2>2 DEF Promote
<1>8. CASE Wake
  <2>1. CASE Return("failed")
    BY <2>1, MessageReturned
  <2>2. CASE Go(IF state = "running" THEN AfterWake ELSE "wakeWrite") /\ UNCHANGED msgs
    <3>1. /\ op'.kind = op.kind /\ op'.msg = op.msg /\ op'.logged = op.logged
          /\ op'.pc \in {"create", "start", "wakeWrite"}
      BY <2>2 DEF Ops, AfterWake
    <3> QED BY <1>0, <1>8, <2>2, <3>1, MessageMoves DEF Wake, IsLogged, IsTaken
  <2> QED BY <1>8, <2>1, <2>2 DEF Wake
<1>9. CASE WakeWrite
  <2>1. /\ op'.kind = op.kind /\ op'.msg = op.msg /\ op'.logged = op.logged
        /\ op'.pc \in {"create", "start"}
    BY <1>9 DEF WakeWrite, Ops, AfterWake
  <2> QED BY <1>0, <1>9, <2>1, MessageMoves DEF WakeWrite, IsLogged, IsTaken
<1>10. CASE StartRun
  <2>1. /\ op.pc = "start" /\ op.kind = "send" /\ op.msg \in Msgs
    BY <1>0, <1>10 DEF StartRun, MessageInv
  <2>2. /\ op' = [op EXCEPT !.pc = "starting"]
        /\ msgs' = [msgs EXCEPT ![op.msg].log = IF op.logged THEN @ ELSE @ + 1]
    BY <1>10 DEF StartRun
  <2>3. op'.kind = op.kind /\ op'.msg = op.msg /\ op'.pc = "starting"
    BY <2>2 DEF Ops
  <2>4. msgs[op.msg].log = (IF op.logged THEN 1 ELSE 0) /\ msgs[op.msg].to = {}
    BY <2>1 DEF MessageInv, Carries, IsLogged, IsTaken
  <2>5. ASSUME NEW m \in Msgs
        PROVE  /\ msgs'[m].to = msgs[m].to /\ msgs'[m].st = msgs[m].st
               /\ msgs'[m].log = IF m = op.msg THEN 1 ELSE msgs[m].log
    BY <2>1, <2>2, <2>4 DEF Messages
  <2>6. IsLogged' /\ ~IsTaken' /\ \A m \in Msgs : Carries(m)' <=> m = op.msg
    BY <2>1, <2>3 DEF IsLogged, IsTaken, Carries
  <2>7. ASSUME NEW m \in Msgs
        PROVE  /\ msgs'[m].st = "held" <=> Carries(m)'
               /\ msgs'[m].st = "new" => msgs'[m].log = 0 /\ msgs'[m].to = {}
               /\ msgs'[m].st = "ok" => msgs'[m].log = 1 /\ msgs'[m].to # {}
               /\ Carries(m)' => msgs'[m].log = 1 /\ msgs'[m].to = {}
               /\ msgs'[m].log <= 1
               /\ msgs'[m].to = {} \/ \E r \in Runs : msgs'[m].to = {r}
    <3>1. CASE m = op.msg
      <4>1. Carries(m)
        BY <2>1, <3>1 DEF Carries
      <4>2. msgs'[m].st = "held" /\ msgs'[m].log = 1 /\ msgs'[m].to = {}
        BY <2>4, <2>5, <3>1, <4>1 DEF MessageInv
      <4> QED BY <2>1, <2>6, <3>1, <4>2
    <3>2. CASE m # op.msg
      BY <2>1, <2>5, <2>6, <3>2 DEF MessageInv, Carries
    <3> QED BY <3>1, <3>2
  <2> QED BY <2>1, <2>3, <2>6, <2>7 DEF MessageInv
<1>11. CASE StartDone
  <2>1. /\ op.pc = "starting" /\ op.kind = "send" /\ op.msg \in Msgs /\ op.run \in Runs
    BY <1>0, <1>11 DEF StartDone, MessageInv, VerbInv
  <2>2. /\ op' = [op EXCEPT !.pc = "pid"]
        /\ msgs' = [msgs EXCEPT ![op.msg].to = @ \union {op.run}]
    BY <1>11 DEF StartDone
  <2>3. op'.kind = op.kind /\ op'.msg = op.msg /\ op'.pc = "pid"
    BY <2>2 DEF Ops
  <2>4. msgs[op.msg].log = 1 /\ msgs[op.msg].to = {}
    BY <2>1 DEF MessageInv, Carries, IsLogged, IsTaken
  <2>5. ASSUME NEW m \in Msgs
        PROVE  /\ msgs'[m].log = msgs[m].log /\ msgs'[m].st = msgs[m].st
               /\ msgs'[m].to = IF m = op.msg THEN {op.run} ELSE msgs[m].to
    BY <2>1, <2>2, <2>4 DEF Messages
  <2>6. IsLogged' /\ IsTaken' /\ \A m \in Msgs : Carries(m)' <=> m = op.msg
    BY <2>1, <2>3 DEF IsLogged, IsTaken, Carries
  <2>7. ASSUME NEW m \in Msgs
        PROVE  /\ msgs'[m].st = "held" <=> Carries(m)'
               /\ msgs'[m].st = "new" => msgs'[m].log = 0 /\ msgs'[m].to = {}
               /\ msgs'[m].st = "ok" => msgs'[m].log = 1 /\ msgs'[m].to # {}
               /\ Carries(m)' => msgs'[m].log = 1 /\ msgs'[m].to # {}
               /\ msgs'[m].log <= 1
               /\ msgs'[m].to = {} \/ \E r \in Runs : msgs'[m].to = {r}
    <3>1. CASE m = op.msg
      <4>1. Carries(m)
        BY <2>1, <3>1 DEF Carries
      <4>2. msgs'[m].st = "held" /\ msgs'[m].log = 1 /\ msgs'[m].to = {op.run}
        BY <2>4, <2>5, <3>1, <4>1 DEF MessageInv
      <4> QED BY <2>1, <2>6, <3>1, <4>2
    <3>2. CASE m # op.msg
      BY <2>1, <2>5, <2>6, <3>2 DEF MessageInv, Carries
    <3> QED BY <3>1, <3>2
  <2> QED BY <2>1, <2>3, <2>6, <2>7 DEF MessageInv
<1>12. CASE StartFails
  BY <1>12, MessageReturned DEF StartFails
<1>13. CASE WritePid
  <2>1. op.pc = "pid" /\ op' = [op EXCEPT !.pc = "drain", !.next = "end"] /\ UNCHANGED msgs
    BY <1>13 DEF WritePid, DrainThen
  <2>2. /\ op'.kind = op.kind /\ op'.msg = op.msg /\ op'.logged = op.logged
        /\ op'.pc = "drain" /\ op'.next = "end"
    BY <2>1 DEF Ops
  <2> QED BY <1>0, <2>1, <2>2, MessageMoves DEF IsLogged, IsTaken
<1>14. CASE Drained
  <2>1. CASE op.next = "end"
    BY <1>14, <2>1, MessageReturned DEF Drained
  <2>2. CASE op.next # "end"
    <3>1. op.kind # "send" /\ op' = [op EXCEPT !.pc = op.next] /\ UNCHANGED msgs
      BY <1>14, <2>2 DEF Drained, MessageInv
    <3>2. op'.kind = op.kind /\ op'.msg = op.msg /\ op'.pc \in {"endRun", "closeLoad", "note"}
      BY <2>2, <3>1 DEF Ops
    <3> QED BY <3>1, <3>2, MessageMoves
  <2> QED BY <2>1, <2>2
<1>15. CASE SendStoreFails
  BY <1>15, MessageReturned DEF SendStoreFails
<1>16. ASSUME NEW r \in Runs, ResumeCreatesRun(r)
      PROVE  MessageInv'
  <2>1. /\ op'.kind = op.kind /\ op'.msg = op.msg /\ op'.logged = op.logged /\ op'.pc = "wake"
    BY <1>16 DEF ResumeCreatesRun, Ops
  <2> QED BY <1>0, <1>16, <2>1, MessageMoves DEF ResumeCreatesRun, IsLogged, IsTaken
<1>17. ASSUME NEW r \in Runs, CreateRun(r)
      PROVE  MessageInv'
  <2>1. /\ op'.kind = op.kind /\ op'.msg = op.msg /\ op'.logged = op.logged /\ op'.pc = "start"
    BY <1>17 DEF CreateRun, Ops
  <2> QED BY <1>0, <1>17, <2>1, MessageMoves DEF CreateRun, IsLogged, IsTaken
<1> QED BY <1>1, <1>2, <1>3, <1>4, <1>5, <1>6, <1>7, <1>8, <1>9, <1>10, <1>11, <1>12,
           <1>13, <1>14, <1>15, <1>16, <1>17 DEF SendStep

(* The other verbs carry no message.                                       *)
LEMMA VerbStepMessage ==
  ASSUME TypeOK, MessageInv, VerbStep
  PROVE  MessageInv'
<1> USE DEF SendPcs, StartPcs
<1>1. CASE TellAgent
  BY <1>1, OtherMoves DEF TellAgent, DrainThen, Ops
<1>2. CASE ContinueCloses
  BY ZenonT(60), <1>2, OtherMoves DEF ContinueCloses, AfterClose, Ops
<1>3. CASE CloseReturns
  BY <1>3, OtherMoves DEF CloseReturns, Ops
<1>4. CASE CloseLoads
  <2>1. CASE Return("ok") \/ Return("failed")
    BY <1>4, <2>1, MessageReturned DEF CloseLoads
  <2>2. CASE (Go("note") \/ Go("closeWrite")) /\ UNCHANGED msgs
    BY <1>4, <2>2, OtherMoves DEF CloseLoads, Ops
  <2> QED BY <1>4, <2>1, <2>2 DEF CloseLoads
<1>5. CASE CloseWrites
  BY <1>5, MessageReturned DEF CloseWrites
<1>6. CASE ContinueNotesFile
  BY <1>6, MessageReturned DEF ContinueNotesFile
<1>7. CASE VerbStoreFails
  BY <1>7, MessageReturned DEF VerbStoreFails
<1>8. CASE HandoffInterrupts
  BY <1>8, OtherMoves DEF HandoffInterrupts, DrainThen, Ops
<1>9. CASE HandoffWithoutRun
  BY <1>9, OtherMoves DEF HandoffWithoutRun, SuspendFromVerb, Ops
<1>10. CASE HandoffEndsRun
  BY <1>10, OtherMoves DEF HandoffEndsRun, Ops
<1>11. CASE HandoffSuspended
  BY <1>11, MessageReturned DEF HandoffSuspended
<1> QED BY <1>1, <1>2, <1>3, <1>4, <1>5, <1>6, <1>7, <1>8, <1>9, <1>10, <1>11 DEF VerbStep

(* The first start may take over the entry a message waits on: that        *)
(* message is stuck, but is delivered no second time.                      *)
LEMMA FreshStepMessage ==
  ASSUME TypeOK, MessageInv, FreshStep
  PROVE  MessageInv'
<1>1. CASE FreshStarted /\ op.pc = "settle" /\ op.run # NoRun
  <2>1. /\ op'.kind = op.kind /\ op'.msg = op.msg /\ op'.logged = op.logged /\ op'.pc = "stuck"
    BY <1>1 DEF FreshStarted, Ops
  <2>2. op.kind = "send" /\ UNCHANGED msgs
    BY <1>1 DEF MessageInv, SendPcs, FreshStarted
  <2> QED BY <1>1, <2>1, <2>2, MessageMoves DEF IsLogged, IsTaken, SendPcs
<1>2. CASE UNCHANGED <<op, msgs>>
  BY <1>2, MessageKept
<1> QED BY <1>1, <1>2 DEF FreshStep, FreshStart, FreshStarted, FreshFails, FreshWritesPid

(* A message that is handled is the one whose verb put it in the queue: it *)
(* was not in the transcript, and is now.                                  *)
LEMMA HandlerStepMessage ==
  ASSUME TypeOK, VerbTasks, MessageInv, HandlerStep
  PROVE  MessageInv'
<1>1. CASE HandleMessage
  <2>1. op.pc = "log" /\ op.kind = "send" /\ op.msg \in Msgs /\ ~op.logged
    <3>1. op.pc = "log"
      BY <1>1, VerbTaskHandled DEF HandleMessage, AtHead, AwaitedAt
    <3> QED BY <3>1 DEF MessageInv, SendPcs
  <2>2. CASE Return("failed")
    BY <2>2, MessageReturned
  <2>3. CASE Go("give") /\ msgs' = [msgs EXCEPT ![op.msg].log = @ + 1]
    <3>1. op'.kind = op.kind /\ op'.msg = op.msg /\ op'.pc = "give"
      BY <2>3 DEF Ops
    <3>2. msgs[op.msg].log = 0 /\ msgs[op.msg].to = {}
      BY <2>1 DEF MessageInv, Carries, IsLogged, IsTaken
    <3>3. ASSUME NEW m \in Msgs
          PROVE  /\ msgs'[m].to = msgs[m].to /\ msgs'[m].st = msgs[m].st
                 /\ msgs'[m].log = IF m = op.msg THEN 1 ELSE msgs[m].log
      BY <2>1, <2>3, <3>2 DEF Messages
    <3>4. IsLogged' /\ ~IsTaken' /\ \A m \in Msgs : Carries(m)' <=> m = op.msg
      BY <2>1, <3>1 DEF IsLogged, IsTaken, Carries
    <3>5. ASSUME NEW m \in Msgs
          PROVE  /\ msgs'[m].st = "held" <=> Carries(m)'
                 /\ msgs'[m].st = "new" => msgs'[m].log = 0 /\ msgs'[m].to = {}
                 /\ msgs'[m].st = "ok" => msgs'[m].log = 1 /\ msgs'[m].to # {}
                 /\ Carries(m)' => msgs'[m].log = 1 /\ msgs'[m].to = {}
                 /\ msgs'[m].log <= 1
                 /\ msgs'[m].to = {} \/ \E r \in Runs : msgs'[m].to = {r}
      <4>1. CASE m = op.msg
        BY <2>1, <3>2, <3>3, <3>4, <4>1 DEF MessageInv, Carries
      <4>2. CASE m # op.msg
        BY <2>1, <3>3, <3>4, <4>2 DEF MessageInv, Carries
      <4> QED BY <4>1, <4>2
    <3> QED BY <2>1, <3>1, <3>4, <3>5 DEF MessageInv, SendPcs
  <2> QED BY <1>1, <2>2, <2>3 DEF HandleMessage
<1>2. CASE HandleAnswered
  <2>1. op.pc = "record"
    BY <1>2, VerbTaskHandled DEF HandleAnswered, AtHead, AwaitedAt
  <2>2. CASE Return("failed")
    BY <2>2, MessageReturned
  <2>3. CASE Go("tell") /\ UNCHANGED msgs
    BY <2>1, <2>3, OtherMoves DEF Ops, SendPcs, StartPcs
  <2> QED BY <1>2, <2>2, <2>3 DEF HandleAnswered
<1>3. CASE UNCHANGED <<op, msgs>>
  BY <1>3, MessageKept
<1> QED BY <1>1, <1>2, <1>3 DEF HandlerStep, HandleTurn, HandleQuestion, HandleUnasked,
        EventStoreFails, EndIsLogged, EndPatchesRun, EndClearsQuestion, EndOfClose,
        EndSuspends, EndSuspended, EndStoreFails

(* A crash fails the message on its way, wherever it was.                  *)
LEMMA CrashMessage ==
  ASSUME TypeOK, MessageInv, Crash
  PROVE  MessageInv'
<1>1. op'.kind = "none" /\ op'.pc = "free" /\ \A m \in Msgs : ~Carries(m)'
  BY DEF Crash, Free, Carries
<1>2. ASSUME NEW m \in Msgs
      PROVE  /\ msgs'[m].log = msgs[m].log /\ msgs'[m].to = msgs[m].to
             /\ msgs'[m].st = IF msgs[m].st = "held" THEN "failed" ELSE msgs[m].st
  BY DEF Crash, Messages
<1>3. ASSUME NEW m \in Msgs
      PROVE  /\ msgs'[m].st # "held"
             /\ msgs'[m].st = "new" => msgs'[m].log = 0 /\ msgs'[m].to = {}
             /\ msgs'[m].st = "ok" => msgs'[m].log = 1 /\ msgs'[m].to # {}
             /\ msgs'[m].log <= 1
             /\ msgs'[m].to = {} \/ \E r \in Runs : msgs'[m].to = {r}
  BY <1>2 DEF MessageInv
<1> QED BY <1>1, <1>3 DEF MessageInv, SendPcs, StartPcs

(* Together: MessageInv is inductive on typed states.                      *)
LEMMA MessageInductive ==
  ASSUME TypeOK, VerbInv, VerbTasks, MessageInv, [Next]_vars
  PROVE  MessageInv'
<1>1. CASE UNCHANGED <<op, msgs>>
  BY <1>1, MessageKept
<1>2. SweepStep \/ Archive \/ AdapterChoice \/ (\E r \in Runs : ProcessEnds(r))
        \/ (\E p \in Suspenders : SuspendStep(p)) \/ BootStep => UNCHANGED <<op, msgs>>
  BY DEF SweepStep, TimePasses, SweepPicks, SweepEnds, SweepSkips, Archive,
     AdapterChoice, OrphanExits, Asks, Abandons, ProviderFails, Emits, ProcessEnds,
     SuspendStep, SuspendReads, SuspendEndsRuns, SuspendLoads, SuspendWrites, SuspendFails,
     BootStep, BootReapsRun, BootRunSwept, BootRunsSwept, BootSelectsRows, BootSuspended, BootSweepsRun
<1>3. CASE UNCHANGED vars
  BY <1>1, <1>3 DEF vars
<1> QED BY <1>1, <1>2, <1>3, VerbBeginsMessage, SendStepMessage, VerbStepMessage,
           FreshStepMessage, HandlerStepMessage, CrashMessage DEF Next

(* Nothing was sent before the first message.                              *)
LEMMA InitMessage ==
  ASSUME Init
  PROVE  MessageInv
BY DEF Init, MessageInv, Carries, Free, SendPcs, StartPcs

(* What the transcript and the runs have of every message is what the      *)
(* place of its verb says.                                                 *)
THEOREM MessagesTracked == Spec => []MessageInv
<1>1. Init => MessageInv
  BY InitMessage
<1>2. TypeOK /\ VerbInv /\ VerbTasks /\ MessageInv /\ [Next]_vars => MessageInv'
  BY MessageInductive
<1> QED BY <1>1, <1>2, TypeCorrect, PTL DEF Spec

(* However run ends, failing starts and writes, crashes and retries fall,  *)
(* no message reaches two runs or stands twice in the transcript, and an   *)
(* accepted one did both once (#489).                                      *)
THEOREM MessagesDeliveredOnce == Spec => []DeliveredOnce
<1>1. MessageInv => DeliveredOnce
  <2> SUFFICES ASSUME MessageInv, NEW m \in Msgs
               PROVE  /\ Cardinality(msgs[m].to) <= 1 /\ msgs[m].log <= 1
                      /\ msgs[m].st = "ok" => msgs[m].to # {} /\ msgs[m].log = 1
    BY DEF DeliveredOnce
  <2>1. msgs[m].to = {} \/ \E r \in Runs : msgs[m].to = {r}
    BY DEF MessageInv
  <2>2. Cardinality(msgs[m].to) <= 1
    <3>1. CASE msgs[m].to = {}
      BY <3>1, FS_EmptySet
    <3>2. ASSUME NEW r \in Runs, msgs[m].to = {r} PROVE Cardinality(msgs[m].to) <= 1
      <4>1. Cardinality({r}) = 1
        BY FS_Singleton
      <4> QED BY <3>2, <4>1
    <3> QED BY <2>1, <3>1, <3>2
  <2> QED BY <2>2 DEF MessageInv
<1> QED BY <1>1, MessagesTracked, PTL
=============================================================================
