-------------------- MODULE SessionRuntimeSettling_proofs --------------------
(***************************************************************************)
(* The end of a run is handled before anything else may happen to its      *)
(* thread.  From the start of a run to the handling of its end `settling`  *)
(* names it; while it does, no verb is on its way to another start, one    *)
(* end at most is queued, and it is behind everything its run emitted.     *)
(* With ProcessInv and MessageInv that is InductiveInv; what follows from  *)
(* it: no race of run ends gets a message past its first retry, and what   *)
(* closingSessions and pendingEndReason say is said of one run only.       *)
(***************************************************************************)
EXTENDS SessionRuntimeProcess_proofs
USE RuntimeAssumption
    DEF TypeOK, At, Go, recordVars, runVars, memVars, endVars, turnVars, queueVars,
        bootVars, adapterVars

(* What waits in the queue is a task of some run.                          *)
LEMMA QueuedTasks ==
  ASSUME queue \in Seq(Tasks)
  PROVE  /\ \A i \in DOMAIN queue : queue[i] \in Tasks /\ queue[i].run \in Runs /\ i \in Nat /\ i >= 1
         /\ queue # <<>> => Head(queue) = queue[1] /\ 1 \in DOMAIN queue
<1>1. queue \in [1..Len(queue) -> Tasks] /\ Len(queue) \in Nat /\ DOMAIN queue = 1..Len(queue)
  BY LenProperties
<1>2. \A i \in DOMAIN queue : queue[i] \in Tasks /\ queue[i].run \in Runs /\ i \in Nat /\ i >= 1
  BY <1>1 DEF Tasks
<1> QED BY <1>2, HeadTask

(* A task put in a queue that had a head leaves the head where it was.     *)
LEMMA HeadStays ==
  ASSUME queue \in Seq(Tasks), NEW t \in Tasks, Enqueue(t), queue # <<>>
  PROVE  queue' # <<>> /\ Head(queue') = Head(queue)
<1>1. queue' \in Seq(Tasks) /\ 1 \in DOMAIN queue' /\ queue'[1] = queue[1]
  BY TaskQueued, QueuedTasks
<1>2. queue' # <<>>
  BY <1>1, LenProperties
<1> QED BY <1>1, <1>2, HeadTailProperties, QueuedTasks

(* The process of a run that takes no messages yet, or no more, does not   *)
(* come back to life.                                                      *)
Served(r) == proc[r] \in {"up", "closing", "failing"}

(* Who settles is the same after a step that neither starts a run nor      *)
(* begins or finishes handling an end.                                     *)
LEMMA SettlingKept ==
  ASSUME TypeOK, SettlingOwned, UNCHANGED <<live, settling>>,
         \A r \in Runs : Served(r)' => Served(r),
         \/ UNCHANGED <<queue, ev>>
         \/ UNCHANGED ev /\ \E t \in Tasks : Enqueue(t)
         \/ queue # <<>> /\ Head(queue).kind # "ended" /\ Dequeue
  PROVE  SettlingOwned'
<1>0. queue \in Seq(Tasks)
  BY DEF QueueTypeOK
<1>1. \A r \in Runs : proc'[r] \in {"up", "closing", "failing"} => settling' = r
  BY DEF SettlingOwned, Served
<1>2. CASE UNCHANGED <<queue, ev>>
  BY <1>1, <1>2 DEF SettlingOwned
<1>3. ASSUME UNCHANGED ev, NEW t \in Tasks, Enqueue(t) PROVE SettlingOwned'
  <2>1. queue # <<>> => queue' # <<>> /\ Head(queue') = Head(queue)
    BY <1>0, <1>3, HeadStays
  <2> QED BY <1>1, <1>3, <2>1 DEF SettlingOwned
<1>4. CASE queue # <<>> /\ Head(queue).kind # "ended" /\ Dequeue
  <2>1. ev.pc = "next" /\ ev'.pc = "next"
    BY <1>4 DEF SettlingOwned, Dequeue, NoEvent
  <2> QED BY <1>1, <2>1 DEF SettlingOwned
<1> QED BY <1>2, <1>3, <1>4

(* The end stays behind the events of its run, whatever is put in the      *)
(* queue or handled.                                                       *)
LEMMA EndsLastKept ==
  ASSUME TypeOK, EndsLast, UNCHANGED <<live, settling>>,
         \/ UNCHANGED queue
         \/ queue # <<>> /\ Dequeue
         \/ \E t \in Tasks : /\ Enqueue(t)
                             /\ \/ t.kind \in {"message", "answered"}
                                \/ /\ t.kind \in {"turn", "question", "unasked"} /\ t.run = live
                                   /\ \A i \in DOMAIN queue : ~IsEnd(i)
                                \/ /\ t.kind = "ended" /\ t.run = settling
                                   /\ \A i \in DOMAIN queue : ~IsEnd(i)
  PROVE  EndsLast'
<1>0. queue \in Seq(Tasks)
  BY DEF QueueTypeOK
<1>1. CASE UNCHANGED queue
  BY <1>1 DEF EndsLast, IsEnd, IsEvent
<1>2. CASE queue # <<>> /\ Dequeue
  <2>1. \A i \in DOMAIN queue' : i \in Nat /\ i + 1 \in DOMAIN queue /\ queue'[i] = queue[i + 1]
    BY <1>0, <1>2, TaskHandled
  <2>2. \A i \in DOMAIN queue' : /\ IsEnd(i)' <=> IsEnd(i + 1)
                                 /\ IsEvent(i)' <=> IsEvent(i + 1)
    BY <2>1 DEF IsEnd, IsEvent
  <2>3. ASSUME NEW i \in DOMAIN queue', IsEnd(i)'
        PROVE  /\ queue'[i].run = settling'
               /\ \A j \in DOMAIN queue' : (IsEnd(j)' => i = j) /\ (IsEvent(j)' => j < i)
    <3>1. IsEnd(i + 1) /\ queue[i + 1].run = settling
      BY <2>1, <2>2, <2>3 DEF EndsLast
    <3>2. ASSUME NEW j \in DOMAIN queue'
          PROVE  (IsEnd(j)' => i = j) /\ (IsEvent(j)' => j < i)
      <4>1. (IsEnd(j + 1) => i + 1 = j + 1) /\ (IsEvent(j + 1) => j + 1 < i + 1)
        BY <2>1, <3>1 DEF EndsLast
      <4> QED BY <2>1, <2>2, <4>1
    <3> QED BY <2>1, <3>1, <3>2
  <2>4. \A i \in DOMAIN queue' : IsEvent(i)' => queue'[i].run = live'
    BY <2>1, <2>2 DEF EndsLast
  <2> QED BY <2>3, <2>4 DEF EndsLast
<1>3. ASSUME NEW t \in Tasks, Enqueue(t), NEW i \in DOMAIN queue
      PROVE  /\ queue'[i] = queue[i] /\ i \in Nat /\ i < Len(queue) + 1
             /\ IsEnd(i)' <=> IsEnd(i)
             /\ IsEvent(i)' <=> IsEvent(i)
  BY <1>0, <1>3, TaskQueued DEF IsEnd, IsEvent
<1>4. ASSUME NEW t \in Tasks, Enqueue(t), NEW i \in DOMAIN queue', i \notin DOMAIN queue
      PROVE  i = Len(queue) + 1 /\ queue'[i] = t
  <2>1. /\ DOMAIN queue = 1..Len(queue) /\ DOMAIN queue' = 1..(Len(queue) + 1) /\ Len(queue) \in Nat
        /\ queue'[Len(queue) + 1] = t
    BY <1>0, <1>4, TaskQueued
  <2>2. i = Len(queue) + 1
    BY <1>4, <2>1
  <2> QED BY <2>1, <2>2
<1>5. ASSUME NEW t \in Tasks, Enqueue(t), t.kind \in {"message", "answered"} PROVE EndsLast'
  <2>1. \A i \in DOMAIN queue' : IsEnd(i)' \/ IsEvent(i)' => i \in DOMAIN queue
    BY <1>4, <1>5 DEF IsEnd, IsEvent
  <2> QED BY <1>3, <1>5, <2>1 DEF EndsLast
<1>6. ASSUME NEW t \in Tasks, Enqueue(t), t.kind \in {"turn", "question", "unasked"}, t.run = live,
             \A i \in DOMAIN queue : ~IsEnd(i)
      PROVE  EndsLast'
  <2>1. \A i \in DOMAIN queue' : ~IsEnd(i)' /\ (i \in DOMAIN queue \/ queue'[i].run = live)
    BY <1>4, <1>6, <1>3 DEF IsEnd
  <2> QED BY <1>3, <1>6, <2>1 DEF EndsLast
<1>7. ASSUME NEW t \in Tasks, Enqueue(t), t.kind = "ended", t.run = settling,
             \A i \in DOMAIN queue : ~IsEnd(i)
      PROVE  EndsLast'
  <2>1. \A i \in DOMAIN queue' :
          /\ IsEvent(i)' => i \in DOMAIN queue
          /\ IsEnd(i)' => i = Len(queue) + 1 /\ queue'[i].run = settling
    BY <1>4, <1>3, <1>7 DEF IsEvent, IsEnd
  <2>2. \A i \in DOMAIN queue' : IsEvent(i)' => i < Len(queue) + 1 /\ queue'[i].run = live
    BY <1>3, <1>7, <2>1 DEF EndsLast
  <2> QED BY <1>7, <2>1, <2>2 DEF EndsLast
<1> QED BY <1>1, <1>2, <1>5, <1>6, <1>7

(* A verb that moves to a place where settling does not matter.            *)
LEMMA VerbWaitsKept ==
  ASSUME TypeOK, VerbWaits, UNCHANGED settling,
         \/ UNCHANGED op
         \/ /\ op'.pc \notin StartPcs \union {"log", "give", "settle", "send"}
            /\ op'.attempt \in {0, op.attempt}
  PROVE  VerbWaits'
BY DEF VerbWaits, Ops

(* While the process of a run exists no end is queued or handled, and the  *)
(* run is live.                                                            *)
LEMMA NoEndQueued ==
  ASSUME TypeOK, EndsOver, SettleInv, NEW r \in Runs, Served(r)
  PROVE  /\ \A i \in DOMAIN queue : ~IsEnd(i)
         /\ ev.pc = "next" /\ live = r /\ settling = r
<1>1. settling = r /\ r # NoRun
  BY DEF SettleInv, SettlingOwned, Served, NoRun, Runs
<1>2. \A i \in DOMAIN queue : ~IsEnd(i)
  BY <1>1 DEF SettleInv, EndsLast, EndsOver, IsEnd, Served
<1>3. ev.pc = "next"
  BY <1>2, QueuedTasks DEF QueueTypeOK, SettleInv, SettlingOwned, IsEnd
<1> QED BY <1>1, <1>2, <1>3 DEF SettleInv, SettlingOwned

(* When nothing settles, nothing of any run is queued or handled.          *)
LEMMA NothingSettles ==
  ASSUME TypeOK, SettleInv, settling = NoRun
  PROVE  /\ live = NoRun /\ ev.pc = "next"
         /\ \A r \in Runs : ~Served(r)
         /\ \A i \in DOMAIN queue : ~IsEnd(i) /\ ~IsEvent(i)
<1>1. NoRun \notin Runs
  BY DEF Runs, NoRun
<1>2. live = NoRun
  BY DEF SettleInv, SettlingOwned
<1>3. \A r \in Runs : ~Served(r)
  BY <1>1 DEF SettleInv, SettlingOwned, Served
<1>4. \A i \in DOMAIN queue : ~IsEnd(i) /\ ~IsEvent(i)
  BY <1>1, <1>2, QueuedTasks DEF SettleInv, EndsLast, QueueTypeOK
<1>5. ev.pc = "next"
  BY <1>4, QueuedTasks DEF QueueTypeOK, SettleInv, SettlingOwned, IsEnd
<1> QED BY <1>2, <1>3, <1>4, <1>5

(* A run becomes the settling one as it becomes the live one, when nothing *)
(* settled before.                                                         *)
LEMMA StartSettles ==
  ASSUME TypeOK, SettleInv, settling = NoRun, NEW r \in Runs, RunStarted(r, 1),
         UNCHANGED <<queue, ev>>
  PROVE  SettlingOwned' /\ EndsLast'
<1>1. /\ live = NoRun /\ ev.pc = "next"
      /\ \A s \in Runs : ~Served(s)
      /\ \A i \in DOMAIN queue : ~IsEnd(i) /\ ~IsEvent(i)
  BY NothingSettles
<1>2. live' = r /\ settling' = r /\ proc' = [proc EXCEPT ![r] = "up"]
  BY DEF RunStarted
<1>3. \A s \in Runs : proc'[s] \in {"up", "closing", "failing"} => s = r
  BY <1>1, <1>2 DEF Served
<1>4. SettlingOwned'
  BY <1>1, <1>2, <1>3 DEF SettlingOwned
<1>5. EndsLast'
  BY <1>1 DEF EndsLast, IsEnd, IsEvent
<1> QED BY <1>4, <1>5

(* Which steps leave live, settling and the handler of an end alone, and   *)
(* bring no process to life.                                               *)
Bystander ==
  Next /\ ~Crash /\ ~FreshStep /\ ~HandlerStep /\ ~StartDone

(* They are those of the verbs, the sweeps, the adapter and the suspends.  *)
LEMMA BystanderFrame ==
  ASSUME TypeOK, ProcessInv, Bystander
  PROVE  /\ UNCHANGED <<live, settling, ev>>
         /\ \A r \in Runs : Served(r)' => Served(r)
         /\ live # NoRun => \A r \in Runs : Alive(r)' => Alive(r)
<1>1. UNCHANGED <<live, settling, ev>>
  BY DEF Bystander, Next, VerbBegins, Answer, Interrupt, Close, Continue, Handoff, SendMessage,
     SendStep, SendToLiveRun, SendWhileRunSettles, SendReadsRecord, Give, RunSettled,
     Refused, Promote, Wake, WakeWrite, StartRun, BeginRun, StartFails, StartFailed, WritePid,
     DrainThen, Drained, SendStoreFails, ResumeCreatesRun, CreateRun,
     VerbStep, TellAgent, ContinueCloses, CloseReturns, CloseLoads, CloseWrites,
     ContinueNotesFile, VerbStoreFails, HandoffInterrupts, HandoffWithoutRun,
     HandoffEndsRun, HandoffSuspended,
     SweepStep, TimePasses, SweepPicks, SweepEnds, SweepSkips, Archive,
     AdapterChoice, OrphanExits, Asks, Abandons, ProviderFails, Emits, ProcessEnds,
     SuspendStep, SuspendReads, SuspendEndsRuns, SuspendLoads, SuspendWrites, SuspendFails,
     BootStep, BootReapsRun, BootRunSwept, BootRunsSwept, BootSelectsRows, BootSuspended, BootSweepsRun
<1>2. \/ UNCHANGED proc
      \/ \E r \in Runs : Shutdown(r)
      \/ StartRun /\ \E r \in Runs : proc' = [proc EXCEPT ![r] = "starting"]
      \/ \E r \in Runs : proc' = [proc EXCEPT ![r] = "over"]
      \/ \E r \in Runs : proc[r] \in {"up", "closing"} /\ proc' = [proc EXCEPT ![r] = "failing"]
  <2>1. CASE StartRun \/ StartFails
    BY <2>1 DEF StartRun, BeginRun, StartFails, StartFailed, Ops, AdapterTypeOK
  <2>2. CASE BootReapsRun
    <3>1. /\ bootRun \in Runs
          /\ proc' = [proc EXCEPT ![bootRun] = IF @ = "orphan" THEN "over" ELSE @]
      BY <2>2 DEF BootReapsRun, SweepTypeOK
    <3>2. CASE proc[bootRun] = "orphan"
      BY <3>1, <3>2
    <3>3. CASE proc[bootRun] # "orphan"
      BY <3>1, <3>3 DEF AdapterTypeOK
    <3> QED BY <3>2, <3>3
  <2> QED
    BY <2>1, <2>2 DEF Bystander, Next, VerbBegins, Answer, Interrupt, Close, CloseLive, Continue, Handoff,
     SendMessage, SendStep, SendToLiveRun, SendWhileRunSettles, SendReadsRecord, Give, RunSettled,
     Refused, Promote, Wake, WakeWrite, WritePid,
     Drained, SendStoreFails, ResumeCreatesRun, CreateRun,
     VerbStep, TellAgent, ContinueCloses, CloseReturns, CloseLoads, CloseWrites,
     ContinueNotesFile, VerbStoreFails, HandoffInterrupts, HandoffWithoutRun,
     HandoffEndsRun, HandoffSuspended,
     SweepStep, TimePasses, SweepPicks, SweepEnds, SweepSkips, Archive,
     AdapterChoice, OrphanExits, Asks, Abandons, ProviderFails, Emits, ProcessEnds,
     SuspendStep, SuspendReads, SuspendEndsRuns, SuspendLoads, SuspendWrites, SuspendFails,
     BootStep, BootRunSwept, BootRunsSwept, BootSelectsRows, BootSuspended, BootSweepsRun,
     MemoryTypeOK
<1>3. \A r \in Runs : Served(r)' => Served(r)
  BY <1>2 DEF Served, Shutdown, AdapterTypeOK
<1>4. StartRun => live = NoRun
  BY DEF StartRun, ProcessInv
<1>5. live # NoRun => \A r \in Runs : Alive(r)' => Alive(r)
  BY <1>2, <1>4 DEF Alive, Shutdown, AdapterTypeOK
<1> QED BY <1>1, <1>3, <1>5

(* What such a step may put in the queue.                                  *)
LEMMA BystanderQueue ==
  ASSUME TypeOK, EndsOver, SettleInv, Bystander
  PROVE  \/ UNCHANGED queue
         \/ \E t \in Tasks : /\ Enqueue(t)
                             /\ \/ t.kind \in {"message", "answered"}
                                \/ /\ t.kind \in {"turn", "question", "unasked"} /\ t.run = live
                                   /\ \A i \in DOMAIN queue : ~IsEnd(i)
                                \/ /\ t.kind = "ended" /\ t.run = settling
                                   /\ \A i \in DOMAIN queue : ~IsEnd(i)
<1>1. CASE Answer
  <2>1. Task("answered", live) \in Tasks /\ Task("answered", live).kind = "answered"
    BY <1>1, TaskFacts DEF Answer, MemoryTypeOK
  <2> QED BY <1>1, <2>1 DEF Answer
<1>2. CASE SendToLiveRun
  <2>1. Task("message", live) \in Tasks /\ Task("message", live).kind = "message"
    BY <1>2, TaskFacts DEF SendToLiveRun, MemoryTypeOK
  <2> QED BY <1>2, <2>1 DEF SendToLiveRun
<1>3. ASSUME NEW r \in Runs, ProcessEnds(r)
      PROVE  \E t \in Tasks : /\ Enqueue(t) /\ t.kind = "ended" /\ t.run = settling
                              /\ \A i \in DOMAIN queue : ~IsEnd(i)
  <2>1. Served(r)
    BY <1>3 DEF ProcessEnds, Ending, Served
  <2> QED BY <1>3, <2>1, NoEndQueued, EndEmitted
<1>4. ASSUME NEW r \in Runs,
             Asks(r) \/ Abandons(r) \/ \E k \in 0..(Cardinality(Msgs) + 1) : Emits(r, k)
      PROVE  \E t \in Tasks : /\ Enqueue(t) /\ t.kind \in {"turn", "question", "unasked"} /\ t.run = live
                              /\ \A i \in DOMAIN queue : ~IsEnd(i)
  <2>1. Served(r)
    BY <1>4 DEF Asks, Abandons, Emits, CanEmit, Served
  <2>2. PICK t \in Tasks : t.kind \in {"turn", "question", "unasked"} /\ t.run = r /\ Enqueue(t)
    BY <1>4, EventOfRun
  <2>3. live = r /\ \A i \in DOMAIN queue : ~IsEnd(i)
    BY <2>1, NoEndQueued
  <2> QED BY <2>2, <2>3
<1>5. ASSUME NEW r \in Runs, ProviderFails(r) \/ OrphanExits(r)
      PROVE  UNCHANGED queue
  BY <1>5 DEF ProviderFails, OrphanExits
<1>6. CASE /\ ~Answer /\ ~SendToLiveRun
           /\ ~AdapterChoice /\ ~\E r \in Runs : ProcessEnds(r)
  BY <1>6 DEF Bystander, Next, VerbBegins, Interrupt, Close, Continue, Handoff, SendMessage,
     SendStep, SendWhileRunSettles, SendReadsRecord, Give, RunSettled,
     Refused, Promote, Wake, WakeWrite, StartRun, StartFails, WritePid,
     Drained, SendStoreFails, ResumeCreatesRun, CreateRun,
     VerbStep, TellAgent, ContinueCloses, CloseReturns, CloseLoads, CloseWrites,
     ContinueNotesFile, VerbStoreFails, HandoffInterrupts, HandoffWithoutRun,
     HandoffEndsRun, HandoffSuspended,
     SweepStep, TimePasses, SweepPicks, SweepEnds, SweepSkips, Archive,
     SuspendStep, SuspendReads, SuspendEndsRuns, SuspendLoads, SuspendWrites, SuspendFails,
     BootStep, BootReapsRun, BootRunSwept, BootRunsSwept, BootSelectsRows, BootSuspended, BootSweepsRun
<1> QED BY <1>1, <1>2, <1>3, <1>4, <1>5, <1>6 DEF AdapterChoice

(* Where a verb may go without a start or the end of one.                  *)
LEMMA BystanderVerb ==
  ASSUME TypeOK, ProcessInv, SettleInv, Bystander
  PROVE  VerbWaits'
<1>0. VerbWaits /\ UNCHANGED settling
  BY BystanderFrame DEF SettleInv
<1>1. CASE UNCHANGED op
  BY <1>0, <1>1, VerbWaitsKept
<1>2. CASE VerbBegins /\ ~(\E m \in Msgs : SendMessage(m))
  <2>1. op'.pc \in {"record", "drain", "closeWait", "closeLoad", "continue", "handoff"}
        /\ op'.attempt = 0
    BY <1>2 DEF VerbBegins, Answer, Interrupt, Close, Continue, Handoff, Free
  <2> QED BY <1>0, <2>1, VerbWaitsKept DEF StartPcs
<1>3. ASSUME NEW m \in Msgs, SendMessage(m) PROVE VerbWaits'
  <2>1. op'.pc = "send" /\ op'.attempt = 0
    BY <1>3 DEF SendMessage, Free
  <2> QED BY <2>1 DEF VerbWaits, StartPcs
<1>4. CASE VerbStep
  <2>1. op'.pc \notin StartPcs \union {"log", "give", "settle", "send"} /\ op'.attempt \in {0, op.attempt}
    <3>1. CASE op' = Free
      BY <3>1 DEF Free, StartPcs
    <3>2. CASE TellAgent \/ HandoffInterrupts
      BY <3>2 DEF TellAgent, HandoffInterrupts, DrainThen, Ops, StartPcs
    <3>3. CASE ContinueCloses
      BY ZenonT(60), <3>3 DEF ContinueCloses, AfterClose, Ops, StartPcs
    <3>4. CASE CloseReturns \/ HandoffEndsRun
      BY <3>4 DEF CloseReturns, HandoffEndsRun, Ops, StartPcs
    <3>5. CASE CloseLoads
      BY <3>1, <3>5 DEF CloseLoads, Return, Ops, StartPcs
    <3>6. CASE HandoffWithoutRun
      BY <3>6 DEF HandoffWithoutRun, SuspendFromVerb, Ops, StartPcs
    <3> QED
      BY <1>4, <3>1, <3>2, <3>3, <3>4, <3>5, <3>6
      DEF VerbStep, CloseWrites, ContinueNotesFile, VerbStoreFails, HandoffSuspended, Return
  <2> QED BY <1>0, <2>1, VerbWaitsKept
<1>5. CASE SendToLiveRun
  <2>1. live # NoRun /\ op.pc = "send" /\ settling = live
    BY <1>5 DEF SendToLiveRun, SettleInv, SettlingOwned
  <2>2. op.attempt \in Nat /\ op.attempt <= 1 /\ op.attempt # 1
    BY <1>0, <2>1 DEF VerbWaits, Ops
  <2>3. op'.pc \in {"give", "log"} /\ op'.attempt = op.attempt
    BY <1>5 DEF SendToLiveRun, Ops
  <2> QED BY <2>2, <2>3 DEF VerbWaits, StartPcs
<1>6. ASSUME NEW l \in BOOLEAN, DeliverAfterRunEnd(l), op.attempt = 0 PROVE VerbWaits'
  <2>1. op' = [op EXCEPT !.pc = "settle", !.run = settling, !.logged = l]
    BY <1>6 DEF DeliverAfterRunEnd, MAX_DELIVERY_ATTEMPTS
  <2>2. op'.pc = "settle" /\ op'.run = settling /\ op'.attempt = 0
    BY <1>6, <2>1 DEF Ops
  <2> QED BY <1>0, <2>2 DEF VerbWaits, StartPcs
<1>7. CASE SendWhileRunSettles
  <2>1. op.attempt = 0
    BY <1>0, <1>7 DEF SendWhileRunSettles, VerbWaits, Ops
  <2> QED BY <1>6, <1>7, <2>1 DEF SendWhileRunSettles, Ops
<1>8. CASE Give
  <2>1. op.attempt = 0
    BY <1>0, <1>8 DEF Give, VerbWaits, Ops
  <2>2. CASE proc[op.run] = "up"
    BY <1>0, <1>8, <2>2, VerbWaitsKept DEF Give, Free, StartPcs
  <2>3. CASE proc[op.run] # "up"
    BY <1>6, <1>8, <2>1, <2>3 DEF Give
  <2> QED BY <2>2, <2>3
<1>9. CASE RunSettled
  <2>1. op.pc = "settle" /\ settling = NoRun /\ op.attempt = 0
    BY <1>0, <1>9 DEF RunSettled, VerbWaits, Ops
  <2>2. op'.pc = "send" /\ op'.attempt = 1
    BY <1>9, <2>1 DEF RunSettled, Ops
  <2> QED BY <1>0, <2>1, <2>2 DEF VerbWaits, StartPcs
<1>10. CASE SendReadsRecord
  <2>1. settling = NoRun /\ op'.pc \in {"promote", "resume", "free"} /\ op'.attempt \in {0, op.attempt}
    BY <1>10 DEF SendReadsRecord, Return, Free, Ops
  <2> QED BY <1>0, <2>1 DEF VerbWaits, StartPcs
<1>11. CASE \/ Promote \/ Wake \/ WakeWrite \/ StartRun
            \/ \E r \in Runs : ResumeCreatesRun(r) \/ CreateRun(r)
  <2>1. op.pc \in StartPcs /\ op'.pc \in StartPcs \union {"free"} /\ op'.attempt \in {0, op.attempt}
    <3>1. op.pc \in StartPcs
      BY <1>11 DEF Promote, Wake, WakeWrite, StartRun, ResumeCreatesRun, CreateRun, StartPcs
    <3>2. CASE op' = Free
      <4>1. op'.pc = "free" /\ op'.attempt = 0
        BY <3>2 DEF Free
      <4> QED BY <3>1, <4>1
    <3>3. ASSUME NEW pc \in {"wake", "create", "start", "wakeWrite", "starting"},
                 op' = [op EXCEPT !.pc = pc]
          PROVE  op'.pc \in StartPcs \union {"free"} /\ op'.attempt \in {0, op.attempt}
      BY <3>3 DEF Ops, StartPcs
    <3>4. CASE \E r \in Runs : ResumeCreatesRun(r) \/ CreateRun(r)
      BY ZenonT(60), <3>4 DEF ResumeCreatesRun, CreateRun, Ops, StartPcs
    <3>5. AfterWake \in {"create", "start"}
      BY DEF AfterWake
    <3>6. CASE Wake
      <4>1. \/ op' = Free
            \/ \E pc \in {"wake", "create", "start", "wakeWrite", "starting"} : op' = [op EXCEPT !.pc = pc]
        BY <3>5, <3>6 DEF Wake, Return
      <4> QED BY <3>1, <3>2, <3>3, <4>1
    <3> QED BY <1>11, <3>1, <3>2, <3>3, <3>4, <3>5, <3>6 DEF Promote, WakeWrite, StartRun, Return
  <2> QED BY <1>0, <2>1 DEF VerbWaits, StartPcs
<1>12. CASE Refused \/ StartFails \/ WritePid \/ Drained \/ SendStoreFails
  <2>1. op'.pc \in {"free", "drain", "endRun", "closeLoad", "note"} /\ op'.attempt \in {0, op.attempt}
    <3>1. CASE op' = Free
      BY <3>1 DEF Free
    <3>2. CASE WritePid
      BY <3>2 DEF WritePid, DrainThen, Ops
    <3>3. CASE Drained /\ op.next # "end"
      BY <3>3 DEF Drained, Ops
    <3> QED BY <1>12, <3>1, <3>2, <3>3 DEF Refused, StartFails, Drained, SendStoreFails, Return
  <2> QED BY <1>0, <2>1, VerbWaitsKept DEF StartPcs
<1>13. \/ UNCHANGED op \/ VerbBegins \/ VerbStep
       \/ SendStep /\ ~StartDone
  BY DEF Bystander, Next, SweepStep, TimePasses, SweepPicks, SweepEnds, SweepSkips, Archive,
     AdapterChoice, OrphanExits, Asks, Abandons, ProviderFails, Emits, ProcessEnds,
     SuspendStep, SuspendReads, SuspendEndsRuns, SuspendLoads, SuspendWrites, SuspendFails,
     BootStep, BootReapsRun, BootRunSwept, BootRunsSwept, BootSelectsRows, BootSuspended, BootSweepsRun
<1> QED BY <1>1, <1>2, <1>3, <1>4, <1>5, <1>7, <1>8, <1>9, <1>10, <1>11, <1>12, <1>13
        DEF SendStep, VerbBegins

(* Such steps leave the end of a run where it is.                          *)
LEMMA BystanderSettles ==
  ASSUME TypeOK, ProcessInv, EndsOver, SettleInv, Bystander
  PROVE  SettleInv'
<1>1. SettlingOwned'
  BY BystanderFrame, BystanderQueue, SettlingKept DEF SettleInv
<1>2. EndsLast'
  BY BystanderFrame, BystanderQueue, EndsLastKept DEF SettleInv
<1> QED BY <1>1, <1>2, BystanderVerb DEF SettleInv

(* The end at the head of the queue is that of the settling run, and the   *)
(* last of it: nothing of that run is queued behind.                       *)
LEMMA EndAtHead ==
  ASSUME TypeOK, EndsOver, SettleInv, AtHead("ended")
  PROVE  /\ HeadRun = settling /\ settling \in Runs /\ settling # NoRun
         /\ \A r \in Runs : ~Served(r)
         /\ IsEnd(1) /\ 1 \in DOMAIN queue
         /\ \A i \in DOMAIN queue : (IsEnd(i) => i = 1) /\ ~IsEvent(i)
<1>1. IsEnd(1) /\ 1 \in DOMAIN queue /\ HeadRun = queue[1].run /\ queue[1].run \in Runs
  BY QueuedTasks DEF QueueTypeOK, AtHead, HeadRun, IsEnd
<1>2. HeadRun = settling /\ proc[settling] = "over"
  BY <1>1 DEF SettleInv, EndsLast, EndsOver, IsEnd
<1>3. \A r \in Runs : ~Served(r)
  BY <1>2 DEF SettleInv, SettlingOwned, Served
<1>4. \A i \in DOMAIN queue : (IsEnd(i) => i = 1) /\ ~IsEvent(i)
  BY <1>1, QueuedTasks DEF QueueTypeOK, SettleInv, EndsLast
<1> QED BY <1>1, <1>2, <1>3, <1>4 DEF NoRun, Runs

(* The end of a run that is handled is the current one's.                  *)
LEMMA EndIsCurrent ==
  ASSUME TypeOK, ProcessInv, EndsOver, SettleInv, EndIsLogged
  PROVE  HeadRun = current /\ live' = NoRun
<1>1. HeadRun = settling /\ settling # NoRun /\ ev.pc = "next"
  BY EndAtHead DEF EndIsLogged
<1>2. live = settling /\ live = current
  BY <1>1 DEF SettleInv, SettlingOwned, ProcessInv
<1> QED BY <1>1, <1>2 DEF EndIsLogged

(* When the handler of an end is done, nothing settles and nothing of the  *)
(* run is left.                                                            *)
LEMMA EndSettles ==
  ASSUME TypeOK, EndsOver, SettleInv, AtHead("ended"), ev.pc # "next", EndHandled,
         UNCHANGED <<live, proc, op>>
  PROVE  SettleInv'
<1>1. /\ HeadRun = settling /\ \A r \in Runs : ~Served(r)
      /\ IsEnd(1) /\ \A i \in DOMAIN queue : (IsEnd(i) => i = 1) /\ ~IsEvent(i)
  BY EndAtHead
<1>2. settling' = NoRun /\ live' = NoRun /\ ev'.pc = "next"
  BY <1>1 DEF EndHandled, Dequeue, NoEvent, SettleInv, SettlingOwned
<1>3. \A i \in DOMAIN queue' : i \in Nat /\ i >= 1 /\ i + 1 \in DOMAIN queue /\ queue'[i] = queue[i + 1]
  BY TaskHandled DEF AtHead, EndHandled, QueueTypeOK
<1>4. \A i \in DOMAIN queue' : ~IsEnd(i)' /\ ~IsEvent(i)'
  <2> SUFFICES ASSUME NEW i \in DOMAIN queue' PROVE ~IsEnd(i)' /\ ~IsEvent(i)'
    OBVIOUS
  <2>1. i \in Nat /\ i >= 1 /\ i + 1 # 1
    BY <1>3
  <2>2. ~IsEnd(i + 1) /\ ~IsEvent(i + 1)
    BY <1>1, <1>3, <2>1
  <2> QED BY <1>3, <2>2 DEF IsEnd, IsEvent
<1>5. SettlingOwned'
  BY <1>1, <1>2 DEF SettlingOwned, Served
<1>6. EndsLast'
  BY <1>4 DEF EndsLast
<1>7. VerbWaits'
  BY <1>2 DEF SettleInv, VerbWaits
<1> QED BY <1>5, <1>6, <1>7 DEF SettleInv

(* The event queue: a task that is not an end disturbs nothing, and the    *)
(* end of a run is handled from its log to its settling.                   *)
LEMMA HandlerStepSettles ==
  ASSUME TypeOK, VerbTasks, ProcessInv, EndsOver, SettleInv, HandlerStep
  PROVE  SettleInv'
<1>1. CASE \/ HandleMessage \/ HandleAnswered \/ HandleTurn \/ HandleQuestion \/ HandleUnasked
           \/ EventStoreFails
  <2>1. queue # <<>> /\ Head(queue).kind # "ended" /\ Dequeue
    BY <1>1 DEF HandleMessage, HandleAnswered, HandleTurn, HandleQuestion, HandleUnasked,
       EventStoreFails, AtHead
  <2>2. UNCHANGED <<live, settling, proc>>
    BY <1>1 DEF HandleMessage, HandleAnswered, HandleTurn, HandleQuestion, HandleUnasked,
       EventStoreFails
  <2>3. SettlingOwned' /\ EndsLast'
    BY <2>1, <2>2, SettlingKept, EndsLastKept DEF SettleInv, Served
  <2>4. VerbWaits'
    <3>1. CASE HandleMessage
      <4>1. op.pc = "log" /\ op.attempt = 0
        BY <3>1, VerbTaskHandled DEF HandleMessage, AtHead, AwaitedAt, SettleInv, VerbWaits, Ops
      <4>2. op'.pc \in {"give", "free"} /\ op'.attempt = 0
        BY <3>1, <4>1 DEF HandleMessage, Return, Free, Ops
      <4> QED BY <4>2 DEF VerbWaits, StartPcs
    <3>2. CASE HandleAnswered
      <4>1. op'.pc \in {"tell", "free"} /\ op'.attempt \in {0, op.attempt}
        BY <3>2 DEF HandleAnswered, Return, Free, Ops
      <4> QED BY <2>2, <4>1, VerbWaitsKept DEF SettleInv, StartPcs
    <3>3. CASE UNCHANGED op
      BY <2>2, <3>3, VerbWaitsKept DEF SettleInv
    <3> QED BY <1>1, <3>1, <3>2, <3>3 DEF HandleTurn, HandleQuestion, HandleUnasked, EventStoreFails
  <2> QED BY <2>3, <2>4 DEF SettleInv
<1>2. CASE EndIsLogged
  <2>1. HeadRun = current /\ live' = NoRun
    BY <1>2, EndIsCurrent
  <2>2. /\ AtHead("ended") /\ ev'.pc = "patchRun" /\ ev'.wasCurrent
        /\ UNCHANGED <<queue, settling, proc, op>>
    BY <1>2, <2>1 DEF EndIsLogged
  <2>3. SettlingOwned'
    BY <2>1, <2>2 DEF SettleInv, SettlingOwned, AtHead
  <2>4. EndsLast'
    BY <2>2, EndAtHead DEF SettleInv, EndsLast, IsEnd, IsEvent
  <2>5. VerbWaits'
    BY <2>2, VerbWaitsKept DEF SettleInv
  <2> QED BY <2>3, <2>4, <2>5 DEF SettleInv
<1>3. CASE EndPatchesRun \/ EndClearsQuestion \/ EndSuspends
  <2>1. ev.pc # "next" /\ ev.wasCurrent
    BY <1>3 DEF EndPatchesRun, EndClearsQuestion, EndSuspends, SettleInv, SettlingOwned
  <2>2. UNCHANGED <<live, settling, proc, op, queue>> /\ ev'.pc # "next" /\ ev'.wasCurrent
    BY <1>3, <2>1 DEF EndPatchesRun, EndClearsQuestion, EndSuspends, QueueTypeOK
  <2>3. SettlingOwned'
    BY <2>1, <2>2 DEF SettleInv, SettlingOwned
  <2> QED BY <2>2, <2>3, EndsLastKept, VerbWaitsKept DEF SettleInv
<1>4. CASE EndOfClose \/ EndSuspended \/ EndStoreFails
  BY <1>4, EndSettles DEF EndOfClose, EndSuspended, EndStoreFails
<1> QED BY <1>1, <1>2, <1>3, <1>4 DEF HandlerStep

(* A verb's start finds nothing to settle, and its run settles from then.  *)
LEMMA StartDoneSettles ==
  ASSUME TypeOK, VerbInv, EndsOver, SettleInv, StartDone
  PROVE  SettleInv'
<1>1. op.pc = "starting" /\ op.run \in Runs /\ settling = NoRun
  BY DEF StartDone, VerbInv, SettleInv, VerbWaits, StartPcs
<1>2. SettlingOwned' /\ EndsLast'
  BY <1>1, StartSettles DEF StartDone
<1>3. op'.pc = "pid" /\ op'.attempt = op.attempt
  BY DEF StartDone, Ops
<1>4. VerbWaits'
  BY <1>3 DEF SettleInv, VerbWaits, StartPcs
<1> QED BY <1>2, <1>4 DEF SettleInv

(* Nor does the first start of a thread created running.                   *)
LEMMA FreshStepSettles ==
  ASSUME TypeOK, FreshInv, EndsOver, SettleInv, FreshStep
  PROVE  SettleInv'
<1>1. CASE FreshStarted
  <2>1. /\ settling = NoRun /\ op.pc \in {"free", "send"} /\ op.attempt = 0
        /\ 1 \in Runs
    BY <1>1 DEF FreshStarted, FreshInv, Runs
  <2>2. UNCHANGED <<op, queue, ev>> /\ RunStarted(1, 1)
    BY <1>1, <2>1 DEF FreshStarted
  <2>3. SettlingOwned' /\ EndsLast'
    BY <2>1, <2>2, StartSettles
  <2>4. VerbWaits'
    BY <2>1, <2>2 DEF VerbWaits, StartPcs
  <2> QED BY <2>3, <2>4 DEF SettleInv
<1>2. CASE FreshStart \/ FreshFails \/ FreshWritesPid
  <2>1. UNCHANGED <<live, settling, ev, queue, op>>
    BY <1>2 DEF FreshStart, BeginRun, FreshFails, StartFailed, FreshWritesPid
  <2>2. \A r \in Runs : Served(r)' => Served(r)
    BY <1>2 DEF FreshStart, BeginRun, FreshFails, StartFailed, FreshWritesPid, Served, AdapterTypeOK
  <2> QED BY <2>1, <2>2, SettlingKept, EndsLastKept, VerbWaitsKept DEF SettleInv
<1> QED BY <1>1, <1>2 DEF FreshStep

(* After a crash nothing settles and nothing waits.                        *)
LEMMA CrashSettles ==
  ASSUME TypeOK, Crash
  PROVE  SettleInv'
<1>1. \A r \in Runs : proc'[r] \notin {"up", "closing", "failing"}
  BY DEF Crash, Alive, AdapterTypeOK
<1>2. /\ live' = NoRun /\ settling' = NoRun /\ queue' = <<>>
      /\ ev'.pc = "next" /\ op'.pc = "free" /\ op'.attempt = 0
  BY DEF Crash, NoEvent, Free
<1> QED BY <1>1, <1>2 DEF SettleInv, SettlingOwned, EndsLast, VerbWaits, StartPcs

(* Together: SettleInv is inductive where the processes are owned.         *)
LEMMA SettleInductive ==
  ASSUME TypeOK, VerbInv, VerbTasks, FreshInv, ProcessInv, EndsOver, SettleInv, [Next]_vars
  PROVE  SettleInv'
<1>1. CASE UNCHANGED vars
  <2>1. SettlingOwned' /\ EndsLast'
    BY <1>1, SettlingKept, EndsLastKept DEF vars, Served, SettleInv
  <2> QED BY <1>1, <2>1, VerbWaitsKept DEF vars, SettleInv
<1>2. CASE Next
  BY <1>2, BystanderSettles, HandlerStepSettles, StartDoneSettles, FreshStepSettles, CrashSettles
     DEF Bystander
<1> QED BY <1>1, <1>2

(* Nothing settles in a new thread.                                        *)
LEMMA InitSettles ==
  ASSUME Init
  PROVE  SettleInv
BY DEF Init, SettleInv, SettlingOwned, EndsLast, VerbWaits, StartPcs, Free, NoEvent

(* In every behaviour of a thread whose first start no verb can overtake,  *)
(* whatever fails, rejects or crashes: the lock, the event queue, the runs *)
(* and their processes, and the messages on their way fit together.        *)
THEOREM RunsSettle == LockedStart => (Spec => []InductiveInv)
<1> SUFFICES ASSUME LockedStart PROVE Spec => []InductiveInv
  OBVIOUS
<1>1. Init => SettleInv
  BY InitSettles
<1>2. TypeOK /\ VerbInv /\ VerbTasks /\ FreshInv /\ ProcessInv /\ EndsOver /\ SettleInv /\ [Next]_vars
        => SettleInv'
  BY SettleInductive
<1>3. Spec => [](TypeOK /\ VerbInv /\ VerbTasks /\ FreshInv /\ ProcessInv /\ EndsOver)
  BY ProcessesOwned, PTL
<1>4. Spec => []SettleInv
  BY <1>1, <1>2, <1>3, PTL DEF Spec
<1>5. TypeOK /\ VerbInv /\ VerbTasks /\ FreshInv /\ ProcessInv /\ EndsOver /\ SettleInv /\ MessageInv
        => InductiveInv
  BY DEF InductiveInv
<1> QED BY <1>3, <1>4, <1>5, MessagesTracked, PTL

-----------------------------------------------------------------------------
(* What follows: retries, closingSessions and pendingEndReason.            *)

(* No message is given up: DeliverAfterRunEnd has an attempt left whenever *)
(* it is asked for one.                                                    *)
NoneExhausted == \A m \in Msgs : msgs[m].st # "exhausted"

(* A verb that returns with another outcome, or goes on, gives up none.    *)
LEMMA NoneGivenUp ==
  ASSUME TypeOK, NoneExhausted, VerbWaits,
         \/ UNCHANGED msgs
         \/ \E o \in {"ok", "noLiveRun", "failed"} : Return(o)
         \/ \E l \in BOOLEAN : DeliverAfterRunEnd(l)
         \/ \E x : msgs' = [msgs EXCEPT ![x].log = @ + 1]
         \/ \E x : msgs' = [msgs EXCEPT ![x].st = "held"]
  PROVE  NoneExhausted'
<1>1. CASE UNCHANGED msgs
  BY <1>1 DEF NoneExhausted
<1>2. ASSUME NEW o \in {"ok", "noLiveRun", "failed"}, Return(o) PROVE NoneExhausted'
  BY <1>2 DEF Return, NoneExhausted, Messages
<1>3. ASSUME NEW l \in BOOLEAN, DeliverAfterRunEnd(l) PROVE NoneExhausted'
  <2>1. op.attempt \in Nat /\ op.attempt <= 1
    BY DEF VerbWaits, Ops
  <2>2. ~(op.attempt + 1 >= MAX_DELIVERY_ATTEMPTS)
    BY <2>1 DEF MAX_DELIVERY_ATTEMPTS
  <2> QED BY <1>1, <1>3, <2>2 DEF DeliverAfterRunEnd
<1>4. ASSUME NEW x, msgs' = [msgs EXCEPT ![x].log = @ + 1] PROVE NoneExhausted'
  BY <1>4 DEF NoneExhausted, Messages
<1>5. ASSUME NEW x, msgs' = [msgs EXCEPT ![x].st = "held"] PROVE NoneExhausted'
  BY <1>5 DEF NoneExhausted, Messages
<1> QED BY <1>1, <1>2, <1>3, <1>4, <1>5

(* So no step gives one up.                                                *)
LEMMA NoneExhaustedKept ==
  ASSUME TypeOK, SettleInv, NoneExhausted, [Next]_vars
  PROVE  NoneExhausted'
<1>0. VerbWaits
  BY DEF SettleInv
<1>1. CASE UNCHANGED msgs
  BY <1>0, <1>1, NoneGivenUp
<1>2. CASE Crash
  BY <1>2 DEF Crash, NoneExhausted, Messages
<1>3. CASE VerbBegins
  BY <1>0, <1>3, NoneGivenUp DEF VerbBegins, Answer, Interrupt, Close, Continue, Handoff, SendMessage
<1>4. CASE VerbStep
  BY <1>0, <1>4, NoneGivenUp DEF VerbStep, TellAgent, ContinueCloses, CloseReturns, CloseLoads,
     CloseWrites, ContinueNotesFile, VerbStoreFails, HandoffInterrupts, HandoffWithoutRun,
     HandoffEndsRun, HandoffSuspended
<1>5. CASE HandlerStep
  BY <1>0, <1>5, NoneGivenUp DEF HandlerStep, HandleMessage, HandleAnswered, HandleTurn,
     HandleQuestion, HandleUnasked, EventStoreFails, EndIsLogged, EndPatchesRun,
     EndClearsQuestion, EndOfClose, EndSuspends, EndSuspended, EndStoreFails
<1>6. CASE SendStep
  <2>1. CASE Give /\ proc[op.run] = "up"
    BY <2>1 DEF Give, NoneExhausted, Messages
  <2>2. CASE Give /\ proc[op.run] # "up"
    BY <1>0, <2>2, NoneGivenUp DEF Give
  <2>3. CASE SendWhileRunSettles
    <3>1. op.logged \in BOOLEAN
      BY DEF Ops
    <3> QED BY <1>0, <2>3, <3>1, NoneGivenUp DEF SendWhileRunSettles
  <2>4. CASE StartRun \/ StartDone
    BY <2>4 DEF StartRun, StartDone, NoneExhausted, Messages
  <2>5. CASE SendReadsRecord \/ Refused \/ Promote \/ Wake \/ StartFails \/ Drained \/ SendStoreFails
    BY <1>0, <2>5, NoneGivenUp DEF SendReadsRecord, Refused, Promote, Wake, StartFails, Drained,
       SendStoreFails
  <2>6. CASE \/ SendToLiveRun \/ RunSettled \/ WakeWrite \/ WritePid
             \/ \E r \in Runs : ResumeCreatesRun(r) \/ CreateRun(r)
    BY <1>1, <2>6 DEF SendToLiveRun, RunSettled, WakeWrite, WritePid, ResumeCreatesRun, CreateRun
  <2> QED BY <1>6, <2>1, <2>2, <2>3, <2>4, <2>5, <2>6 DEF SendStep
<1>7. \/ UNCHANGED msgs \/ Crash \/ VerbBegins \/ VerbStep \/ HandlerStep \/ SendStep
  BY DEF vars, Next, SweepStep, TimePasses, SweepPicks, SweepEnds, SweepSkips, Archive,
     AdapterChoice, OrphanExits, Asks, Abandons, ProviderFails, Emits, ProcessEnds,
     FreshStep, FreshStart, FreshStarted, FreshFails, FreshWritesPid,
     SuspendStep, SuspendReads, SuspendEndsRuns, SuspendLoads, SuspendWrites, SuspendFails,
     BootStep, BootReapsRun, BootRunSwept, BootRunsSwept, BootSelectsRows, BootSuspended, BootSweepsRun
<1> QED BY <1>1, <1>2, <1>3, <1>4, <1>5, <1>6, <1>7

(* No race of run ends, failing starts included, gets a message past its   *)
(* first retry: MAX_DELIVERY_ATTEMPTS is never used up (deliverAfterRunEnd *)
(* of session-runtime.ts).                                                 *)
THEOREM RetriesNeverExhaust == LockedStart => (Spec => []RacesNeverExhaust)
<1> SUFFICES ASSUME LockedStart PROVE Spec => []RacesNeverExhaust
  OBVIOUS
<1>1. Init => NoneExhausted
  BY DEF Init, NoneExhausted
<1>2. InductiveInv /\ NoneExhausted /\ [Next]_vars => NoneExhausted'
  BY NoneExhaustedKept DEF InductiveInv
<1>3. InductiveInv /\ NoneExhausted => RacesNeverExhaust
  BY DEF InductiveInv, SettleInv, VerbWaits, NoneExhausted, RacesNeverExhaust
<1> QED BY <1>1, <1>2, <1>3, RunsSettle, PTL DEF Spec

(* From a run's being live to the decision what its end means, nothing     *)
(* comes between, when no write rejects.                                   *)
LEMMA DecisionComes ==
  ASSUME TypeOK, VerbInv, FreshInv, ProcessInv, EndsOver, SettleInv, ~MayFailStore,
         [Next]_vars, EndBeingDecided, ~Crash, ~EndOfClose, ~EndSuspends
  PROVE  EndBeingDecided'
<1>0. ev.pc # "next" => live = NoRun
  BY DEF SettleInv, SettlingOwned
<1>1. CASE UNCHANGED vars
  BY <1>1 DEF vars, EndBeingDecided
<1>2. CASE Bystander
  BY <1>2, BystanderFrame DEF EndBeingDecided
<1>3. CASE StartDone
  BY <1>3 DEF StartDone, RunStarted, VerbInv, EndBeingDecided, NoRun, Runs
<1>4. CASE FreshStep
  <2>1. FreshStarted => live' = 1
    BY DEF FreshStarted, RunStarted
  <2>2. ~FreshStarted => UNCHANGED <<live, ev>>
    BY <1>4 DEF FreshStep, FreshStart, FreshFails, FreshWritesPid, BeginRun, StartFailed
  <2> QED BY <2>1, <2>2 DEF EndBeingDecided, NoRun
<1>5. CASE \/ HandleMessage \/ HandleAnswered \/ HandleTurn \/ HandleQuestion \/ HandleUnasked
  <2>1. Head(queue).kind # "ended" /\ UNCHANGED live
    BY <1>5 DEF HandleMessage, HandleAnswered, HandleTurn, HandleQuestion, HandleUnasked, AtHead
  <2> QED BY <2>1 DEF SettleInv, SettlingOwned, EndBeingDecided
<1>6. CASE EndIsLogged \/ EndPatchesRun \/ EndClearsQuestion
  BY <1>6 DEF EndIsLogged, EndPatchesRun, EndClearsQuestion, SettleInv, SettlingOwned,
     EndBeingDecided, QueueTypeOK
<1>7. ~EndSuspended
  BY <1>0 DEF EndSuspended, EndBeingDecided
<1>8. ~EventStoreFails /\ ~EndStoreFails
  BY DEF EventStoreFails, EndStoreFails
<1> QED BY <1>1, <1>2, <1>3, <1>4, <1>5, <1>6, <1>7, <1>8 DEF Bystander, HandlerStep

(* Who marks a thread as closing, or leaves a reason for the end of its    *)
(* run, has the run live.                                                  *)
LEMMA MarksLiveRun ==
  ASSUME TypeOK, [Next]_vars
  PROVE  /\ closing' /\ ~closing => EndBeingDecided'
         /\ pendingEndReason' # "none" /\ pendingEndReason = "none" => EndBeingDecided'
         /\ Crash => ~closing' /\ pendingEndReason' = "none"
         /\ EndOfClose => ~closing'
         /\ EndSuspends => ~closing' /\ pendingEndReason' = "none"
<1>1. /\ Crash => ~closing' /\ pendingEndReason' = "none"
      /\ EndOfClose => ~closing'
      /\ EndSuspends => ~closing' /\ pendingEndReason' = "none"
  BY DEF Crash, EndOfClose, EndSuspends
<1>2. CASE Close \/ ContinueCloses
  <2>1. UNCHANGED pendingEndReason /\ (live # NoRun \/ UNCHANGED closing)
    BY <1>2 DEF Close, ContinueCloses, CloseLive
  <2>2. UNCHANGED live
    BY <1>2 DEF Close, ContinueCloses
  <2> QED BY <2>1, <2>2, <1>1 DEF EndBeingDecided
<1>3. CASE SweepEnds \/ HandoffEndsRun
  <2>1. UNCHANGED <<closing, live>> /\ live # NoRun
    BY <1>3 DEF SweepEnds, HandoffEndsRun
  <2> QED BY <2>1, <1>1 DEF EndBeingDecided
<1>4. CASE ~(ContinueCloses \/ Close \/ SweepEnds \/ HandoffEndsRun)
  <2>1. UNCHANGED closing \/ closing' = FALSE
    BY <1>4 DEF vars, Next, VerbBegins, Answer, Interrupt, Continue, Handoff, SendMessage,
     SendStep, SendToLiveRun, SendWhileRunSettles, SendReadsRecord, Give, RunSettled,
     Refused, Promote, Wake, WakeWrite, StartRun, StartDone, StartFails, WritePid,
     Drained, SendStoreFails, ResumeCreatesRun, CreateRun,
     VerbStep, TellAgent, CloseReturns, CloseLoads, CloseWrites,
     ContinueNotesFile, VerbStoreFails, HandoffInterrupts, HandoffWithoutRun,
     HandoffSuspended, FreshStep, FreshStart, FreshStarted, FreshFails, FreshWritesPid,
     SweepStep, TimePasses, SweepPicks, SweepSkips, Archive,
     AdapterChoice, OrphanExits, Asks, Abandons, ProviderFails, Emits, ProcessEnds,
     HandlerStep, HandleMessage, HandleAnswered, HandleTurn, HandleQuestion,
     HandleUnasked, EventStoreFails, EndIsLogged, EndPatchesRun, EndClearsQuestion,
     EndOfClose, EndSuspends, EndSuspended, EndStoreFails,
     SuspendStep, SuspendReads, SuspendEndsRuns, SuspendLoads, SuspendWrites, SuspendFails, Crash,
     BootStep, BootReapsRun, BootRunSwept, BootRunsSwept, BootSelectsRows, BootSuspended, BootSweepsRun
  <2>2. UNCHANGED pendingEndReason \/ pendingEndReason' = "none"
    BY <1>4 DEF vars, Next, VerbBegins, Answer, Interrupt, Continue, Handoff, SendMessage,
     SendStep, SendToLiveRun, SendWhileRunSettles, SendReadsRecord, Give, RunSettled,
     Refused, Promote, Wake, WakeWrite, StartRun, StartDone, StartFails, WritePid,
     Drained, SendStoreFails, ResumeCreatesRun, CreateRun,
     VerbStep, TellAgent, CloseReturns, CloseLoads, CloseWrites,
     ContinueNotesFile, VerbStoreFails, HandoffInterrupts, HandoffWithoutRun,
     HandoffSuspended, FreshStep, FreshStart, FreshStarted, FreshFails, FreshWritesPid,
     SweepStep, TimePasses, SweepPicks, SweepSkips, Archive,
     AdapterChoice, OrphanExits, Asks, Abandons, ProviderFails, Emits, ProcessEnds,
     HandlerStep, HandleMessage, HandleAnswered, HandleTurn, HandleQuestion,
     HandleUnasked, EventStoreFails, EndIsLogged, EndPatchesRun, EndClearsQuestion,
     EndOfClose, EndSuspends, EndSuspended, EndStoreFails,
     SuspendStep, SuspendReads, SuspendEndsRuns, SuspendLoads, SuspendWrites, SuspendFails, Crash,
     BootStep, BootReapsRun, BootRunSwept, BootRunsSwept, BootSelectsRows, BootSuspended, BootSweepsRun
  <2> QED BY <2>1, <2>2, <1>1
<1> QED BY <1>2, <1>3, <1>4

(* A thread is marked as closing only while a run is live or its end is    *)
(* being decided, so no later run's end is taken for a close (closing-     *)
(* Sessions of session-runtime.ts); a rejected write would leave the mark. *)
THEOREM ClosingMarkOwned == LockedStart /\ ~MayFailStore => (Spec => []ClosingOwned)
<1> SUFFICES ASSUME LockedStart, ~MayFailStore PROVE Spec => []ClosingOwned
  OBVIOUS
<1>1. Init => ClosingOwned
  BY DEF Init, ClosingOwned
<1>2. InductiveInv /\ ClosingOwned /\ [Next]_vars => ClosingOwned'
  BY DecisionComes, MarksLiveRun DEF InductiveInv, ClosingOwned
<1> QED BY <1>1, <1>2, RunsSettle, PTL DEF Spec

(* Without Uzavrit and Pokracovat nothing marks a thread as closing.       *)
NeverClosing == ~closing /\ op.pc # "continue"

(* No step brings the mark about.                                          *)
LEMMA NeverClosingKept ==
  ASSUME TypeOK, Verbs \cap {"close", "continue"} = {}, NeverClosing, [Next]_vars
  PROVE  NeverClosing'
<1>1. ~Close /\ ~Continue /\ ~ContinueCloses
  BY DEF Close, Continue, ContinueCloses, NeverClosing
<1>2. ~closing'
  BY <1>1 DEF NeverClosing, vars, Next, VerbBegins, Answer, Interrupt, Handoff, SendMessage,
     SendStep, SendToLiveRun, SendWhileRunSettles, SendReadsRecord, Give, RunSettled,
     Refused, Promote, Wake, WakeWrite, StartRun, StartDone, StartFails, WritePid,
     Drained, SendStoreFails, ResumeCreatesRun, CreateRun,
     VerbStep, TellAgent, CloseReturns, CloseLoads, CloseWrites,
     ContinueNotesFile, VerbStoreFails, HandoffInterrupts, HandoffWithoutRun,
     HandoffEndsRun, HandoffSuspended, FreshStep, FreshStart, FreshStarted, FreshFails, FreshWritesPid,
     SweepStep, TimePasses, SweepPicks, SweepEnds, SweepSkips, Archive,
     AdapterChoice, OrphanExits, Asks, Abandons, ProviderFails, Emits, ProcessEnds,
     HandlerStep, HandleMessage, HandleAnswered, HandleTurn, HandleQuestion,
     HandleUnasked, EventStoreFails, EndIsLogged, EndPatchesRun, EndClearsQuestion,
     EndOfClose, EndSuspends, EndSuspended, EndStoreFails,
     SuspendStep, SuspendReads, SuspendEndsRuns, SuspendLoads, SuspendWrites, SuspendFails, Crash,
     BootStep, BootReapsRun, BootRunSwept, BootRunsSwept, BootSelectsRows, BootSuspended, BootSweepsRun
<1>3. op'.pc # "continue"
  <2>1. CASE UNCHANGED op
    BY <2>1 DEF NeverClosing
  <2>2. CASE op' = Free
    BY <2>2 DEF Free
  <2>3. CASE VerbBegins
    BY <1>1, <2>3 DEF VerbBegins, Answer, Interrupt, Handoff, SendMessage, Free
  <2>4. ASSUME NEW l \in BOOLEAN, DeliverAfterRunEnd(l) PROVE op'.pc # "continue"
    BY <2>2, <2>4 DEF DeliverAfterRunEnd, Return, Ops
  <2>5. CASE SendStep
    <3>1. op.logged \in BOOLEAN /\ AfterWake # "continue"
      BY DEF Ops, AfterWake
    <3>2. CASE SendToLiveRun \/ RunSettled \/ WritePid
      BY <3>2 DEF SendToLiveRun, RunSettled, WritePid, DrainThen, Ops
    <3>3. CASE SendWhileRunSettles \/ Give
      BY <2>2, <2>4, <3>1, <3>3 DEF SendWhileRunSettles, Give
    <3>4. CASE SendReadsRecord \/ Promote \/ Wake \/ WakeWrite \/ StartRun \/ StartDone
      BY <2>2, <3>1, <3>4 DEF SendReadsRecord, Promote, Wake, WakeWrite, StartRun, StartDone,
         Return, Ops
    <3>5. CASE Refused \/ StartFails \/ SendStoreFails
      BY <2>2, <3>5 DEF Refused, StartFails, SendStoreFails, Return
    <3>6. CASE Drained
      BY <2>2, <3>6 DEF Drained, Return, Ops
    <3>7. CASE \E r \in Runs : ResumeCreatesRun(r) \/ CreateRun(r)
      BY <3>7 DEF ResumeCreatesRun, CreateRun, Ops
    <3> QED BY <2>5, <3>2, <3>3, <3>4, <3>5, <3>6, <3>7 DEF SendStep
  <2>6. CASE VerbStep
    <3>1. CASE TellAgent \/ CloseReturns \/ HandoffInterrupts \/ HandoffEndsRun
      BY <3>1 DEF TellAgent, CloseReturns, HandoffInterrupts, HandoffEndsRun, DrainThen, Ops
    <3>2. CASE CloseLoads
      BY <2>2, <3>2 DEF CloseLoads, Return, Ops
    <3>3. CASE HandoffWithoutRun
      BY <3>3 DEF HandoffWithoutRun, SuspendFromVerb, Ops
    <3>4. CASE CloseWrites \/ ContinueNotesFile \/ VerbStoreFails \/ HandoffSuspended
      BY <2>2, <3>4 DEF CloseWrites, ContinueNotesFile, VerbStoreFails, HandoffSuspended, Return
    <3> QED BY <1>1, <2>6, <3>1, <3>2, <3>3, <3>4 DEF VerbStep
  <2>7. CASE HandlerStep /\ op' # op
    BY <2>2, <2>7 DEF HandlerStep, HandleMessage, HandleAnswered, HandleTurn, HandleQuestion,
       HandleUnasked, EventStoreFails, EndIsLogged, EndPatchesRun, EndClearsQuestion,
       EndOfClose, EndSuspends, EndSuspended, EndStoreFails, Return, Ops
  <2>8. CASE FreshStep
    BY <2>8 DEF FreshStep, FreshStart, FreshStarted, FreshFails, FreshWritesPid, NeverClosing, Ops
  <2>9. \/ UNCHANGED op \/ op' = Free \/ VerbBegins \/ SendStep \/ VerbStep
        \/ (HandlerStep /\ op' # op) \/ FreshStep
    BY DEF vars, Next, SweepStep, TimePasses, SweepPicks, SweepEnds, SweepSkips, Archive,
     AdapterChoice, OrphanExits, Asks, Abandons, ProviderFails, Emits, ProcessEnds, Crash,
     SuspendStep, SuspendReads, SuspendEndsRuns, SuspendLoads, SuspendWrites, SuspendFails,
     BootStep, BootReapsRun, BootRunSwept, BootRunsSwept, BootSelectsRows, BootSuspended, BootSweepsRun
  <2> QED BY <2>1, <2>2, <2>3, <2>5, <2>6, <2>7, <2>8, <2>9
<1> QED BY <1>2, <1>3 DEF NeverClosing

(* The reason an idle end or Predat leaves speaks of the run it was left   *)
(* for (pendingEndReason).  Under an Uzavrit the end of that run is no     *)
(* suspend and leaves the reason unconsumed, so the theorem is about       *)
(* threads nobody closes or continues.                                     *)
THEOREM EndReasonConsumed ==
  LockedStart /\ ~MayFailStore /\ Verbs \cap {"close", "continue"} = {}
    => (Spec => []EndReasonOwned)
<1> SUFFICES ASSUME LockedStart, ~MayFailStore, Verbs \cap {"close", "continue"} = {}
             PROVE  Spec => []EndReasonOwned
  OBVIOUS
<1>1. Init => EndReasonOwned /\ NeverClosing
  BY DEF Init, EndReasonOwned, NeverClosing, Free
<1>2. InductiveInv /\ NeverClosing /\ EndReasonOwned /\ [Next]_vars
        => EndReasonOwned' /\ NeverClosing'
  <2> SUFFICES ASSUME InductiveInv, NeverClosing, EndReasonOwned, [Next]_vars
               PROVE  EndReasonOwned' /\ NeverClosing'
    OBVIOUS
  <2>1. ~EndOfClose
    BY DEF EndOfClose, NeverClosing
  <2>2. NeverClosing'
    BY NeverClosingKept DEF InductiveInv
  <2> QED BY <2>1, <2>2, DecisionComes, MarksLiveRun DEF InductiveInv, EndReasonOwned
<1> QED BY <1>1, <1>2, RunsSettle, PTL DEF Spec
=============================================================================
