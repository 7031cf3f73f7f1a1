-------------------- MODULE SessionRuntimeProcess_proofs --------------------
(***************************************************************************)
(* A thread has at most one runner process.  The proof rests on the        *)
(* lifecycle lock: a verb that is about to start a run has found no live   *)
(* and no current run, and since only that verb and the lockless first     *)
(* start make a run current, none appears before its own.  The first start *)
(* holds no lock, so the theorems are about threads that begin as drafts,  *)
(* and about the others as long as nobody closes, hands off or continues   *)
(* them (LockedStart).                                                     *)
(***************************************************************************)
EXTENDS SessionRuntime_proofs
USE RuntimeAssumption
    DEF TypeOK, At, Go, recordVars, runVars, memVars, endVars, turnVars, queueVars,
        bootVars, adapterVars

(* The ownership of processes survives every step that starts none, ends   *)
(* no run and leaves the start of a run alone.                             *)
LEMMA ProcessKept ==
  ASSUME TypeOK, VerbInv, ProcessInv,
         UNCHANGED <<fresh, current, live, crashes>>,
         \A r \in Runs : /\ Alive(r)' => Alive(r)
                         /\ proc'[r] = "orphan" => proc[r] = "orphan"
                         /\ proc'[r] = "none" <=> proc[r] = "none"
                         /\ proc[r] = "starting" => proc'[r] = "starting"
                         /\ runRow'[r] = "none" => runRow[r] = "none",
         \/ op' = op
         \/ /\ op.pc # "starting"
            /\ op'.pc \notin {"resume", "promote", "wake", "wakeWrite", "create", "start",
                              "starting"}
            /\ op'.pc = "send" => op'.run = NoRun
  PROVE  ProcessInv'
<1>1. CASE op' = op
  BY <1>1 DEF ProcessInv, VerbInv, Ops
<1>2. CASE op' # op
  BY <1>2 DEF ProcessInv
<1> QED BY <1>1, <1>2

(* Closing a process is such a step.                                       *)
LEMMA ShutdownKeeps ==
  ASSUME TypeOK, VerbInv, ProcessInv,
         UNCHANGED <<fresh, current, live, runRow, crashes>>,
         (\E r \in Runs : Shutdown(r)) \/ UNCHANGED proc,
         op.pc # "starting",
         op'.pc \notin {"resume", "promote", "wake", "wakeWrite", "create", "start",
                        "starting", "send"}
  PROVE  ProcessInv'
<1>1. \A r \in Runs : /\ Alive(r)' => Alive(r)
                      /\ proc'[r] = "orphan" => proc[r] = "orphan"
                      /\ proc'[r] = "none" <=> proc[r] = "none"
                      /\ proc[r] = "starting" => proc'[r] = "starting"
                      /\ runRow'[r] = "none" => runRow[r] = "none"
  <2>1. CASE UNCHANGED proc
    BY <2>1 DEF Alive
  <2>2. ASSUME NEW s \in Runs, Shutdown(s)
        PROVE \A r \in Runs : /\ Alive(r)' => Alive(r)
                              /\ proc'[r] = "orphan" => proc[r] = "orphan"
                              /\ proc'[r] = "none" <=> proc[r] = "none"
                              /\ proc[r] = "starting" => proc'[r] = "starting"
    BY <2>2 DEF Shutdown, Alive, AdapterTypeOK
  <2> QED BY <2>1, <2>2
<1> QED BY <1>1, ProcessKept

(* The ends in the queue remain those of processes that are over: over is  *)
(* final, and only the end of a process queues one.                        *)
LEMMA EndsKept ==
  ASSUME QueueTypeOK, EndsOver,
         \A r \in Runs : proc[r] = "over" => proc'[r] = "over",
         \/ UNCHANGED queue
         \/ queue # <<>> /\ Dequeue
         \/ \E t \in Tasks : Enqueue(t) /\ (t.kind = "ended" => proc'[t.run] = "over")
  PROVE  EndsOver'
<1>0. \A i \in DOMAIN queue : queue[i].run \in Runs
  <2>1. queue \in [1..Len(queue) -> Tasks]
    BY LenProperties DEF QueueTypeOK
  <2> QED BY <2>1 DEF Tasks
<1>1. CASE UNCHANGED queue
  BY <1>0, <1>1 DEF EndsOver
<1>2. CASE queue # <<>> /\ Dequeue
  BY <1>0, <1>2, TaskHandled DEF EndsOver, QueueTypeOK
<1>3. ASSUME NEW t \in Tasks, Enqueue(t), t.kind = "ended" => proc'[t.run] = "over"
      PROVE  EndsOver'
  BY <1>0, <1>3, TaskQueued DEF EndsOver, QueueTypeOK
<1> QED BY <1>1, <1>2, <1>3


(* A verb that takes the lock keeps the ownership of processes.            *)
LEMMA VerbBeginsProcess ==
  ASSUME TypeOK, VerbInv, VerbTasks, FreshInv, ProcessInv, EndsOver, VerbBegins
  PROVE  ProcessInv' /\ EndsOver'
<1>1. CASE Answer
  <2>1. ProcessInv'
    BY <1>1, ProcessKept DEF Answer, Free, Ops, Alive
  <2>2. EndsOver'
    <3>1. Task("answered", live) \in Tasks /\ Task("answered", live).kind = "answered"
      BY <1>1, TaskFacts DEF Answer, MemoryTypeOK
    <3> QED BY <1>1, <3>1, EndsKept DEF Answer
  <2> QED BY <2>1, <2>2
<1>2. CASE Interrupt
  <2>1. ProcessInv'
    BY <1>2, ProcessKept DEF Interrupt, Free, Ops, Alive
  <2>2. EndsOver'
    BY <1>2, EndsKept DEF Interrupt
  <2> QED BY <2>1, <2>2
<1>3. CASE Close
  <2>1. ProcessInv'
    <3>1. (\E r \in Runs : Shutdown(r)) \/ UNCHANGED proc
      BY <1>3 DEF Close, CloseLive, MemoryTypeOK
    <3>2. UNCHANGED <<fresh, current, live, runRow, crashes>> /\ op.pc = "free"
      BY <1>3 DEF Close
    <3>3. op'.pc \in {"closeWait", "closeLoad"}
      BY <1>3, FreeInOps DEF Close, Ops
    <3> QED BY <3>1, <3>2, <3>3, ShutdownKeeps
  <2>2. EndsOver'
    BY <1>3, EndsKept DEF Close, CloseLive, Shutdown, AdapterTypeOK
  <2> QED BY <2>1, <2>2
<1>4. CASE Continue
  <2>1. ProcessInv'
    BY <1>4, ProcessKept DEF Continue, Free, Ops, Alive
  <2>2. EndsOver'
    BY <1>4, EndsKept DEF Continue
  <2> QED BY <2>1, <2>2
<1>5. CASE Handoff
  <2>1. ProcessInv'
    BY <1>5, ProcessKept DEF Handoff, Free, Ops, Alive
  <2>2. EndsOver'
    BY <1>5, EndsKept DEF Handoff
  <2> QED BY <2>1, <2>2
<1>6. ASSUME NEW m \in Msgs, SendMessage(m)
      PROVE  ProcessInv' /\ EndsOver'
  <2>1. ProcessInv'
    BY <1>6, ProcessKept DEF SendMessage, Free, Ops, Alive
  <2>2. EndsOver'
    BY <1>6, EndsKept DEF SendMessage
  <2> QED BY <2>1, <2>2
<1> QED BY <1>1, <1>2, <1>3, <1>4, <1>5, <1>6 DEF VerbBegins

(* A message that wakes the thread found no process before it starts one,  *)
(* and holds the lock until the start is over.                             *)
LEMMA SendStepProcess ==
  ASSUME TypeOK, VerbInv, VerbTasks, FreshInv, ProcessInv, EndsOver, SendStep
  PROVE  ProcessInv' /\ EndsOver'
<1>1. CASE SendToLiveRun
  <2>1. ProcessInv'
    BY <1>1, ProcessKept DEF SendToLiveRun, Free, Ops, Alive
  <2>2. EndsOver'
    <3>1. Task("message", live) \in Tasks /\ Task("message", live).kind = "message"
      BY <1>1, TaskFacts DEF SendToLiveRun, MemoryTypeOK
    <3> QED BY <1>1, <3>1, EndsKept DEF SendToLiveRun
  <2> QED BY <2>1, <2>2
<1>2. CASE SendWhileRunSettles
  <2>1. ProcessInv'
    <3>1. op'.pc \in {"free", "settle"}
      BY <1>2, Redelivered DEF SendWhileRunSettles, Ops
    <3> QED BY <1>2, <3>1, ProcessKept DEF SendWhileRunSettles, Alive
  <2>2. EndsOver'
    BY <1>2, EndsKept DEF SendWhileRunSettles, DeliverAfterRunEnd
  <2> QED BY <2>1, <2>2
<1>3. CASE SendReadsRecord
  <2>1. ProcessInv'
    <3>1. CASE op'.pc = "free"
      BY <1>3, <3>1, ProcessKept DEF SendReadsRecord, Return, Free, Alive
    <3>2. CASE op'.pc # "free"
      <4>1. fresh # "starting" /\ live = NoRun /\ current = NoRun
        BY <1>3, <3>2 DEF SendReadsRecord, Return, Free, FreshInv, ProcessInv
      <4>2. op' = [op EXCEPT !.pc = "promote"] \/ op' = [op EXCEPT !.pc = "resume"]
        BY <1>3, <3>2 DEF SendReadsRecord, Return, Free
      <4>3. op'.run = op.run /\ op'.pc \in {"promote", "resume"} /\ op.run = NoRun
        BY <1>3, <4>2 DEF Ops, SendReadsRecord, ProcessInv
      <4>4. UNCHANGED <<fresh, live, current, proc, runRow, crashes>>
        BY <1>3 DEF SendReadsRecord
      <4> QED BY <4>1, <4>3, <4>4 DEF ProcessInv, Alive
    <3> QED BY <3>1, <3>2
  <2>2. EndsOver'
    BY <1>3, EndsKept DEF SendReadsRecord
  <2> QED BY <2>1, <2>2
<1>4. CASE Give
  <2>1. ProcessInv'
    <3>1. CASE proc[op.run] = "up"
      BY <1>4, <3>1, ProcessKept DEF Give, Free, Alive
    <3>2. CASE proc[op.run] # "up"
      <4>1. op'.pc \in {"free", "settle"}
        BY <1>4, <3>2, Redelivered DEF Give
      <4> QED BY <1>4, <4>1, ProcessKept DEF Give, Alive
    <3> QED BY <3>1, <3>2
  <2>2. EndsOver'
    BY <1>4, EndsKept DEF Give, DeliverAfterRunEnd
  <2> QED BY <2>1, <2>2
<1>5. CASE RunSettled
  <2>1. ProcessInv'
    BY <1>5, ProcessKept DEF RunSettled, Free, Ops, Alive
  <2>2. EndsOver'
    BY <1>5, EndsKept DEF RunSettled
  <2> QED BY <2>1, <2>2
<1>6. CASE Refused
  <2>1. ProcessInv'
    BY <1>6, ProcessKept DEF Refused, Return, Free, Ops, Alive
  <2>2. EndsOver'
    BY <1>6, EndsKept DEF Refused
  <2> QED BY <2>1, <2>2
<1>7. CASE Promote
  <2>1. ProcessInv'
    BY <1>7 DEF Promote, Return, Alive, Free, Ops, RecordTypeOK, AdapterTypeOK,
       ProcessInv, VerbInv, NextRun, MemoryTypeOK, NoRun
  <2>2. EndsOver'
    BY <1>7, EndsKept DEF Promote
  <2> QED BY <2>1, <2>2
<1>8. CASE Wake
  <2>1. ProcessInv'
    BY <1>8 DEF Wake, AfterWake, Return, Alive, Free, Ops, RecordTypeOK,
       AdapterTypeOK, ProcessInv, VerbInv, NextRun, MemoryTypeOK, NoRun
  <2>2. EndsOver'
    BY <1>8, EndsKept DEF Wake, AfterWake
  <2> QED BY <2>1, <2>2
<1>9. CASE WakeWrite
  <2>1. ProcessInv'
    BY <1>9 DEF WakeWrite, AfterWake, Alive, Free, Ops, RecordTypeOK, AdapterTypeOK,
       ProcessInv, VerbInv, NextRun, MemoryTypeOK, NoRun
  <2>2. EndsOver'
    BY <1>9, EndsKept DEF WakeWrite, AfterWake
  <2> QED BY <2>1, <2>2
<1>10. CASE StartRun
  <2>1. ProcessInv'
    <3>1. /\ op.run \in Runs /\ proc[op.run] = "none" /\ runRow[op.run] # "none"
          /\ live = NoRun /\ current = NoRun
      BY <1>10 DEF StartRun, VerbInv, ProcessInv, NoRun, Runs
    <3>2. /\ current' = op.run /\ proc' = [proc EXCEPT ![op.run] = "starting"]
          /\ UNCHANGED <<live, runRow, fresh, crashes>>
          /\ op' = [op EXCEPT !.pc = "starting"]
      BY <1>10 DEF StartRun, BeginRun
    <3>3. \A r \in Runs : ~Alive(r)
      BY <3>1 DEF ProcessInv, NoRun, Runs
    <3>4. \A r \in Runs : /\ r # op.run => ~Alive(r)'
                          /\ proc'[r] = "orphan" => proc[r] = "orphan"
      BY <3>2, <3>3 DEF Alive, AdapterTypeOK
    <3>5. op'.pc = "starting" /\ op'.run = op.run /\ proc'[op.run] = "starting"
      BY <3>1, <3>2 DEF Ops, AdapterTypeOK
    <3>6. \A r \in Runs : runRow'[r] = "none" => proc'[r] = "none"
      BY <3>1, <3>2 DEF ProcessInv, AdapterTypeOK
    <3> QED BY <3>1, <3>2, <3>4, <3>5, <3>6 DEF ProcessInv
  <2>2. EndsOver'
    <3>1. proc[op.run] = "none"
      BY <1>10 DEF StartRun, VerbInv, ProcessInv, NoRun, Runs
    <3> QED BY <1>10, <3>1, EndsKept DEF StartRun, BeginRun, AdapterTypeOK
  <2> QED BY <2>1, <2>2
<1>11. CASE StartDone
  <2>1. ProcessInv'
    BY <1>11 DEF StartDone, RunStarted, Alive, Free, Ops, RecordTypeOK, AdapterTypeOK,
       ProcessInv, VerbInv, NextRun, MemoryTypeOK, NoRun
  <2>2. EndsOver'
    BY <1>11, EndsKept DEF StartDone, RunStarted, AdapterTypeOK, ProcessInv
  <2> QED BY <2>1, <2>2
<1>12. CASE StartFails
  <2>1. ProcessInv'
    BY <1>12 DEF StartFails, Return, StartFailed, Alive, Free, Ops, RecordTypeOK,
       AdapterTypeOK, ProcessInv, VerbInv, NextRun, MemoryTypeOK, NoRun
  <2>2. EndsOver'
    BY <1>12, EndsKept DEF StartFails, StartFailed, AdapterTypeOK
  <2> QED BY <2>1, <2>2
<1>13. CASE WritePid
  <2>1. ProcessInv'
    BY <1>13, ProcessKept DEF WritePid, WritePidFile, DrainThen, Free, Ops, Alive
  <2>2. EndsOver'
    BY <1>13, EndsKept DEF WritePid, WritePidFile, DrainThen
  <2> QED BY <2>1, <2>2
<1>14. CASE Drained
  <2>1. ProcessInv'
    BY <1>14, ProcessKept DEF Drained, Return, Free, Ops, Alive
  <2>2. EndsOver'
    BY <1>14, EndsKept DEF Drained
  <2> QED BY <2>1, <2>2
<1>15. CASE SendStoreFails
  <2>1. ProcessInv'
    BY <1>15, ProcessKept DEF SendStoreFails, Return, Free, Ops, Alive
  <2>2. EndsOver'
    BY <1>15, EndsKept DEF SendStoreFails
  <2> QED BY <2>1, <2>2
<1>16. ASSUME NEW r \in Runs, ResumeCreatesRun(r)
      PROVE  ProcessInv' /\ EndsOver'
  <2>1. ProcessInv'
    BY <1>16 DEF ResumeCreatesRun, Alive, Free, Ops, RecordTypeOK, AdapterTypeOK,
       ProcessInv, VerbInv, NextRun, MemoryTypeOK, NoRun
  <2>2. EndsOver'
    BY <1>16, EndsKept DEF ResumeCreatesRun
  <2> QED BY <2>1, <2>2
<1>17. ASSUME NEW r \in Runs, CreateRun(r)
      PROVE  ProcessInv' /\ EndsOver'
  <2>1. ProcessInv'
    BY <1>17 DEF CreateRun, Alive, Free, Ops, RecordTypeOK, AdapterTypeOK, ProcessInv,
       VerbInv, NextRun, MemoryTypeOK, NoRun
  <2>2. EndsOver'
    BY <1>17, EndsKept DEF CreateRun
  <2> QED BY <2>1, <2>2
<1> QED BY <1>1, <1>2, <1>3, <1>4, <1>5, <1>6, <1>7, <1>8, <1>9, <1>10, <1>11, <1>12,
           <1>13, <1>14, <1>15, <1>16, <1>17 DEF SendStep

(* The other verbs start nothing.                                          *)
LEMMA VerbStepProcess ==
  ASSUME TypeOK, VerbInv, VerbTasks, FreshInv, ProcessInv, EndsOver, VerbStep
  PROVE  ProcessInv' /\ EndsOver'
<1>1. CASE TellAgent
  <2>1. ProcessInv'
    BY <1>1, ProcessKept DEF TellAgent, DrainThen, Free, Ops, Alive
  <2>2. EndsOver'
    BY <1>1, EndsKept DEF TellAgent, DrainThen
  <2> QED BY <2>1, <2>2
<1>2. CASE ContinueCloses
  <2>1. ProcessInv'
    <3>1. (\E r \in Runs : Shutdown(r)) \/ UNCHANGED proc
      BY <1>2 DEF ContinueCloses, CloseLive, MemoryTypeOK
    <3>2. UNCHANGED <<fresh, current, live, runRow, crashes>> /\ op.pc = "continue"
      BY <1>2 DEF ContinueCloses
    <3>3. op'.pc \in {"closeWait", "closeLoad", "note"}
      BY <1>2 DEF ContinueCloses, AfterClose, Ops
    <3> QED BY <3>1, <3>2, <3>3, ShutdownKeeps
  <2>2. EndsOver'
    BY <1>2, EndsKept DEF ContinueCloses, CloseLive, Shutdown, AfterClose, AdapterTypeOK
  <2> QED BY <2>1, <2>2
<1>3. CASE CloseReturns
  <2>1. ProcessInv'
    BY <1>3, ProcessKept DEF CloseReturns, Free, Ops, Alive
  <2>2. EndsOver'
    BY <1>3, EndsKept DEF CloseReturns
  <2> QED BY <2>1, <2>2
<1>4. CASE CloseLoads
  <2>1. ProcessInv'
    BY <1>4, ProcessKept DEF CloseLoads, Return, Free, Ops, Alive
  <2>2. EndsOver'
    BY <1>4, EndsKept DEF CloseLoads
  <2> QED BY <2>1, <2>2
<1>5. CASE CloseWrites
  <2>1. ProcessInv'
    BY <1>5, ProcessKept DEF CloseWrites, Return, Free, Ops, Alive
  <2>2. EndsOver'
    BY <1>5, EndsKept DEF CloseWrites
  <2> QED BY <2>1, <2>2
<1>6. CASE ContinueNotesFile
  <2>1. ProcessInv'
    BY <1>6, ProcessKept DEF ContinueNotesFile, Return, Free, Ops, Alive
  <2>2. EndsOver'
    BY <1>6, EndsKept DEF ContinueNotesFile
  <2> QED BY <2>1, <2>2
<1>7. CASE VerbStoreFails
  <2>1. ProcessInv'
    BY <1>7, ProcessKept DEF VerbStoreFails, Return, Free, Ops, Alive
  <2>2. EndsOver'
    BY <1>7, EndsKept DEF VerbStoreFails
  <2> QED BY <2>1, <2>2
<1>8. CASE HandoffInterrupts
  <2>1. ProcessInv'
    BY <1>8, ProcessKept DEF HandoffInterrupts, DrainThen, Free, Ops, Alive
  <2>2. EndsOver'
    BY <1>8, EndsKept DEF HandoffInterrupts, DrainThen
  <2> QED BY <2>1, <2>2
<1>9. CASE HandoffWithoutRun
  <2>1. ProcessInv'
    BY <1>9, ProcessKept DEF HandoffWithoutRun, SuspendFromVerb, Free, Ops, Alive
  <2>2. EndsOver'
    BY <1>9, EndsKept DEF HandoffWithoutRun, SuspendFromVerb
  <2> QED BY <2>1, <2>2
<1>10. CASE HandoffEndsRun
  <2>1. ProcessInv'
    BY <1>10, ProcessKept DEF HandoffEndsRun, Shutdown, Free, Ops, AdapterTypeOK, Alive
  <2>2. EndsOver'
    BY <1>10, EndsKept DEF HandoffEndsRun, Shutdown, AdapterTypeOK
  <2> QED BY <2>1, <2>2
<1>11. CASE HandoffSuspended
  <2>1. ProcessInv'
    BY <1>11, ProcessKept DEF HandoffSuspended, Return, Free, Ops, Alive
  <2>2. EndsOver'
    BY <1>11, EndsKept DEF HandoffSuspended
  <2> QED BY <2>1, <2>2
<1> QED BY <1>1, <1>2, <1>3, <1>4, <1>5, <1>6, <1>7, <1>8, <1>9, <1>10, <1>11 DEF VerbStep

(* Nor does the idle sweep.                                                *)
LEMMA SweepStepProcess ==
  ASSUME TypeOK, VerbInv, VerbTasks, FreshInv, ProcessInv, EndsOver, SweepStep
  PROVE  ProcessInv' /\ EndsOver'
<1>1. CASE TimePasses
  <2>1. ProcessInv'
    BY <1>1, ProcessKept DEF TimePasses, Alive
  <2>2. EndsOver'
    BY <1>1, EndsKept DEF TimePasses
  <2> QED BY <2>1, <2>2
<1>2. CASE SweepPicks
  <2>1. ProcessInv'
    BY <1>2, ProcessKept DEF SweepPicks, Alive
  <2>2. EndsOver'
    BY <1>2, EndsKept DEF SweepPicks
  <2> QED BY <2>1, <2>2
<1>3. CASE SweepEnds
  <2>1. ProcessInv'
    BY <1>3, ProcessKept DEF SweepEnds, Shutdown, AdapterTypeOK, Alive
  <2>2. EndsOver'
    BY <1>3, EndsKept DEF SweepEnds, Shutdown, AdapterTypeOK
  <2> QED BY <2>1, <2>2
<1>4. CASE SweepSkips
  <2>1. ProcessInv'
    BY <1>4, ProcessKept DEF SweepSkips, Alive
  <2>2. EndsOver'
    BY <1>4, EndsKept DEF SweepSkips
  <2> QED BY <2>1, <2>2
<1> QED BY <1>1, <1>2, <1>3, <1>4 DEF SweepStep

(* Nor an agent.                                                           *)
LEMMA AdapterChoiceProcess ==
  ASSUME TypeOK, VerbInv, VerbTasks, FreshInv, ProcessInv, EndsOver, AdapterChoice
  PROVE  ProcessInv' /\ EndsOver'
<1>1. ASSUME NEW r \in Runs, Asks(r)
      PROVE  ProcessInv' /\ EndsOver'
  <2>1. ProcessInv'
    BY <1>1, ProcessKept DEF Asks, Alive
  <2>2. EndsOver'
    BY <1>1, EventEmitted, EndsKept DEF Asks
  <2> QED BY <2>1, <2>2
<1>2. ASSUME NEW r \in Runs, Abandons(r)
      PROVE  ProcessInv' /\ EndsOver'
  <2>1. ProcessInv'
    BY <1>2, ProcessKept DEF Abandons, Alive
  <2>2. EndsOver'
    BY <1>2, EventEmitted, EndsKept DEF Abandons
  <2> QED BY <2>1, <2>2
<1>3. ASSUME NEW r \in Runs, ProviderFails(r)
      PROVE  ProcessInv' /\ EndsOver'
  <2>1. ProcessInv'
    BY <1>3, ProcessKept DEF ProviderFails, AdapterTypeOK, Alive
  <2>2. EndsOver'
    BY <1>3, EndsKept DEF ProviderFails, AdapterTypeOK
  <2> QED BY <2>1, <2>2
<1>4. ASSUME NEW r \in Runs, NEW k \in 0..(Cardinality(Msgs) + 1), Emits(r, k)
      PROVE  ProcessInv' /\ EndsOver'
  <2>1. ProcessInv'
    BY <1>4, ProcessKept DEF Emits, Alive
  <2>2. EndsOver'
    BY <1>4, EventEmitted, EndsKept DEF Emits
  <2> QED BY <2>1, <2>2
<1>5. ASSUME NEW r \in Runs, OrphanExits(r)
      PROVE  ProcessInv' /\ EndsOver'
  <2>1. ProcessInv'
    BY <1>5, ProcessKept DEF OrphanExits, AdapterTypeOK, Alive
  <2>2. EndsOver'
    BY <1>5, EndsKept DEF OrphanExits, AdapterTypeOK
  <2> QED BY <2>1, <2>2
<1> QED BY <1>1, <1>2, <1>3, <1>4, <1>5 DEF AdapterChoice

(* The handler drops the current run only when its process is over.        *)
LEMMA HandlerStepProcess ==
  ASSUME TypeOK, VerbInv, VerbTasks, FreshInv, ProcessInv, EndsOver, HandlerStep
  PROVE  ProcessInv' /\ EndsOver'
<1>1. CASE HandleMessage
  <2>1. ProcessInv'
    <3>1. op.pc = "log"
      BY <1>1, VerbTaskHandled DEF HandleMessage, AtHead, AwaitedAt
    <3>2. op'.pc \in {"give", "free"}
      BY <1>1, Returned DEF HandleMessage, Ops
    <3> QED BY <1>1, <3>1, <3>2, ProcessKept DEF HandleMessage, Alive
  <2>2. EndsOver'
    BY <1>1, EndsKept DEF HandleMessage, AtHead
  <2> QED BY <2>1, <2>2
<1>2. CASE HandleAnswered
  <2>1. ProcessInv'
    <3>1. op.pc = "record"
      BY <1>2, VerbTaskHandled DEF HandleAnswered, AtHead, AwaitedAt
    <3>2. op'.pc \in {"tell", "free"}
      BY <1>2, Returned DEF HandleAnswered, Ops
    <3> QED BY <1>2, <3>1, <3>2, ProcessKept DEF HandleAnswered, Alive
  <2>2. EndsOver'
    BY <1>2, EndsKept DEF HandleAnswered, AtHead
  <2> QED BY <2>1, <2>2
<1>3. CASE HandleTurn
  <2>1. ProcessInv'
    BY <1>3, ProcessKept DEF HandleTurn, AtHead, Alive
  <2>2. EndsOver'
    BY <1>3, EndsKept DEF HandleTurn, AtHead
  <2> QED BY <2>1, <2>2
<1>4. CASE HandleQuestion
  <2>1. ProcessInv'
    BY <1>4, ProcessKept DEF HandleQuestion, AtHead, Alive
  <2>2. EndsOver'
    BY <1>4, EndsKept DEF HandleQuestion, AtHead
  <2> QED BY <2>1, <2>2
<1>5. CASE HandleUnasked
  <2>1. ProcessInv'
    BY <1>5, ProcessKept DEF HandleUnasked, AtHead, Alive
  <2>2. EndsOver'
    BY <1>5, EndsKept DEF HandleUnasked, AtHead
  <2> QED BY <2>1, <2>2
<1>6. CASE EndIsLogged
  <2>1. ProcessInv'
    <3>1. CASE HeadRun # current
      BY <1>6, <3>1, ProcessKept DEF EndIsLogged, Alive
    <3>2. CASE HeadRun = current
      <4>1. proc[current] = "over" /\ current \in Runs
        BY <1>6, <3>2, HeadTask DEF EndIsLogged, AtHead, HeadRun, EndsOver,
           QueueTypeOK, Tasks
      <4>2. \A r \in Runs : ~Alive(r)
        BY <4>1 DEF ProcessInv, Alive
      <4>3. op.pc # "starting"
        BY <4>1 DEF ProcessInv
      <4>4. live' = NoRun /\ current' = NoRun /\ UNCHANGED <<fresh, proc, runRow, op, crashes>>
        BY <1>6, <3>2 DEF EndIsLogged
      <4> QED BY <4>2, <4>3, <4>4 DEF ProcessInv, Alive
    <3> QED BY <3>1, <3>2
  <2>2. EndsOver'
    BY <1>6, EndsKept DEF EndIsLogged
  <2> QED BY <2>1, <2>2
<1>7. CASE EndPatchesRun
  <2>1. ProcessInv'
    <3>1. ev.reason # "none"
      BY DEF QueueTypeOK, RunEndReasons
    <3>2. \A r \in Runs : runRow'[r] = "none" => runRow[r] = "none"
      BY <1>7, <3>1 DEF EndPatchesRun, RecordTypeOK
    <3> QED BY <1>7, <3>2, ProcessKept DEF EndPatchesRun, Alive
  <2>2. EndsOver'
    BY <1>7, EndsKept DEF EndPatchesRun, AtHead, EndHandled
  <2> QED BY <2>1, <2>2
<1>8. CASE EndClearsQuestion
  <2>1. ProcessInv'
    BY <1>8, ProcessKept DEF EndClearsQuestion, AtHead, Alive
  <2>2. EndsOver'
    BY <1>8, EndsKept DEF EndClearsQuestion
  <2> QED BY <2>1, <2>2
<1>9. CASE EndOfClose
  <2>1. ProcessInv'
    BY <1>9, ProcessKept DEF EndOfClose, AtHead, Alive
  <2>2. EndsOver'
    BY <1>9, EndsKept DEF EndOfClose, AtHead, EndHandled
  <2> QED BY <2>1, <2>2
<1>10. CASE EndSuspends
  <2>1. ProcessInv'
    BY <1>10, ProcessKept DEF EndSuspends, AtHead, Alive
  <2>2. EndsOver'
    BY <1>10, EndsKept DEF EndSuspends
  <2> QED BY <2>1, <2>2
<1>11. CASE EndSuspended
  <2>1. ProcessInv'
    BY <1>11, ProcessKept DEF EndSuspended, AtHead, Alive
  <2>2. EndsOver'
    BY <1>11, EndsKept DEF EndSuspended, AtHead, EndHandled
  <2> QED BY <2>1, <2>2
<1>12. CASE EndStoreFails
  <2>1. ProcessInv'
    BY <1>12, ProcessKept DEF EndStoreFails, AtHead, Alive
  <2>2. EndsOver'
    BY <1>12, EndsKept DEF EndStoreFails, AtHead, EndHandled
  <2> QED BY <2>1, <2>2
<1>13. CASE EventStoreFails
  <2>1. ProcessInv'
    BY <1>13, ProcessKept DEF EventStoreFails, Alive
  <2>2. EndsOver'
    BY <1>13, EndsKept DEF EventStoreFails, AtHead
  <2> QED BY <2>1, <2>2
<1> QED BY <1>1, <1>2, <1>3, <1>4, <1>5, <1>6, <1>7, <1>8, <1>9, <1>10, <1>11, <1>12,
           <1>13 DEF HandlerStep

(* A suspend touches only the record and the run rows.                     *)
LEMMA SuspendProcess ==
  ASSUME TypeOK, VerbInv, VerbTasks, FreshInv, ProcessInv, EndsOver, NEW p \in Suspenders, SuspendStep(p)
  PROVE  ProcessInv' /\ EndsOver'
<1>1. CASE SuspendReads(p)
  <2>1. ProcessInv'
    BY <1>1, ProcessKept DEF SuspendReads, SusGo, Alive
  <2>2. EndsOver'
    BY <1>1, EndsKept DEF SuspendReads, SusGo
  <2> QED BY <2>1, <2>2
<1>2. CASE SuspendEndsRuns(p)
  <2>1. ProcessInv'
    BY <1>2, ProcessKept DEF SuspendEndsRuns, SusGo, RecordTypeOK, Alive
  <2>2. EndsOver'
    BY <1>2, EndsKept DEF SuspendEndsRuns, SusGo
  <2> QED BY <2>1, <2>2
<1>3. CASE SuspendLoads(p)
  <2>1. ProcessInv'
    BY <1>3, ProcessKept DEF SuspendLoads, SusGo, Alive
  <2>2. EndsOver'
    BY <1>3, EndsKept DEF SuspendLoads, SusGo
  <2> QED BY <2>1, <2>2
<1>4. CASE SuspendWrites(p)
  <2>1. ProcessInv'
    BY <1>4, ProcessKept DEF SuspendWrites, SusGo, Alive
  <2>2. EndsOver'
    BY <1>4, EndsKept DEF SuspendWrites, SusGo
  <2> QED BY <2>1, <2>2
<1>5. CASE SuspendFails(p)
  <2>1. ProcessInv'
    BY <1>5, ProcessKept DEF SuspendFails, SusGo, Alive
  <2>2. EndsOver'
    BY <1>5, EndsKept DEF SuspendFails, SusGo
  <2> QED BY <2>1, <2>2
<1> QED BY <1>1, <1>2, <1>3, <1>4, <1>5 DEF SuspendStep

(* As do the sweeps of a boot.                                             *)
LEMMA BootStepProcess ==
  ASSUME TypeOK, VerbInv, VerbTasks, FreshInv, ProcessInv, EndsOver, BootStep
  PROVE  ProcessInv' /\ EndsOver'
<1>1. CASE BootRunSwept
  <2>1. ProcessInv'
    BY <1>1, ProcessKept DEF BootRunSwept, Alive
  <2>2. EndsOver'
    BY <1>1, EndsKept DEF BootRunSwept
  <2> QED BY <2>1, <2>2
<1>2. CASE BootRunsSwept
  <2>1. ProcessInv'
    BY <1>2, ProcessKept DEF BootRunsSwept, Alive
  <2>2. EndsOver'
    BY <1>2, EndsKept DEF BootRunsSwept
  <2> QED BY <2>1, <2>2
<1>3. CASE BootSelectsRows
  <2>1. ProcessInv'
    BY <1>3, ProcessKept DEF BootSelectsRows, Alive
  <2>2. EndsOver'
    BY <1>3, EndsKept DEF BootSelectsRows
  <2> QED BY <2>1, <2>2
<1>4. CASE BootSuspended
  <2>1. ProcessInv'
    BY <1>4, ProcessKept DEF BootSuspended, Alive
  <2>2. EndsOver'
    BY <1>4, EndsKept DEF BootSuspended
  <2> QED BY <2>1, <2>2
<1>5. ASSUME NEW r \in Runs, BootSweepsRun(r)
      PROVE  ProcessInv' /\ EndsOver'
  <2>1. ProcessInv'
    BY <1>5, ProcessKept DEF BootSweepsRun, RecordTypeOK, Alive
  <2>2. EndsOver'
    BY <1>5, EndsKept DEF BootSweepsRun
  <2> QED BY <2>1, <2>2
<1>6. CASE BootReapsRun
  <2>1. /\ bootRun \in Runs
        /\ proc' = [proc EXCEPT ![bootRun] = IF @ = "orphan" THEN "over" ELSE @]
        /\ runRow' = [runRow EXCEPT ![bootRun] = "host_lost"]
        /\ UNCHANGED <<fresh, current, live, crashes, op, queue>>
    BY <1>6 DEF BootReapsRun, SweepTypeOK
  <2>2. ProcessInv'
    BY <2>1, ProcessKept DEF RecordTypeOK, AdapterTypeOK, Alive
  <2>3. EndsOver'
    BY <2>1, EndsKept DEF AdapterTypeOK
  <2> QED BY <2>2, <2>3
<1> QED BY <1>1, <1>2, <1>3, <1>4, <1>5, <1>6 DEF BootStep

(* And the archiving sweep.                                                *)
LEMMA ArchiveProcess ==
  ASSUME TypeOK, VerbInv, VerbTasks, FreshInv, ProcessInv, EndsOver, Archive
  PROVE  ProcessInv' /\ EndsOver'
<1>1. ProcessInv'
  BY ProcessKept DEF Archive, Alive
<1>2. EndsOver'
  BY EndsKept DEF Archive
<1> QED BY <1>1, <1>2

(* A process that ends is over when its end is queued.                     *)
LEMMA ProcessEndsProcess ==
  ASSUME TypeOK, VerbInv, VerbTasks, FreshInv, ProcessInv, EndsOver, NEW r \in Runs, ProcessEnds(r)
  PROVE  ProcessInv' /\ EndsOver'
<1>1. ProcessInv'
  BY ProcessKept DEF ProcessEnds, Ending, Alive, AdapterTypeOK
<1>2. EndsOver'
  <2>1. proc' = [proc EXCEPT ![r] = "over"]
    BY DEF ProcessEnds
  <2>2. \A s \in Runs : proc[s] = "over" => proc'[s] = "over"
    BY <2>1 DEF AdapterTypeOK
  <2>3. proc'[r] = "over"
    BY <2>1 DEF AdapterTypeOK
  <2> QED BY <2>2, <2>3, EndEmitted, EndsKept
<1> QED BY <1>1, <1>2

(* Every process of a server that dies is an orphan from then on.          *)
LEMMA CrashProcess ==
  ASSUME TypeOK, VerbInv, VerbTasks, FreshInv, ProcessInv, EndsOver, Crash
  PROVE  ProcessInv' /\ EndsOver'
<1>1. ProcessInv'
  <2>1. \A r \in Runs : ~Alive(r)' /\ (proc[r] = "none" => proc'[r] = "none")
    BY DEF Crash, Alive, AdapterTypeOK
  <2>2. crashes' > 0
    BY DEF Crash, SweepTypeOK
  <2> QED BY <2>1, <2>2 DEF Crash, Free, ProcessInv
<1>2. EndsOver'
  BY DEF Crash, EndsOver
<1> QED BY <1>1, <1>2

(* The first run's own start: it is current before its process exists and  *)
(* live once the adapter has it.                                           *)
LEMMA FreshStepProcess ==
  ASSUME TypeOK, VerbInv, VerbTasks, FreshInv, ProcessInv, EndsOver, FreshStep
  PROVE  ProcessInv' /\ EndsOver'
<1>0. 1 \in Runs
  BY DEF Runs
<1>1. CASE FreshStart
  <2>1. /\ current = NoRun /\ live = NoRun /\ proc[1] = "none" /\ runRow[1] = "open"
        /\ op.pc \in {"free", "send"} /\ queue = <<>>
    BY <1>1 DEF FreshStart, FreshInv
  <2>2. /\ current' = 1 /\ fresh' = "starting" /\ proc' = [proc EXCEPT ![1] = "starting"]
        /\ UNCHANGED <<live, op, runRow, queue, crashes>>
    BY <1>1 DEF FreshStart, BeginRun
  <2>3. \A r \in Runs : ~Alive(r)
    BY <2>1 DEF ProcessInv, NoRun, Runs
  <2>4. \A r \in Runs : /\ Alive(r)' => r = 1
                        /\ proc'[r] = "orphan" => proc[r] = "orphan"
    BY <2>2, <2>3 DEF Alive, AdapterTypeOK
  <2>5. \A r \in Runs : runRow'[r] = "none" => proc'[r] = "none"
    BY <2>1, <2>2 DEF ProcessInv, AdapterTypeOK
  <2> QED BY <2>1, <2>2, <2>4, <2>5 DEF ProcessInv, EndsOver
<1>2. CASE FreshStarted
  <2>1. /\ current = 1 /\ live = NoRun /\ proc[1] = "starting" /\ runRow[1] = "open"
        /\ op.pc \in {"free", "send"} /\ queue = <<>>
    BY <1>2 DEF FreshStarted, FreshInv
  <2>2. /\ live' = 1 /\ fresh' = "pid" /\ proc' = [proc EXCEPT ![1] = "up"]
        /\ UNCHANGED <<current, op, runRow, queue, crashes>>
    BY <1>2, <2>1 DEF FreshStarted, RunStarted
  <2>3. \A r \in Runs : /\ Alive(r)' => Alive(r)
                        /\ proc'[r] = "orphan" => proc[r] = "orphan"
                        /\ runRow'[r] = "none" => proc'[r] = "none"
    BY <2>1, <2>2 DEF Alive, ProcessInv, AdapterTypeOK
  <2> QED BY <2>1, <2>2, <2>3 DEF ProcessInv, EndsOver
<1>3. CASE FreshFails
  <2>1. /\ current = 1 /\ live = NoRun /\ proc[1] = "starting" /\ runRow[1] = "open"
        /\ op.pc \in {"free", "send"} /\ queue = <<>>
    BY <1>3 DEF FreshFails, FreshInv
  <2>2. /\ current' = NoRun /\ fresh' = "no" /\ proc' = [proc EXCEPT ![1] = "over"]
        /\ UNCHANGED <<live, op, runRow, queue, crashes>>
    BY <1>3, <2>1 DEF FreshFails, StartFailed
  <2>3. \A r \in Runs : ~Alive(r)' /\ (proc'[r] = "orphan" => proc[r] = "orphan")
    BY <2>1, <2>2 DEF Alive, ProcessInv, AdapterTypeOK
  <2>4. \A r \in Runs : runRow'[r] = "none" => proc'[r] = "none"
    BY <2>1, <2>2 DEF ProcessInv, AdapterTypeOK
  <2> QED BY <2>1, <2>2, <2>3, <2>4 DEF ProcessInv, EndsOver
<1>4. CASE FreshWritesPid
  BY <1>4 DEF FreshWritesPid, ProcessInv, EndsOver, Alive
<1> QED BY <1>1, <1>2, <1>3, <1>4 DEF FreshStep

(* While the first run starts, a thread that nobody may close, hand off or *)
(* continue lets a message look at it, and nothing more.                   *)
LEMMA FreshFrozen ==
  ASSUME LockedStart, TypeOK, FreshInv, ProcessInv, fresh \in {"start", "starting"},
         Next, ~FreshStep, ~Crash
  PROVE  \/ \E m \in Msgs : SendMessage(m)
         \/ SendReadsRecord
         \/ SweepStep
<1>1. Verbs \subseteq {"send", "answer", "interrupt"}
  BY DEF LockedStart, FreshInv
<1>2. \A r \in Runs : proc[r] \notin {"up", "closing", "failing", "orphan"}
  <2>1. \A r \in Runs : proc[r] # "orphan"
    BY DEF FreshInv, ProcessInv
  <2> SUFFICES ASSUME NEW r \in Runs, proc[r] \in {"up", "closing", "failing"} PROVE FALSE
    BY <2>1
  <2>2. current = r
    BY DEF Alive, ProcessInv
  <2> QED BY <2>2 DEF FreshInv, NoRun, Runs
<1>3. ~\E r \in Runs : ProcessEnds(r)
  BY <1>2 DEF ProcessEnds, Ending
<1>4. ~AdapterChoice
  BY <1>2 DEF AdapterChoice, OrphanExits, Asks, Abandons, ProviderFails, Emits, CanEmit
<1>5. ~HandlerStep
  BY DEF HandlerStep, HandleMessage, HandleAnswered, HandleTurn, HandleQuestion,
     HandleUnasked, EventStoreFails, EndIsLogged, EndPatchesRun, EndClearsQuestion,
     EndOfClose, EndSuspends, EndSuspended, EndStoreFails, AtHead, FreshInv
<1>6. ~\E p \in Suspenders : SuspendStep(p)
  BY DEF SuspendStep, SuspendReads, SuspendEndsRuns, SuspendLoads, SuspendWrites,
     SuspendFails, SusAt, FreshInv
<1>7. ~BootStep
  BY DEF BootStep, BootReapsRun, BootRunSwept, BootRunsSwept, BootSelectsRows, BootSuspended,
     BootSweepsRun, FreshInv
<1>8. ~Archive
  BY DEF Archive, FreshInv
<1>9. ~VerbStep
  BY DEF VerbStep, TellAgent, ContinueCloses, CloseReturns, CloseLoads, CloseWrites,
     ContinueNotesFile, VerbStoreFails, HandoffInterrupts, HandoffWithoutRun,
     HandoffEndsRun, HandoffSuspended, FreshInv
<1>10. SendStep => SendReadsRecord
  BY DEF SendStep, SendToLiveRun, SendWhileRunSettles, Give, RunSettled,
     Refused, Promote, Wake, WakeWrite, StartRun, StartDone, StartFails, WritePid,
     Drained, SendStoreFails, ResumeCreatesRun, CreateRun, FreshInv
<1>11. VerbBegins => \E m \in Msgs : SendMessage(m)
  BY <1>1 DEF VerbBegins, Answer, Interrupt, Close, Continue, Handoff, FreshInv
<1> QED BY <1>3, <1>4, <1>5, <1>6, <1>7, <1>8, <1>9, <1>10, <1>11 DEF Next

(* So the first start is undisturbed.                                      *)
LEMMA FreshKept ==
  ASSUME LockedStart, TypeOK, FreshInv, ProcessInv, [Next]_vars
  PROVE  FreshInv'
<1>1. CASE UNCHANGED vars
  BY <1>1 DEF vars, FreshInv
<1>2. CASE Crash
  BY <1>2 DEF Crash, FreshInv
<1>3. CASE FreshStart
  <2>1. 1 \in Runs /\ proc'[1] = "starting"
    BY <1>3 DEF FreshStart, BeginRun, AdapterTypeOK, Runs
  <2> QED BY <1>3, <2>1 DEF FreshStart, BeginRun, FreshInv
<1>4. CASE FreshStarted \/ FreshFails \/ FreshWritesPid
  BY <1>4 DEF FreshStarted, FreshFails, FreshWritesPid, FreshInv
<1>5. CASE Next /\ ~Crash /\ ~FreshStep
  <2>1. UNCHANGED <<fresh, crashes>>
    BY <1>5 DEF Next, VerbBegins, Answer, Interrupt, Close, Continue, Handoff, SendMessage,
       SendStep, SendToLiveRun, SendWhileRunSettles, SendReadsRecord, Give, RunSettled,
       Refused, Promote, Wake, WakeWrite, StartRun, StartDone, StartFails, WritePid,
       Drained, SendStoreFails, ResumeCreatesRun, CreateRun,
       VerbStep, TellAgent, ContinueCloses, CloseReturns, CloseLoads, CloseWrites,
       ContinueNotesFile, VerbStoreFails, HandoffInterrupts, HandoffWithoutRun,
       HandoffEndsRun, HandoffSuspended,
       SweepStep, TimePasses, SweepPicks, SweepEnds, SweepSkips, Archive,
       AdapterChoice, OrphanExits, Asks, Abandons, ProviderFails, Emits, ProcessEnds,
       HandlerStep, HandleMessage, HandleAnswered, HandleTurn, HandleQuestion,
       HandleUnasked, EventStoreFails, EndIsLogged, EndPatchesRun, EndClearsQuestion,
       EndOfClose, EndSuspends, EndSuspended, EndStoreFails,
       SuspendStep, SuspendReads, SuspendEndsRuns, SuspendLoads, SuspendWrites, SuspendFails,
       BootStep, BootReapsRun, BootRunSwept, BootRunsSwept, BootSelectsRows, BootSuspended, BootSweepsRun
  <2>2. CASE fresh \notin {"start", "starting"}
    BY <2>1, <2>2 DEF FreshInv
  <2>3. CASE fresh \in {"start", "starting"}
    <3>1. \/ \E m \in Msgs : SendMessage(m)
          \/ SendReadsRecord
          \/ SweepStep
      BY <1>5, <2>3, FreshFrozen
    <3>2. ASSUME NEW m \in Msgs, SendMessage(m) PROVE FreshInv'
      BY <2>1, <2>3, <3>2 DEF SendMessage, Free, FreshInv
    <3>3. CASE SendReadsRecord
      BY <2>1, <2>3, <3>3 DEF SendReadsRecord, Return, Free, FreshInv
    <3>4. CASE SweepStep
      <4>1. ~TimePasses /\ ~SweepEnds /\ ~SweepPicks
        BY <2>3 DEF TimePasses, SweepEnds, SweepPicks, FreshInv
      <4> QED BY <2>1, <2>3, <3>4, <4>1 DEF SweepStep, SweepSkips, FreshInv
    <3> QED BY <3>1, <3>2, <3>3, <3>4
  <2> QED BY <2>2, <2>3
<1> QED BY <1>1, <1>2, <1>3, <1>4, <1>5 DEF FreshStep

(* Together: ProcessInv with EndsOver is inductive on typed states, as     *)
(* long as no verb can overtake the start that holds no lock.              *)
LEMMA ProcessInductive ==
  ASSUME LockedStart, TypeOK, VerbInv, VerbTasks, FreshInv, ProcessInv, EndsOver, [Next]_vars
  PROVE  FreshInv' /\ ProcessInv' /\ EndsOver'
<1>1. CASE UNCHANGED vars
  <2>1. ProcessInv'
    BY <1>1, ProcessKept DEF vars, Alive
  <2>2. EndsOver'
    BY <1>1, EndsKept DEF vars
  <2> QED BY <2>1, <2>2, FreshKept
<1>2. CASE Next
  BY <1>2, VerbBeginsProcess, SendStepProcess, VerbStepProcess, SweepStepProcess, ArchiveProcess,
     AdapterChoiceProcess, ProcessEndsProcess, HandlerStepProcess, SuspendProcess, CrashProcess,
     BootStepProcess, FreshStepProcess, FreshKept DEF Next
<1> QED BY <1>1, <1>2

(* A draft has no process, and a thread created running has not started    *)
(* its own.                                                                *)
LEMMA InitProcess ==
  ASSUME Init
  PROVE  FreshInv /\ ProcessInv /\ EndsOver
BY DEF Init, FreshInv, ProcessInv, EndsOver, Alive, Free, NoRun, NoEvent, NoSuspend, Runs

(* In every behaviour of a thread whose first start no verb can overtake,  *)
(* each process the server drives is that of the current run, and the      *)
(* current run is the live one or the one being started, by the verb that  *)
(* holds the lock or as the thread's first.  A process it does not drive   *)
(* is an orphan: some server before this one has crashed.                  *)
THEOREM ProcessesOwned ==
  LockedStart => (Spec => [](/\ TypeOK /\ VerbInv /\ VerbTasks
                             /\ FreshInv /\ ProcessInv /\ EndsOver))
<1> SUFFICES ASSUME LockedStart
             PROVE  Spec => [](/\ TypeOK /\ VerbInv /\ VerbTasks
                               /\ FreshInv /\ ProcessInv /\ EndsOver)
  OBVIOUS
<1>1. Init => FreshInv /\ ProcessInv /\ EndsOver
  BY InitProcess
<1>2. TypeOK /\ VerbInv /\ VerbTasks /\ FreshInv /\ ProcessInv /\ EndsOver /\ [Next]_vars
        => FreshInv' /\ ProcessInv' /\ EndsOver'
  BY ProcessInductive
<1> QED BY <1>1, <1>2, TypeCorrect, PTL DEF Spec

(* However messages, answers, Stop, close, handoff, continue, run ends,    *)
(* sweeps, crashes and boots interleave, a thread that began as a draft    *)
(* never has two runner processes (the lifecycle lock of session-          *)
(* runtime.ts, #488) but by a crash: then the orphans of the dead server   *)
(* may go on next to the one process of the new server, until the boot     *)
(* sweep finds them.  The same holds of a thread created running, if       *)
(* nobody closes it, hands it off or continues it.                         *)
THEOREM OneProcessPerThread == LockedStart => (Spec => []OneProcess)
<1>1. ProcessInv => OneProcess
  BY DEF ProcessInv, OneProcess, Exists
<1> QED BY <1>1, ProcessesOwned, PTL

(* A process that takes messages is the one liveRuns holds, so the next    *)
(* message, Stop, close and sweep reach it.                                *)
THEOREM LiveProcessKnown ==
  LockedStart => (Spec => [](\A r \in Runs : proc[r] = "up" => live = r))
<1>1. FreshInv /\ ProcessInv => \A r \in Runs : proc[r] = "up" => live = r
  BY DEF FreshInv, ProcessInv, Alive, NoRun, Runs
<1> QED BY <1>1, ProcessesOwned, PTL
=============================================================================
