--------------------- MODULE SessionRuntimeRecord_proofs ---------------------
(***************************************************************************)
(* The record and the agents agree.  A verb that closes or suspends a      *)
(* thread has found no process that takes messages, or has told it to end, *)
(* and holds the lock; the suspend of an end runs before the end settles;  *)
(* and no verb starts a run meanwhile.  So the record is never moved away  *)
(* from under an agent, until the process first dies: the boot sweeps look *)
(* at rows and files while the server serves, and may.                     *)
(*                                                                         *)
(* From that (RecordInv): each run's end is logged once (LogInv), nobody   *)
(* is told "no live run" by a thread that runs (RestInv), and the runtime  *)
(* implements the thread its users see, ThreadLifecycle.                   *)
(***************************************************************************)
EXTENDS SessionRuntimeSettling_proofs
USE RuntimeAssumption
    DEF TypeOK, At, Go, recordVars, runVars, memVars, endVars, turnVars, queueVars,
        bootVars, adapterVars

NoneUp == \A r \in Runs : proc[r] # "up"

(* The process that takes messages is the live run's; while a verb is on   *)
(* its way to a start, and while an end is handled, there is none.         *)
LEMMA WhoIsUp ==
  ASSUME InductiveInv
  PROVE  /\ \A r \in Runs : proc[r] = "up" => live = r
         /\ live = NoRun \/ op.pc \in StartPcs \/ ev.pc # "next" => NoneUp
         /\ op.pc \in StartPcs => ev.pc = "next"
<1>1. TypeOK /\ EndsOver /\ SettleInv
  BY DEF InductiveInv
<1>2. \A r \in Runs : proc[r] = "up" => live = r /\ settling = r /\ ev.pc = "next" /\ r # NoRun
  BY <1>1, NoEndQueued DEF Served, NoRun, Runs
<1>3. op.pc \in StartPcs => settling = NoRun
  BY <1>1 DEF SettleInv, VerbWaits
<1>4. op.pc \in StartPcs => ev.pc = "next"
  BY <1>1, <1>3, NothingSettles
<1> QED BY <1>2, <1>3, <1>4 DEF NoneUp

(* Ending the live run leaves none that takes messages.                    *)
LEMMA LiveEnded ==
  ASSUME InductiveInv, Shutdown(live) \/ (live = NoRun /\ UNCHANGED proc)
  PROVE  NoneUp'
<1>1. \A r \in Runs : proc[r] = "up" => live = r
  BY WhoIsUp
<1>2. CASE Shutdown(live)
  BY <1>1, <1>2 DEF Shutdown, NoneUp, InductiveInv, AdapterTypeOK
<1>3. CASE live = NoRun /\ UNCHANGED proc
  BY <1>3, WhoIsUp DEF NoneUp
<1> QED BY <1>2, <1>3

(* A step that leaves the record and the run rows alone, starts nothing    *)
(* and does not enter a close or a suspend before the thread is its own.   *)
LEMMA RecordKept ==
  ASSUME RecordInv, UNCHANGED <<state, runRow, boot, sus>>,
         ev' = ev \/ sus["queue"].pc = "off",
         \A r \in Runs : /\ proc'[r] = "up" => proc[r] = "up"
                         /\ proc'[r] = "starting" => proc[r] = "starting",
         live' \in {live, NoRun},
         \/ UNCHANGED op
         \/ /\ sus["op"].pc = "off"
            /\ op'.pc \notin {"wake", "wakeWrite", "create", "start", "starting", "closeWrite"}
            /\ (Closes \/ Parks)' => NoneUp'
  PROVE  RecordInv'
<1>1. (Closes \/ Parks)' => NoneUp'
  BY DEF RecordInv, Closes, Parks, NoneUp
<1> QED BY <1>1 DEF RecordInv, NoneUp

(* The same of a verb on its way to a start.                               *)
LEMMA RecordStarts ==
  ASSUME InductiveInv, RecordInv, UNCHANGED <<state, runRow, boot, sus, ev, live, proc>>,
         op.pc \in StartPcs, op'.pc \in StartPcs, op'.run = op.run,
         op'.pc \in {"create", "start", "starting"} => state = "running",
         op'.pc \in {"wake", "wakeWrite", "start", "starting"} /\ op.run # NoRun
           => runRow[op.run] = "open",
         op'.pc = "wakeWrite" => state \in {"draft", "suspended", "closed"}
  PROVE  RecordInv'
BY DEF RecordInv, Closes, Parks, StartPcs

(* A verb that takes the lock: a suspended thread has no agent, and a      *)
(* close ends the one there is.                                            *)
LEMMA VerbBeginsRecord ==
  ASSUME InductiveInv, RecordInv, VerbBegins
  PROVE  RecordInv'
<1>0. op.pc = "free" /\ sus["op"].pc = "off"
  BY DEF VerbBegins, Answer, Interrupt, Close, Continue, Handoff, SendMessage, RecordInv
<1>1. CASE Answer \/ Interrupt \/ Continue \/ \E m \in Msgs : SendMessage(m)
  <2>1. op'.pc \in {"record", "drain", "continue", "send"} /\ op'.next = "end"
    BY <1>1 DEF Answer, Interrupt, Continue, SendMessage, Free
  <2>2. ~Closes' /\ ~Parks'
    BY <2>1 DEF Closes, Parks
  <2> QED BY <1>0, <1>1, <2>1, <2>2, RecordKept DEF Answer, Interrupt, Continue, SendMessage
<1>2. CASE Close
  <2>1. Shutdown(live) \/ (live = NoRun /\ UNCHANGED proc)
    BY <1>2 DEF Close, CloseLive
  <2>2. \A r \in Runs : /\ proc'[r] = "up" => proc[r] = "up"
                        /\ proc'[r] = "starting" => proc[r] = "starting"
    BY <2>1 DEF Shutdown, InductiveInv, AdapterTypeOK
  <2>3. op'.pc \in {"closeWait", "closeLoad"}
    BY <1>2 DEF Close, Free
  <2>4. UNCHANGED <<state, runRow, boot, sus, ev, live>>
    BY <1>2 DEF Close
  <2> QED BY <1>0, <2>1, <2>2, <2>3, <2>4, LiveEnded, RecordKept
<1>3. CASE Handoff
  <2>1. op'.pc = "handoff" /\ op'.seen = state
    BY <1>3 DEF Handoff, Free
  <2>2. UNCHANGED <<state, runRow, boot, sus, ev, live, proc>>
    BY <1>3 DEF Handoff
  <2>3. (Closes \/ Parks)' => NoneUp'
    BY <2>1, <2>2 DEF Closes, Parks, RecordInv, NoneUp
  <2> QED BY <1>0, <2>1, <2>2, <2>3, RecordKept
<1> QED BY <1>1, <1>2, <1>3 DEF VerbBegins

(* A message: it wakes a record that says so little, and starts a run of   *)
(* an open row of a running thread.                                        *)
LEMMA SendStepRecord ==
  ASSUME InductiveInv, RecordInv, SendStep
  PROVE  RecordInv'
<1>0. TypeOK /\ VerbInv /\ ProcessInv /\ op \in Ops /\ SettleInv
  BY DEF InductiveInv
<1>1. CASE op' = Free /\ UNCHANGED <<state, runRow, boot, sus, ev, live>>
           /\ op.pc # "suspending"
           /\ (UNCHANGED proc \/ proc' = [proc EXCEPT ![op.run] = "over"])
  <2>1. op'.pc = "free" /\ sus["op"].pc = "off"
    BY <1>1 DEF Free, RecordInv
  <2>2. \A r \in Runs : /\ proc'[r] = "up" => proc[r] = "up"
                        /\ proc'[r] = "starting" => proc[r] = "starting"
    BY <1>0, <1>1 DEF AdapterTypeOK
  <2> QED BY <1>1, <2>1, <2>2, RecordKept DEF Closes, Parks
<1>2. CASE SendToLiveRun \/ RunSettled \/ WritePid
  <2>1. op'.pc \in {"log", "give", "send"} \/ (op'.pc = "drain" /\ op'.next = "end")
    BY <1>0, <1>2 DEF SendToLiveRun, RunSettled, WritePid, DrainThen, Ops
  <2>2. sus["op"].pc = "off" /\ UNCHANGED <<state, runRow, boot, sus, ev, live, proc>>
    BY <1>2 DEF SendToLiveRun, RunSettled, WritePid, DrainThen, RecordInv
  <2> QED BY <2>1, <2>2, RecordKept DEF Closes, Parks
<1>3. ASSUME NEW l \in BOOLEAN, DeliverAfterRunEnd(l), op.pc # "suspending",
             UNCHANGED <<state, runRow, boot, sus, ev, live, proc>>
      PROVE  RecordInv'
  <2>1. op'.pc \in {"free", "settle"} /\ sus["op"].pc = "off"
    BY <1>0, <1>3, Redelivered DEF RecordInv
  <2> QED BY <1>3, <2>1, RecordKept DEF Closes, Parks
<1>4. CASE SendWhileRunSettles
  BY <1>0, <1>3, <1>4 DEF SendWhileRunSettles, Ops
<1>5. CASE Give
  <2>1. CASE proc[op.run] = "up"
    BY <1>1, <1>5, <2>1 DEF Give
  <2>2. CASE proc[op.run] # "up"
    BY <1>3, <1>5, <2>2 DEF Give
  <2> QED BY <2>1, <2>2
<1>6. CASE SendReadsRecord
  <2>1. op'.pc \in {"free", "promote", "resume"}
    BY <1>0, <1>6 DEF SendReadsRecord, Return, Free, Ops
  <2>2. sus["op"].pc = "off" /\ UNCHANGED <<state, runRow, boot, sus, ev, live, proc>>
    BY <1>6 DEF SendReadsRecord, RecordInv
  <2> QED BY <2>1, <2>2, RecordKept DEF Closes, Parks
<1>7. CASE Refused \/ SendStoreFails
  BY <1>1, <1>7 DEF Refused, SendStoreFails, Return
<1>8. CASE StartFails
  BY <1>1, <1>8 DEF StartFails, StartFailed, Return
<1>9. CASE Promote
  <2>1. CASE state # "draft"
    BY <1>1, <1>9, <2>1 DEF Promote, Return
  <2>2. CASE state = "draft"
    <3>1. op'.pc = "wake" /\ op'.run = op.run /\ op.pc = "promote" /\ op.run = NoRun
      BY <1>0, <1>9, <2>2 DEF Promote, ProcessInv, Ops
    <3> QED BY <1>9, <2>2, <3>1, RecordStarts DEF Promote, StartPcs
  <2> QED BY <2>1, <2>2
<1>10. CASE Wake
  <2>1. CASE Return("failed")
    BY <1>1, <1>10, <2>1 DEF Wake, Return
  <2>2. CASE Go(IF state = "running" THEN AfterWake ELSE "wakeWrite")
             /\ isAllowedSessionTransition(state, "running")
    <3>1. op.pc = "wake" /\ op'.run = op.run
          /\ op'.pc = IF state = "running" THEN AfterWake ELSE "wakeWrite"
      BY <1>0, <1>10, <2>2 DEF Wake, Ops
    <3>2. state \in {"draft", "running", "suspended", "closed"}
      BY <1>0, <2>2 DEF RecordTypeOK, SessionStates, isAllowedSessionTransition, AllowedTransitions
    <3>3. op'.pc \in StartPcs
      BY <3>1 DEF AfterWake, StartPcs
    <3>4. op.run # NoRun => runRow[op.run] = "open"
      BY <3>1 DEF RecordInv
    <3>5. UNCHANGED <<state, runRow, boot, sus, ev, live, proc>>
      BY <1>10 DEF Wake
    <3> QED BY <3>1, <3>2, <3>3, <3>4, <3>5, RecordStarts DEF AfterWake, StartPcs
  <2> QED BY <1>10, <2>1, <2>2 DEF Wake
<1>11. CASE WakeWrite
  <2>1. /\ op.pc = "wakeWrite" /\ state' = "running" /\ op'.run = op.run
        /\ op'.pc \in {"create", "start"}
        /\ UNCHANGED <<runRow, boot, sus, ev, live, proc>>
    BY <1>0, <1>11 DEF WakeWrite, AfterWake, Ops
  <2>2. ~Closes' /\ ~Parks'
    BY <2>1 DEF Closes, Parks
  <2> QED BY <2>1, <2>2 DEF RecordInv
<1>12. CASE StartRun
  <2>1. /\ op.pc = "start" /\ op.run \in Runs /\ live = NoRun
    BY <1>0, <1>12 DEF StartRun, VerbInv, ProcessInv
  <2>2. /\ op'.pc = "starting" /\ op'.run = op.run
        /\ proc' = [proc EXCEPT ![op.run] = "starting"]
        /\ UNCHANGED <<state, runRow, boot, sus, ev, live>>
    BY <1>0, <1>12 DEF StartRun, BeginRun, Ops
  <2>3. ~Closes' /\ ~Parks' /\ \A r \in Runs : proc'[r] = "up" => proc[r] = "up"
    BY <1>0, <2>2 DEF Closes, Parks, AdapterTypeOK
  <2> QED BY <2>1, <2>2, <2>3 DEF RecordInv
<1>13. CASE StartDone
  <2>1. op.pc = "starting" /\ op.run \in Runs /\ op.run # NoRun /\ state = "running" /\ runRow[op.run] = "open"
    BY <1>0, <1>13 DEF StartDone, VerbInv, RecordInv, NoRun, Runs
  <2>2. /\ op'.pc = "pid" /\ proc' = [proc EXCEPT ![op.run] = "up"]
        /\ UNCHANGED <<state, runRow, boot, sus, ev>>
    BY <1>0, <1>13 DEF StartDone, RunStarted, Ops
  <2>3. ~Closes' /\ ~Parks'
    BY <2>2 DEF Closes, Parks
  <2>4. \A r \in Runs : proc'[r] = "up" => proc[r] = "up" \/ r = op.run
    BY <1>0, <2>2 DEF AdapterTypeOK
  <2>5. \A r \in Runs : proc'[r] # "starting"
    BY <1>0, <2>1, <2>2 DEF ProcessInv, Alive, AdapterTypeOK
  <2> QED BY <2>1, <2>2, <2>3, <2>4, <2>5 DEF RecordInv
<1>14. CASE Drained
  <2>1. CASE op.next = "end"
    BY <1>1, <1>14, <2>1 DEF Drained, Return
  <2>2. CASE op.next # "end"
    <3>1. op.pc = "drain" /\ op'.pc = op.next /\ op.next \in {"endRun", "closeLoad", "note"}
      BY <1>0, <1>14, <2>2 DEF Drained, Ops
    <3>2. UNCHANGED <<state, runRow, boot, sus, ev, live, proc>> /\ sus["op"].pc = "off"
      BY <1>14, <3>1 DEF Drained, RecordInv
    <3>3. (Closes \/ Parks)' => NoneUp'
      BY <3>1, <3>2 DEF Closes, Parks, RecordInv, NoneUp
    <3> QED BY <3>1, <3>2, <3>3, RecordKept
  <2> QED BY <2>1, <2>2
<1>15. ASSUME NEW r \in Runs, ResumeCreatesRun(r) \/ CreateRun(r)
       PROVE  RecordInv'
  <2>1. /\ op.pc \in {"resume", "create"} /\ op'.run = r
        /\ op'.pc = IF op.pc = "resume" THEN "wake" ELSE "start"
        /\ runRow' = [runRow EXCEPT ![r] = "open"]
        /\ UNCHANGED <<state, boot, sus, ev, live, proc>>
    BY <1>0, <1>15 DEF ResumeCreatesRun, CreateRun, Ops
  <2>2. \A s \in Runs : runRow[s] = "open" => runRow'[s] = "open"
    BY <1>0, <2>1 DEF RecordTypeOK
  <2>3. runRow'[r] = "open"
    BY <1>0, <2>1 DEF RecordTypeOK
  <2>4. ~Closes' /\ ~Parks'
    BY <2>1 DEF Closes, Parks
  <2> QED BY <2>1, <2>2, <2>3, <2>4 DEF RecordInv
<1> QED BY <1>2, <1>4, <1>5, <1>6, <1>7, <1>8, <1>9, <1>10, <1>11, <1>12, <1>13, <1>14, <1>15
        DEF SendStep

(* The other verbs: each closes or parks the thread only once its agent    *)
(* has been told to end.                                                   *)
LEMMA VerbStepRecord ==
  ASSUME InductiveInv, RecordInv, VerbStep
  PROVE  RecordInv'
<1>0. TypeOK /\ op \in Ops
  BY DEF InductiveInv
<1>1. CASE op' = Free /\ UNCHANGED <<state, runRow, boot, sus, ev, live, proc>>
           /\ op.pc # "suspending"
  <2>1. op'.pc = "free" /\ sus["op"].pc = "off"
    BY <1>1 DEF Free, RecordInv
  <2> QED BY <1>1, <2>1, RecordKept DEF Closes, Parks
<1>2. CASE TellAgent \/ HandoffInterrupts
  <2>1. op'.pc = "drain" /\ op'.next \in {"end", "endRun"}
    BY <1>0, <1>2 DEF TellAgent, HandoffInterrupts, DrainThen, Ops
  <2>2. sus["op"].pc = "off" /\ UNCHANGED <<state, runRow, boot, sus, ev, live, proc>>
    BY <1>2 DEF TellAgent, HandoffInterrupts, DrainThen, RecordInv
  <2> QED BY <2>1, <2>2, RecordKept DEF Closes, Parks
<1>3. CASE ContinueCloses \/ HandoffEndsRun
  <2>1. Shutdown(live) \/ (live = NoRun /\ UNCHANGED proc)
    BY <1>3 DEF ContinueCloses, HandoffEndsRun, CloseLive
  <2>2. \A r \in Runs : /\ proc'[r] = "up" => proc[r] = "up"
                        /\ proc'[r] = "starting" => proc[r] = "starting"
    BY <1>0, <2>1 DEF Shutdown, AdapterTypeOK
  <2>3. op'.pc \in {"closeWait", "closeLoad", "note"}
    <3>1. AfterClose \in {"closeLoad", "note"}
      BY DEF AfterClose
    <3> QED BY <1>0, <1>3, <3>1 DEF ContinueCloses, HandoffEndsRun, Ops
  <2>4. UNCHANGED <<state, runRow, boot, sus, ev, live>> /\ sus["op"].pc = "off"
    BY <1>3 DEF ContinueCloses, HandoffEndsRun, RecordInv
  <2> QED BY <2>1, <2>2, <2>3, <2>4, LiveEnded, RecordKept
<1>4. CASE CloseReturns
  <2>1. op.pc = "closeWait" /\ op'.pc = "drain" /\ sus["op"].pc = "off"
    BY <1>0, <1>4 DEF CloseReturns, RecordInv, Ops
  <2>2. UNCHANGED <<state, runRow, boot, sus, ev, live, proc>>
    BY <1>4 DEF CloseReturns
  <2>3. NoneUp'
    BY <2>1, <2>2 DEF RecordInv, Closes, NoneUp
  <2> QED BY <2>1, <2>2, <2>3, RecordKept
<1>5. CASE CloseLoads
  <2>1. op.pc = "closeLoad" /\ Closes /\ UNCHANGED <<state, runRow, boot, sus, ev, live, proc>>
    BY <1>5 DEF CloseLoads, Closes
  <2>2. CASE Return("ok") \/ Return("failed")
    BY <1>1, <2>1, <2>2 DEF Return
  <2>3. CASE Go("note")
    <3>1. op'.pc = "note" /\ sus["op"].pc = "off"
      BY <1>0, <2>1, <2>3 DEF Ops, RecordInv
    <3> QED BY <2>1, <3>1, RecordKept DEF Closes, Parks
  <2>4. CASE Go("closeWrite") /\ isAllowedSessionTransition(state, "closed")
    <3>1. op'.pc = "closeWrite"
      BY <1>0, <2>4 DEF Ops
    <3>2. state \in {"running", "suspended", "closed"}
      BY <1>0, <2>4 DEF RecordTypeOK, SessionStates, isAllowedSessionTransition, AllowedTransitions
    <3> QED BY <2>1, <3>1, <3>2 DEF RecordInv, Closes, Parks
  <2> QED BY <1>5, <2>2, <2>3, <2>4 DEF CloseLoads
<1>6. CASE CloseWrites
  <2>1. /\ op.pc = "closeWrite" /\ state' = "closed" /\ op'.pc = "free"
        /\ UNCHANGED <<runRow, boot, sus, ev, live, proc>>
    BY <1>6 DEF CloseWrites, Return, Free
  <2>2. NoneUp /\ ~Closes' /\ ~Parks'
    BY <2>1 DEF RecordInv, Closes, Parks, NoneUp
  <2> QED BY <2>1, <2>2 DEF RecordInv, NoneUp
<1>7. CASE ContinueNotesFile \/ VerbStoreFails
  BY <1>1, <1>7 DEF ContinueNotesFile, VerbStoreFails, Return
<1>8. CASE HandoffWithoutRun
  <2>1. PICK f \in BOOLEAN : SuspendFromVerb(f)
    BY <1>8 DEF HandoffWithoutRun
  <2>2. /\ op'.pc = "suspending" /\ op.pc \in {"handoff", "endRun"}
        /\ UNCHANGED <<state, runRow, boot, ev, live, proc>>
    BY <1>0, <1>8, <2>1 DEF HandoffWithoutRun, SuspendFromVerb, Ops
  <2>3. /\ sus'["op"].pc = "read"
        /\ \A p \in Suspenders : p # "op" => sus'[p] = sus[p]
    BY <1>0, <2>1 DEF SuspendFromVerb, Suspenders, Suspends
  <2>4. NoneUp
    <3>1. live = NoRun \/ Parks
      BY <1>8 DEF HandoffWithoutRun, Parks
    <3> QED BY <3>1, WhoIsUp DEF RecordInv, NoneUp
  <2> QED BY <2>2, <2>3, <2>4 DEF RecordInv, NoneUp, Suspenders
<1>9. CASE HandoffSuspended
  <2>1. /\ op.pc = "suspending" /\ op'.pc = "free"
        /\ UNCHANGED <<state, runRow, boot, ev, live, proc>>
    BY <1>9 DEF HandoffSuspended, Return, Free
  <2>2. /\ sus'["op"].pc = "off"
        /\ \A p \in Suspenders : p # "op" => sus'[p] = sus[p]
    BY <1>0, <1>9 DEF HandoffSuspended, Suspenders, NoSuspend
  <2>3. ~Closes' /\ ~Parks'
    BY <2>1 DEF Closes, Parks
  <2> QED BY <2>1, <2>2, <2>3 DEF RecordInv, Suspenders
<1> QED BY <1>2, <1>3, <1>4, <1>5, <1>6, <1>7, <1>8, <1>9 DEF VerbStep

(* The first start of a thread created running, which nobody else touches. *)
LEMMA FreshStepRecord ==
  ASSUME InductiveInv, RecordInv, FreshStep
  PROVE  RecordInv'
<1>0. TypeOK /\ FreshInv /\ ProcessInv /\ 1 \in Runs /\ 1 # NoRun
  BY DEF InductiveInv, Runs, NoRun
<1>1. CASE FreshStart
  <2>1. /\ live = NoRun /\ proc' = [proc EXCEPT ![1] = "starting"]
        /\ UNCHANGED <<state, runRow, boot, sus, ev, live, op>>
    BY <1>0, <1>1 DEF FreshStart, BeginRun, FreshInv
  <2>2. \A r \in Runs : proc'[r] = "up" => proc[r] = "up"
    BY <1>0, <2>1 DEF AdapterTypeOK
  <2> QED BY <2>1, <2>2 DEF RecordInv, Closes, Parks
<1>2. CASE FreshStarted
  <2>1. /\ op.pc \in {"free", "send"} /\ state = "running" /\ runRow[1] = "open"
        /\ current = 1
    BY <1>0, <1>2 DEF FreshStarted, FreshInv
  <2>2. /\ proc' = [proc EXCEPT ![1] = "up"]
        /\ UNCHANGED <<state, runRow, boot, sus, ev, op>>
    BY <1>2, <2>1 DEF FreshStarted, RunStarted
  <2>3. \A r \in Runs : proc'[r] = "up" => proc[r] = "up" \/ r = 1
    BY <1>0, <2>2 DEF AdapterTypeOK
  <2>4. \A r \in Runs : proc'[r] # "starting"
    BY <1>0, <2>1, <2>2 DEF ProcessInv, Alive, AdapterTypeOK
  <2>5. ~Closes' /\ ~Parks'
    BY <2>1, <2>2 DEF Closes, Parks
  <2> QED BY <2>1, <2>2, <2>3, <2>4, <2>5 DEF RecordInv
<1>3. CASE FreshFails \/ FreshWritesPid
  <2>1. UNCHANGED <<state, runRow, boot, sus, ev, op, live>>
    BY <1>3 DEF FreshFails, StartFailed, FreshWritesPid
  <2>2. \A r \in Runs : /\ proc'[r] = "up" => proc[r] = "up"
                        /\ proc'[r] = "starting" => proc[r] = "starting"
    BY <1>0, <1>3 DEF FreshFails, StartFailed, FreshWritesPid, AdapterTypeOK
  <2> QED BY <2>1, <2>2, RecordKept
<1> QED BY <1>1, <1>2, <1>3 DEF FreshStep

(* The sweeps and the adapter: an archived thread was closed, with nothing *)
(* in flight.                                                              *)
LEMMA SweepStepRecord ==
  ASSUME InductiveInv, RecordInv,
         SweepStep \/ Archive \/ AdapterChoice \/ \E r \in Runs : ProcessEnds(r)
  PROVE  RecordInv'
<1>0. TypeOK
  BY DEF InductiveInv
<1>1. CASE Archive
  <2>1. /\ op.pc = "free" /\ state = "closed" /\ state' = "archived"
        /\ \A p \in Suspenders : sus[p].pc = "off"
        /\ UNCHANGED <<runRow, boot, sus, ev, live, op, proc>>
    BY <1>1 DEF Archive
  <2>2. NoneUp /\ ~Closes' /\ ~Parks'
    BY <2>1 DEF RecordInv, NoneUp, Closes, Parks
  <2> QED BY <2>1, <2>2 DEF RecordInv, NoneUp
<1>2. CASE SweepStep \/ AdapterChoice \/ \E r \in Runs : ProcessEnds(r)
  <2>1. UNCHANGED <<state, runRow, boot, sus, ev, live, op>>
    BY <1>2 DEF SweepStep, TimePasses, SweepPicks, SweepEnds, SweepSkips,
       AdapterChoice, OrphanExits, Asks, Abandons, ProviderFails, Emits, ProcessEnds
  <2>2. \/ UNCHANGED proc \/ Shutdown(live)
        \/ \E r \in Runs : \E q \in {"failing", "over"} : proc' = [proc EXCEPT ![r] = q]
    BY <1>2 DEF SweepStep, TimePasses, SweepPicks, SweepEnds, SweepSkips,
       AdapterChoice, OrphanExits, Asks, Abandons, ProviderFails, Emits, ProcessEnds
  <2>3. \A r \in Runs : /\ proc'[r] = "up" => proc[r] = "up"
                        /\ proc'[r] = "starting" => proc[r] = "starting"
    BY <1>0, <2>2 DEF Shutdown, AdapterTypeOK
  <2> QED BY <2>1, <2>3, RecordKept
<1> QED BY <1>1, <1>2

(* The event queue: while it handles an end no agent takes messages and no *)
(* verb is on its way to a start.                                          *)
LEMMA HandlerStepRecord ==
  ASSUME InductiveInv, RecordInv, HandlerStep
  PROVE  RecordInv'
<1>0. TypeOK /\ op \in Ops /\ VerbTasks /\ VerbInv
  BY DEF InductiveInv
<1>1. CASE HandleMessage \/ HandleAnswered
  <2>1. op.pc \in {"log", "record"}
    BY <1>0, <1>1, VerbTaskHandled DEF HandleMessage, HandleAnswered, AtHead, AwaitedAt
  <2>2. op'.pc \in {"give", "tell", "free"}
    BY <1>0, <1>1 DEF HandleMessage, HandleAnswered, Return, Free, Ops
  <2>3. UNCHANGED <<state, runRow, boot, sus, live, proc>>
    BY <1>1 DEF HandleMessage, HandleAnswered
  <2>4. sus["op"].pc = "off" /\ sus["queue"].pc = "off"
    <3>1. ev.pc = "next"
      BY <1>1 DEF HandleMessage, HandleAnswered, AtHead, InductiveInv, SettleInv, SettlingOwned
    <3> QED BY <2>1, <3>1 DEF RecordInv
  <2> QED BY <2>2, <2>3, <2>4, RecordKept DEF Closes, Parks
<1>2. CASE HandleTurn \/ HandleQuestion \/ HandleUnasked \/ EventStoreFails
  <2>1. ev.pc = "next"
    BY <1>2 DEF HandleTurn, HandleQuestion, HandleUnasked, EventStoreFails, AtHead,
       InductiveInv, SettleInv, SettlingOwned
  <2>2. UNCHANGED <<state, runRow, boot, sus, live, proc, op>>
    BY <1>2 DEF HandleTurn, HandleQuestion, HandleUnasked, EventStoreFails
  <2> QED BY <2>1, <2>2, RecordKept DEF RecordInv
<1>3. CASE EndIsLogged \/ EndClearsQuestion \/ EndOfClose
  <2>1. sus["queue"].pc = "off"
    BY <1>3 DEF EndIsLogged, EndClearsQuestion, EndOfClose, RecordInv
  <2>2. UNCHANGED <<state, runRow, boot, sus, proc, op>> /\ live' \in {live, NoRun}
    BY <1>3 DEF EndIsLogged, EndClearsQuestion, EndOfClose
  <2> QED BY <2>1, <2>2, RecordKept
<1>4. CASE EndPatchesRun
  <2>1. sus["queue"].pc = "off" /\ ev.pc # "next"
    BY <1>4 DEF EndPatchesRun, RecordInv
  <2>2. NoneUp /\ op.pc \notin StartPcs
    BY <2>1, WhoIsUp
  <2>3. UNCHANGED <<state, boot, sus, proc, op, live>>
    BY <1>4 DEF EndPatchesRun
  <2> QED BY <2>1, <2>2, <2>3 DEF RecordInv, NoneUp, StartPcs, Closes, Parks
<1>5. CASE EndSuspends
  <2>1. /\ ev'.pc = "suspend"
        /\ UNCHANGED <<state, runRow, boot, proc, op, live>>
    BY <1>0, <1>5 DEF EndSuspends, QueueTypeOK
  <2>2. /\ sus'["queue"].pc = "read"
        /\ \A p \in Suspenders : p # "queue" => sus'[p] = sus[p]
    BY <1>0, <1>5 DEF EndSuspends, Suspenders
  <2> QED BY <2>1, <2>2 DEF RecordInv, Suspenders, Closes, Parks
<1>6. CASE EndSuspended
  <2>1. UNCHANGED <<state, runRow, boot, proc, op, live>>
    BY <1>6 DEF EndSuspended
  <2>2. /\ sus'["queue"].pc = "off"
        /\ \A p \in Suspenders : p # "queue" => sus'[p] = sus[p]
    BY <1>0, <1>6 DEF EndSuspended, Suspenders, NoSuspend
  <2> QED BY <2>1, <2>2 DEF RecordInv, Suspenders, Closes, Parks
<1>7. CASE EndStoreFails
  <2>1. sus["queue"].pc = "off"
    BY <1>7 DEF EndStoreFails, RecordInv
  <2>2. UNCHANGED <<state, runRow, boot, sus, proc, op, live>>
    BY <1>7 DEF EndStoreFails
  <2> QED BY <2>1, <2>2, RecordKept
<1> QED BY <1>1, <1>2, <1>3, <1>4, <1>5, <1>6, <1>7 DEF HandlerStep

(* A suspend in flight is that of the end being handled, or of the Predat  *)
(* that holds the lock: it finds no agent and no start to disturb.         *)
LEMMA SuspendRecord ==
  ASSUME InductiveInv, RecordInv, NEW p \in Suspenders, SuspendStep(p)
  PROVE  RecordInv'
<1>0. TypeOK
  BY DEF InductiveInv
<1>1. sus[p].pc # "off"
  BY DEF SuspendStep, SuspendReads, SuspendEndsRuns, SuspendLoads, SuspendWrites, SuspendFails, SusAt
<1>2. \/ p = "queue" /\ ev.pc = "suspend"
      \/ p = "op" /\ op.pc = "suspending"
  BY <1>1 DEF RecordInv, Suspenders
<1>3. NoneUp /\ op.pc \notin StartPcs
  BY <1>2, WhoIsUp DEF RecordInv, Parks, NoneUp, StartPcs
<1>4. UNCHANGED <<boot, proc, op, ev, live>>
  BY DEF SuspendStep, SuspendReads, SuspendEndsRuns, SuspendLoads, SuspendWrites, SuspendFails
<1>5. /\ sus' = [sus EXCEPT ![p].pc = sus'[p].pc]
      /\ sus'[p].pc = "write" => state' \in {"running", "suspended", "closed"}
  BY <1>0, <1>1 DEF SuspendStep, SuspendReads, SuspendEndsRuns, SuspendLoads, SuspendWrites,
     SuspendFails, SusAt, SusGo, Suspends, SuspendableStates
<1>6. /\ sus'["queue"].pc # "off" => ev.pc = "suspend"
      /\ sus'["op"].pc # "off" => op.pc = "suspending"
      /\ sus'["boot"].pc = "off"
      /\ \A q \in Suspenders : q # p => sus'[q] = sus[q]
  BY <1>0, <1>2, <1>5 DEF RecordInv, Suspenders
<1>7. state' \in {state, "suspended"}
  BY DEF SuspendStep, SuspendReads, SuspendEndsRuns, SuspendLoads, SuspendWrites, SuspendFails
<1>8. op.pc = "closeWrite" => state' \in {"running", "suspended", "closed"}
  BY <1>7 DEF RecordInv
<1>9. \A q \in Suspenders : sus'[q].pc = "write" => state' \in {"running", "suspended", "closed"}
  BY <1>5, <1>6, <1>7 DEF RecordInv
<1> QED BY <1>3, <1>4, <1>6, <1>8, <1>9 DEF RecordInv, NoneUp, StartPcs, Closes, Parks

(* Every other step leaves the number of crashes alone.                    *)
LEMMA OnlyCrashes ==
  ASSUME Next, ~Crash
  PROVE  UNCHANGED crashes
BY DEF Next, VerbBegins, Answer, Interrupt, Close, Continue, Handoff, SendMessage,
   SendStep, SendToLiveRun, SendWhileRunSettles, SendReadsRecord, Give, RunSettled,
   Refused, Promote, Wake, WakeWrite, StartRun, StartDone, StartFails, WritePid,
   Drained, SendStoreFails, ResumeCreatesRun, CreateRun,
   VerbStep, TellAgent, ContinueCloses, CloseReturns, CloseLoads, CloseWrites,
   ContinueNotesFile, VerbStoreFails, HandoffInterrupts, HandoffWithoutRun,
   HandoffEndsRun, HandoffSuspended, FreshStep, FreshStart, FreshStarted, FreshFails, FreshWritesPid,
   SweepStep, TimePasses, SweepPicks, SweepEnds, SweepSkips, Archive,
   AdapterChoice, OrphanExits, Asks, Abandons, ProviderFails, Emits, ProcessEnds,
   HandlerStep, HandleMessage, HandleAnswered, HandleTurn, HandleQuestion,
   HandleUnasked, EventStoreFails, EndIsLogged, EndPatchesRun, EndClearsQuestion,
   EndOfClose, EndSuspends, EndSuspended, EndStoreFails,
   SuspendStep, SuspendReads, SuspendEndsRuns, SuspendLoads, SuspendWrites, SuspendFails,
   BootStep, BootReapsRun, BootRunSwept, BootRunsSwept, BootSelectsRows, BootSuspended, BootSweepsRun

(* Together: until the process first dies, RecordInv is inductive.         *)
LEMMA RecordInductive ==
  ASSUME InductiveInv, crashes = 0 => RecordInv, [Next]_vars
  PROVE  crashes' = 0 => RecordInv'
<1>0. TypeOK
  BY DEF InductiveInv
<1>1. CASE UNCHANGED vars
  BY <1>1, RecordKept DEF vars
<1>2. CASE Crash
  BY <1>0, <1>2 DEF Crash, SweepTypeOK
<1>3. CASE Next /\ ~Crash
  <2>1. UNCHANGED crashes
    BY <1>3, OnlyCrashes
  <2>2. RecordInv => ~BootStep
    BY DEF RecordInv, BootStep, BootReapsRun, BootRunSwept, BootRunsSwept, BootSelectsRows, BootSuspended,
       BootSweepsRun
  <2>3. RecordInv => RecordInv'
    BY <1>3, <2>2, VerbBeginsRecord, SendStepRecord, VerbStepRecord, FreshStepRecord,
       SweepStepRecord, HandlerStepRecord, SuspendRecord DEF Next
  <2> QED BY <2>1, <2>3
<1> QED BY <1>1, <1>2, <1>3

(* A new thread has no agent and nothing in flight.                        *)
LEMMA InitRecord ==
  ASSUME Init
  PROVE  RecordInv
BY DEF Init, RecordInv, Closes, Parks, Free, NoSuspend, NoEvent, Suspenders, NoRun

(* Until the process first dies, the record and the agents of a thread     *)
(* whose first start no verb can overtake agree at every step.             *)
THEOREM RecordAgrees == LockedStart => (Spec => [](crashes = 0 => RecordInv))
<1> SUFFICES ASSUME LockedStart PROVE Spec => [](crashes = 0 => RecordInv)
  OBVIOUS
<1>1. Init => (crashes = 0 => RecordInv)
  BY InitRecord
<1>2. InductiveInv /\ (crashes = 0 => RecordInv) /\ [Next]_vars
        => (crashes = 0 => RecordInv)'
  BY RecordInductive
<1> QED BY <1>1, <1>2, RunsSettle, PTL DEF Spec

(* No close, suspend or sweep leaves an agent starting or at work in a     *)
(* thread its record does not call running: suspendServerSide, the close   *)
(* and the handoff of session-runtime.ts end the agent first.  Boot sweeps *)
(* may (they run while the server serves), hence crashes = 0.              *)
THEOREM AgentsServeRunning ==
  LockedStart => (Spec => [](crashes = 0 => ServesOnlyRunning))
<1> SUFFICES ASSUME LockedStart PROVE Spec => [](crashes = 0 => ServesOnlyRunning)
  OBVIOUS
<1>1. InductiveInv /\ RecordInv => ServesOnlyRunning
  <2> SUFFICES ASSUME InductiveInv, RecordInv, NEW r \in Runs, proc[r] \in {"starting", "up"}
               PROVE  state = "running"
    BY DEF ServesOnlyRunning
  <2>1. CASE proc[r] = "up"
    BY <2>1 DEF RecordInv
  <2>2. CASE proc[r] = "starting"
    <3>1. current = r /\ live = NoRun /\ r # NoRun
      BY <2>2 DEF InductiveInv, ProcessInv, Alive, RecordInv, NoRun, Runs
    <3>2. op.pc = "starting" \/ fresh = "starting"
      BY <3>1 DEF InductiveInv, ProcessInv
    <3> QED BY <3>2 DEF InductiveInv, FreshInv, RecordInv
  <2> QED BY <2>1, <2>2
<1> QED BY <1>1, RunsSettle, RecordAgrees, PTL

(* Until then the agent that takes messages is the one liveRuns holds, so  *)
(* the next message, Stop, close and sweep reach it, and its run row is    *)
(* open: no suspend has ended the run of an agent still at work.           *)
THEOREM NoAgentForgotten ==
  LockedStart => (Spec => [](crashes = 0 => NoProcessForgotten))
<1> SUFFICES ASSUME LockedStart PROVE Spec => [](crashes = 0 => NoProcessForgotten)
  OBVIOUS
<1>1. InductiveInv /\ RecordInv => NoProcessForgotten
  BY WhoIsUp DEF RecordInv, NoProcessForgotten
<1> QED BY <1>1, RunsSettle, RecordAgrees, PTL

-----------------------------------------------------------------------------
(* The ends the transcript holds.                                          *)

(* No step outside the event queue, the suspends and the boot writes an    *)
(* end or settles a run; a run row may be added.                           *)
LEMMA LogFrame ==
  ASSUME InductiveInv, RecordInv, Bystander, \A p \in Suspenders : ~SuspendStep(p)
  PROVE  /\ UNCHANGED ended
         /\ \/ UNCHANGED runRow
            \/ \E r \in Runs : runRow[r] = "none" /\ runRow' = [runRow EXCEPT ![r] = "open"]
<1>1. CASE VerbBegins \/ VerbStep
  BY <1>1 DEF VerbBegins, Answer, Interrupt, Close, Continue, Handoff, SendMessage,
     VerbStep, ContinueCloses, CloseReturns, CloseLoads, CloseWrites, TellAgent,
     ContinueNotesFile, VerbStoreFails, HandoffInterrupts, HandoffWithoutRun,
     HandoffEndsRun, HandoffSuspended
<1>2. CASE SendStep
  <2>1. ASSUME NEW r \in Runs, ResumeCreatesRun(r) \/ CreateRun(r)
        PROVE  UNCHANGED ended /\ runRow[r] = "none" /\ runRow' = [runRow EXCEPT ![r] = "open"]
    BY <2>1 DEF ResumeCreatesRun, CreateRun, NextRun
  <2>2. CASE \A r \in Runs : ~ResumeCreatesRun(r) /\ ~CreateRun(r)
    BY <1>2, <2>2 DEF Bystander, SendStep, SendToLiveRun, SendWhileRunSettles, SendReadsRecord, Give,
       RunSettled, Refused, Promote, Wake, WakeWrite, StartRun, StartFails, WritePid,
       Drained, SendStoreFails
  <2> QED BY <2>1, <2>2
<1>3. CASE SweepStep \/ Archive \/ AdapterChoice \/ \E r \in Runs : ProcessEnds(r)
  BY <1>3 DEF SweepStep, TimePasses, SweepPicks, SweepEnds, SweepSkips, Archive,
     AdapterChoice, OrphanExits, Asks, Abandons, ProviderFails, Emits, ProcessEnds
<1>4. ~BootStep
  BY DEF RecordInv, BootStep, BootReapsRun, BootRunSwept, BootRunsSwept, BootSelectsRows, BootSuspended,
     BootSweepsRun
<1> QED BY <1>1, <1>2, <1>3, <1>4 DEF Bystander, Next

(* Without Predat no verb parks a thread.                                  *)
LEMMA NeverParks ==
  ASSUME InductiveInv, LogInv, "handoff" \notin Verbs, Next, ~Crash
  PROVE  op'.pc \notin {"handoff", "endRun", "suspending"} /\ op'.next # "endRun"
<1> DEFINE Parts(o) == o.pc \notin {"handoff", "endRun", "suspending"} /\ o.next # "endRun"
<1>0. op \in Ops /\ Parts(op) /\ Parts(Free)
  BY DEF InductiveInv, LogInv, Free
<1>1. ASSUME NEW o, Return(o) PROVE Parts(op')
  BY <1>0, <1>1 DEF Return
<1>2. ASSUME NEW l \in BOOLEAN, DeliverAfterRunEnd(l) PROVE Parts(op')
  BY <1>0, <1>1, <1>2 DEF DeliverAfterRunEnd, Ops
<1>3. ASSUME NEW pc \in OpPcs \ {"handoff", "endRun", "suspending"}, Go(pc) PROVE Parts(op')
  BY <1>0, <1>3 DEF Ops
<1>4. CASE VerbBegins
  BY ZenonT(60), <1>0, <1>4 DEF VerbBegins, Answer, Interrupt, Close, Continue, Handoff, SendMessage, Free
<1>5. CASE SendStep
  <2>1. CASE Give \/ SendWhileRunSettles
    <3>1. op' = Free \/ \E l \in BOOLEAN : DeliverAfterRunEnd(l)
      BY <1>0, <2>1 DEF Give, SendWhileRunSettles, Ops
    <3> QED BY <1>0, <1>2, <3>1
  <2>2. CASE Refused \/ StartFails \/ SendStoreFails
    <3>1. \E o : Return(o)
      BY <2>2 DEF Refused, StartFails, SendStoreFails
    <3> QED BY <1>1, <3>1
  <2>3. CASE SendReadsRecord \/ Promote \/ Wake \/ WakeWrite
    <3>1. (\E o : Return(o)) \/ \E pc \in {"promote", "resume", "wake", "create", "start", "wakeWrite"} : Go(pc)
      BY <2>3 DEF SendReadsRecord, Promote, Wake, WakeWrite, AfterWake
    <3> QED BY <1>0, <1>1, <3>1 DEF Ops
  <2>4. CASE SendToLiveRun \/ RunSettled \/ StartRun \/ StartDone \/ WritePid
    BY <1>0, <2>4 DEF SendToLiveRun, RunSettled, StartRun, StartDone, WritePid, DrainThen, Ops
  <2>5. CASE Drained
    <3>1. (\E o : Return(o)) \/ Go(op.next)
      BY <2>5 DEF Drained
    <3>2. op.next \notin {"handoff", "endRun", "suspending"}
      BY <1>0 DEF Ops
    <3> QED BY <1>0, <1>1, <3>1, <3>2 DEF Ops
  <2>6. ASSUME NEW r \in Runs, ResumeCreatesRun(r) \/ CreateRun(r) PROVE Parts(op')
    BY <1>0, <2>6 DEF ResumeCreatesRun, CreateRun, Ops
  <2> QED BY <1>5, <2>1, <2>2, <2>3, <2>4, <2>5, <2>6 DEF SendStep
<1>6. CASE VerbStep
  <2>1. CASE CloseWrites \/ ContinueNotesFile \/ VerbStoreFails
    <3>1. \E o : Return(o)
      BY <2>1 DEF CloseWrites, ContinueNotesFile, VerbStoreFails
    <3> QED BY <1>1, <3>1
  <2>2. CASE CloseLoads
    <3>1. (\E o : Return(o)) \/ Go("closeWrite") \/ Go("note")
      BY <2>2 DEF CloseLoads
    <3> QED BY <1>0, <1>1, <3>1 DEF Ops
  <2>3. CASE TellAgent \/ ContinueCloses \/ CloseReturns
    BY <1>0, <2>3 DEF TellAgent, DrainThen, ContinueCloses, AfterClose, CloseReturns, Ops
  <2>4. ~HandoffInterrupts /\ ~HandoffWithoutRun /\ ~HandoffEndsRun /\ ~HandoffSuspended
    BY <1>0 DEF HandoffInterrupts, HandoffWithoutRun, HandoffEndsRun, HandoffSuspended
  <2> QED BY <1>6, <2>1, <2>2, <2>3, <2>4 DEF VerbStep
<1>7. CASE HandlerStep
  <2>1. CASE HandleMessage \/ HandleAnswered
    <3>1. (\E o : Return(o)) \/ Go("give") \/ Go("tell")
      BY <2>1 DEF HandleMessage, HandleAnswered
    <3> QED BY <1>0, <1>1, <3>1 DEF Ops
  <2>2. CASE ~HandleMessage /\ ~HandleAnswered
    BY <1>0, <1>7, <2>2 DEF HandlerStep, HandleTurn, HandleQuestion,
       HandleUnasked, EventStoreFails, EndIsLogged, EndPatchesRun, EndClearsQuestion,
       EndSuspends, EndOfClose, EndSuspended, EndStoreFails
  <2> QED BY <2>1, <2>2
<1>8. CASE FreshStep
  BY <1>0, <1>8 DEF FreshStep, FreshStart, FreshStarted, FreshFails, FreshWritesPid, Ops
<1>9. CASE \/ SweepStep \/ Archive \/ AdapterChoice
           \/ \E r \in Runs : ProcessEnds(r)
           \/ \E p \in Suspenders : SuspendStep(p)
           \/ BootStep
  BY <1>0, <1>9 DEF SweepStep, TimePasses, SweepPicks, SweepEnds, SweepSkips, Archive,
     AdapterChoice, OrphanExits, Asks, Abandons, ProviderFails, Emits, ProcessEnds,
     SuspendStep, SuspendReads, SuspendEndsRuns, SuspendLoads, SuspendWrites, SuspendFails,
     BootStep, BootReapsRun, BootRunSwept, BootRunsSwept, BootSelectsRows, BootSuspended, BootSweepsRun
<1> QED BY <1>4, <1>5, <1>6, <1>7, <1>8, <1>9 DEF Next

(* The steps of the event queue: an end is logged once, then its row ends. *)
LEMMA HandlerStepLogs ==
  ASSUME InductiveInv, LogInv, ~MayFailStore, "handoff" \notin Verbs, HandlerStep, Next, ~Crash
  PROVE  LogInv'
<1>0. /\ TypeOK /\ EndsOver /\ SettleInv /\ ProcessInv
      /\ ended \in [Runs -> Nat] /\ runRow \in [Runs -> {"none", "open"} \union RunEndReasons]
      /\ NoRun \notin Runs
      /\ op'.pc \notin {"handoff", "endRun", "suspending"} /\ op'.next # "endRun"
  BY NeverParks DEF InductiveInv, RecordTypeOK, Runs, NoRun
<1>1. CASE HandleMessage \/ HandleAnswered \/ HandleTurn \/ HandleQuestion \/ HandleUnasked
  <2>1. UNCHANGED <<ended, runRow, settling>> /\ ev.pc = "next" /\ ev'.pc = "next"
    BY <1>0, <1>1 DEF HandleMessage, HandleAnswered, HandleTurn, HandleQuestion, HandleUnasked,
       AtHead, Dequeue, NoEvent, SettleInv, SettlingOwned
  <2> QED BY <1>0, <2>1 DEF LogInv
<1>2. CASE EndIsLogged
  <2>1. HeadRun = settling /\ settling \in Runs /\ ev.pc = "next"
    BY <1>0, <1>2, EndAtHead DEF EndIsLogged
  <2>2. /\ UNCHANGED <<runRow, settling>> /\ ev'.pc = "patchRun"
        /\ ended' = [ended EXCEPT ![settling] = @ + 1] /\ ended[settling] = 0
    BY <1>0, <1>2, <2>1 DEF EndIsLogged, LogInv
  <2>3. runRow[settling] # "none"
    <3>1. IsEnd(1) /\ 1 \in DOMAIN queue /\ HeadRun = queue[1].run
      BY <1>0, <1>2, EndAtHead, HeadTask DEF EndIsLogged, AtHead, HeadRun, QueueTypeOK
    <3>2. proc[settling] = "over"
      BY <1>0, <2>1, <3>1 DEF EndsOver, IsEnd
    <3> QED BY <1>0, <2>1, <3>2 DEF ProcessInv
  <2> QED BY <1>0, <2>1, <2>2, <2>3 DEF LogInv
<1>3. CASE EndPatchesRun
  <2>1. HeadRun = settling /\ settling \in Runs /\ ev.wasCurrent /\ ev.reason # "open" /\ ev.reason # "none"
    BY <1>0, <1>3, EndAtHead DEF EndPatchesRun, SettleInv, SettlingOwned, QueueTypeOK, RunEndReasons
  <2>2. /\ UNCHANGED <<ended, settling>> /\ ev'.pc # "next"
        /\ runRow' = [runRow EXCEPT ![settling] = ev.reason]
    BY <1>0, <1>3, <2>1 DEF EndPatchesRun, QueueTypeOK
  <2> QED BY <1>0, <2>1, <2>2 DEF LogInv
<1>4. CASE EndClearsQuestion \/ EndSuspends
  <2>1. UNCHANGED <<ended, runRow, settling>> /\ ev.pc # "patchRun" /\ ev'.pc # "next"
    BY <1>0, <1>4 DEF EndClearsQuestion, EndSuspends, QueueTypeOK
  <2> QED BY <1>0, <2>1 DEF LogInv
<1>5. CASE EndOfClose \/ EndSuspended
  <2>1. HeadRun = settling
    BY <1>0, <1>5, EndAtHead DEF EndOfClose, EndSuspended
  <2>2. UNCHANGED <<ended, runRow>> /\ settling' = NoRun /\ ev.pc # "patchRun"
    BY <1>5, <2>1 DEF EndOfClose, EndSuspended, EndHandled
  <2> QED BY <1>0, <2>2 DEF LogInv
<1>6. ~EventStoreFails /\ ~EndStoreFails
  BY DEF EventStoreFails, EndStoreFails
<1> QED BY <1>1, <1>2, <1>3, <1>4, <1>5, <1>6 DEF HandlerStep

(* Every step but a crash keeps the transcript and the run rows in step.   *)
LEMMA LogInductive ==
  ASSUME InductiveInv, RecordInv, LogInv, ~MayFailStore, "handoff" \notin Verbs, Next, ~Crash
  PROVE  LogInv'
<1>0. /\ TypeOK /\ SettleInv /\ VerbInv /\ FreshInv /\ ProcessInv
      /\ ended \in [Runs -> Nat] /\ runRow \in [Runs -> {"none", "open"} \union RunEndReasons]
      /\ NoRun \notin Runs /\ 1 \in Runs
      /\ op'.pc \notin {"handoff", "endRun", "suspending"} /\ op'.next # "endRun"
  BY NeverParks DEF InductiveInv, RecordTypeOK, Runs, NoRun
<1>1. CASE HandlerStep
  BY <1>1, HandlerStepLogs
<1>2. ASSUME NEW p \in Suspenders, SuspendStep(p)
      PROVE  LogInv'
  <2>1. UNCHANGED <<settling, ev>>
    BY <1>2 DEF SuspendStep, SuspendReads, SuspendEndsRuns, SuspendLoads, SuspendWrites, SuspendFails
  <2>2. CASE SuspendEndsRuns(p)
    <3>1. ev.pc = "suspend"
      BY <2>2 DEF SuspendEndsRuns, SusAt, RecordInv, LogInv, Suspenders
    <3>2. \A r \in Runs : runRow[r] = "open" => ended[r] = 0
      BY <3>1 DEF LogInv
    <3>3. \A r \in Runs : /\ runRow'[r] # "open"
                          /\ runRow'[r] = "none" => runRow[r] = "none" /\ ended'[r] = ended[r]
                          /\ ended'[r] = IF runRow[r] = "open" THEN ended[r] + 1 ELSE ended[r]
      BY <1>0, <2>2 DEF SuspendEndsRuns, OpenRuns
    <3> QED BY <1>0, <2>1, <3>1, <3>2, <3>3 DEF LogInv
  <2>3. CASE ~SuspendEndsRuns(p)
    <3>1. UNCHANGED <<ended, runRow>>
      BY <1>2, <2>3 DEF SuspendStep, SuspendReads, SuspendLoads, SuspendWrites, SuspendFails
    <3> QED BY <1>0, <2>1, <3>1 DEF LogInv
  <2> QED BY <2>2, <2>3
<1>3. CASE Bystander /\ \A p \in Suspenders : ~SuspendStep(p)
  <2>1. UNCHANGED <<settling, ev, ended>>
    BY <1>0, <1>3, BystanderFrame, LogFrame
  <2>2. CASE UNCHANGED runRow
    BY <1>0, <2>1, <2>2 DEF LogInv
  <2>3. CASE \E r \in Runs : runRow[r] = "none" /\ runRow' = [runRow EXCEPT ![r] = "open"]
    <3>1. PICK r \in Runs : runRow[r] = "none" /\ runRow' = [runRow EXCEPT ![r] = "open"]
      BY <2>3
    <3>2. ended[r] = 0 /\ \A s \in Runs : s # r => runRow'[s] = runRow[s]
      BY <1>0, <3>1 DEF LogInv
    <3> QED BY <1>0, <2>1, <3>1, <3>2 DEF LogInv
  <2> QED BY <1>3, <2>2, <2>3, LogFrame
<1>4. CASE StartDone
  <2>1. /\ op.pc = "starting" /\ op.run \in Runs /\ settling = NoRun /\ settling' = op.run
        /\ UNCHANGED <<ended, runRow, ev>>
    BY <1>0, <1>4 DEF StartDone, RunStarted, VerbInv, SettleInv, VerbWaits, StartPcs
  <2>2. ev.pc = "next" /\ runRow[op.run] = "open"
    BY <1>0, <2>1, NothingSettles DEF RecordInv
  <2> QED BY <1>0, <2>1, <2>2 DEF LogInv
<1>5. CASE FreshStarted
  <2>1. settling = NoRun /\ settling' = 1 /\ ev.pc = "next" /\ runRow[1] = "open" /\ UNCHANGED <<ended, runRow, ev>>
    BY <1>0, <1>5 DEF FreshStarted, RunStarted, FreshInv
  <2> QED BY <1>0, <2>1 DEF LogInv
<1>6. CASE FreshStart \/ FreshFails \/ FreshWritesPid
  <2>1. UNCHANGED <<settling, ev, ended, runRow>>
    BY <1>6 DEF FreshStart, FreshFails, FreshWritesPid, BeginRun, StartFailed
  <2> QED BY <1>0, <2>1 DEF LogInv
<1> QED BY <1>1, <1>2, <1>3, <1>4, <1>5, <1>6 DEF Bystander, FreshStep

(* The transcript holds at most one run_ended of a run: the handler of an  *)
(* end and endDanglingRuns never both write it.  (With Predat they may: its*)
(* suspend does not wait for the handler.  So may a handler whose write of *)
(* the run row rejected, and the boot sweeps.)                             *)
THEOREM EndsLoggedOnce ==
  LockedStart /\ ~MayFailStore /\ "handoff" \notin Verbs
    => (Spec => [](crashes = 0 => EndLoggedOnce))
<1> SUFFICES ASSUME LockedStart, ~MayFailStore, "handoff" \notin Verbs
             PROVE  Spec => [](crashes = 0 => EndLoggedOnce)
  OBVIOUS
<1>1. Init => (crashes = 0 => LogInv)
  BY DEF Init, LogInv, Free, NoRun
<1>2. InductiveInv /\ (crashes = 0 => RecordInv) /\ (crashes = 0 => LogInv) /\ [Next]_vars
        => (crashes = 0 => LogInv)'
  <2> SUFFICES ASSUME InductiveInv, crashes = 0 => RecordInv, crashes = 0 => LogInv,
                      [Next]_vars, crashes' = 0
               PROVE  LogInv'
    OBVIOUS
  <2>1. CASE UNCHANGED vars
    BY <2>1 DEF vars, LogInv
  <2>2. CASE Next /\ Crash
    BY <2>2 DEF Crash, InductiveInv, SweepTypeOK
  <2>3. CASE Next /\ ~Crash
    BY <2>3, OnlyCrashes, LogInductive
  <2> QED BY <2>1, <2>2, <2>3
<1>3. (crashes = 0 => LogInv) => (crashes = 0 => EndLoggedOnce)
  BY DEF LogInv, EndLoggedOnce
<1> QED BY <1>1, <1>2, <1>3, RunsSettle, RecordAgrees, PTL DEF Spec

-----------------------------------------------------------------------------
(* A thread at rest.  One that the record calls running and nobody serves  *)
(* is being started, closed or suspended, and who does it holds the lock   *)
(* or keeps the last end unsettled.                                        *)

(* What a verb has found of the record: a draft it promotes, a thread that *)
(* is not running that it notes a file for.                                *)
SawRecord(o, st) ==
  /\ o.pc = "promote" => st = "draft"
  /\ o.pc = "continue" /\ o.seen \in {"closed", "archived"} => st # "running"
  /\ o.pc \in {"closeWait", "drain"} /\ o.next = "note" => st # "running"
  /\ o.pc = "note" => st # "running"

(* A step that moves neither the record nor the end of a run.              *)
LEMMA RestKept ==
  ASSUME RestInv, UNCHANGED <<state, settling>>, closing' => closing \/ ClosesIt',
         sus'["queue"] = sus["queue"] \/ (sus'["queue"].pc \in {"done", "threw"} => state # "running"),
         \/ UNCHANGED op
         \/ /\ SawRecord(op', state)
            /\ state = "running" /\ (ClosesIt \/ op.pc \in {"create", "start", "starting"})
                 => ClosesIt' \/ op'.pc \in {"create", "start", "starting"}
            /\ state = "running" /\ ClosesIt => ClosesIt'
  PROVE  RestInv'
<1>2. CASE UNCHANGED op
  <2>1. ClosesIt' <=> ClosesIt
    BY <1>2 DEF ClosesIt, Closes
  <2> QED BY <1>2, <2>1 DEF RestInv
<1>3. CASE ~UNCHANGED op
  BY <1>3 DEF RestInv, SawRecord
<1> QED BY <1>2, <1>3

(* The verbs begin.                                                        *)
LEMMA VerbBeginsRest ==
  ASSUME InductiveInv, RestInv, VerbBegins
  PROVE  RestInv'
<1>1. op.pc = "free" /\ UNCHANGED <<state, settling, sus>>
  BY DEF VerbBegins, Answer, Interrupt, Close, Continue, Handoff, SendMessage
<1>2. /\ SawRecord(op', state)
      /\ closing' => closing \/ ClosesIt'
  <2>1. CASE Answer \/ Interrupt \/ Handoff \/ \E m \in Msgs : SendMessage(m)
    <3>1. /\ op'.pc \in {"record", "drain", "handoff", "send"} /\ op'.next = "end"
          /\ UNCHANGED closing
      BY <2>1 DEF Answer, Interrupt, Handoff, SendMessage, Free
    <3> QED BY <3>1 DEF SawRecord
  <2>2. CASE Continue
    <3>1. op'.pc = "continue" /\ op'.seen = state /\ UNCHANGED closing
      BY <2>2 DEF Continue, Free
    <3> QED BY <3>1 DEF SawRecord
  <2>3. CASE Close
    <3>1. op'.pc \in {"closeWait", "closeLoad"} /\ (op'.pc = "closeWait" => op'.next = "closeLoad")
      BY <2>3 DEF Close, Free
    <3> QED BY <3>1 DEF SawRecord, ClosesIt, Closes
  <2> QED BY <2>1, <2>2, <2>3 DEF VerbBegins
<1>3. ~ClosesIt
  BY <1>1 DEF ClosesIt, Closes
<1> QED BY <1>1, <1>2, <1>3, RestKept

(* The steps of a message.                                                 *)
LEMMA SendStepRest ==
  ASSUME InductiveInv, RecordInv, ClosingOwned, RestInv, ~MayFailStart, ~MayFailStore, SendStep
  PROVE  RestInv'
<1>0. TypeOK /\ SettleInv /\ VerbInv /\ MessageInv /\ op \in Ops /\ NoRun \notin Runs
  BY DEF InductiveInv, Runs, NoRun
<1>1. CASE WakeWrite
  <2>1. /\ op.pc = "wakeWrite" /\ state' = "running" /\ op'.pc \in {"create", "start"}
        /\ UNCHANGED <<settling, closing, sus>>
    BY <1>0, <1>1 DEF WakeWrite, AfterWake, Ops
  <2>2. settling = NoRun
    BY <1>0, <2>1 DEF SettleInv, VerbWaits, StartPcs
  <2>3. live = NoRun /\ ev.pc = "next"
    BY <1>0, <2>2, NothingSettles
  <2>4. ~closing /\ sus["queue"].pc = "off"
    BY <2>3 DEF ClosingOwned, EndBeingDecided, RecordInv
  <2> QED BY <2>1, <2>2, <2>4 DEF RestInv
<1>2. CASE StartDone
  <2>1. /\ op.pc = "starting" /\ op'.pc = "pid" /\ settling' \in Runs
        /\ UNCHANGED <<state, closing, sus>>
    BY <1>0, <1>2 DEF StartDone, RunStarted, VerbInv, Ops
  <2> QED BY <1>0, <2>1 DEF RestInv, ClosesIt, Closes
<1>3. CASE Drained
  <2>1. op.pc = "drain" /\ UNCHANGED <<state, settling, closing, sus>>
    BY <1>3 DEF Drained
  <2>2. CASE op.next = "end"
    <3>1. op' = Free
      BY <1>3, <2>2 DEF Drained, Return
    <3>2. SawRecord(Free, state) /\ ~ClosesIt
      BY <2>1, <2>2 DEF SawRecord, Free, ClosesIt, Closes
    <3> QED BY <2>1, <3>1, <3>2, RestKept
  <2>3. CASE op.next # "end"
    <3>1. op'.pc = op.next /\ op'.next = op.next /\ op.next \in {"endRun", "closeLoad", "note"}
      BY <1>0, <1>3, <2>3 DEF Drained, Ops
    <3>2. SawRecord(op', state)
      BY <2>1, <3>1 DEF SawRecord, RestInv
    <3>3. ClosesIt => ClosesIt'
      BY <2>1, <3>1 DEF ClosesIt, Closes
    <3> QED BY <2>1, <3>2, <3>3, RestKept
  <2> QED BY <2>2, <2>3
<1>4. CASE StartRun
  <2>1. op.pc = "start" /\ op'.pc = "starting" /\ UNCHANGED <<state, settling, closing, sus>>
    BY <1>0, <1>4 DEF StartRun, BeginRun, Ops
  <2>2. SawRecord(op', state) /\ ~ClosesIt
    BY <2>1 DEF SawRecord, ClosesIt, Closes
  <2> QED BY <2>1, <2>2, RestKept
<1>5. ASSUME NEW r \in Runs, ResumeCreatesRun(r) \/ CreateRun(r)
      PROVE  RestInv'
  <2>1. /\ \/ op.pc = "resume" /\ op'.pc = "wake"
           \/ op.pc = "create" /\ op'.pc = "start"
        /\ UNCHANGED <<state, settling, closing, sus>>
    BY <1>0, <1>5 DEF ResumeCreatesRun, CreateRun, Ops
  <2>2. SawRecord(op', state) /\ ~ClosesIt
    BY <2>1 DEF SawRecord, ClosesIt, Closes
  <2> QED BY <2>1, <2>2, RestKept
<1>6. CASE \/ SendToLiveRun \/ SendWhileRunSettles \/ SendReadsRecord \/ Give \/ RunSettled
           \/ Refused \/ Promote \/ Wake \/ WritePid
  <2>1. /\ op.pc \in {"send", "give", "settle", "resume", "promote", "handoff", "continue", "wake", "pid"}
        /\ UNCHANGED <<state, settling, closing, sus>>
    BY <1>6 DEF SendToLiveRun, SendWhileRunSettles, SendReadsRecord, Give, RunSettled,
       Refused, Promote, Wake, WritePid
  <2>2. ~ClosesIt
    BY <2>1 DEF ClosesIt, Closes
  <2>3. SawRecord(op', state)
    <3>0. SawRecord(Free, state)
      BY DEF SawRecord, Free
    <3>1. CASE SendToLiveRun \/ RunSettled \/ WritePid
      BY <1>0, <3>1 DEF SendToLiveRun, RunSettled, WritePid, DrainThen, Ops, SawRecord
    <3>2. CASE Give \/ SendWhileRunSettles
      <4>1. op' = Free \/ op'.pc = "settle"
        BY <1>0, <3>2 DEF Give, SendWhileRunSettles, DeliverAfterRunEnd, Return, Ops
      <4> QED BY <3>0, <4>1 DEF SawRecord
    <3>3. CASE SendReadsRecord
      <4>1. op' = Free \/ op'.pc = "resume" \/ (op'.pc = "promote" /\ state = "draft")
        BY <1>0, <3>3 DEF SendReadsRecord, Return, Ops
      <4> QED BY <3>0, <4>1 DEF SawRecord
    <3>4. CASE Refused \/ Promote \/ Wake
      <4>1. op' = Free \/ op'.pc \in {"wake", "create", "start", "wakeWrite"}
        BY <1>0, <3>4 DEF Refused, Promote, Wake, AfterWake, Return, Ops
      <4> QED BY <3>0, <4>1 DEF SawRecord
    <3> QED BY <1>6, <3>1, <3>2, <3>3, <3>4
  <2> QED BY <2>1, <2>2, <2>3, RestKept
<1>7. ~StartFails /\ ~SendStoreFails
  BY DEF StartFails, StartFailed, SendStoreFails
<1> QED BY <1>1, <1>2, <1>3, <1>4, <1>5, <1>6, <1>7 DEF SendStep

(* Uzavrit, Pokracovat and Predat.                                         *)
LEMMA VerbStepRest ==
  ASSUME InductiveInv, RecordInv, RestInv, ~MayFailStore, VerbStep
  PROVE  RestInv'
<1>0. TypeOK /\ op \in Ops /\ sus \in [Suspenders -> Suspends]
  BY DEF InductiveInv
<1>1. CASE CloseWrites
  <2>1. op.pc = "closeWrite" /\ op' = Free /\ state' = "closed" /\ UNCHANGED <<settling, closing, sus>>
    BY <1>1 DEF CloseWrites, Return
  <2> QED BY <2>1 DEF RestInv, Free
<1>2. CASE ContinueNotesFile
  <2>1. op.pc = "note" /\ op' = Free /\ UNCHANGED <<state, settling, closing, sus>>
    BY <1>2 DEF ContinueNotesFile, Return
  <2>2. SawRecord(op', state) /\ ~ClosesIt
    BY <2>1 DEF SawRecord, Free, ClosesIt, Closes
  <2> QED BY <2>1, <2>2, RestKept
<1>3. CASE CloseLoads
  <2>1. op.pc = "closeLoad" /\ UNCHANGED <<state, settling, closing, sus>> /\ state \in SessionStates
    BY <1>0, <1>3 DEF CloseLoads, RecordTypeOK
  <2>2. \/ op' = Free /\ state # "running"
        \/ op'.pc = "note" /\ state # "running"
        \/ op'.pc = "closeWrite"
    BY <1>0, <1>3, <2>1 DEF CloseLoads, Return, Ops, isAllowedSessionTransition, AllowedTransitions,
       SessionStates
  <2>3. SawRecord(op', state) /\ (state = "running" => ClosesIt')
    BY <2>2 DEF SawRecord, Free, ClosesIt, Closes
  <2> QED BY <2>1, <2>3, RestKept
<1>4. CASE ContinueCloses
  <2>1. op.pc = "continue" /\ UNCHANGED <<state, settling, sus>>
    BY <1>4 DEF ContinueCloses
  <2>2. /\ \/ op'.pc = "closeWait" /\ op'.next = AfterClose
           \/ op'.pc = AfterClose /\ closing' = closing
    BY <1>0, <1>4 DEF ContinueCloses, Ops
  <2>3. AfterClose = "closeLoad" \/ (AfterClose = "note" /\ state # "running")
    BY <2>1 DEF AfterClose, RestInv
  <2>4. SawRecord(op', state) /\ ~ClosesIt
    BY <2>1, <2>2, <2>3 DEF SawRecord, ClosesIt, Closes
  <2>5. closing' => closing \/ ClosesIt' \/ state # "running"
    BY <2>2, <2>3 DEF ClosesIt, Closes
  <2>6. state = "running" => (closing' => closing \/ ClosesIt')
    BY <2>5
  <2>7. CASE state = "running"
    BY <2>1, <2>4, <2>6, <2>7, RestKept
  <2>8. CASE state # "running"
    BY <2>1, <2>4, <2>8 DEF RestInv, SawRecord
  <2> QED BY <2>7, <2>8
<1>5. CASE CloseReturns
  <2>1. /\ op.pc = "closeWait" /\ op'.pc = "drain" /\ op'.next = op.next
        /\ UNCHANGED <<state, settling, closing, sus>>
    BY <1>0, <1>5 DEF CloseReturns, Ops
  <2>2. SawRecord(op', state) /\ (ClosesIt => ClosesIt')
    BY <2>1 DEF SawRecord, ClosesIt, Closes, RestInv
  <2> QED BY <2>1, <2>2, RestKept
<1>6. CASE TellAgent \/ HandoffInterrupts \/ HandoffWithoutRun \/ HandoffEndsRun \/ HandoffSuspended
  <2>1. /\ op.pc \in {"tell", "handoff", "endRun", "suspending"}
        /\ UNCHANGED <<state, settling, closing>>
        /\ \/ op' = Free
           \/ op'.pc = "suspending"
           \/ op'.pc \in {"drain", "closeWait"} /\ op'.next # "note"
    BY <1>0, <1>6 DEF TellAgent, DrainThen, HandoffInterrupts, HandoffWithoutRun, SuspendFromVerb,
       HandoffEndsRun, HandoffSuspended, Return, Ops
  <2>2. sus'["queue"] = sus["queue"]
    BY <1>0, <1>6 DEF TellAgent, HandoffInterrupts, HandoffWithoutRun, SuspendFromVerb,
       HandoffEndsRun, HandoffSuspended, Suspenders
  <2>3. SawRecord(op', state) /\ ~ClosesIt
    BY <2>1 DEF SawRecord, Free, ClosesIt, Closes
  <2> QED BY <2>1, <2>2, <2>3, RestKept
<1>7. ~VerbStoreFails
  BY DEF VerbStoreFails
<1> QED BY <1>1, <1>2, <1>3, <1>4, <1>5, <1>6, <1>7 DEF VerbStep

(* The event queue: an end that a close owns, or that has suspended.       *)
LEMMA HandlerStepRest ==
  ASSUME InductiveInv, RecordInv, RestInv, ~MayFailStore, HandlerStep
  PROVE  RestInv'
<1>0. TypeOK /\ op \in Ops /\ VerbTasks /\ sus \in [Suspenders -> Suspends]
      /\ EndsOver /\ SettleInv
  BY DEF InductiveInv
<1>1. CASE HandleMessage \/ HandleAnswered
  <2>1. op.pc \in {"log", "record"} /\ op'.pc \in {"give", "tell"}
    BY <1>0, <1>1, VerbTaskHandled DEF HandleMessage, HandleAnswered, AtHead, AwaitedAt, Ops
  <2>2. UNCHANGED <<state, settling, closing, sus>>
    BY <1>1 DEF HandleMessage, HandleAnswered
  <2>3. SawRecord(op', state) /\ ~ClosesIt
    BY <2>1 DEF SawRecord, ClosesIt, Closes
  <2> QED BY <2>1, <2>2, <2>3, RestKept
<1>2. CASE \/ HandleTurn \/ HandleQuestion \/ HandleUnasked
           \/ EndIsLogged \/ EndClearsQuestion
  <2>1. UNCHANGED <<state, settling, closing, sus, op>>
    BY <1>2 DEF HandleTurn, HandleQuestion, HandleUnasked, EndIsLogged, EndClearsQuestion
  <2> QED BY <2>1, RestKept
<1>3. CASE EndPatchesRun
  <2>1. UNCHANGED <<state, settling, closing, sus, op>>
    BY <1>0, <1>3 DEF EndPatchesRun, SettleInv, SettlingOwned
  <2> QED BY <2>1, RestKept
<1>4. CASE EndSuspends
  <2>1. UNCHANGED <<state, settling, closing, op>> /\ sus'["queue"].pc = "read"
    BY <1>0, <1>4 DEF EndSuspends, Suspenders
  <2> QED BY <2>1, RestKept
<1>5. CASE EndOfClose
  <2>1. UNCHANGED <<state, sus, op>> /\ closing /\ ~closing'
    BY <1>5 DEF EndOfClose
  <2>2. (state # "running" \/ ClosesIt) /\ (ClosesIt' <=> ClosesIt)
    BY <2>1 DEF RestInv, ClosesIt, Closes
  <2> QED BY <2>1, <2>2 DEF RestInv
<1>6. CASE EndSuspended
  <2>1. UNCHANGED <<state, closing, op>> /\ sus'["queue"].pc = "off" /\ state # "running"
    BY <1>0, <1>6 DEF EndSuspended, NoSuspend, Suspenders, RestInv
  <2> QED BY <2>1 DEF RestInv
<1>7. ~EventStoreFails /\ ~EndStoreFails
  BY DEF EventStoreFails, EndStoreFails
<1> QED BY <1>1, <1>2, <1>3, <1>4, <1>5, <1>6, <1>7 DEF HandlerStep

(* A suspend finds no verb on its way to promote the thread.               *)
LEMMA SuspendRest ==
  ASSUME InductiveInv, RecordInv, RestInv, ~MayFailStore, NEW p \in Suspenders, SuspendStep(p)
  PROVE  RestInv'
<1>0. TypeOK /\ sus \in [Suspenders -> Suspends] /\ SettleInv
  BY DEF InductiveInv
<1>1. UNCHANGED <<settling, closing, op>> /\ sus[p].pc # "off"
  BY DEF SuspendStep, SuspendReads, SuspendEndsRuns, SuspendLoads, SuspendWrites, SuspendFails, SusAt
<1>2. CASE SuspendWrites(p)
  <2>1. state' = "suspended"
    BY <1>2 DEF SuspendWrites
  <2>2. op.pc # "promote"
    <3>1. ev.pc = "suspend" \/ op.pc = "suspending"
      BY <1>1 DEF RecordInv, Suspenders
    <3>2. op.pc = "promote" => ev.pc = "next"
      BY WhoIsUp DEF StartPcs
    <3> QED BY <3>1, <3>2
  <2> QED BY <1>1, <2>1, <2>2 DEF RestInv
<1>3. CASE SuspendReads(p) \/ SuspendEndsRuns(p) \/ SuspendLoads(p)
  <2>1. UNCHANGED state /\ \E pc \in {"load", "dangling", "done", "write", "threw"} :
          SusGo(p, pc) /\ (pc \in {"done", "threw"} => state # "running")
    BY <1>3 DEF SuspendReads, SuspendEndsRuns, SuspendLoads, SuspendableStates
  <2>2. sus'["queue"] = sus["queue"] \/ (sus'["queue"].pc \in {"done", "threw"} => state # "running")
    BY <1>0, <2>1 DEF SusGo, Suspenders, Suspends
  <2> QED BY <1>1, <2>1, <2>2, RestKept
<1>4. ~SuspendFails(p)
  BY DEF SuspendFails
<1> QED BY <1>2, <1>3, <1>4 DEF SuspendStep

(* Every step but a crash keeps what is known of a thread at rest.         *)
LEMMA RestInductive ==
  ASSUME InductiveInv, RecordInv, ClosingOwned, RestInv, ~CreatedRunning,
         ~MayFailStart, ~MayFailStore, Next, ~Crash
  PROVE  RestInv'
<1>1. CASE \/ SweepStep \/ AdapterChoice \/ \E r \in Runs : ProcessEnds(r)
  <2>1. UNCHANGED <<state, settling, closing, sus, op>>
    BY <1>1 DEF SweepStep, TimePasses, SweepPicks, SweepEnds, SweepSkips,
       AdapterChoice, OrphanExits, Asks, Abandons, ProviderFails, Emits, ProcessEnds
  <2> QED BY <2>1, RestKept
<1>2. CASE Archive
  <2>1. op.pc = "free" /\ state' = "archived" /\ UNCHANGED <<settling, closing, sus, op>>
    BY <1>2 DEF Archive
  <2> QED BY <2>1 DEF RestInv
<1>3. ~FreshStep /\ ~BootStep
  BY DEF InductiveInv, FreshInv, FreshStep, FreshStart, FreshStarted, FreshFails, FreshWritesPid,
     RecordInv, BootStep, BootReapsRun, BootRunSwept, BootRunsSwept, BootSelectsRows, BootSuspended, BootSweepsRun
<1> QED BY <1>1, <1>2, <1>3, VerbBeginsRest, SendStepRest, VerbStepRest, HandlerStepRest,
           SuspendRest DEF Next

(* Only the reading of the record answers "no live run".                   *)
LEMMA WhoRefuses ==
  ASSUME InductiveInv, [Next]_vars, NEW m \in Msgs,
         msgs[m].st = "held", msgs'[m].st = "noLiveRun"
  PROVE  SendReadsRecord \/ Promote
<1>0. msgs \in [Msgs -> Messages]
  BY DEF InductiveInv
<1>1. ASSUME NEW o \in {"ok", "failed", "exhausted"}, Return(o) PROVE FALSE
  BY <1>0, <1>1 DEF Return, Messages
<1>2. ~UNCHANGED msgs
  OBVIOUS
<1>3. ~VerbBegins
  <2>1. ASSUME NEW x \in Msgs, SendMessage(x) PROVE FALSE
    BY <1>0, <2>1 DEF SendMessage, Messages
  <2> QED BY <1>2, <2>1 DEF VerbBegins, Answer, Interrupt, Close, Continue, Handoff
<1>4. ~VerbStep
  BY <1>1, <1>2 DEF VerbStep, ContinueCloses, CloseReturns, CloseLoads, CloseWrites, TellAgent,
     ContinueNotesFile, VerbStoreFails, HandoffInterrupts, HandoffWithoutRun,
     HandoffEndsRun, HandoffSuspended
<1>5. SendStep => SendReadsRecord \/ Promote
  <2>1. \A l \in BOOLEAN : ~DeliverAfterRunEnd(l)
    BY <1>1, <1>2 DEF DeliverAfterRunEnd
  <2>2. ~Give
    BY ZenonT(60), <1>0, <2>1 DEF Give, Messages
  <2>3. ~SendWhileRunSettles
    <3>1. op.logged \in BOOLEAN
      BY DEF InductiveInv, Ops
    <3> QED BY <2>1, <3>1 DEF SendWhileRunSettles
  <2>4. ~StartRun /\ ~StartDone
    BY <1>0 DEF StartRun, StartDone, Messages
  <2>5. /\ ~SendToLiveRun /\ ~RunSettled /\ ~Refused /\ ~Wake /\ ~WakeWrite /\ ~StartFails
        /\ ~WritePid /\ ~Drained /\ ~SendStoreFails
        /\ \A r \in Runs : ~ResumeCreatesRun(r) /\ ~CreateRun(r)
    BY <1>1, <1>2 DEF SendToLiveRun, RunSettled, Refused, Wake, WakeWrite, StartFails,
       WritePid, Drained, SendStoreFails, ResumeCreatesRun, CreateRun
  <2> QED BY <2>2, <2>3, <2>4, <2>5 DEF SendStep
<1>6. ~HandlerStep
  <2>1. ~HandleMessage
    BY <1>0, <1>1 DEF HandleMessage, Messages
  <2> QED BY <1>1, <1>2, <2>1 DEF HandlerStep, HandleAnswered, HandleTurn, HandleQuestion,
     HandleUnasked, EventStoreFails, EndIsLogged, EndPatchesRun, EndClearsQuestion,
     EndSuspends, EndOfClose, EndSuspended, EndStoreFails
<1>7. ~(\/ FreshStep \/ SweepStep \/ Archive \/ AdapterChoice
        \/ \E r \in Runs : ProcessEnds(r)
        \/ \E p \in Suspenders : SuspendStep(p)
        \/ BootStep \/ UNCHANGED vars)
  BY <1>2 DEF FreshStep, FreshStart, FreshStarted, FreshFails, FreshWritesPid,
     SweepStep, TimePasses, SweepPicks, SweepEnds, SweepSkips, Archive,
     AdapterChoice, OrphanExits, Asks, Abandons, ProviderFails, Emits, ProcessEnds,
     SuspendStep, SuspendReads, SuspendEndsRuns, SuspendLoads, SuspendWrites, SuspendFails,
     BootStep, BootReapsRun, BootRunSwept, BootRunsSwept, BootSelectsRows, BootSuspended, BootSweepsRun, vars
<1>8. ~Crash
  BY <1>0 DEF Crash, Messages
<1> QED BY <1>3, <1>4, <1>5, <1>6, <1>7, <1>8 DEF Next

(* "No live run" is what an archived thread answers, and only that         *)
(* (interface comment of sendMessage): a message never finds a thread that *)
(* runs with nobody to serve it, for who starts, closes or suspends it     *)
(* holds the lock or keeps the last end unsettled.  (A start or write that *)
(* rejects, and a crash, do leave such a thread.)                          *)
THEOREM OnlyArchivedRefuse ==
  ~CreatedRunning /\ ~MayFailStart /\ ~MayFailStore /\ MaxCrashes = 0
    => (Spec => NoLiveRunOnlyArchived)
<1> SUFFICES ASSUME ~CreatedRunning, ~MayFailStart, ~MayFailStore, MaxCrashes = 0
             PROVE  Spec => NoLiveRunOnlyArchived
  OBVIOUS
<1>0. LockedStart
  BY DEF LockedStart
<1> DEFINE Refuses == \A m \in Msgs : msgs[m].st = "held" /\ msgs'[m].st = "noLiveRun"
                                        => state = "archived"
<1>1. Init => RestInv
  BY DEF Init, RestInv, Free, NoSuspend, Suspenders
<1>2. InductiveInv /\ (crashes = 0 => RecordInv) /\ ClosingOwned /\ RestInv /\ [Next]_vars => RestInv'
  <2> SUFFICES ASSUME InductiveInv, crashes = 0 => RecordInv, ClosingOwned, RestInv, [Next]_vars
               PROVE  RestInv'
    OBVIOUS
  <2>1. crashes = 0 /\ ~Crash
    BY DEF InductiveInv, SweepTypeOK, Crash
  <2>2. CASE UNCHANGED vars
    BY <2>2, RestKept DEF vars
  <2> QED BY <2>1, <2>2, RestInductive
<1>3. InductiveInv /\ RestInv /\ [Next]_vars => [Refuses]_vars
  <2> SUFFICES ASSUME InductiveInv, RestInv, [Next]_vars, NEW m \in Msgs,
                      msgs[m].st = "held", msgs'[m].st = "noLiveRun"
               PROVE  state = "archived"
    OBVIOUS
  <2>0. state \in SessionStates
    BY DEF InductiveInv, RecordTypeOK
  <2>1. CASE Promote
    <3>1. op.pc = "promote" /\ state # "draft"
      BY <2>1 DEF Promote
    <3> QED BY <3>1 DEF RestInv
  <2>2. CASE SendReadsRecord
    <3>1. op.pc = "send" /\ settling = NoRun /\ state \notin {"draft", "suspended", "closed"}
      BY <2>2 DEF SendReadsRecord
    <3>2. state # "running"
      BY <3>1 DEF RestInv, ClosesIt, Closes
    <3> QED BY <2>0, <3>1, <3>2 DEF SessionStates
  <2> QED BY <2>1, <2>2, WhoRefuses
<1> QED BY <1>0, <1>1, <1>2, <1>3, RunsSettle, RecordAgrees, ClosingMarkOwned, PTL
           DEF Spec, NoLiveRunOnlyArchived

-----------------------------------------------------------------------------
(* ThreadLifecycle: the thread as its users see it.                        *)

(* The thread of ThreadLifecycle, in this one.                             *)
Serving == {r \in Runs : proc[r] \in {"starting", "up"}}
Stopped == {r \in Runs : proc[r] \in {"closing", "failing", "over", "orphan"}}
Taken   == [m \in Msgs |-> msgs[m].to]

LifecycleStep == [Lifecycle!Next]_(Lifecycle!vars)

(* No user sees a step that leaves these alone.                            *)
LEMMA LifecycleStutters ==
  ASSUME UNCHANGED <<state, Serving, Stopped, Taken>>
  PROVE  LifecycleStep
BY DEF LifecycleStep, Lifecycle!vars, Serving, Stopped, Taken

(* The record of a thread that is not served moves.                        *)
LEMMA LifecycleMoves ==
  ASSUME Serving = {}, UNCHANGED <<Serving, Stopped, Taken>>,
         \/ state \in {"draft", "suspended", "closed"} /\ state' = "running"
         \/ state = "running" /\ state' = "suspended"
         \/ state \in {"running", "suspended"} /\ state' = "closed"
         \/ state = "closed" /\ state' = "archived"
         \/ state = "closed" /\ state' = "suspended"
  PROVE  LifecycleStep
BY DEF LifecycleStep, Serving, Stopped, Taken, Lifecycle!Next, Lifecycle!Wake, Lifecycle!Suspend,
   Lifecycle!Close, Lifecycle!Archive, Lifecycle!LateSuspend, Lifecycle!Leave

(* A run begins to serve a running thread.                                 *)
LEMMA LifecycleServes ==
  ASSUME NEW r \in Runs, state = "running", Serving = {}, r \notin Stopped,
         Serving' = {r}, UNCHANGED <<state, Stopped, Taken>>
  PROVE  LifecycleStep
BY DEF LifecycleStep, Serving, Stopped, Taken, Lifecycle!Next, Lifecycle!Serve

(* The run that serves it takes a message no run took.                     *)
LEMMA LifecycleTakes ==
  ASSUME NEW r \in Runs, NEW m \in Msgs, r \in Serving, Taken[m] = {},
         Taken' = [Taken EXCEPT ![m] = {r}], UNCHANGED <<state, Serving, Stopped>>
  PROVE  LifecycleStep
BY DEF LifecycleStep, Serving, Stopped, Taken, Lifecycle!Next, Lifecycle!Take

(* It stops, for good.                                                     *)
LEMMA LifecycleStops ==
  ASSUME NEW r \in Runs, r \in Serving, Serving' = {}, Stopped' = Stopped \union {r},
         UNCHANGED <<state, Taken>>
  PROVE  LifecycleStep
BY DEF LifecycleStep, Serving, Stopped, Taken, Lifecycle!Next, Lifecycle!Stop

(* One run at most serves, and none while a verb or a suspend that has     *)
(* found none up is at work.                                               *)
LEMMA WhoServes ==
  ASSUME InductiveInv, fresh = "no"
  PROVE  /\ \A r \in Serving : Serving = {r}
         /\ NoneUp /\ op.pc # "starting" /\ RecordInv => Serving = {}
<1>1. \A r \in Serving : current = r
  BY DEF InductiveInv, ProcessInv, Alive, Serving
<1>2. ASSUME NoneUp, op.pc # "starting", RecordInv, NEW r \in Serving PROVE FALSE
  <2>1. proc[r] = "starting" /\ r # NoRun
    BY <1>2 DEF Serving, NoneUp, NoRun, Runs
  <2>2. live = NoRun /\ current = r
    BY <1>1, <2>1, <1>2 DEF RecordInv, Serving
  <2> QED BY <1>2, <2>1, <2>2 DEF InductiveInv, ProcessInv
<1> QED BY <1>1, <1>2 DEF Serving

(* A message's outcome, and its place in the transcript, are no taking.    *)
LEMMA TakenKept ==
  ASSUME TypeOK,
         \/ UNCHANGED msgs
         \/ \E o \in {"ok", "noLiveRun", "failed", "exhausted"} : Return(o)
         \/ \E l \in BOOLEAN : DeliverAfterRunEnd(l)
         \/ \E x : msgs' = [msgs EXCEPT ![x].log = @ + 1]
         \/ \E x : msgs' = [msgs EXCEPT ![x].st = "held"]
  PROVE  UNCHANGED Taken
<1>1. CASE UNCHANGED msgs
  BY <1>1 DEF Taken
<1>2. ASSUME NEW o \in {"ok", "noLiveRun", "failed", "exhausted"}, Return(o)
      PROVE  UNCHANGED Taken
  <2>1. \A m \in Msgs : msgs'[m].to = msgs[m].to
    BY <1>2 DEF Return, Messages
  <2> QED BY <2>1 DEF Taken
<1>3. ASSUME NEW l \in BOOLEAN, DeliverAfterRunEnd(l) PROVE UNCHANGED Taken
  BY <1>1, <1>2, <1>3 DEF DeliverAfterRunEnd
<1>4. ASSUME NEW x, msgs' = [msgs EXCEPT ![x].log = @ + 1] PROVE UNCHANGED Taken
  <2>1. \A m \in Msgs : msgs'[m].to = msgs[m].to
    BY <1>4 DEF Messages
  <2> QED BY <2>1 DEF Taken
<1>5. ASSUME NEW x, msgs' = [msgs EXCEPT ![x].st = "held"] PROVE UNCHANGED Taken
  <2>1. \A m \in Msgs : msgs'[m].to = msgs[m].to
    BY <1>5 DEF Messages
  <2> QED BY <2>1 DEF Taken
<1> QED BY <1>1, <1>2, <1>3, <1>4, <1>5

(* Who serves is the same while the processes are.                         *)
LEMMA SameProcesses ==
  ASSUME UNCHANGED proc
  PROVE  UNCHANGED <<Serving, Stopped>>
BY DEF Serving, Stopped

(* Ending the live run stops it, unless it has stopped already.            *)
LEMMA ShutdownStops ==
  ASSUME InductiveInv, fresh = "no", live # NoRun, Shutdown(live), UNCHANGED <<state, msgs>>
  PROVE  LifecycleStep
<1>1. live \in Runs /\ UNCHANGED Taken
  BY DEF InductiveInv, MemoryTypeOK, Taken
<1>2. CASE proc[live] = "up"
  <2>1. proc' = [proc EXCEPT ![live] = "closing"]
    BY <1>2 DEF Shutdown
  <2>2. live \in Serving /\ Serving = {live}
    BY <1>1, <1>2, WhoServes DEF Serving
  <2>3. Serving' = {} /\ Stopped' = Stopped \union {live}
    BY <1>1, <2>1, <2>2 DEF InductiveInv, AdapterTypeOK, Serving, Stopped
  <2> QED BY <1>1, <2>2, <2>3, LifecycleStops
<1>3. CASE proc[live] # "up"
  <2>1. UNCHANGED proc
    BY <1>3 DEF Shutdown, InductiveInv, AdapterTypeOK
  <2> QED BY <1>1, <2>1, SameProcesses, LifecycleStutters
<1> QED BY <1>2, <1>3

(* A process that fails or whose start fails stops; one that has stopped   *)
(* and ends shows nothing.                                                 *)
LEMMA ProcessStops ==
  ASSUME InductiveInv, fresh = "no", NEW r \in Runs, Alive(r),
         NEW q \in {"failing", "over"}, proc' = [proc EXCEPT ![r] = q], UNCHANGED <<state, Taken>>
  PROVE  LifecycleStep
<1>1. proc \in [Runs -> ProcStates]
  BY DEF InductiveInv, AdapterTypeOK
<1>2. CASE r \in Serving
  <2>1. Serving = {r}
    BY <1>2, WhoServes
  <2>2. Serving' = {} /\ Stopped' = Stopped \union {r}
    BY <1>1, <2>1 DEF Serving, Stopped
  <2> QED BY <1>2, <2>2, LifecycleStops
<1>3. CASE r \notin Serving
  <2>1. UNCHANGED <<Serving, Stopped>>
    BY <1>1, <1>3 DEF Serving, Stopped, Alive
  <2> QED BY <2>1, LifecycleStutters
<1> QED BY <1>2, <1>3

(* The steps of a message: Wake, Serve, Take, Stop, or nothing.            *)
LEMMA SendStepLifecycle ==
  ASSUME InductiveInv, RecordInv, fresh = "no", SendStep
  PROVE  LifecycleStep
<1>0. TypeOK /\ op \in Ops /\ VerbInv /\ ProcessInv /\ MessageInv
  BY DEF InductiveInv
<1>1. CASE UNCHANGED <<state, proc, Taken>>
  BY <1>1, SameProcesses, LifecycleStutters
<1>2. CASE WakeWrite
  <2>1. op.pc = "wakeWrite" /\ state' = "running" /\ UNCHANGED <<proc, msgs>>
    BY <1>2 DEF WakeWrite
  <2>2. state \in {"draft", "suspended", "closed"} /\ Serving = {}
    BY <2>1, WhoIsUp, WhoServes DEF RecordInv, StartPcs
  <2>3. UNCHANGED <<Serving, Stopped, Taken>>
    BY <2>1, SameProcesses DEF Taken
  <2> QED BY <2>1, <2>2, <2>3, LifecycleMoves
<1>3. CASE StartRun
  <2>1. /\ op.pc = "start" /\ op.run \in Runs /\ proc[op.run] = "none" /\ state = "running"
        /\ proc' = [proc EXCEPT ![op.run] = "starting"] /\ UNCHANGED state
    BY <1>0, <1>3 DEF StartRun, BeginRun, VerbInv, ProcessInv, RecordInv, NoRun, Runs
  <2>2. Serving = {}
    BY <2>1, WhoIsUp, WhoServes DEF StartPcs
  <2>3. Serving' = {op.run} /\ UNCHANGED Stopped /\ op.run \notin Stopped
    BY <1>0, <2>1, <2>2 DEF Serving, Stopped, AdapterTypeOK
  <2>4. UNCHANGED Taken
    <3>1. \A m \in Msgs : msgs'[m].to = msgs[m].to
      BY <1>0, <1>3 DEF StartRun, Messages
    <3> QED BY <3>1 DEF Taken
  <2> QED BY <2>1, <2>2, <2>3, <2>4, LifecycleServes
<1>4. ASSUME op.kind = "send", op.run \in Serving, ~IsTaken,
             \/ msgs' = [msgs EXCEPT ![op.msg].to = @ \union {op.run}]
             \/ msgs' = [msgs EXCEPT ![op.msg].st = "ok", ![op.msg].to = @ \union {op.run}],
             UNCHANGED <<state, Serving, Stopped>>
      PROVE  LifecycleStep
  <2>1. op.msg \in Msgs /\ msgs[op.msg].to = {} /\ op.run \in Runs
    BY <1>4 DEF InductiveInv, MessageInv, Carries, Serving
  <2>2. \A m \in Msgs : msgs'[m].to = IF m = op.msg THEN {op.run} ELSE msgs[m].to
    <3>1. CASE msgs' = [msgs EXCEPT ![op.msg].to = @ \union {op.run}]
      BY <1>0, <2>1, <3>1 DEF InductiveInv, TypeOK, Messages
    <3>2. CASE msgs' = [msgs EXCEPT ![op.msg].st = "ok", ![op.msg].to = @ \union {op.run}]
      <4>1. msgs \in [Msgs -> Messages]
        BY <1>0 DEF TypeOK
      <4>2. \A m \in Msgs \ {op.msg} : msgs'[m] = msgs[m]
        BY <3>2, <4>1
      <4>3. msgs'[op.msg].to = msgs[op.msg].to \union {op.run}
        BY <2>1, <3>2, <4>1 DEF Messages
      <4> QED BY <2>1, <4>2, <4>3
    <3> QED BY <1>4, <3>1, <3>2
  <2>3. Taken[op.msg] = {} /\ Taken' = [Taken EXCEPT ![op.msg] = {op.run}]
    BY <2>1, <2>2 DEF Taken
  <2> QED BY <1>4, <2>1, <2>3, LifecycleTakes
<1>5. CASE StartDone
  <2>1. op.pc = "starting" /\ op.run \in Runs /\ proc[op.run] = "starting" /\ op.kind = "send"
    BY <1>0, <1>5 DEF StartDone, VerbInv, ProcessInv, MessageInv, SendPcs, StartPcs
  <2>2. proc' = [proc EXCEPT ![op.run] = "up"] /\ UNCHANGED state
        /\ msgs' = [msgs EXCEPT ![op.msg].to = @ \union {op.run}]
    BY <1>5 DEF StartDone, RunStarted
  <2>3. op.run \in Serving /\ UNCHANGED <<Serving, Stopped>>
    BY <1>0, <2>1, <2>2 DEF Serving, Stopped, AdapterTypeOK
  <2> QED BY <1>4, <2>1, <2>2, <2>3 DEF IsTaken
<1>6. CASE Give /\ proc[op.run] = "up"
  <2>1. op.pc = "give" /\ op.run \in Runs /\ op.kind = "send"
    BY <1>0, <1>6 DEF Give, VerbInv, MessageInv, SendPcs
  <2>2. UNCHANGED <<state, proc>>
        /\ msgs' = [msgs EXCEPT ![op.msg].st = "ok", ![op.msg].to = @ \union {op.run}]
    BY <1>6 DEF Give
  <2>3. op.run \in Serving
    BY <1>6, <2>1 DEF Serving
  <2> QED BY <1>4, <2>1, <2>2, <2>3, SameProcesses DEF IsTaken
<1>7. CASE Give /\ proc[op.run] # "up"
  <2>1. UNCHANGED Taken
    BY <1>0, <1>7, TakenKept DEF Give
  <2> QED BY <1>1, <1>7, <2>1 DEF Give
<1>8. CASE StartFails
  <2>1. op.pc = "starting" /\ op.run \in Runs /\ Alive(op.run)
    BY <1>0, <1>8 DEF StartFails, VerbInv, ProcessInv, Alive
  <2>2. proc' = [proc EXCEPT ![op.run] = "over"] /\ UNCHANGED state
    BY <1>8 DEF StartFails, StartFailed
  <2>3. UNCHANGED Taken
    BY <1>0, <1>8, TakenKept DEF StartFails
  <2> QED BY <2>1, <2>2, <2>3, ProcessStops
<1>9. CASE SendWhileRunSettles
  <2>1. op.logged \in BOOLEAN
    BY <1>0 DEF Ops
  <2>2. UNCHANGED Taken
    BY <1>0, <1>9, <2>1, TakenKept DEF SendWhileRunSettles
  <2> QED BY <1>1, <1>9, <2>2 DEF SendWhileRunSettles
<1>10. CASE SendReadsRecord \/ Refused \/ Promote \/ Wake \/ Drained \/ SendStoreFails
  <2>1. UNCHANGED Taken
    BY <1>0, <1>10, TakenKept DEF SendReadsRecord, Refused, Promote, Wake, Drained, SendStoreFails
  <2> QED BY <1>1, <1>10, <2>1 DEF SendReadsRecord, Refused, Promote, Wake, Drained, SendStoreFails
<1>11. CASE SendToLiveRun \/ RunSettled \/ WritePid
  BY <1>1, <1>11 DEF SendToLiveRun, RunSettled, WritePid, Taken
<1>12. ASSUME NEW r \in Runs, ResumeCreatesRun(r) \/ CreateRun(r) PROVE LifecycleStep
  BY <1>1, <1>12 DEF ResumeCreatesRun, CreateRun, Taken
<1> QED BY <1>2, <1>3, <1>5, <1>6, <1>7, <1>8, <1>9, <1>10, <1>11, <1>12 DEF SendStep

(* The other verbs: Close, Stop, or nothing.                               *)
LEMMA VerbLifecycle ==
  ASSUME InductiveInv, RecordInv, fresh = "no", VerbBegins \/ VerbStep
  PROVE  LifecycleStep
<1>0. TypeOK
  BY DEF InductiveInv
<1>1. CASE UNCHANGED <<state, proc, Taken>>
  BY <1>1, SameProcesses, LifecycleStutters
<1>2. CASE Close \/ ContinueCloses
  <2>1. UNCHANGED <<state, msgs>> /\ (UNCHANGED proc \/ (live # NoRun /\ Shutdown(live)))
    BY <1>2 DEF Close, ContinueCloses, CloseLive
  <2> QED BY <1>1, <2>1, ShutdownStops DEF Taken
<1>3. CASE HandoffEndsRun
  BY <1>3, ShutdownStops DEF HandoffEndsRun
<1>4. CASE CloseWrites
  <2>1. op.pc = "closeWrite" /\ state' = "closed" /\ UNCHANGED proc
    BY <1>4 DEF CloseWrites
  <2>2. state \in {"running", "suspended", "closed"} /\ Serving = {}
    BY <2>1, WhoServes DEF RecordInv, Closes, NoneUp
  <2>3. UNCHANGED <<Serving, Stopped, Taken>>
    BY <1>0, <1>4, <2>1, SameProcesses, TakenKept DEF CloseWrites
  <2> QED BY <2>1, <2>2, <2>3, LifecycleMoves, LifecycleStutters
<1>5. CASE Answer \/ Interrupt \/ Continue \/ Handoff \/ \E m \in Msgs : SendMessage(m)
  <2>1. UNCHANGED Taken
    BY <1>0, <1>5, TakenKept DEF Answer, Interrupt, Continue, Handoff, SendMessage
  <2> QED BY <1>1, <1>5, <2>1 DEF Answer, Interrupt, Continue, Handoff, SendMessage
<1>6. CASE \/ TellAgent \/ CloseReturns \/ CloseLoads \/ ContinueNotesFile \/ VerbStoreFails
           \/ HandoffInterrupts \/ HandoffWithoutRun \/ HandoffSuspended
  <2>1. UNCHANGED Taken
    BY <1>0, <1>6, TakenKept DEF TellAgent, CloseReturns, CloseLoads, ContinueNotesFile,
       VerbStoreFails, HandoffInterrupts, HandoffWithoutRun, HandoffSuspended
  <2> QED BY <1>1, <1>6, <2>1 DEF TellAgent, CloseReturns, CloseLoads, ContinueNotesFile,
       VerbStoreFails, HandoffInterrupts, HandoffWithoutRun, HandoffSuspended
<1> QED BY <1>2, <1>3, <1>4, <1>5, <1>6 DEF VerbBegins, VerbStep

(* The sweeps and the adapter: Archive, Stop, or nothing.                  *)
LEMMA SweepStepLifecycle ==
  ASSUME InductiveInv, RecordInv, fresh = "no",
         SweepStep \/ Archive \/ AdapterChoice \/ \E r \in Runs : ProcessEnds(r)
  PROVE  LifecycleStep
<1>1. CASE UNCHANGED <<state, proc, msgs>>
  BY <1>1, SameProcesses, LifecycleStutters DEF Taken
<1>2. CASE SweepEnds
  BY <1>2, ShutdownStops DEF SweepEnds
<1>3. CASE Archive
  <2>1. op.pc = "free" /\ state = "closed" /\ state' = "archived" /\ UNCHANGED <<proc, msgs>>
    BY <1>3 DEF Archive
  <2>2. Serving = {}
    BY <2>1, WhoServes DEF RecordInv, NoneUp
  <2> QED BY <2>1, <2>2, SameProcesses, LifecycleMoves DEF Taken
<1>4. ASSUME NEW r \in Runs, ProviderFails(r) PROVE LifecycleStep
  <2>1. Alive(r) /\ proc' = [proc EXCEPT ![r] = "failing"] /\ UNCHANGED <<state, Taken>>
    BY <1>4 DEF ProviderFails, Alive, Taken
  <2> QED BY <2>1, ProcessStops
<1>5. ASSUME NEW r \in Runs, ProcessEnds(r) PROVE LifecycleStep
  <2>1. Alive(r) /\ proc' = [proc EXCEPT ![r] = "over"] /\ UNCHANGED <<state, Taken>>
    BY <1>5 DEF ProcessEnds, Ending, Alive, Taken
  <2> QED BY <2>1, ProcessStops
<1>6. ASSUME NEW r \in Runs, OrphanExits(r) PROVE LifecycleStep
  <2>1. proc \in [Runs -> ProcStates]
    BY DEF InductiveInv, AdapterTypeOK
  <2>2. UNCHANGED <<state, Serving, Stopped, Taken>>
    BY <1>6, <2>1 DEF OrphanExits, Serving, Stopped, Taken
  <2> QED BY <2>2, LifecycleStutters
<1>7. CASE \/ SweepStep /\ ~SweepEnds
           \/ AdapterChoice /\ ~\E r \in Runs : ProviderFails(r) \/ OrphanExits(r)
  BY <1>1, <1>7 DEF SweepStep, TimePasses, SweepPicks, SweepSkips, AdapterChoice, Asks,
     Abandons, Emits
<1> QED BY <1>2, <1>3, <1>4, <1>5, <1>6, <1>7

(* The event queue shows nothing; a suspend is Suspend, or the late one    *)
(* that overwrites a close.                                                *)
LEMMA HandlerLifecycle ==
  ASSUME InductiveInv, RecordInv, fresh = "no",
         HandlerStep \/ \E p \in Suspenders : SuspendStep(p)
  PROVE  LifecycleStep
<1>0. TypeOK
  BY DEF InductiveInv
<1>1. CASE HandlerStep
  <2>1. UNCHANGED <<state, proc>>
    BY <1>1 DEF HandlerStep, HandleMessage, HandleAnswered, HandleTurn, HandleQuestion,
       HandleUnasked, EventStoreFails, EndIsLogged, EndPatchesRun, EndClearsQuestion,
       EndOfClose, EndSuspends, EndSuspended, EndStoreFails
  <2>2. UNCHANGED Taken
    BY <1>0, <1>1, TakenKept DEF HandlerStep, HandleMessage, HandleAnswered, HandleTurn,
       HandleQuestion, HandleUnasked, EventStoreFails, EndIsLogged, EndPatchesRun,
       EndClearsQuestion, EndOfClose, EndSuspends, EndSuspended, EndStoreFails
  <2> QED BY <2>1, <2>2, SameProcesses, LifecycleStutters
<1>2. ASSUME NEW p \in Suspenders, SuspendStep(p) PROVE LifecycleStep
  <2>1. UNCHANGED <<proc, msgs, op>>
    BY <1>2 DEF SuspendStep, SuspendReads, SuspendEndsRuns, SuspendLoads, SuspendWrites, SuspendFails
  <2>2. UNCHANGED <<Serving, Stopped, Taken>>
    BY <2>1, SameProcesses DEF Taken
  <2>3. CASE SuspendWrites(p)
    <3>1. sus[p].pc = "write" /\ state' = "suspended"
      BY <2>3 DEF SuspendWrites, SusAt
    <3>2. state \in {"running", "suspended", "closed"}
      BY <3>1 DEF RecordInv
    <3>3. \/ ev.pc # "next"
          \/ op.pc = "suspending"
      BY <3>1 DEF RecordInv, Suspenders
    <3>4. Serving = {}
      BY <3>3, WhoIsUp, WhoServes DEF RecordInv, Parks, NoneUp, StartPcs
    <3> QED BY <2>2, <3>1, <3>2, <3>4, LifecycleMoves, LifecycleStutters
  <2>4. CASE ~SuspendWrites(p)
    <3>1. UNCHANGED state
      BY <1>2, <2>4 DEF SuspendStep, SuspendReads, SuspendEndsRuns, SuspendLoads, SuspendFails
    <3> QED BY <2>2, <3>1, LifecycleStutters
  <2> QED BY <2>3, <2>4
<1> QED BY <1>1, <1>2

(* The session runtime of a thread that began as a draft, whichever of its *)
(* interleavings, failing starts and rejected writes happen, does what     *)
(* ThreadLifecycle promises: the state moves as the table says (and by the *)
(* late suspend), one agent at a time serves the thread and only while it  *)
(* is running, and a message is taken by one agent.                        *)
THEOREM LifecycleImplemented ==
  ~CreatedRunning /\ MaxCrashes = 0 => (Spec => LifecycleSpec)
<1> SUFFICES ASSUME ~CreatedRunning, MaxCrashes = 0 PROVE Spec => LifecycleSpec
  OBVIOUS
<1>0. LockedStart
  BY DEF LockedStart
<1>1. Init => Lifecycle!Init
  BY DEF Init, Lifecycle!Init
<1>2. InductiveInv /\ (crashes = 0 => RecordInv) /\ [Next]_vars
        => [Lifecycle!Next]_(Lifecycle!vars)
  <2> SUFFICES ASSUME InductiveInv, crashes = 0 => RecordInv, [Next]_vars
               PROVE  LifecycleStep
    BY DEF LifecycleStep
  <2>1. crashes = 0 /\ ~Crash /\ fresh = "no" /\ RecordInv
    BY DEF InductiveInv, SweepTypeOK, Crash, FreshInv
  <2>2. CASE UNCHANGED vars
    BY <2>2, SameProcesses, LifecycleStutters DEF vars, Taken
  <2>3. ~FreshStep /\ ~BootStep
    BY <2>1 DEF FreshStep, FreshStart, FreshStarted, FreshFails, FreshWritesPid, RecordInv,
       BootStep, BootReapsRun, BootRunSwept, BootRunsSwept, BootSelectsRows, BootSuspended, BootSweepsRun
  <2>4. CASE Next
    BY <2>1, <2>3, <2>4, VerbLifecycle, SendStepLifecycle, SweepStepLifecycle, HandlerLifecycle
       DEF Next
  <2> QED BY <2>2, <2>4
<1> QED BY <1>0, <1>1, <1>2, RunsSettle, RecordAgrees, PTL
        DEF Spec, LifecycleSpec, Lifecycle!Spec
=============================================================================
