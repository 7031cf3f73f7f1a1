--------------------------- MODULE SessionRuntime ---------------------------
(***************************************************************************)
(* One thread (session) of the session runtime,                            *)
(* domain/runner/session-runtime.ts, with the record it writes, the runner *)
(* processes it starts and the suspend it calls.  Every map of the runtime *)
(* is keyed by session id and no step reads two entries, so one thread is  *)
(* the whole story; the number of threads is not a parameter.              *)
(*                                                                         *)
(* The processes that interleave at the code's awaits:                     *)
(*   - the lifecycle verb holding the thread's lock (`op`): a message, an  *)
(*     answer, Stop, close, handoff or continue.  The lock admits one at a *)
(*     time, so the next verb is any call a user may make next;            *)
(*   - the event queue (`queue`, `ev`), which handles one adapter event or *)
(*     one queued write at a time, in order;                               *)
(*   - the idle sweep (`sweep`), which takes no lock;                      *)
(*   - the suspend, a sub-program (`sus`) that the event queue, the        *)
(*     handoff verb and the boot sweeps may each have in flight;           *)
(*   - the runner process of each run (`proc`), and the boot sweeps after  *)
(*     a crash (`boot`), which run while the process already serves;       *)
(*   - the start of a thread created running (`fresh`): startTask,         *)
(*     startFromHandoff and the new thread of continueSession create the   *)
(*     row and start its run without the lifecycle lock.                   *)
(*                                                                         *)
(* One action is the code from one await to the next that another process  *)
(* could observe.  Store reads that only one process can influence are     *)
(* merged with the step that uses them; so are the writes of the two loops *)
(* endDanglingRuns and sweepOne run over a run (row, transcript, pid file).*)
(***************************************************************************)
EXTENDS SessionRecord, Integers, Sequences, FiniteSets

CONSTANTS
  MaxRuns,      \* bound: runs the thread may start
  Msgs,         \* the messages users may write, each written once
  NoMsg,        \* no message
  Verbs,        \* which lifecycle verbs users call
  MayFailStart, \* adapter.start may reject (a missing CLI, a spawn error)
  MayFailStore, \* a write to the record or the transcript may reject
  MaxCrashes,   \* bound: how often the process dies and boots again
  MaxAsks,      \* bound: questions agents may ask
  MaxQueue,     \* bound: the adapter emits nothing more while so many wait
  CreatedRunning \* the thread is created running (startTask), not a draft

VerbKinds == {"send", "answer", "interrupt", "close", "handoff", "continue"}

ASSUME RuntimeAssumption ==
  /\ MaxRuns \in Nat \ {0}
  /\ NoMsg \notin Msgs
  /\ Verbs \subseteq VerbKinds
  /\ MayFailStart \in BOOLEAN
  /\ MayFailStore \in BOOLEAN
  /\ MaxCrashes \in Nat
  /\ MaxQueue \in Nat \ {0}
  /\ MaxAsks \in Nat
  /\ CreatedRunning \in BOOLEAN

Runs == 1..MaxRuns
NoRun == 0
Questions == 1..MaxAsks
NoQuestion == 0
MAX_DELIVERY_ATTEMPTS == 3

VARIABLES
  \* the session row and the session_runs rows
  state, waiting, handoff, runRow,
  \* how many run_ended events the transcript holds per run, and pid files
  ended, pidFile,
  \* liveRuns, currentRuns, runSettling: a run id, or NoRun
  live, current, settling,
  \* closingSessions, pendingEndReason
  closing, pendingEndReason,
  \* turnsInFlight, pendingQuestions (a request id or NoQuestion); whether
  \* nothing touched the live run since the cutoff of the idle sweep
  turnsInFlight, question, quiet,
  \* the event queue, the handler's place in the task at its head, and how
  \* many queued tasks the drain() in progress still waits for
  queue, ev, draining,
  \* the verb that holds the lifecycle lock; the lockless first start;
  \* suspends in flight; the idle sweep
  op, fresh, sus, sweep,
  \* boot sweeps after a crash: phase, pid files still to look at, the run
  \* whose process is being killed
  boot, bootList, bootRun, crashes,
  \* runner processes: their state, messages taken and not yet answered,
  \* the question each agent waits on, and how many were ever asked
  proc, owed, asking, asked,
  \* what became of each message
  msgs

recordVars  == <<state, waiting, handoff>>
runVars     == <<runRow, ended, pidFile>>
memVars     == <<live, current, settling>>
endVars     == <<closing, pendingEndReason>>
turnVars    == <<turnsInFlight, question, quiet>>
queueVars   == <<queue, ev, draining>>
bootVars    == <<boot, bootList, bootRun, crashes>>
adapterVars == <<proc, owed, asking, asked>>
vars == <<recordVars, runVars, memVars, endVars, turnVars, queueVars,
          op, fresh, sus, sweep, bootVars, adapterVars, msgs>>

RunEndReasons == {"completed", "suspended", "error", "host_lost"}
SuspendReasons == {"run_ended", "idle", "handoff", "boot_sweep", "host_lost"}
Suspenders == {"queue", "op", "boot"}

(* closing: the prompt stream was ended on request; failing: a provider    *)
(* error or limit, or the CLI is gone.  Either way send() is refused and   *)
(* the adapter still owes its one run_ended.  Orphan: its server died, and *)
(* the child, detached, has not.  The server drives those alive.           *)
ProcStates == {"none", "starting", "up", "closing", "failing", "over", "orphan"}
Alive(r)  == proc[r] \in {"starting", "up", "closing", "failing"}
Ending(r) == proc[r] \in {"closing", "failing"}

Tasks == [kind : {"message", "answered", "turn", "question", "unasked", "ended"},
          run : Runs, count : Nat, ask : Questions \union {NoQuestion},
          reason : RunEndReasons]
Task(k, r) ==
  [kind |-> k, run |-> r, count |-> 0, ask |-> NoQuestion, reason |-> "completed"]

OpPcs == {"free", "send", "log", "give", "settle", "resume", "promote", "wake",
          "wakeWrite", "create", "start", "starting", "pid", "drain", "record",
          "tell", "continue", "closeWait", "closeLoad", "closeWrite", "note",
          "handoff", "endRun", "suspending", "stuck"}
Free == [kind |-> "none", pc |-> "free", msg |-> NoMsg, run |-> NoRun,
         ask |-> NoQuestion, attempt |-> 0, logged |-> FALSE, seen |-> "draft", next |-> "end"]

NoEvent   == [pc |-> "next", wasCurrent |-> FALSE, reason |-> "completed"]
NoSuspend == [pc |-> "off", reason |-> "run_ended", force |-> FALSE]

Ops == [kind : VerbKinds \union {"none"}, pc : OpPcs,
        msg : Msgs \union {NoMsg}, run : Runs \union {NoRun},
        ask : Questions \union {NoQuestion}, attempt : 0..(MAX_DELIVERY_ATTEMPTS - 1),
        logged : BOOLEAN, seen : SessionStates,
        next : {"end", "endRun", "closeLoad", "note"}]
Suspends == [pc : {"off", "read", "dangling", "load", "write", "done", "threw"},
             reason : SuspendReasons, force : BOOLEAN]
Messages == [st : {"new", "held", "ok", "noLiveRun", "failed", "exhausted"},
             log : Nat, to : SUBSET Runs]

RecordTypeOK ==
  /\ state \in SessionStates /\ waiting \in BOOLEAN /\ handoff \in BOOLEAN
  /\ runRow \in [Runs -> {"none", "open"} \union RunEndReasons]
  /\ ended \in [Runs -> Nat]
  /\ pidFile \in SUBSET Runs

MemoryTypeOK ==
  /\ live \in Runs \union {NoRun}
  /\ current \in Runs \union {NoRun}
  /\ settling \in Runs \union {NoRun}
  /\ closing \in BOOLEAN
  /\ pendingEndReason \in {"none", "idle", "handoff"}
  /\ turnsInFlight \in Nat /\ quiet \in BOOLEAN
  /\ question \in Questions \union {NoQuestion}

QueueTypeOK ==
  /\ queue \in Seq(Tasks)
  /\ ev \in [pc : {"next", "patchRun", "clear", "decide", "suspend"},
             wasCurrent : BOOLEAN, reason : RunEndReasons]
  /\ draining \in Nat

SweepTypeOK ==
  /\ fresh \in {"no", "start", "starting", "pid"}
  /\ sweep \in {"off", "picked"}
  /\ boot \in {"served", "runs", "rows", "suspend"}
  /\ bootList \in SUBSET Runs /\ bootRun \in Runs \union {NoRun}
  /\ crashes \in 0..MaxCrashes

AdapterTypeOK ==
  /\ proc \in [Runs -> ProcStates]
  /\ owed \in [Runs -> Nat]
  /\ asking \in [Runs -> Questions \union {NoQuestion}]
  /\ asked \in 0..MaxAsks

TypeOK ==
  /\ RecordTypeOK /\ MemoryTypeOK /\ QueueTypeOK /\ SweepTypeOK /\ AdapterTypeOK
  /\ op \in Ops
  /\ sus \in [Suspenders -> Suspends]
  /\ msgs \in [Msgs -> Messages]

(* A thread opened by createDraft, or created running with its first run   *)
(* row and handed to startRun (run 1).                                     *)
Init ==
  /\ state = IF CreatedRunning THEN "running" ELSE "draft"
  /\ fresh = IF CreatedRunning THEN "start" ELSE "no"
  /\ runRow = [r \in Runs |-> IF CreatedRunning /\ r = 1 THEN "open" ELSE "none"]
  /\ waiting = FALSE /\ handoff = FALSE
  /\ ended = [r \in Runs |-> 0]
  /\ pidFile = {}
  /\ live = NoRun /\ current = NoRun /\ settling = NoRun
  /\ closing = FALSE /\ pendingEndReason = "none"
  /\ turnsInFlight = 0 /\ question = NoQuestion /\ quiet = FALSE
  /\ queue = <<>> /\ ev = NoEvent /\ draining = 0
  /\ op = Free
  /\ sus = [p \in Suspenders |-> NoSuspend]
  /\ sweep = "off"
  /\ boot = "served" /\ bootList = {} /\ bootRun = NoRun /\ crashes = 0
  /\ proc = [r \in Runs |-> "none"]
  /\ owed = [r \in Runs |-> 0]
  /\ asking = [r \in Runs |-> NoQuestion] /\ asked = 0
  /\ msgs = [m \in Msgs |-> [st |-> "new", log |-> 0, to |-> {}]]

-----------------------------------------------------------------------------
(* What the steps are made of.  Operators whose comment begins "Broken:"   *)
(* are what a plausible mistake would make of the definition after them;   *)
(* nothing refers to them.                                                 *)

(* Broken: dropTurnInFlight lets the count go below zero.                  *)
DroppedBelowZero(n) == turnsInFlight - n

Dropped(n) == IF turnsInFlight > n THEN turnsInFlight - n ELSE 0
Enqueue(task) == queue' = Append(queue, task)
Touch == quiet' = FALSE

(* A verb reaches its next await, waits for the event queue to drain, or   *)
(* releases the lock; a message then has its outcome.                      *)
At(pc) == op.pc = pc
Go(pc) == op' = [op EXCEPT !.pc = pc]
Return(outcome) ==
  /\ op' = Free
  /\ msgs' = IF op.kind = "send" THEN [msgs EXCEPT ![op.msg].st = outcome] ELSE msgs
DrainThen(next) ==
  /\ op' = [op EXCEPT !.pc = "drain", !.next = next]
  /\ draining' = Len(queue)

(* isIdleRun: no turn in flight, or one that waits on the user; and no     *)
(* activity since the cutoff.                                              *)
IsIdle == (turnsInFlight = 0 \/ question # NoQuestion) /\ quiet

(* shutdownProcess: the prompt stream ends; the process is not over yet.   *)
Shutdown(r) == proc' = [proc EXCEPT ![r] = IF @ = "up" THEN "closing" ELSE @]

NextRun(r) == runRow[r] = "none" /\ \A s \in Runs : s < r => runRow[s] # "none"

-----------------------------------------------------------------------------
(* Starting a run: startRun, shared by the locked verbs and `fresh`.       *)

(* The run becomes current, run_started (and an unlogged brief) is         *)
(* appended and the brief's turn counted before the adapter is called.     *)
BeginRun(r, turns) ==
  /\ current' = r
  /\ turnsInFlight' = turnsInFlight + turns
  /\ proc' = [proc EXCEPT ![r] = "starting"]
  /\ UNCHANGED <<live, settling, question, quiet, asking, asked>>

RunStarted(r, turns) ==
  /\ live' = r /\ settling' = r
  /\ Touch
  /\ proc' = [proc EXCEPT ![r] = "up"]
  /\ owed' = [owed EXCEPT ![r] = turns]
  /\ UNCHANGED <<current, turnsInFlight, question, asking, asked>>

(* adapter.start, or an append before it, rejected.                        *)
StartFailed(r, turns) ==
  /\ MayFailStart
  /\ current' = IF current = r THEN NoRun ELSE current
  /\ turnsInFlight' = Dropped(turns)
  /\ proc' = [proc EXCEPT ![r] = "over"]
  /\ UNCHANGED <<live, settling, question, quiet, owed, asking, asked>>

(* A pid the SDK has not captured yet leaves no file.                      *)
WritePidFile(r) == pidFile' \in {pidFile, pidFile \union {r}}

(* startTask: the same start, holding no lock.  Its brief is not one of    *)
(* Msgs.  (startFromHandoff and continueSession start their new thread in  *)
(* the same way, with no brief.)                                           *)
FreshStart ==
  /\ fresh = "start" /\ fresh' = "starting"
  /\ BeginRun(1, 1)
  /\ UNCHANGED <<recordVars, runVars, endVars, queueVars, op, sus, sweep,
                 bootVars, owed, msgs>>

(* trackRunSettling replaces an entry a message waits on: that promise has *)
(* no one left to resolve it.                                              *)
FreshStarted ==
  /\ fresh = "starting" /\ fresh' = "pid"
  /\ RunStarted(1, 1)
  /\ op' = IF op.pc = "settle" /\ op.run # NoRun THEN [op EXCEPT !.pc = "stuck"] ELSE op
  /\ UNCHANGED <<recordVars, runVars, endVars, queueVars, sus, sweep, bootVars, msgs>>

FreshFails ==
  /\ fresh = "starting" /\ fresh' = "no"
  /\ StartFailed(1, 1)
  /\ UNCHANGED <<recordVars, runVars, endVars, queueVars, op, sus, sweep,
                 bootVars, msgs>>

FreshWritesPid ==
  /\ fresh = "pid" /\ fresh' = "no"
  /\ WritePidFile(1)
  /\ UNCHANGED <<recordVars, runRow, ended, memVars, endVars, turnVars, queueVars,
                 op, sus, sweep, bootVars, adapterVars, msgs>>

FreshStep == FreshStart \/ FreshStarted \/ FreshFails \/ FreshWritesPid

-----------------------------------------------------------------------------
(* sendMessage: sendMessageLocked, deliverAfterRunEnd,                     *)
(* promoteDraftAndStart, resumeByWriting.                                  *)

SendMessage(m) ==
  /\ "send" \in Verbs /\ At("free") /\ msgs[m].st = "new"
  /\ op' = [Free EXCEPT !.kind = "send", !.pc = "send", !.msg = m]
  /\ msgs' = [msgs EXCEPT ![m].st = "held"]
  /\ UNCHANGED <<recordVars, runVars, memVars, endVars, turnVars, queueVars,
                 fresh, sus, sweep, bootVars, adapterVars>>

(* The turn is counted first; an unlogged message is appended through the  *)
(* event queue before the adapter gets it.                                 *)
SendToLiveRun ==
  /\ At("send") /\ live # NoRun
  /\ Touch
  /\ turnsInFlight' = turnsInFlight + 1
  /\ op' = [op EXCEPT !.run = live, !.pc = IF op.logged THEN "give" ELSE "log"]
  /\ IF op.logged THEN UNCHANGED queue ELSE Enqueue(Task("message", live))
  /\ UNCHANGED <<recordVars, runVars, memVars, endVars, question, ev, draining,
                 fresh, sus, sweep, bootVars, adapterVars, msgs>>

(* Broken: the redelivery forgets that the transcript has the message.     *)
DeliverRelogged(logged) ==
  IF op.attempt + 1 >= MAX_DELIVERY_ATTEMPTS
  THEN Return("exhausted")
  ELSE /\ op' = [op EXCEPT !.pc = "settle", !.run = settling, !.logged = FALSE]
       /\ UNCHANGED msgs

DeliverAfterRunEnd(logged) ==
  IF op.attempt + 1 >= MAX_DELIVERY_ATTEMPTS
  THEN Return("exhausted")
  ELSE /\ op' = [op EXCEPT !.pc = "settle", !.run = settling, !.logged = logged]
       /\ UNCHANGED msgs

SendWhileRunSettles ==
  /\ At("send") /\ live = NoRun /\ settling # NoRun
  /\ DeliverAfterRunEnd(op.logged)
  /\ UNCHANGED <<recordVars, runVars, memVars, endVars, turnVars, queueVars,
                 fresh, sus, sweep, bootVars, adapterVars>>

(* Broken: the record is read although the last end is still settling.     *)
SendReadsUnsettled ==
  /\ At("send") /\ live = NoRun
  /\ CASE state = "draft" -> Go("promote") /\ UNCHANGED msgs
       [] state \in {"suspended", "closed"} -> Go("resume") /\ UNCHANGED msgs
       [] OTHER -> Return("noLiveRun")
  /\ UNCHANGED <<recordVars, runVars, memVars, endVars, turnVars, queueVars,
                 fresh, sus, sweep, bootVars, adapterVars>>

SendReadsRecord ==
  /\ At("send") /\ live = NoRun /\ settling = NoRun
  /\ CASE state = "draft" -> Go("promote") /\ UNCHANGED msgs
       [] state \in {"suspended", "closed"} -> Go("resume") /\ UNCHANGED msgs
       [] OTHER -> Return("noLiveRun")
  /\ UNCHANGED <<recordVars, runVars, memVars, endVars, turnVars, queueVars,
                 fresh, sus, sweep, bootVars, adapterVars>>

(* Broken: send() pushes into a prompt stream that has ended.              *)
GiveUnchecked ==
  /\ At("give")
  /\ owed' = [owed EXCEPT ![op.run] = @ + 1]
  /\ msgs' = [msgs EXCEPT ![op.msg].st = "ok", ![op.msg].to = @ \union {op.run}]
  /\ op' = Free
  /\ UNCHANGED <<recordVars, runVars, memVars, endVars, turnVars, queueVars,
                 fresh, sus, sweep, bootVars, proc, asking, asked>>

(* handle.send: a run that ended or is ending refuses (RunEndedError).     *)
Give ==
  /\ At("give")
  /\ IF proc[op.run] = "up"
     THEN /\ owed' = [owed EXCEPT ![op.run] = @ + 1]
          /\ msgs' = [msgs EXCEPT ![op.msg].st = "ok",
                                  ![op.msg].to = @ \union {op.run}]
          /\ op' = Free
          /\ UNCHANGED turnsInFlight
     ELSE /\ turnsInFlight' = Dropped(1)
          /\ DeliverAfterRunEnd(TRUE)
          /\ UNCHANGED owed
  /\ UNCHANGED <<recordVars, runVars, memVars, endVars, question, quiet, queueVars,
                 fresh, sus, sweep, bootVars, proc, asking, asked>>

(* Broken: the retry does not wait for the run to settle.                  *)
RunUnsettled ==
  /\ At("settle")
  /\ op' = [op EXCEPT !.pc = "send", !.run = NoRun, !.attempt = @ + 1]
  /\ UNCHANGED <<recordVars, runVars, memVars, endVars, turnVars, queueVars,
                 fresh, sus, sweep, bootVars, adapterVars, msgs>>

(* waitForRunToSettle, then the message is sent again.                     *)
RunSettled ==
  /\ At("settle") /\ (op.run = NoRun \/ settling # op.run)
  /\ op' = [op EXCEPT !.pc = "send", !.run = NoRun, !.attempt = @ + 1]
  /\ UNCHANGED <<recordVars, runVars, memVars, endVars, turnVars, queueVars,
                 fresh, sus, sweep, bootVars, adapterVars, msgs>>

(* provision refused, the content is on another device, or a write failed: *)
(* nothing was created.                                                    *)
Refused ==
  /\ At("resume") \/ At("promote") \/ At("handoff") \/ At("continue")
  /\ Return("failed")
  /\ UNCHANGED <<recordVars, runVars, memVars, endVars, turnVars, queueVars,
                 fresh, sus, sweep, bootVars, adapterVars>>

(* A resume creates the run row before it moves the record, a promotion    *)
(* after (CreateRun below).                                                *)
ResumeCreatesRun(r) ==
  /\ At("resume") /\ NextRun(r)
  /\ runRow' = [runRow EXCEPT ![r] = "open"]
  /\ op' = [op EXCEPT !.pc = "wake", !.run = r]
  /\ UNCHANGED <<recordVars, ended, pidFile, memVars, endVars, turnVars, queueVars,
                 fresh, sus, sweep, bootVars, adapterVars, msgs>>

Promote ==
  /\ At("promote")
  /\ IF state = "draft" THEN Go("wake") /\ UNCHANGED msgs ELSE Return("noLiveRun")
  /\ UNCHANGED <<recordVars, runVars, memVars, endVars, turnVars, queueVars,
                 fresh, sus, sweep, bootVars, adapterVars>>

(* patchSession { state: running }: load and validate, then UPDATE unless  *)
(* the record already says so.                                             *)
AfterWake == IF op.run = NoRun THEN "create" ELSE "start"

Wake ==
  /\ At("wake")
  /\ IF isAllowedSessionTransition(state, "running")
     THEN Go(IF state = "running" THEN AfterWake ELSE "wakeWrite") /\ UNCHANGED msgs
     ELSE Return("failed")
  /\ UNCHANGED <<recordVars, runVars, memVars, endVars, turnVars, queueVars,
                 fresh, sus, sweep, bootVars, adapterVars>>

WakeWrite ==
  /\ At("wakeWrite")
  /\ state' = "running"
  /\ Go(AfterWake)
  /\ UNCHANGED <<waiting, handoff, runVars, memVars, endVars, turnVars, queueVars,
                 fresh, sus, sweep, bootVars, adapterVars, msgs>>

CreateRun(r) ==
  /\ At("create") /\ NextRun(r)
  /\ runRow' = [runRow EXCEPT ![r] = "open"]
  /\ op' = [op EXCEPT !.pc = "start", !.run = r]
  /\ UNCHANGED <<recordVars, ended, pidFile, memVars, endVars, turnVars, queueVars,
                 fresh, sus, sweep, bootVars, adapterVars, msgs>>

(* Broken: the lock is released while the adapter still starts.            *)
StartRunUnlocked ==
  /\ At("start") /\ op' = Free
  /\ BeginRun(op.run, 1)
  /\ msgs' = [msgs EXCEPT ![op.msg].st = "ok", ![op.msg].to = {op.run},
                          ![op.msg].log = IF op.logged THEN @ ELSE @ + 1]
  /\ UNCHANGED <<recordVars, runVars, endVars, queueVars, fresh, sus, sweep,
                 bootVars, owed>>

StartRun ==
  /\ At("start") /\ Go("starting")
  /\ BeginRun(op.run, 1)
  /\ msgs' = [msgs EXCEPT ![op.msg].log = IF op.logged THEN @ ELSE @ + 1]
  /\ UNCHANGED <<recordVars, runVars, endVars, queueVars, fresh, sus, sweep,
                 bootVars, owed>>

StartDone ==
  /\ At("starting") /\ Go("pid")
  /\ RunStarted(op.run, 1)
  /\ msgs' = [msgs EXCEPT ![op.msg].to = @ \union {op.run}]
  /\ UNCHANGED <<recordVars, runVars, endVars, queueVars, fresh, sus, sweep, bootVars>>

StartFails ==
  /\ At("starting") /\ Return("failed")
  /\ StartFailed(op.run, 1)
  /\ UNCHANGED <<recordVars, runVars, endVars, queueVars, fresh, sus, sweep, bootVars>>

WritePid ==
  /\ At("pid")
  /\ WritePidFile(op.run)
  /\ DrainThen("end")
  /\ UNCHANGED <<recordVars, runRow, ended, memVars, endVars, turnVars, queue, ev,
                 fresh, sus, sweep, bootVars, adapterVars, msgs>>

Drained ==
  /\ At("drain") /\ draining = 0
  /\ IF op.next = "end" THEN Return("ok") ELSE Go(op.next) /\ UNCHANGED msgs
  /\ UNCHANGED <<recordVars, runVars, memVars, endVars, turnVars, queueVars,
                 fresh, sus, sweep, bootVars, adapterVars>>

(* A record write the send depends on rejected.                            *)
SendStoreFails ==
  /\ MayFailStore
  /\ At("wake") \/ At("wakeWrite") \/ At("create")
  /\ Return("failed")
  /\ UNCHANGED <<recordVars, runVars, memVars, endVars, turnVars, queueVars,
                 fresh, sus, sweep, bootVars, adapterVars>>

SendStep ==
  \/ SendToLiveRun \/ SendWhileRunSettles \/ SendReadsRecord \/ Give \/ RunSettled
  \/ Refused \/ Promote \/ Wake \/ WakeWrite \/ StartRun \/ StartDone
  \/ StartFails \/ WritePid \/ Drained \/ SendStoreFails
  \/ \E r \in Runs : ResumeCreatesRun(r) \/ CreateRun(r)

-----------------------------------------------------------------------------
(* The other verbs: answerLocked, interruptLocked, closeSessionLocked,     *)
(* continueSessionLocked, handoffLocked with endRunWithReason.             *)

(* The decision is recorded through the event queue before the adapter     *)
(* learns it; the adapter ignores one for a question it no longer has.     *)
(* (An answer whose request id is not the pending one only touches and     *)
(* drains, as Stop does.)                                                  *)
Answer ==
  /\ "answer" \in Verbs /\ At("free") /\ live # NoRun
  /\ question # NoQuestion
  /\ Touch
  /\ Enqueue(Task("answered", live))
  /\ op' = [Free EXCEPT !.kind = "answer", !.pc = "record", !.run = live,
                       !.ask = question]
  /\ UNCHANGED <<recordVars, runVars, memVars, endVars, turnsInFlight, question, ev,
                 draining, fresh, sus, sweep, bootVars, adapterVars, msgs>>

TellAgent ==
  /\ At("tell")
  /\ asking' = [asking EXCEPT ![op.run] = IF @ = op.ask THEN NoQuestion ELSE @]
  /\ DrainThen("end")
  /\ UNCHANGED <<recordVars, runVars, memVars, endVars, turnVars, queue, ev, fresh,
                 sus, sweep, bootVars, proc, owed, asked, msgs>>

(* Stop cancels the turn, never the run; the turn's end is the adapter's.  *)
Interrupt ==
  /\ "interrupt" \in Verbs /\ At("free") /\ live # NoRun
  /\ Touch
  /\ op' = [Free EXCEPT !.kind = "interrupt", !.pc = "drain"]
  /\ draining' = Len(queue)
  /\ UNCHANGED <<recordVars, runVars, memVars, endVars, turnsInFlight, question,
                 queue, ev, fresh, sus, sweep, bootVars, adapterVars, msgs>>

(* Broken: interrupt() instead of close() leaves the process running.      *)
CloseInterrupts ==
  /\ live # NoRun
  /\ closing' = TRUE
  /\ UNCHANGED proc

(* Uzavrit ends the live run itself, so its run_ended must not suspend.    *)
CloseLive ==
  /\ live # NoRun
  /\ closing' = TRUE
  /\ Shutdown(live)

Close ==
  /\ "close" \in Verbs /\ At("free")
  /\ \/ /\ CloseLive
        /\ op' = [Free EXCEPT !.kind = "close", !.pc = "closeWait", !.next = "closeLoad"]
     \/ /\ live = NoRun
        /\ op' = [Free EXCEPT !.kind = "close", !.pc = "closeLoad"]
        /\ UNCHANGED <<closing, proc>>
  /\ UNCHANGED <<recordVars, runVars, memVars, pendingEndReason, turnVars, queueVars,
                 fresh, sus, sweep, bootVars, owed, asking, asked, msgs>>

(* Pokracovat v nove session reads the record and provisions the new run   *)
(* before it closes this thread; a draft holds nothing to continue.        *)
Continue ==
  /\ "continue" \in Verbs /\ At("free") /\ state # "draft"
  /\ op' = [Free EXCEPT !.kind = "continue", !.pc = "continue", !.seen = state]
  /\ UNCHANGED <<recordVars, runVars, memVars, endVars, turnVars, queueVars, fresh,
                 sus, sweep, bootVars, adapterVars, msgs>>

AfterClose == IF op.seen \in {"closed", "archived"} THEN "note" ELSE "closeLoad"

ContinueCloses ==
  /\ At("continue")
  /\ \/ /\ CloseLive
        /\ op' = [op EXCEPT !.pc = "closeWait", !.next = AfterClose]
     \/ /\ live = NoRun /\ Go(AfterClose)
        /\ UNCHANGED <<closing, proc>>
  /\ UNCHANGED <<recordVars, runVars, memVars, pendingEndReason, turnVars, queueVars,
                 fresh, sus, sweep, bootVars, owed, asking, asked, msgs>>

(* handle.close() resolves when the run ended, when its child is dead      *)
(* though run_ended is still to come, or after its last timeout.           *)
CloseReturns ==
  /\ At("closeWait")
  /\ op' = [op EXCEPT !.pc = "drain"]
  /\ draining' = Len(queue)
  /\ UNCHANGED <<recordVars, runVars, memVars, endVars, turnVars, queue, ev, fresh,
                 sus, sweep, bootVars, adapterVars, msgs>>

(* patchSession { state: closed }: as for running; a closed thread is left *)
(* as it is.                                                               *)
CloseLoads ==
  /\ At("closeLoad")
  /\ CASE state = "closed" /\ op.kind = "close" -> Return("ok")
       [] state = "closed" /\ op.kind # "close" -> Go("note") /\ UNCHANGED msgs
       [] state # "closed" /\ isAllowedSessionTransition(state, "closed") ->
            Go("closeWrite") /\ UNCHANGED msgs
       [] OTHER -> Return("failed")
  /\ UNCHANGED <<recordVars, runVars, memVars, endVars, turnVars, queueVars, fresh,
                 sus, sweep, bootVars, adapterVars>>

(* Pokracovat also notes its handoff file, when one could be written.      *)
CloseWrites ==
  /\ At("closeWrite") /\ Return("ok")
  /\ state' = "closed"
  /\ handoff' \in IF op.kind = "continue" THEN {handoff, TRUE} ELSE {handoff}
  /\ UNCHANGED <<waiting, runVars, memVars, endVars, turnVars, queueVars, fresh,
                 sus, sweep, bootVars, adapterVars>>

ContinueNotesFile ==
  /\ At("note") /\ Return("ok")
  /\ handoff' \in {handoff, TRUE}
  /\ UNCHANGED <<state, waiting, runVars, memVars, endVars, turnVars, queueVars,
                 fresh, sus, sweep, bootVars, adapterVars>>

VerbStoreFails ==
  /\ MayFailStore
  /\ At("closeLoad") \/ At("closeWrite") \/ At("note")
  /\ Return("failed")
  /\ UNCHANGED <<recordVars, runVars, memVars, endVars, turnVars, queueVars, fresh,
                 sus, sweep, bootVars, adapterVars>>

(* Predat.  With its file the verb answers at once; otherwise it reads the *)
(* record, checks the mirror (Refused) and ends or suspends.          *)
Handoff ==
  /\ "handoff" \in Verbs /\ At("free")
  /\ state \in {"running", "suspended"} /\ ~(state = "suspended" /\ handoff)
  /\ op' = [Free EXCEPT !.kind = "handoff", !.pc = "handoff", !.seen = state]
  /\ UNCHANGED <<recordVars, runVars, memVars, endVars, turnVars, queueVars, fresh,
                 sus, sweep, bootVars, adapterVars, msgs>>

SuspendFromVerb(force) ==
  /\ Go("suspending")
  /\ sus' = [sus EXCEPT !["op"] = [pc |-> "read", reason |-> "handoff", force |-> force]]

HandoffInterrupts ==
  /\ At("handoff") /\ op.seen = "running" /\ live # NoRun
  /\ Touch
  /\ DrainThen("endRun")
  /\ UNCHANGED <<recordVars, runVars, memVars, endVars, turnsInFlight, question,
                 queue, ev, fresh, sus, sweep, bootVars, adapterVars, msgs>>

(* Broken: the suspend is called although the run is live.                 *)
HandoffIgnoresRun ==
  /\ \/ At("handoff") /\ op.seen = "suspended" /\ SuspendFromVerb(TRUE)
     \/ /\ (At("handoff") /\ op.seen = "running") \/ At("endRun")
        /\ SuspendFromVerb(FALSE)
  /\ UNCHANGED <<recordVars, runVars, memVars, endVars, turnVars, queueVars, fresh,
                 sweep, bootVars, adapterVars, msgs>>

HandoffWithoutRun ==
  /\ \/ At("handoff") /\ op.seen = "suspended" /\ SuspendFromVerb(TRUE)
     \/ /\ (At("handoff") /\ op.seen = "running") \/ At("endRun")
        /\ live = NoRun
        /\ SuspendFromVerb(FALSE)
  /\ UNCHANGED <<recordVars, runVars, memVars, endVars, turnVars, queueVars, fresh,
                 sweep, bootVars, adapterVars, msgs>>

(* endRunWithReason(handoff).                                              *)
HandoffEndsRun ==
  /\ At("endRun") /\ live # NoRun
  /\ pendingEndReason' = "handoff"
  /\ Shutdown(live)
  /\ op' = [op EXCEPT !.pc = "closeWait", !.next = "end"]
  /\ UNCHANGED <<recordVars, runVars, memVars, closing, turnVars, queueVars, fresh,
                 sus, sweep, bootVars, owed, asking, asked, msgs>>

HandoffSuspended ==
  /\ At("suspending") /\ sus["op"].pc \in {"done", "threw"}
  /\ Return("ok")
  /\ sus' = [sus EXCEPT !["op"] = NoSuspend]
  /\ UNCHANGED <<recordVars, runVars, memVars, endVars, turnVars, queueVars, fresh,
                 sweep, bootVars, adapterVars>>

VerbBegins ==
  \/ Answer \/ Interrupt \/ Close \/ Continue \/ Handoff
  \/ \E m \in Msgs : SendMessage(m)

VerbStep ==
  \/ TellAgent \/ ContinueCloses \/ CloseReturns \/ CloseLoads \/ CloseWrites
  \/ ContinueNotesFile \/ VerbStoreFails \/ HandoffInterrupts \/ HandoffWithoutRun
  \/ HandoffEndsRun \/ HandoffSuspended

-----------------------------------------------------------------------------
(* checkIdleRunsOnce with endIdleRun.  The cutoff is minutes: nothing is   *)
(* quiet while a verb or an event is being worked on.                      *)

TimePasses ==
  /\ sweep = "off" /\ live # NoRun /\ ~quiet
  /\ At("free") /\ queue = <<>>
  /\ quiet' = TRUE
  /\ UNCHANGED <<recordVars, runVars, memVars, endVars, turnsInFlight, question,
                 queueVars, op, fresh, sus, sweep, bootVars, adapterVars, msgs>>

SweepPicks ==
  /\ sweep = "off" /\ live # NoRun /\ IsIdle
  /\ sweep' = "picked"
  /\ UNCHANGED <<recordVars, runVars, memVars, endVars, turnVars, queueVars, op,
                 fresh, sus, bootVars, adapterVars, msgs>>

(* Broken: the pick is not checked again before the run is ended.          *)
SweepEndsUnchecked ==
  /\ sweep = "picked" /\ live # NoRun
  /\ sweep' = "off"
  /\ pendingEndReason' = "idle"
  /\ Shutdown(live)
  /\ UNCHANGED <<recordVars, runVars, memVars, closing, turnVars, queueVars, op,
                 fresh, sus, bootVars, owed, asking, asked, msgs>>

(* Checked again the moment before it is ended: a thread touched since is  *)
(* skipped.                                                                *)
SweepEnds ==
  /\ sweep = "picked" /\ live # NoRun /\ IsIdle
  /\ sweep' = "off"
  /\ pendingEndReason' = "idle"
  /\ Shutdown(live)
  /\ UNCHANGED <<recordVars, runVars, memVars, closing, turnVars, queueVars, op,
                 fresh, sus, bootVars, owed, asking, asked, msgs>>

SweepSkips ==
  /\ sweep = "picked" /\ ~(live # NoRun /\ IsIdle)
  /\ sweep' = "off"
  /\ UNCHANGED <<recordVars, runVars, memVars, endVars, turnVars, queueVars, op,
                 fresh, sus, bootVars, adapterVars, msgs>>

SweepStep == TimePasses \/ SweepPicks \/ SweepEnds \/ SweepSkips

(* sweepArchivedSessionsOnBoot: closed for a month, so nothing of the      *)
(* thread is in flight.                                                    *)
Archive ==
  /\ state = "closed" /\ At("free") /\ settling = NoRun
  /\ \A p \in Suspenders : sus[p].pc = "off"
  /\ state' = "archived"
  /\ UNCHANGED <<waiting, handoff, runVars, memVars, endVars, turnVars, queueVars,
                 op, fresh, sus, sweep, bootVars, adapterVars, msgs>>

-----------------------------------------------------------------------------
(* The runner process as adapters/claude.ts drives it, and the sink.       *)

CanEmit(r) == proc[r] \in {"up", "closing"} /\ Len(queue) < MaxQueue

(* turn_ended answers k of the messages sent; any other event answers none *)
(* and is only activity.                                                   *)
Emits(r, k) ==
  /\ CanEmit(r) /\ asking[r] = NoQuestion /\ k <= owed[r]
  /\ owed' = [owed EXCEPT ![r] = @ - k]
  /\ Enqueue([Task("turn", r) EXCEPT !.count = k])
  /\ UNCHANGED <<recordVars, runVars, memVars, endVars, turnVars, ev, draining, op,
                 fresh, sus, sweep, bootVars, proc, asking, asked, msgs>>

Asks(r) ==
  /\ CanEmit(r) /\ asking[r] = NoQuestion /\ owed[r] > 0
  /\ asked < MaxAsks /\ asked' = asked + 1
  /\ asking' = [asking EXCEPT ![r] = asked + 1]
  /\ Enqueue([Task("question", r) EXCEPT !.ask = asked + 1])
  /\ UNCHANGED <<recordVars, runVars, memVars, endVars, turnVars, ev, draining, op,
                 fresh, sus, sweep, bootVars, proc, owed, msgs>>

(* The SDK abandons a dialog, or Stop closes it.                           *)
Abandons(r) ==
  /\ CanEmit(r) /\ asking[r] # NoQuestion
  /\ asking' = [asking EXCEPT ![r] = NoQuestion]
  /\ Enqueue([Task("unasked", r) EXCEPT !.ask = asking[r]])
  /\ UNCHANGED <<recordVars, runVars, memVars, endVars, turnVars, ev, draining, op,
                 fresh, sus, sweep, bootVars, proc, owed, asked, msgs>>

(* A provider error or limit, a lost login, a CLI that died.               *)
ProviderFails(r) ==
  /\ proc[r] \in {"up", "closing"}
  /\ proc' = [proc EXCEPT ![r] = "failing"]
  /\ UNCHANGED <<recordVars, runVars, memVars, endVars, turnVars, queueVars, op,
                 fresh, sus, sweep, bootVars, owed, asking, asked, msgs>>

(* The one run_ended of a run.                                             *)
ProcessEnds(r) ==
  /\ Ending(r)
  /\ proc' = [proc EXCEPT ![r] = "over"]
  /\ owed' = [owed EXCEPT ![r] = 0]
  /\ asking' = [asking EXCEPT ![r] = NoQuestion]
  /\ Enqueue([Task("ended", r) EXCEPT !.reason =
        IF proc[r] = "failing" THEN "error" ELSE "completed"])
  /\ UNCHANGED <<recordVars, runVars, memVars, endVars, turnVars, ev, draining, op,
                 fresh, sus, sweep, bootVars, asked, msgs>>

(* An orphan's pipes are closed; what it does with that is its own choice. *)
OrphanExits(r) ==
  /\ proc[r] = "orphan"
  /\ proc' = [proc EXCEPT ![r] = "over"]
  /\ UNCHANGED <<recordVars, runVars, memVars, endVars, turnVars, queueVars, op,
                 fresh, sus, sweep, bootVars, owed, asking, asked, msgs>>

AdapterChoice ==
  \E r \in Runs : \/ Asks(r) \/ Abandons(r) \/ ProviderFails(r) \/ OrphanExits(r)
                  \/ \E k \in 0..(Cardinality(Msgs) + 1) : Emits(r, k)

-----------------------------------------------------------------------------
(* The event queue: handleAdapterEvent and handleRunEnded, and the writes  *)
(* a verb put there.  Each action handles the task at the head.            *)

AtHead(kind) == queue # <<>> /\ Head(queue).kind = kind
HeadRun == Head(queue).run

(* The task is over; a drain() that waits for it has one less to wait for. *)
Dequeue ==
  /\ queue' = Tail(queue)
  /\ draining' = IF draining > 0 THEN draining - 1 ELSE 0
  /\ ev' = NoEvent

HandleMessage ==
  /\ AtHead("message") /\ Dequeue
  /\ \/ /\ Go("give")
        /\ msgs' = [msgs EXCEPT ![op.msg].log = @ + 1]
        /\ UNCHANGED turnsInFlight
     \/ /\ MayFailStore
        /\ Return("failed")
        /\ turnsInFlight' = Dropped(1)
  /\ UNCHANGED <<recordVars, runVars, memVars, endVars, question, quiet, fresh, sus,
                 sweep, bootVars, adapterVars>>

(* clearWaitingIfPending: whichever question is pending now.               *)
ClearWaiting ==
  /\ question' = NoQuestion
  /\ waiting' = (waiting /\ question = NoQuestion)

HandleAnswered ==
  /\ AtHead("answered") /\ Dequeue
  /\ \/ ClearWaiting /\ Go("tell") /\ UNCHANGED msgs
     \/ /\ MayFailStore
        /\ Return("failed")
        /\ question' \in {question, NoQuestion} /\ UNCHANGED waiting
  /\ UNCHANGED <<state, handoff, runVars, memVars, endVars, turnsInFlight, quiet,
                 fresh, sus, sweep, bootVars, adapterVars>>

(* Broken: a turn that folded several messages ends the wait of only one.  *)
HandleTurnOne ==
  /\ AtHead("turn") /\ Dequeue
  /\ Touch
  /\ turnsInFlight' = IF HeadRun = current /\ Head(queue).count > 0
                      THEN Dropped(1) ELSE turnsInFlight
  /\ UNCHANGED <<recordVars, runVars, memVars, endVars, question, op, fresh, sus,
                 sweep, bootVars, adapterVars, msgs>>

HandleTurn ==
  /\ AtHead("turn") /\ Dequeue
  /\ Touch
  /\ turnsInFlight' = IF HeadRun = current THEN Dropped(Head(queue).count)
                                           ELSE turnsInFlight
  /\ UNCHANGED <<recordVars, runVars, memVars, endVars, question, op, fresh, sus,
                 sweep, bootVars, adapterVars, msgs>>

HandleQuestion ==
  /\ AtHead("question") /\ Dequeue
  /\ Touch
  /\ question' = Head(queue).ask /\ waiting' = TRUE
  /\ UNCHANGED <<state, handoff, runVars, memVars, endVars, turnsInFlight, op, fresh,
                 sus, sweep, bootVars, adapterVars, msgs>>

HandleUnasked ==
  /\ AtHead("unasked") /\ Dequeue
  /\ Touch
  /\ IF question = Head(queue).ask THEN ClearWaiting ELSE UNCHANGED <<question, waiting>>
  /\ UNCHANGED <<state, handoff, runVars, memVars, endVars, turnsInFlight, op, fresh,
                 sus, sweep, bootVars, adapterVars, msgs>>

(* The append of an adapter event rejects, or the patch of waiting_since   *)
(* after it: nobody awaits a sink, the event is lost with what it meant.   *)
EventStoreFails ==
  /\ MayFailStore
  /\ AtHead("turn") \/ AtHead("question") \/ AtHead("unasked")
  /\ Dequeue
  /\ \/ UNCHANGED <<question, quiet>>
     \/ /\ Touch
        /\ \/ AtHead("question") /\ question' = Head(queue).ask
           \/ AtHead("unasked") /\ question = Head(queue).ask /\ question' = NoQuestion
  /\ UNCHANGED <<recordVars, runVars, memVars, endVars, turnsInFlight, op, fresh, sus,
                 sweep, bootVars, adapterVars, msgs>>

(* withSuspendReason: an end that no close asked for is a suspend.  It is  *)
(* decided when the end is handled, not when it is emitted.                *)
SuspendReason ==
  IF Head(queue).reason = "completed" /\ ~closing THEN "suspended" ELSE Head(queue).reason

(* run_ended is appended (a failed append is reported and goes on); the    *)
(* current run takes the session's memory with it, in the same tick.       *)
EndIsLogged ==
  /\ AtHead("ended") /\ ev.pc = "next"
  /\ \/ ended' = [ended EXCEPT ![HeadRun] = @ + 1]
     \/ MayFailStore /\ UNCHANGED ended
  /\ ev' = [pc |-> "patchRun", wasCurrent |-> HeadRun = current, reason |-> SuspendReason]
  /\ Touch
  /\ IF HeadRun = current
     THEN turnsInFlight' = 0 /\ current' = NoRun /\ live' = NoRun
     ELSE UNCHANGED <<turnsInFlight, current, live>>
  /\ UNCHANGED <<recordVars, runRow, pidFile, settling, endVars, question, queue,
                 draining, op, fresh, sus, sweep, bootVars, adapterVars, msgs>>

(* Whatever the end turns out to be, it is settled when it is handled      *)
(* (the finally of handleAdapterEvent).                                    *)
EndHandled ==
  /\ Dequeue
  /\ settling' = IF settling = HeadRun THEN NoRun ELSE settling

(* Broken: an end leaves the run's question pending.                       *)
EndKeepsQuestion ==
  /\ AtHead("ended") /\ ev.pc = "patchRun"
  /\ runRow' = [runRow EXCEPT ![HeadRun] = ev.reason]
  /\ pidFile' = pidFile \ {HeadRun}
  /\ IF ev.wasCurrent
     THEN /\ ev' = [ev EXCEPT !.pc = "decide"]
          /\ UNCHANGED <<queue, draining, settling>>
     ELSE EndHandled
  /\ UNCHANGED <<recordVars, ended, live, current, endVars, turnVars, op, fresh, sus,
                 sweep, bootVars, adapterVars, msgs>>

EndPatchesRun ==
  /\ AtHead("ended") /\ ev.pc = "patchRun"
  /\ runRow' = [runRow EXCEPT ![HeadRun] = ev.reason]
  /\ pidFile' = pidFile \ {HeadRun}
  /\ IF ev.wasCurrent
     THEN /\ ev' = [ev EXCEPT !.pc = IF question # NoQuestion THEN "clear" ELSE "decide"]
          /\ UNCHANGED <<queue, draining, settling>>
     ELSE EndHandled
  /\ UNCHANGED <<recordVars, ended, live, current, endVars, turnVars, op, fresh, sus,
                 sweep, bootVars, adapterVars, msgs>>

EndClearsQuestion ==
  /\ AtHead("ended") /\ ev.pc = "clear"
  /\ ClearWaiting
  /\ ev' = [ev EXCEPT !.pc = "decide"]
  /\ UNCHANGED <<state, handoff, runVars, memVars, endVars, turnsInFlight, quiet,
                 queue, draining, op, fresh, sus, sweep, bootVars, adapterVars, msgs>>

(* Broken: the end of a closed run leaves the session marked as closing.   *)
EndStaysClosing ==
  /\ AtHead("ended") /\ ev.pc = "decide" /\ closing
  /\ EndHandled
  /\ UNCHANGED <<recordVars, runVars, live, current, endVars, turnVars, op, fresh,
                 sus, sweep, bootVars, adapterVars, msgs>>

(* A close owns the transition to closed; every other end suspends.        *)
EndOfClose ==
  /\ AtHead("ended") /\ ev.pc = "decide" /\ closing
  /\ closing' = FALSE
  /\ EndHandled
  /\ UNCHANGED <<recordVars, runVars, live, current, pendingEndReason, turnVars, op,
                 fresh, sus, sweep, bootVars, adapterVars, msgs>>

(* Broken: the reason the sweep or Predat left is not consumed.            *)
EndKeepsReason ==
  /\ AtHead("ended") /\ ev.pc = "decide" /\ ~closing
  /\ sus' = [sus EXCEPT !["queue"] =
        [pc |-> "read", force |-> FALSE,
         reason |-> IF pendingEndReason = "none" THEN "run_ended" ELSE pendingEndReason]]
  /\ ev' = [ev EXCEPT !.pc = "suspend"]
  /\ UNCHANGED <<recordVars, runVars, memVars, endVars, turnVars, queue, draining, op,
                 fresh, sweep, bootVars, adapterVars, msgs>>

EndSuspends ==
  /\ AtHead("ended") /\ ev.pc = "decide" /\ ~closing
  /\ pendingEndReason' = "none"
  /\ sus' = [sus EXCEPT !["queue"] =
        [pc |-> "read", force |-> FALSE,
         reason |-> IF pendingEndReason = "none" THEN "run_ended" ELSE pendingEndReason]]
  /\ ev' = [ev EXCEPT !.pc = "suspend"]
  /\ UNCHANGED <<recordVars, runVars, memVars, closing, turnVars, queue, draining, op,
                 fresh, sweep, bootVars, adapterVars, msgs>>

EndSuspended ==
  /\ AtHead("ended") /\ ev.pc = "suspend" /\ sus["queue"].pc \in {"done", "threw"}
  /\ sus' = [sus EXCEPT !["queue"] = NoSuspend]
  /\ EndHandled
  /\ UNCHANGED <<recordVars, runVars, live, current, endVars, turnVars, op, fresh,
                 sweep, bootVars, adapterVars, msgs>>

(* Broken: settled at the end of the handler, not in a finally.            *)
EndStoreFailsUnsettled ==
  /\ MayFailStore
  /\ AtHead("ended") /\ ev.pc \in {"patchRun", "clear"}
  /\ Dequeue
  /\ question' = IF ev.pc = "clear" THEN NoQuestion ELSE question
  /\ UNCHANGED <<recordVars, runVars, memVars, endVars, turnsInFlight, quiet, op,
                 fresh, sus, sweep, bootVars, adapterVars, msgs>>

(* patchRun or the clearing of the question rejects: the rest is skipped.  *)
EndStoreFails ==
  /\ MayFailStore
  /\ AtHead("ended") /\ ev.pc \in {"patchRun", "clear"}
  /\ EndHandled
  /\ question' = IF ev.pc = "clear" THEN NoQuestion ELSE question
  /\ UNCHANGED <<recordVars, runVars, live, current, endVars, turnsInFlight, quiet, op,
                 fresh, sus, sweep, bootVars, adapterVars, msgs>>

HandlerStep ==
  \/ HandleMessage \/ HandleAnswered \/ HandleTurn \/ HandleQuestion \/ HandleUnasked
  \/ EventStoreFails
  \/ EndIsLogged \/ EndPatchesRun \/ EndClearsQuestion \/ EndOfClose \/ EndSuspends
  \/ EndSuspended \/ EndStoreFails

-----------------------------------------------------------------------------
(* suspendServerSide (session-handoff.ts) with suspendSession (sessions.ts),*)
(* and the suspend of sweepOne, which enters at its load.                  *)

SusAt(p, pc) == sus[p].pc = pc
SusGo(p, pc) == sus' = [sus EXCEPT ![p].pc = pc]

(* Only a running thread is suspended, or a suspended one given its file.  *)
SuspendReads(p) ==
  /\ SusAt(p, "read")
  /\ SusGo(p, CASE sus[p].force /\ state = "suspended" /\ ~handoff -> "load"
                [] state = "running" -> "dangling"
                [] OTHER -> "done")
  /\ UNCHANGED <<recordVars, runVars, memVars, endVars, turnVars, queueVars, op,
                 fresh, sweep, bootVars, adapterVars, msgs>>

(* Broken: runs that have ended are ended again.                           *)
AllRuns == {r \in Runs : runRow[r] # "none"}

(* endDanglingRuns: every run whose row is open is ended, row and log.     *)
OpenRuns == {r \in Runs : runRow[r] = "open"}

(* Broken: a thread with no open run is taken for one already suspended.   *)
SuspendOnlyDangling(p) ==
  /\ SusAt(p, "dangling") /\ SusGo(p, IF OpenRuns = {} THEN "done" ELSE "load")
  /\ runRow' = [r \in Runs |-> IF r \in OpenRuns THEN "suspended" ELSE runRow[r]]
  /\ ended'  = [r \in Runs |-> IF r \in OpenRuns THEN ended[r] + 1 ELSE ended[r]]
  /\ UNCHANGED <<recordVars, pidFile, memVars, endVars, turnVars, queueVars, op,
                 fresh, sweep, bootVars, adapterVars, msgs>>

SuspendEndsRuns(p) ==
  /\ SusAt(p, "dangling") /\ SusGo(p, "load")
  /\ runRow' = [r \in Runs |-> IF r \in OpenRuns THEN "suspended" ELSE runRow[r]]
  /\ ended'  = [r \in Runs |-> IF r \in OpenRuns THEN ended[r] + 1 ELSE ended[r]]
  /\ UNCHANGED <<recordVars, pidFile, memVars, endVars, turnVars, queueVars, op,
                 fresh, sweep, bootVars, adapterVars, msgs>>

SuspendLoads(p) ==
  /\ SusAt(p, "load")
  /\ SusGo(p, IF state \in SuspendableStates THEN "write" ELSE "threw")
  /\ UNCHANGED <<recordVars, runVars, memVars, endVars, turnVars, queueVars, op,
                 fresh, sweep, bootVars, adapterVars, msgs>>

(* The UPDATE names no expected state.  Only Predat leaves a file; the     *)
(* sweep of orphaned runs also clears waiting_since.                       *)
SuspendWrites(p) ==
  /\ SusAt(p, "write") /\ SusGo(p, "done")
  /\ state' = "suspended"
  /\ handoff' = (sus[p].reason = "handoff")
  /\ waiting' = (waiting /\ sus[p].reason # "host_lost")
  /\ UNCHANGED <<runVars, memVars, endVars, turnVars, queueVars, op, fresh, sweep,
                 bootVars, adapterVars, msgs>>

SuspendFails(p) ==
  /\ MayFailStore
  /\ sus[p].pc \in {"dangling", "load", "write"} /\ SusGo(p, "threw")
  /\ UNCHANGED <<recordVars, runVars, memVars, endVars, turnVars, queueVars, op,
                 fresh, sweep, bootVars, adapterVars, msgs>>

SuspendStep(p) ==
  \/ SuspendReads(p) \/ SuspendEndsRuns(p) \/ SuspendLoads(p) \/ SuspendWrites(p)
  \/ SuspendFails(p)

-----------------------------------------------------------------------------
(* The process dies and boots: the record, the run rows, the transcript    *)
(* and the pid files stay, and so may its children.  The server listens    *)
(* before the sweeps start (desktop.ts, index.ts), so verbs interleave     *)
(* with them; the pid files are listed in the tick that starts them.       *)

Crash ==
  /\ crashes < MaxCrashes /\ crashes' = crashes + 1
  /\ live' = NoRun /\ current' = NoRun /\ settling' = NoRun
  /\ closing' = FALSE /\ pendingEndReason' = "none"
  /\ turnsInFlight' = 0 /\ question' = NoQuestion /\ quiet' = FALSE
  /\ queue' = <<>> /\ ev' = NoEvent /\ draining' = 0
  /\ op' = Free /\ fresh' = "no"
  /\ sus' = [p \in Suspenders |-> NoSuspend]
  /\ sweep' = "off"
  /\ boot' = "runs" /\ bootList' = pidFile /\ bootRun' = NoRun
  /\ proc' = [r \in Runs |-> IF Alive(r) THEN "orphan" ELSE proc[r]]
  /\ owed' = [r \in Runs |-> 0] /\ asking' = [r \in Runs |-> NoQuestion]
  /\ msgs' = [m \in Msgs |-> IF msgs[m].st = "held" THEN [msgs[m] EXCEPT !.st = "failed"]
                                                    ELSE msgs[m]]
  /\ UNCHANGED <<recordVars, runVars, asked>>

(* Broken: the file of a thread that is not running any more is stale.     *)
BootSweepsRunning(r) ==
  /\ boot = "runs" /\ r \in bootList /\ bootRun = NoRun /\ sus["boot"].pc = "off"
  /\ bootList' = bootList \ {r}
  /\ IF runRow[r] = "open" /\ state = "running"
     THEN bootRun' = r /\ UNCHANGED pidFile
     ELSE pidFile' = pidFile \ {r} /\ UNCHANGED bootRun
  /\ UNCHANGED <<recordVars, runRow, ended, memVars, endVars, turnVars, queueVars,
                 op, fresh, sus, sweep, boot, crashes, adapterVars, msgs>>

(* sweepOne reads the run: if it has ended, only its file is removed.      *)
BootSweepsRun(r) ==
  /\ boot = "runs" /\ r \in bootList /\ bootRun = NoRun /\ sus["boot"].pc = "off"
  /\ bootList' = bootList \ {r}
  /\ IF runRow[r] = "open"
     THEN bootRun' = r /\ UNCHANGED pidFile
     ELSE pidFile' = pidFile \ {r} /\ UNCHANGED bootRun
  /\ UNCHANGED <<recordVars, runRow, ended, memVars, endVars, turnVars, queueVars,
                 op, fresh, sus, sweep, boot, crashes, adapterVars, msgs>>

(* Its process is killed (SIGTERM, seconds later SIGKILL), then the run is *)
(* ended, whatever has become of its row meanwhile, and a thread that is   *)
(* running suspended.                                                      *)
BootReapsRun ==
  /\ boot = "runs" /\ bootRun # NoRun
  /\ proc' = [proc EXCEPT ![bootRun] = IF @ = "orphan" THEN "over" ELSE @]
  /\ ended' = [ended EXCEPT ![bootRun] = @ + 1]
  /\ runRow' = [runRow EXCEPT ![bootRun] = "host_lost"]
  /\ pidFile' = pidFile \ {bootRun}
  /\ sus' = IF state = "running"
            THEN [sus EXCEPT !["boot"] =
                   [pc |-> "load", reason |-> "host_lost", force |-> FALSE]]
            ELSE sus
  /\ bootRun' = NoRun
  /\ UNCHANGED <<recordVars, memVars, endVars, turnVars, queueVars, op, fresh, sweep,
                 boot, bootList, crashes, owed, asking, asked, msgs>>

(* One thread's failure ends the sweep (it is logged at its root).         *)
BootRunSwept ==
  /\ boot = "runs" /\ sus["boot"].pc \in {"done", "threw"}
  /\ sus' = [sus EXCEPT !["boot"] = NoSuspend]
  /\ boot' = IF sus["boot"].pc = "threw" THEN "rows" ELSE boot
  /\ UNCHANGED <<recordVars, runVars, memVars, endVars, turnVars, queueVars, op,
                 fresh, sweep, bootList, bootRun, crashes, adapterVars, msgs>>

BootRunsSwept ==
  /\ boot = "runs" /\ bootList = {} /\ bootRun = NoRun /\ sus["boot"].pc = "off"
  /\ boot' = "rows"
  /\ UNCHANGED <<recordVars, runVars, memVars, endVars, turnVars, queueVars, op,
                 fresh, sus, sweep, bootList, bootRun, crashes, adapterVars, msgs>>

(* Broken: no sweep of the rows after the sweep of the pid files.          *)
BootSkipsRows ==
  /\ boot = "rows" /\ boot' = "served" /\ bootList' = {}
  /\ UNCHANGED <<recordVars, runVars, memVars, endVars, turnVars, queueVars, op,
                 fresh, sus, sweep, bootRun, crashes, adapterVars, msgs>>

(* suspendStaleRunningSessionsOnBoot.                                      *)
BootSelectsRows ==
  /\ boot = "rows" /\ bootList' = {}
  /\ IF state = "running"
     THEN /\ boot' = "suspend"
          /\ sus' = [sus EXCEPT !["boot"] =
                       [pc |-> "read", reason |-> "boot_sweep", force |-> FALSE]]
     ELSE boot' = "served" /\ UNCHANGED sus
  /\ UNCHANGED <<recordVars, runVars, memVars, endVars, turnVars, queueVars, op,
                 fresh, sweep, bootRun, crashes, adapterVars, msgs>>

BootSuspended ==
  /\ boot = "suspend" /\ sus["boot"].pc \in {"done", "threw"}
  /\ boot' = "served"
  /\ sus' = [sus EXCEPT !["boot"] = NoSuspend]
  /\ UNCHANGED <<recordVars, runVars, memVars, endVars, turnVars, queueVars, op,
                 fresh, sweep, bootList, bootRun, crashes, adapterVars, msgs>>

BootStep ==
  \/ BootReapsRun \/ BootRunSwept \/ BootRunsSwept \/ BootSelectsRows \/ BootSuspended
  \/ \E r \in Runs : BootSweepsRun(r)

-----------------------------------------------------------------------------
Next ==
  \/ VerbBegins \/ SendStep \/ VerbStep \/ FreshStep
  \/ SweepStep \/ Archive
  \/ AdapterChoice \/ \E r \in Runs : ProcessEnds(r)
  \/ HandlerStep \/ \E p \in Suspenders : SuspendStep(p)
  \/ Crash \/ BootStep

(* What the scheduling justifies: every promise chain goes on, and a       *)
(* process told to end ends (shutdownProcess escalates to SIGKILL).  Users *)
(* need not write, agents need not finish a turn, nothing need crash.      *)
Fairness ==
  /\ WF_vars(SendStep \/ VerbStep)
  /\ WF_vars(FreshStep)
  /\ WF_vars(HandlerStep)
  /\ \A p \in Suspenders : WF_vars(SuspendStep(p))
  /\ WF_vars(BootStep)
  /\ \A r \in Runs : WF_vars(ProcessEnds(r))

Spec == Init /\ [][Next]_vars /\ Fairness

-----------------------------------------------------------------------------
(* Properties. *)

(* At most one runner process works in a thread (the lifecycle lock's      *)
(* purpose, session-runtime.ts #488: two quick messages must not start     *)
(* two processes).  Only a crash gets it a second one: the orphan, until   *)
(* the boot sweep finds it.                                                *)
Exists(r) == Alive(r) \/ proc[r] = "orphan"
OneProcess ==
  \A r, s \in Runs :
    Exists(r) /\ Exists(s)
      => r = s \/ (crashes > 0 /\ "orphan" \in {proc[r], proc[s]})

(* A process that starts or takes messages belongs to a thread its record  *)
(* calls running: no close, suspend or sweep leaves an agent behind.       *)
ServesOnlyRunning ==
  (\E r \in Runs : proc[r] \in {"starting", "up"}) => state = "running"

(* A process that takes messages is the one the next message, Stop, close  *)
(* and the idle sweep find in liveRuns, and its run row is open.           *)
NoProcessForgotten ==
  \A r \in Runs : proc[r] = "up" => live = r /\ runRow[r] = "open"

(* A message reaches at most one run and stands in the transcript at most  *)
(* once, whatever run end it raced (#489); accepted means both happened.   *)
DeliveredOnce ==
  \A m \in Msgs :
    /\ Cardinality(msgs[m].to) <= 1 /\ msgs[m].log <= 1
    /\ msgs[m].st = "ok" => msgs[m].to # {} /\ msgs[m].log = 1

(* The turns that wait in a queue to be counted down, one member for each. *)
TurnEnds(q, r) ==
  UNION {{i} \X (1..q[i].count) : i \in {j \in DOMAIN q : q[j].kind = "turn" /\ q[j].run = r}}
QueuedTurns(r) == Cardinality(TurnEnds(queue, r))

(* turnsInFlight is exact while the live run's process exists: what the    *)
(* agent owes, plus turn ends not handled yet, plus the message on its way *)
(* (#490; the idle sweep trusts this count).                               *)
WorkAccounted ==
  live # NoRun /\ Alive(live) =>
    turnsInFlight = owed[live] + QueuedTurns(live)
                    + (IF op.kind = "send" /\ op.pc \in {"log", "give"} THEN 1 ELSE 0)

(* The idle sweep never ends a run whose agent still owes an answer,       *)
(* unless that agent waits, or has just stopped waiting, on the user.      *)
IdleSweepSparesWork ==
  [][\A r \in Runs :
       (sweep = "picked" /\ sweep' = "off" /\ proc[r] = "up" /\ proc'[r] = "closing") =>
         \/ owed[r] = 0 \/ asking[r] # NoQuestion
         \/ \E i \in DOMAIN queue : queue[i].kind = "unasked"]_vars

(* "No live run" is what an archived thread answers, and only that         *)
(* (interface comment of sendMessage).                                     *)
NoLiveRunOnlyArchived ==
  [][\A m \in Msgs : msgs[m].st = "held" /\ msgs'[m].st = "noLiveRun"
                       => state = "archived"]_vars

(* A message that uses up MAX_DELIVERY_ATTEMPTS chases a runner that       *)
(* cannot start; no race of run ends gets it past its first retry.         *)
RacesNeverExhaust ==
  op.attempt <= 1 /\ \A m \in Msgs : msgs[m].st # "exhausted"

(* closingSessions and pendingEndReason speak of one run: they are set     *)
(* only while that run is live or its end is being handled, so no later    *)
(* run inherits them.                                                      *)
EndBeingDecided == live # NoRun \/ ev.pc \in {"patchRun", "clear", "decide"}
ClosingOwned == closing => EndBeingDecided
EndReasonOwned == pendingEndReason # "none" => EndBeingDecided

(* The record says the user is waited for exactly while a question is      *)
(* pending, and no question outlives its run: a stale one would let the    *)
(* idle sweep end the next run in the middle of its work.                  *)
QuestionOwned ==
  /\ waiting <=> question # NoQuestion
  /\ question # NoQuestion => EndBeingDecided

(* The transcript holds at most one run_ended of a run.                    *)
EndLoggedOnce == \A r \in Runs : ended[r] <= 1

(* Every change of the record follows ALLOWED_TRANSITIONS, the suspend     *)
(* that validates nothing in its UPDATE included.                          *)
TableFollowed == [][isAllowedSessionTransition(state, state')]_vars

(* Every message is answered one way or another: nothing a lock, a drain   *)
(* or a settling run waits for fails to come.                              *)
MessageSettles == \A m \in Msgs : msgs[m].st = "held" ~> msgs[m].st # "held"

(* A thread does not stay running with no run: its run's end reaches the   *)
(* record, or its start a live run.                                        *)
EndReachesRecord ==
  (state = "running" /\ live = NoRun) ~> (state # "running" \/ live # NoRun)

(* A run that a crash left open on a running thread is ended by the boot   *)
(* sweeps, with a pid file or without; only a user who closes the thread   *)
(* before the sweep of the rows keeps it open.                             *)
BootEndsRuns ==
  \A r \in Runs :
    (boot = "runs" /\ state = "running" /\ runRow[r] = "open" /\ ~Alive(r) /\ op.run # r)
      ~> (runRow[r] # "open" \/ state = "closed")

(* An orphan whose pid file names a run that is open at boot is killed,    *)
(* although users write meanwhile.  Only a suspend that ends the row first *)
(* (of a Predat, or of a run woken since) makes the sweep take it for gone *)
(* (run-sweep.ts).                                                         *)
OrphansReaped ==
  \A r \in Runs :
    (boot = "runs" /\ r \in bootList /\ proc[r] = "orphan" /\ runRow[r] = "open")
      ~> (proc[r] # "orphan" \/ runRow[r] = "suspended")

(* The thread as its users see it, whichever of the interleavings above    *)
(* produced it.                                                            *)
Lifecycle == INSTANCE ThreadLifecycle WITH
  state   <- state,
  serving <- {r \in Runs : proc[r] \in {"starting", "up"}},
  stopped <- {r \in Runs : proc[r] \in {"closing", "failing", "over", "orphan"}},
  taken   <- [m \in Msgs |-> msgs[m].to]
LifecycleSpec == Lifecycle!Spec
=============================================================================
