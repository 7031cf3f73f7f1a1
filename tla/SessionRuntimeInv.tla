-------------------------- MODULE SessionRuntimeInv --------------------------
(***************************************************************************)
(* Why the properties of SessionRuntime hold: the invariants that its      *)
(* proofs (SessionRuntime_proofs and the modules that extend it) show to   *)
(* be inductive.  The run faults checks InductiveInv, the largest; the     *)
(* others assume it.                                                       *)
(*                                                                         *)
(* An invariant that needs one says under which circumstances it holds:    *)
(*   LockedStart        - no verb that starts or ends a run can overtake   *)
(*                        the first start, which holds no lock;            *)
(*   crashes = 0        - the process has not died yet: the boot sweeps    *)
(*                        look at rows and files, not at what serves;      *)
(*   ~MayFailStore      - a write that rejects skips the rest of its       *)
(*                        handler.                                         *)
(***************************************************************************)
EXTENDS SessionRuntime

LockedStart == ~CreatedRunning \/ Verbs \subseteq {"send", "answer", "interrupt"}

-----------------------------------------------------------------------------
(* Verbs and the writes they queue.                                        *)

(* A redelivery has an attempt left; which verbs have chosen a run.        *)
VerbInv ==
  /\ op.pc = "settle" => op.attempt + 1 < MAX_DELIVERY_ATTEMPTS
  /\ op.pc \in {"log", "give", "start", "starting", "pid"} => op.run \in Runs

(* A verb that waits for its own write in the event queue is the only      *)
(* holder of the lock, so at most one such write is queued, and whoever    *)
(* holds the lock when it is handled is the verb that put it there.        *)
IsVerbTask(i) == queue[i].kind \in {"message", "answered"}
AwaitedAt(kind) == IF kind = "message" THEN "log" ELSE "record"
VerbTasks ==
  \A i \in DOMAIN queue : IsVerbTask(i) =>
    /\ op.pc = AwaitedAt(queue[i].kind)
    /\ \A j \in DOMAIN queue : IsVerbTask(j) => i = j

-----------------------------------------------------------------------------
(* Processes and their ends.                                               *)

IsEnd(i)   == queue[i].kind = "ended"
IsEvent(i) == queue[i].kind \in {"turn", "question", "unasked"}
StartPcs == {"resume", "promote", "wake", "wakeWrite", "create", "start", "starting"}

(* While the first run starts, nothing else happens to the thread but a    *)
(* message that finds it running and not yet served.                       *)
FreshInv ==
  /\ fresh # "no" => CreatedRunning /\ crashes = 0
  /\ fresh \in {"start", "starting"} =>
    /\ op.pc \in {"free", "send"} /\ op.attempt = 0
    /\ queue = <<>> /\ ev.pc = "next"
    /\ boot = "served" /\ \A p \in Suspenders : sus[p].pc = "off"
    /\ state = "running" /\ runRow[1] = "open"
    /\ live = NoRun /\ settling = NoRun
    /\ current = IF fresh = "starting" THEN 1 ELSE NoRun
    /\ proc[1] = IF fresh = "starting" THEN "starting" ELSE "none"

(* Every process the server drives is the current run's, and any other one *)
(* is left from a crash; the current run is the live one, or the one being *)
(* started by the verb that holds the lock or by `fresh`; and a verb about *)
(* to start one has found none and holds the lock since.                   *)
ProcessInv ==
  /\ \A r \in Runs : Alive(r) => current = r
  /\ \A r \in Runs : proc[r] = "orphan" => crashes > 0
  /\ current # NoRun => \/ live = current
                        \/ op.pc = "starting" /\ op.run = current
                        \/ fresh = "starting"
  /\ live # NoRun => live = current
  /\ op.pc \in {"resume", "promote", "wake", "wakeWrite", "create", "start"}
       => live = NoRun /\ current = NoRun
  /\ op.pc = "starting" => live = NoRun /\ current = op.run /\ proc[op.run] = "starting"
  /\ op.pc \in {"send", "promote", "resume", "create"} => op.run = NoRun
  /\ op.pc \in {"wake", "wakeWrite", "start"} /\ op.run # NoRun
       => proc[op.run] = "none" /\ runRow[op.run] # "none"
  /\ \A r \in Runs : runRow[r] = "none" => proc[r] = "none"

(* A queued end is that of a process that is over.                         *)
EndsOver ==
  \A i \in DOMAIN queue : queue[i].kind = "ended" => proc[queue[i].run] = "over"

(* The end of a run is handled before anything else may happen to the      *)
(* thread.  Until then `settling` names the run: while its process exists, *)
(* while its end waits in the queue, and while that end is handled.        *)
SettlingOwned ==
  /\ \A r \in Runs : proc[r] \in {"up", "closing", "failing"} => settling = r
  /\ live # NoRun => settling = live
  /\ settling # NoRun => live = settling \/ ev.pc # "next"
  /\ ev.pc # "next" => /\ queue # <<>> /\ Head(queue).kind = "ended"
                       /\ live = NoRun /\ ev.wasCurrent

(* One end is queued at most, behind everything else its run emitted.      *)
EndsLast ==
  /\ \A i \in DOMAIN queue : IsEnd(i) =>
       /\ queue[i].run = settling
       /\ \A j \in DOMAIN queue : (IsEnd(j) => i = j) /\ (IsEvent(j) => j < i)
  /\ \A i \in DOMAIN queue : IsEvent(i) => queue[i].run = live

(* No verb is on its way to a start meanwhile, and a message that waited   *)
(* for an end finds nothing left to wait for.                              *)
VerbWaits ==
  /\ op.pc \in StartPcs => settling = NoRun
  /\ op.pc = "settle" => settling \in {op.run, NoRun}
  /\ op.attempt <= 1
  /\ op.attempt = 1 => op.pc \notin {"log", "give", "settle"}
  /\ op.pc = "send" /\ op.attempt = 1 => settling = NoRun

SettleInv == SettlingOwned /\ EndsLast /\ VerbWaits

-----------------------------------------------------------------------------
(* Messages: while one is on its way, the place of its verb says whether   *)
(* the transcript has it and whether a run took it.                        *)
SendPcs == StartPcs \union {"send", "log", "give", "settle", "stuck", "pid"}
Carries(m) == op.kind = "send" /\ op.msg = m
IsLogged == op.logged \/ op.pc \in {"give", "starting", "pid", "drain"}
IsTaken  == op.pc \in {"pid", "drain"}

MessageInv ==
  /\ op.pc \in SendPcs => op.kind = "send"
  /\ op.kind = "send" => /\ op.msg \in Msgs /\ op.pc \in SendPcs \union {"drain"}
                         /\ op.pc = "drain" => op.next = "end"
                         /\ op.pc = "log" => ~op.logged
  /\ \A m \in Msgs :
       /\ msgs[m].st = "held" <=> Carries(m)
       /\ msgs[m].st = "new" => msgs[m].log = 0 /\ msgs[m].to = {}
       /\ msgs[m].st = "ok" => msgs[m].log = 1 /\ msgs[m].to # {}
       /\ Carries(m) => /\ msgs[m].log = IF IsLogged THEN 1 ELSE 0
                        /\ msgs[m].to # {} <=> IsTaken
       /\ msgs[m].log <= 1
       /\ msgs[m].to = {} \/ \E r \in Runs : msgs[m].to = {r}

(* What holds of every thread under LockedStart.                           *)
InductiveInv ==
  /\ TypeOK /\ VerbInv /\ VerbTasks
  /\ FreshInv /\ ProcessInv /\ EndsOver /\ SettleInv
  /\ MessageInv

-----------------------------------------------------------------------------
(* The record, under LockedStart and until the process first dies.         *)

(* No close, suspend or sweep takes the thread away from an agent that     *)
(* serves it: a verb that closes or parks it has found no process that     *)
(* takes messages, or has told it to end, and no new one starts.           *)
Closes == \/ op.pc \in {"closeWait", "closeLoad", "closeWrite"}
          \/ op.pc = "drain" /\ op.next = "closeLoad"
Parks  == \/ op.pc = "suspending"
          \/ op.pc = "handoff" /\ op.seen = "suspended"
RecordInv ==
  /\ boot = "served" /\ sus["boot"].pc = "off"
  /\ sus["queue"].pc # "off" => ev.pc = "suspend"
  /\ sus["op"].pc # "off" => op.pc = "suspending"
  /\ Closes \/ Parks => \A r \in Runs : proc[r] # "up"
  /\ op.pc \in {"create", "start", "starting"} => state = "running"
  /\ op.pc \in {"wake", "wakeWrite", "start", "starting"} /\ op.run # NoRun
       => runRow[op.run] = "open"
  /\ \A r \in Runs : proc[r] = "up" => state = "running" /\ runRow[r] = "open"
  /\ \A r \in Runs : proc[r] = "starting" => live = NoRun
  /\ op.pc = "wakeWrite" => state \in {"draft", "suspended", "closed"}
  /\ op.pc = "closeWrite" => state \in {"running", "suspended", "closed"}
  /\ \A p \in Suspenders : sus[p].pc = "write" => state \in {"running", "suspended", "closed"}

(* Without failing writes: turnsInFlight is what the live run owes, and a  *)
(* run that starts finds it holding its own first turn only.               *)
WorkInv ==
  /\ WorkAccounted
  /\ live = NoRun =>
       turnsInFlight = IF op.pc = "starting" \/ fresh = "starting" THEN 1 ELSE 0

(* Without failing writes: a question is handled once, and while it is     *)
(* pending the agent that asked it waits on it, unless the word that it    *)
(* has stopped waiting is on its way.  An answer's question is not one     *)
(* that will become pending again.                                         *)
IsQuestion(i) == queue[i].kind = "question"
Withdrawn(q, after) ==
  \E j \in DOMAIN queue : j > after /\ queue[j].kind = "unasked" /\ queue[j].ask = q
AskInv ==
  /\ question # NoQuestion => EndBeingDecided
  /\ ev.pc = "decide" => question = NoQuestion
  /\ question <= asked /\ \A r \in Runs : asking[r] <= asked
  /\ \A i \in DOMAIN queue : IsQuestion(i) =>
       /\ queue[i].ask \in 1..asked /\ queue[i].ask # question
       /\ \A j \in DOMAIN queue : IsQuestion(j) /\ queue[j].ask = queue[i].ask => i = j
  /\ op.pc \in {"record", "tell"} =>
       /\ op.ask \in 1..asked
       /\ \A i \in DOMAIN queue : IsQuestion(i) => queue[i].ask # op.ask
       /\ op.pc = "tell" => question # op.ask
  /\ live # NoRun /\ Alive(live) =>
       /\ question # NoQuestion => asking[live] = question \/ Withdrawn(question, 0)
       /\ \A i \in DOMAIN queue : IsQuestion(i) =>
            asking[live] = queue[i].ask \/ Withdrawn(queue[i].ask, i)

(* The record knows whether a question is pending: also until the process  *)
(* first dies, for waiting_since survives it and the question does not.    *)
QuestionInv ==
  /\ waiting <=> question # NoQuestion
  /\ \A p \in {"queue", "op"} : sus[p].reason # "host_lost"

(* Also without failing writes, and without Predat, whose suspend may      *)
(* overtake the handler of an end: a run that has not settled has no end   *)
(* in the transcript before its end is handled, and only while it is       *)
(* handled may the row still be open.                                      *)
LogInv ==
  /\ op.pc \notin {"handoff", "endRun", "suspending"} /\ op.next # "endRun"
  /\ settling # NoRun /\ ev.pc = "next" => ended[settling] = 0
  /\ \A r \in Runs :
       /\ ended[r] <= 1
       /\ runRow[r] = "none" => ended[r] = 0
       /\ runRow[r] = "open" /\ ended[r] # 0 => ev.pc = "patchRun" /\ settling = r

(* A draft, without failing starts and writes: a thread that is running    *)
(* but not served is being started, closed or suspended, and whoever does  *)
(* it holds the lock or keeps the last end unsettled.                      *)
ClosesIt == Closes /\ (op.pc = "closeWait" => op.next = "closeLoad")
RestInv ==
  /\ op.pc = "promote" => state = "draft"
  /\ op.pc = "continue" /\ op.seen \in {"closed", "archived"} => state # "running"
  /\ op.pc \in {"closeWait", "drain"} /\ op.next = "note" => state # "running"
  /\ op.pc = "note" => state # "running"
  /\ sus["queue"].pc \in {"done", "threw"} => state # "running"
  /\ closing => state # "running" \/ ClosesIt
  /\ state = "running" /\ settling = NoRun
       => op.pc \in {"create", "start", "starting"} \/ ClosesIt
=============================================================================
