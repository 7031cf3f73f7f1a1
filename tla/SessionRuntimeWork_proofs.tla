---------------------- MODULE SessionRuntimeWork_proofs ----------------------
(***************************************************************************)
(* What the idle sweep trusts: turnsInFlight is what the live agent still  *)
(* owes, a pending question is one that it waits on, and the record says   *)
(* whether there is one.                                                   *)
(*                                                                         *)
(* WorkInv and AskInv are inductive relative to InductiveInv when no write *)
(* rejects; QuestionInv needs RecordInv too (no boot suspend clears        *)
(* waiting_since).  The queue's turn ends are counted by the cardinality   *)
(* of a set with one member per turn, so that the effect of a task put in  *)
(* the queue or handled needs no induction over the queue.                 *)
(***************************************************************************)
EXTENDS SessionRuntimeRecord_proofs

(* One member of TurnEnds(q, r) is a place in the queue and one of the     *)
(* turns that the turn end at that place answers.                          *)
LEMMA TurnEndsMembers ==
  ASSUME NEW q, NEW r, NEW x
  PROVE  x \in TurnEnds(q, r)
           <=> \E i \in DOMAIN q : /\ q[i].kind = "turn" /\ q[i].run = r
                                   /\ \E k \in 1..q[i].count : x = <<i, k>>
BY DEF TurnEnds

(* The turns one turn end answers are as many as its count says.           *)
LEMMA TurnsOfTask ==
  ASSUME NEW i, NEW n \in Nat
  PROVE  IsFiniteSet({i} \X (1..n)) /\ Cardinality({i} \X (1..n)) = n
<1>1. IsFiniteSet({i}) /\ Cardinality({i}) = 1
  BY FS_Singleton
<1>2. IsFiniteSet(1..n) /\ Cardinality(1..n) = n
  BY FS_Interval
<1> DEFINE S == {i}
           T == 1..n
<1>3. IsFiniteSet(S) /\ IsFiniteSet(T) /\ Cardinality(S) = 1 /\ Cardinality(T) = n
  BY <1>1, <1>2
<1> HIDE DEF S, T
<1>4. IsFiniteSet(S \X T) /\ Cardinality(S \X T) = Cardinality(S) * Cardinality(T)
  BY <1>3, FS_Product
<1>5. IsFiniteSet(S \X T) /\ Cardinality(S \X T) = n
  BY <1>3, <1>4
<1> QED BY <1>5 DEF S, T

(* The queue is finite and so are the turns it holds the ends of.          *)
LEMMA TurnEndsFinite ==
  ASSUME NEW q \in Seq(Tasks), NEW r
  PROVE  IsFiniteSet(TurnEnds(q, r)) /\ Cardinality(TurnEnds(q, r)) \in Nat
<1> DEFINE S == {j \in DOMAIN q : q[j].kind = "turn" /\ q[j].run = r}
           T == {{i} \X (1..q[i].count) : i \in S}
           f == [i \in S |-> {i} \X (1..q[i].count)]
<1>0. q \in [1..Len(q) -> Tasks] /\ DOMAIN q = 1..Len(q) /\ Len(q) \in Nat
  BY LenProperties
<1>1. \A i \in DOMAIN q : q[i].count \in Nat
  BY <1>0 DEF Tasks
<1>2. IsFiniteSet(S)
  <2>1. IsFiniteSet(1..Len(q)) /\ S \in SUBSET (1..Len(q))
    BY <1>0, FS_Interval
  <2> QED BY <2>1, FS_Subset
<1>3. f \in Surjection(S, T)
  BY DEF Surjection
<1>4. IsFiniteSet(T)
  BY <1>2, <1>3, FS_Surjection
<1>5. \A t \in T : IsFiniteSet(t)
  <2>1. \A i \in S : IsFiniteSet({i} \X (1..q[i].count))
    BY <1>1, TurnsOfTask
  <2> QED BY <2>1
<1>6. IsFiniteSet(UNION T)
  BY <1>4, <1>5, FS_UNION
<1> QED BY <1>6, FS_CardinalityType DEF TurnEnds

(* A turn end put in the queue adds its turns; another task adds none.     *)
LEMMA TurnEndsAppend ==
  ASSUME NEW q \in Seq(Tasks), NEW t \in Tasks, NEW r
  PROVE  Cardinality(TurnEnds(Append(q, t), r))
           = Cardinality(TurnEnds(q, r)) + IF t.kind = "turn" /\ t.run = r THEN t.count ELSE 0
<1> DEFINE n == Len(q) + 1
           p == Append(q, t)
           A == {n} \X (1..t.count)
<1>1. /\ DOMAIN q = 1..Len(q) /\ Len(q) \in Nat /\ DOMAIN p = 1..n
      /\ p[n] = t /\ \A i \in 1..Len(q) : p[i] = q[i]
  BY AppendProperties, LenProperties
<1>2. t.count \in Nat
  BY DEF Tasks
<1>3. IsFiniteSet(TurnEnds(q, r)) /\ Cardinality(TurnEnds(q, r)) \in Nat
  BY TurnEndsFinite
<1>4. IsFiniteSet(A) /\ Cardinality(A) = t.count
  BY <1>2, TurnsOfTask
<1> HIDE DEF p
<1>5. \A x : x \in TurnEnds(p, r)
        <=> x \in TurnEnds(q, r) \/ (t.kind = "turn" /\ t.run = r /\ x \in A)
  BY <1>1, TurnEndsMembers
<1>6. TurnEnds(q, r) \cap A = {}
  BY <1>1, TurnEndsMembers
<1>7. CASE t.kind = "turn" /\ t.run = r
  <2>1. TurnEnds(p, r) = TurnEnds(q, r) \cup A
    BY <1>5, <1>7
  <2>2. Cardinality(TurnEnds(p, r)) = Cardinality(TurnEnds(q, r)) + t.count - Cardinality({})
    BY <1>3, <1>4, <1>6, <2>1, FS_Union
  <2> QED BY <1>2, <1>3, <1>7, <2>2, FS_EmptySet DEF p
<1>8. CASE ~(t.kind = "turn" /\ t.run = r)
  <2>1. TurnEnds(p, r) = TurnEnds(q, r)
    BY <1>5, <1>8
  <2> QED BY <1>3, <1>8, <2>1 DEF p
<1> QED BY <1>7, <1>8

(* A handled turn end takes its turns along; another task takes none.      *)
LEMMA TurnEndsTail ==
  ASSUME NEW q \in Seq(Tasks), q # <<>>, NEW r
  PROVE  LET t == Head(q) IN
         Cardinality(TurnEnds(q, r))
           = Cardinality(TurnEnds(Tail(q), r)) + IF t.kind = "turn" /\ t.run = r THEN t.count ELSE 0
<1> DEFINE t == Head(q)
           p == Tail(q)
           P == TurnEnds(p, r)
           A == {1} \X (1..t.count)
           B == {x \in TurnEnds(q, r) : x[1] # 1}
           f == [x \in P |-> <<x[1] + 1, x[2]>>]
<1>1. /\ DOMAIN q = 1..Len(q) /\ Len(q) \in Nat /\ DOMAIN p = 1..(Len(q) - 1) /\ 1 \in DOMAIN q
      /\ t = q[1] /\ t \in Tasks /\ p \in Seq(Tasks) /\ \A i \in DOMAIN p : p[i] = q[i + 1]
  BY HeadTailProperties, LenProperties, EmptySeq
<1>2. t.count \in Nat
  BY <1>1 DEF Tasks
<1>3. IsFiniteSet(P) /\ Cardinality(P) \in Nat
  BY <1>1, TurnEndsFinite
<1>4. IsFiniteSet(A) /\ Cardinality(A) = t.count
  BY <1>2, TurnsOfTask
<1> HIDE DEF p, t
<1>5. \A i \in DOMAIN q : i # 1 => i - 1 \in DOMAIN p /\ p[i - 1] = q[i]
  BY <1>1
<1>6. \A i \in DOMAIN p : i + 1 \in DOMAIN q /\ i + 1 # 1 /\ q[i + 1] = p[i] /\ i \in Nat
  BY <1>1
<1>7. \A x : x \in P => /\ f[x] = <<x[1] + 1, x[2]>> /\ x = <<x[1], x[2]>> /\ x[1] \in Nat
                        /\ f[x] \in B
  <2> SUFFICES ASSUME NEW x \in P
               PROVE  /\ f[x] = <<x[1] + 1, x[2]>> /\ x = <<x[1], x[2]>> /\ x[1] \in Nat
                      /\ f[x] \in B
    OBVIOUS
  <2>1. PICK i \in DOMAIN p : p[i].kind = "turn" /\ p[i].run = r /\ \E k \in 1..p[i].count : x = <<i, k>>
    BY TurnEndsMembers
  <2>2. <<i + 1, x[2]>> \in TurnEnds(q, r)
    BY <1>6, <2>1, TurnEndsMembers
  <2>3. x = <<x[1], x[2]>> /\ x[1] = i
    BY <2>1
  <2>4. x[1] \in Nat /\ <<x[1] + 1, x[2]>>[1] # 1
    BY <1>6, <2>3
  <2>5. f[x] = <<x[1] + 1, x[2]>>
    OBVIOUS
  <2>6. <<x[1] + 1, x[2]>> \in B
    BY <2>2, <2>3, <2>4
  <2> QED BY <2>3, <2>4, <2>5, <2>6
<1>8. \A y \in B : \E x \in P : f[x] = y
  <2> SUFFICES ASSUME NEW y \in B PROVE \E x \in P : f[x] = y
    OBVIOUS
  <2>1. PICK i \in DOMAIN q : q[i].kind = "turn" /\ q[i].run = r /\ \E k \in 1..q[i].count : y = <<i, k>>
    BY TurnEndsMembers
  <2>2. i # 1 /\ i \in Nat
    BY <1>1, <2>1
  <2>3. <<i - 1, y[2]>> \in P
    BY <1>5, <2>1, <2>2, TurnEndsMembers
  <2>4. f[<<i - 1, y[2]>>] = y
    BY <2>1, <2>2, <2>3
  <2> QED BY <2>3, <2>4
<1>9. f \in Bijection(P, B)
  <2>1. f \in [P -> B]
    BY <1>7
  <2>2. \A x, y \in P : f[x] = f[y] => x = y
    BY <1>7
  <2> HIDE DEF f, P, B
  <2> QED BY <1>8, <2>1, <2>2 DEF Bijection, Injection, Surjection, IsInjective
<1>10. IsFiniteSet(B) /\ Cardinality(B) = Cardinality(P)
  BY <1>3, <1>9, FS_Bijection DEF ExistsBijection
<1>11. \A x : x \in TurnEnds(q, r) <=> x \in B \/ (t.kind = "turn" /\ t.run = r /\ x \in A)
  BY <1>1, TurnEndsMembers
<1>12. A \cap B = {}
  OBVIOUS
<1> HIDE DEF A, B, f
<1>13. CASE t.kind = "turn" /\ t.run = r
  <2>1. TurnEnds(q, r) = B \cup A
    BY <1>11, <1>13
  <2>2. Cardinality(TurnEnds(q, r)) = Cardinality(B) + t.count - Cardinality({})
    BY <1>4, <1>10, <1>12, <2>1, FS_Union
  <2> QED BY <1>2, <1>3, <1>10, <1>13, <2>2, FS_EmptySet DEF p, t
<1>14. CASE ~(t.kind = "turn" /\ t.run = r)
  <2>1. TurnEnds(q, r) = B
    BY <1>11, <1>14
  <2> QED BY <1>3, <1>10, <1>14, <2>1 DEF p, t
<1> QED BY <1>13, <1>14

-----------------------------------------------------------------------------
USE RuntimeAssumption
    DEF TypeOK, At, Go, recordVars, runVars, memVars, endVars, turnVars, queueVars,
        bootVars, adapterVars

(* What a step on the queue does to the turns that wait in it.             *)
LEMMA TurnsWaiting ==
  ASSUME queue \in Seq(Tasks), NEW r
  PROVE  /\ QueuedTurns(r) \in Nat
         /\ UNCHANGED queue => QueuedTurns(r)' = QueuedTurns(r)
         /\ \A t \in Tasks : Enqueue(t) =>
              QueuedTurns(r)' = QueuedTurns(r) + IF t.kind = "turn" /\ t.run = r THEN t.count ELSE 0
         /\ queue # <<>> /\ Dequeue =>
              QueuedTurns(r) = QueuedTurns(r)'
                + IF Head(queue).kind = "turn" /\ Head(queue).run = r THEN Head(queue).count ELSE 0
<1>1. QueuedTurns(r) \in Nat
  BY TurnEndsFinite DEF QueuedTurns
<1>2. UNCHANGED queue => QueuedTurns(r)' = QueuedTurns(r)
  BY DEF QueuedTurns
<1>3. ASSUME NEW t \in Tasks, Enqueue(t)
      PROVE  QueuedTurns(r)' = QueuedTurns(r) + IF t.kind = "turn" /\ t.run = r THEN t.count ELSE 0
  BY <1>3, TurnEndsAppend DEF QueuedTurns, Enqueue
<1>4. ASSUME queue # <<>>, Dequeue
      PROVE  QueuedTurns(r) = QueuedTurns(r)'
               + IF Head(queue).kind = "turn" /\ Head(queue).run = r THEN Head(queue).count ELSE 0
  BY <1>4, TurnEndsTail DEF QueuedTurns, Dequeue
<1> QED BY <1>1, <1>2, <1>3, <1>4

(* The message whose turn is counted and that the agent has not got yet.   *)
OnItsWay == IF op.kind = "send" /\ op.pc \in {"log", "give"} THEN 1 ELSE 0
Starting == op.pc = "starting" \/ fresh = "starting"

(* A step that leaves the count, what is owed and what waits alone.        *)
LEMMA WorkKept ==
  ASSUME TypeOK, WorkInv, UNCHANGED <<turnsInFlight, live, owed>>,
         live # NoRun => \A r \in Runs : Alive(r)' => Alive(r),
         \A r \in Runs : QueuedTurns(r)' = QueuedTurns(r),
         OnItsWay' = OnItsWay, Starting' <=> Starting
  PROVE  WorkInv'
<1>1. live \in Runs \union {NoRun} /\ live' = live
  BY DEF MemoryTypeOK
<1>2. ASSUME live # NoRun, Alive(live)'
      PROVE  turnsInFlight' = owed'[live] + QueuedTurns(live)' + OnItsWay'
  BY <1>1, <1>2 DEF WorkInv, WorkAccounted, OnItsWay
<1>3. WorkAccounted'
  BY <1>1, <1>2 DEF WorkAccounted, OnItsWay
<1>4. live = NoRun => turnsInFlight' = IF Starting' THEN 1 ELSE 0
  BY DEF WorkInv, Starting
<1> QED BY <1>1, <1>3, <1>4 DEF WorkInv, Starting

(* A verb that is not one of these steps, and a sweep, a suspend or a      *)
(* question, leaves them alone.                                            *)
Calm == /\ Bystander /\ ~SendToLiveRun /\ ~Give /\ ~StartRun /\ ~StartFails
        /\ \A r \in Runs : ~ProcessEnds(r)
        /\ \A r \in Runs : \A k \in 0..(Cardinality(Msgs) + 1) : ~Emits(r, k)

(* Such a step changes neither the count nor what it counts.               *)
LEMMA CalmWork ==
  ASSUME InductiveInv, WorkInv, ~MayFailStore, Calm
  PROVE  WorkInv'
<1>0. TypeOK /\ ProcessInv /\ op \in Ops /\ queue \in Seq(Tasks)
  BY DEF InductiveInv, QueueTypeOK
<1>1. UNCHANGED <<turnsInFlight, owed, fresh>>
  BY <1>0 DEF Calm, Bystander, Next, VerbBegins, Answer, Interrupt, Close, Continue, Handoff,
     SendMessage, SendStep, SendWhileRunSettles, SendReadsRecord, RunSettled,
     Refused, Promote, Wake, WakeWrite, WritePid,
     DrainThen, Drained, SendStoreFails, ResumeCreatesRun, CreateRun,
     VerbStep, TellAgent, ContinueCloses, CloseReturns, CloseLoads, CloseWrites,
     ContinueNotesFile, VerbStoreFails, HandoffInterrupts, HandoffWithoutRun,
     HandoffEndsRun, HandoffSuspended,
     SweepStep, TimePasses, SweepPicks, SweepEnds, SweepSkips, Archive,
     AdapterChoice, OrphanExits, Asks, Abandons, ProviderFails,
     SuspendStep, SuspendReads, SuspendEndsRuns, SuspendLoads, SuspendWrites, SuspendFails,
     BootStep, BootReapsRun, BootRunSwept, BootRunsSwept, BootSelectsRows, BootSuspended, BootSweepsRun
<1>2. \/ UNCHANGED op
      \/ /\ op.pc \notin {"log", "give", "starting"}
         /\ op'.pc \notin {"log", "give", "starting"}
  <2>1. CASE SendWhileRunSettles
    <3>1. op.logged \in BOOLEAN
      BY <1>0 DEF Ops
    <3> QED BY <1>0, <2>1, <3>1, Redelivered DEF SendWhileRunSettles
  <2> DEFINE Away == /\ op.pc \notin {"log", "give", "starting"}
                     /\ op'.pc \notin {"log", "give", "starting"}
  <2>2. CASE \/ Drained \/ CloseLoads \/ ContinueCloses
    <3>1. Drained => Away
      BY <1>0 DEF Drained, Return, Free, Ops
    <3>2. CloseLoads => Away
      BY <1>0 DEF CloseLoads, Return, Free, Ops
    <3>3. ContinueCloses => Away
      BY <1>0 DEF ContinueCloses, AfterClose, Ops
    <3> QED BY <2>2, <3>1, <3>2, <3>3
  <2>3. CASE Wake \/ WakeWrite
    BY <1>0, <2>3 DEF Wake, WakeWrite, AfterWake, Return, Free, Ops
  <2>4. CASE VerbBegins
    BY ZenonT(60), <1>0, <2>4 DEF VerbBegins, Answer, Interrupt, Close, Continue, Handoff, SendMessage, Free
  <2>5. CASE SendStep /\ ~SendWhileRunSettles /\ ~Drained /\ ~Wake /\ ~WakeWrite
    <3>1. SendReadsRecord \/ Promote => Away
      BY <1>0 DEF SendReadsRecord, Promote, Return, Free, Ops
    <3>2. RunSettled \/ WritePid => Away
      BY <1>0 DEF RunSettled, WritePid, DrainThen, Ops
    <3>3. Refused \/ SendStoreFails => Away
      BY <1>0 DEF Refused, SendStoreFails, Return, Free, Ops
    <3>4. ASSUME NEW r \in Runs, ResumeCreatesRun(r) \/ CreateRun(r) PROVE Away
      BY <1>0, <3>4 DEF ResumeCreatesRun, CreateRun, Ops
    <3> QED BY <2>5, <3>1, <3>2, <3>3, <3>4 DEF Calm, Bystander, SendStep
  <2>6. CASE VerbStep /\ ~CloseLoads /\ ~ContinueCloses
    <3>1. TellAgent \/ CloseReturns \/ HandoffInterrupts \/ HandoffEndsRun => Away
      BY <1>0 DEF TellAgent, CloseReturns, HandoffInterrupts, HandoffEndsRun, DrainThen, Ops
    <3>2. VerbStoreFails \/ CloseWrites \/ ContinueNotesFile \/ HandoffSuspended => Away
      <4>1. /\ CloseWrites \/ ContinueNotesFile \/ HandoffSuspended => Return("ok")
            /\ VerbStoreFails => Return("failed")
        BY DEF CloseWrites, ContinueNotesFile, HandoffSuspended, VerbStoreFails
      <4>2. VerbStoreFails \/ CloseWrites \/ ContinueNotesFile \/ HandoffSuspended
              => op.pc \in {"closeLoad", "closeWrite", "note", "suspending"}
        BY DEF CloseWrites, ContinueNotesFile, HandoffSuspended, VerbStoreFails
      <4>3. \A o : Return(o) => op'.pc = "free"
        BY DEF Return, Free
      <4> QED BY <4>1, <4>2, <4>3
    <3>3. HandoffWithoutRun => Away
      BY <1>0 DEF HandoffWithoutRun, SuspendFromVerb, Ops
    <3> QED BY <2>6, <3>1, <3>2, <3>3 DEF VerbStep
  <2>7. CASE \/ SweepStep \/ Archive \/ AdapterChoice
             \/ \E p \in Suspenders : SuspendStep(p)
             \/ BootStep
    BY <2>7 DEF SweepStep, TimePasses, SweepPicks, SweepEnds, SweepSkips, Archive,
     AdapterChoice, OrphanExits, Asks, Abandons, ProviderFails, Emits,
     SuspendStep, SuspendReads, SuspendEndsRuns, SuspendLoads, SuspendWrites, SuspendFails,
     BootStep, BootReapsRun, BootRunSwept, BootRunsSwept, BootSelectsRows, BootSuspended, BootSweepsRun
  <2> QED BY <2>1, <2>2, <2>3, <2>4, <2>5, <2>6, <2>7 DEF Calm, Bystander, Next
<1>3. UNCHANGED queue \/ \E t \in Tasks : t.kind # "turn" /\ Enqueue(t)
  <2>1. CASE Answer
    <3>1. Task("answered", live) \in Tasks /\ Task("answered", live).kind = "answered"
      BY <1>0, <2>1, TaskFacts DEF Answer, MemoryTypeOK
    <3> QED BY <2>1, <3>1 DEF Answer
  <2>2. CASE AdapterChoice
    <3>1. ASSUME NEW r \in Runs, ProviderFails(r) \/ OrphanExits(r) PROVE UNCHANGED queue
      BY <3>1 DEF ProviderFails, OrphanExits
    <3>2. ASSUME NEW r \in Runs, Asks(r) PROVE \E t \in Tasks : t.kind # "turn" /\ Enqueue(t)
      BY <1>0, <3>2, QuestionQueued
    <3>3. ASSUME NEW r \in Runs, Abandons(r) PROVE \E t \in Tasks : t.kind # "turn" /\ Enqueue(t)
      BY <1>0, <3>3, WithdrawalQueued
    <3> QED BY <2>2, <3>1, <3>2, <3>3 DEF AdapterChoice, Calm
  <2>3. CASE ~Answer /\ ~AdapterChoice
    BY <2>3 DEF Calm, Bystander, Next, VerbBegins, Interrupt, Close, Continue, Handoff,
     SendMessage, SendStep, SendWhileRunSettles, SendReadsRecord, RunSettled,
     Refused, Promote, Wake, WakeWrite, WritePid,
     Drained, SendStoreFails, ResumeCreatesRun, CreateRun,
     VerbStep, TellAgent, ContinueCloses, CloseReturns, CloseLoads, CloseWrites,
     ContinueNotesFile, VerbStoreFails, HandoffInterrupts, HandoffWithoutRun,
     HandoffEndsRun, HandoffSuspended,
     SweepStep, TimePasses, SweepPicks, SweepEnds, SweepSkips, Archive,
     SuspendStep, SuspendReads, SuspendEndsRuns, SuspendLoads, SuspendWrites, SuspendFails,
     BootStep, BootReapsRun, BootRunSwept, BootRunsSwept, BootSelectsRows, BootSuspended, BootSweepsRun
  <2> QED BY <2>1, <2>2, <2>3
<1>4. \A r \in Runs : QueuedTurns(r)' = QueuedTurns(r)
  BY <1>0, <1>3, TurnsWaiting
<1>5. OnItsWay' = OnItsWay /\ (Starting' <=> Starting)
  BY <1>1, <1>2 DEF OnItsWay, Starting
<1> QED BY <1>0, <1>1, <1>4, <1>5, BystanderFrame, WorkKept DEF Calm

(* The steps of a message count it when it goes out, and take it off again *)
(* when its run refuses it or does not start.                              *)
LEMMA MessageWork ==
  ASSUME InductiveInv, WorkInv, SendToLiveRun \/ Give \/ StartRun \/ StartFails
  PROVE  WorkInv'
<1>0. /\ TypeOK /\ ProcessInv /\ op \in Ops /\ queue \in Seq(Tasks) /\ turnsInFlight \in Nat
      /\ live \in Runs \union {NoRun} /\ NoRun \notin Runs
      /\ \A r \in Runs : owed[r] \in Nat /\ QueuedTurns(r) \in Nat
  BY TurnsWaiting DEF InductiveInv, QueueTypeOK, MemoryTypeOK, AdapterTypeOK, Runs, NoRun
<1>1. CASE SendToLiveRun
  <2>1. /\ op.pc = "send" /\ op.kind = "send" /\ live # NoRun
        /\ op'.kind = "send" /\ op'.pc \in {"log", "give"}
        /\ turnsInFlight' = turnsInFlight + 1 /\ UNCHANGED <<live, fresh, proc, owed>>
    BY <1>0, <1>1 DEF SendToLiveRun, Ops, InductiveInv, MessageInv, SendPcs
  <2>2. Task("message", live) \in Tasks /\ Task("message", live).kind = "message"
    BY <1>0, <2>1, TaskFacts
  <2>3. \A r \in Runs : QueuedTurns(r)' = QueuedTurns(r)
    BY <1>0, <1>1, <2>2, TurnsWaiting DEF SendToLiveRun
  <2>4. Alive(live)' => Alive(live)
    BY <2>1 DEF Alive
  <2> QED BY <1>0, <2>1, <2>3, <2>4 DEF WorkInv, WorkAccounted
<1>2. ASSUME Give, proc[op.run] = "up"
      PROVE  WorkInv'
  <2>1. /\ op.pc = "give" /\ op.kind = "send" /\ op' = Free
        /\ owed' = [owed EXCEPT ![op.run] = @ + 1]
        /\ UNCHANGED <<turnsInFlight, live, fresh, proc, queue>>
    BY <1>2 DEF Give, InductiveInv, MessageInv, SendPcs
  <2>2. op.run \in Runs /\ live = op.run
    BY <1>2, <2>1, NoEndQueued DEF InductiveInv, VerbInv, Served
  <2>3. owed'[live] = owed[live] + 1
    BY <1>0, <2>1, <2>2 DEF AdapterTypeOK
  <2>4. \A r \in Runs : QueuedTurns(r)' = QueuedTurns(r)
    BY <1>0, <2>1, TurnsWaiting
  <2>5. Alive(live)
    BY <1>2, <2>2 DEF Alive
  <2>6. turnsInFlight = owed[live] + QueuedTurns(live) + 1
    BY <1>0, <2>1, <2>2, <2>5 DEF WorkInv, WorkAccounted
  <2> QED BY <1>0, <2>1, <2>2, <2>3, <2>4, <2>6 DEF WorkInv, WorkAccounted, Free
<1>3. ASSUME Give, proc[op.run] # "up"
      PROVE  WorkInv'
  <2>1. /\ op.pc = "give" /\ op.kind = "send"
        /\ turnsInFlight' = Dropped(1) /\ DeliverAfterRunEnd(TRUE)
        /\ UNCHANGED <<live, fresh, proc, queue, owed>>
    BY <1>3 DEF Give, InductiveInv, MessageInv, SendPcs
  <2>2. op'.pc \in {"free", "settle"}
    BY <1>0, <2>1, Redelivered
  <2>3. \A r \in Runs : QueuedTurns(r)' = QueuedTurns(r)
    BY <1>0, <2>1, TurnsWaiting
  <2>4. Alive(live)' => Alive(live)
    BY <2>1 DEF Alive
  <2>5. turnsInFlight' = IF turnsInFlight > 1 THEN turnsInFlight - 1 ELSE 0
    BY <2>1 DEF Dropped
  <2>6. live # NoRun /\ Alive(live) => turnsInFlight = owed[live] + QueuedTurns(live) + 1
    BY <2>1 DEF WorkInv, WorkAccounted
  <2>7. WorkAccounted'
    BY <1>0, <2>1, <2>2, <2>3, <2>4, <2>5, <2>6 DEF WorkAccounted
  <2>8. fresh = "no" \/ fresh = "pid" \/ op.pc \in {"free", "send"}
    BY <1>0 DEF InductiveInv, FreshInv, SweepTypeOK
  <2>9. live = NoRun => turnsInFlight = 0 /\ fresh' # "starting"
    BY <2>1, <2>8 DEF WorkInv
  <2> QED BY <2>1, <2>2, <2>5, <2>7, <2>9 DEF WorkInv
<1>4. CASE StartRun
  <2>1. /\ op.pc = "start" /\ op'.pc = "starting" /\ live = NoRun /\ UNCHANGED live
        /\ turnsInFlight' = turnsInFlight + 1
    BY <1>0, <1>4 DEF StartRun, BeginRun, ProcessInv, Ops
  <2>2. fresh # "starting"
    BY <2>1 DEF InductiveInv, FreshInv
  <2> QED BY <1>0, <2>1, <2>2 DEF WorkInv, WorkAccounted
<1>5. CASE StartFails
  <2>1. /\ op.pc = "starting" /\ live = NoRun /\ UNCHANGED <<live, fresh>>
        /\ turnsInFlight' = Dropped(1) /\ op' = Free
    BY <1>0, <1>5 DEF StartFails, StartFailed, Return, ProcessInv
  <2>2. fresh # "starting" /\ turnsInFlight = 1
    BY <2>1 DEF InductiveInv, FreshInv, WorkInv
  <2> QED BY <1>0, <2>1, <2>2 DEF WorkInv, WorkAccounted, Dropped, Free
<1> QED BY <1>1, <1>2, <1>3, <1>4, <1>5

(* A run that starts owes its first turn and nothing waits in the queue.   *)
LEMMA StartWork ==
  ASSUME InductiveInv, WorkInv, settling = NoRun, live = NoRun, turnsInFlight = 1,
         NEW r \in Runs, RunStarted(r, 1), UNCHANGED queue,
         op'.pc \notin {"log", "give"}
  PROVE  WorkInv'
<1>1. \A i \in DOMAIN queue : ~IsEvent(i)
  BY NothingSettles DEF InductiveInv
<1>2. TurnEnds(queue, r) = {}
  BY <1>1, TurnEndsMembers DEF IsEvent
<1>3. QueuedTurns(r)' = 0
  BY <1>2, FS_EmptySet DEF QueuedTurns
<1>4. owed'[r] = 1 /\ turnsInFlight' = 1 /\ live' = r /\ r # NoRun
  BY DEF RunStarted, InductiveInv, AdapterTypeOK, Runs, NoRun
<1>5. OnItsWay' = 0
  BY DEF OnItsWay
<1> QED BY <1>3, <1>4, <1>5 DEF WorkInv, WorkAccounted, OnItsWay

(* The steps of a first start.                                             *)
LEMMA FreshWork ==
  ASSUME InductiveInv, WorkInv, FreshStep
  PROVE  WorkInv'
<1>0. TypeOK /\ FreshInv /\ 1 \in Runs /\ turnsInFlight \in Nat /\ queue \in Seq(Tasks)
  BY DEF InductiveInv, Runs, MemoryTypeOK, QueueTypeOK
<1>1. CASE FreshStart
  <2>1. /\ fresh = "start" /\ fresh' = "starting" /\ live = NoRun /\ UNCHANGED live
        /\ turnsInFlight' = turnsInFlight + 1 /\ op.pc \in {"free", "send"}
    BY <1>0, <1>1 DEF FreshStart, BeginRun, FreshInv
  <2> QED BY <2>1 DEF WorkInv, WorkAccounted
<1>2. CASE FreshStarted
  <2>1. /\ fresh = "starting" /\ live = NoRun /\ settling = NoRun /\ op.pc \in {"free", "send"}
        /\ op' = op /\ RunStarted(1, 1) /\ UNCHANGED queue
    BY <1>0, <1>2 DEF FreshStarted, FreshInv
  <2>2. turnsInFlight = 1
    BY <2>1 DEF WorkInv
  <2> QED BY <1>0, <2>1, <2>2, StartWork
<1>3. CASE FreshFails
  <2>1. /\ fresh = "starting" /\ fresh' = "no" /\ live = NoRun /\ UNCHANGED live
        /\ op.pc \in {"free", "send"} /\ op' = op /\ turnsInFlight' = Dropped(1)
    BY <1>0, <1>3 DEF FreshFails, StartFailed, FreshInv
  <2>2. turnsInFlight = 1
    BY <2>1 DEF WorkInv
  <2> QED BY <2>1, <2>2 DEF WorkInv, WorkAccounted, Dropped
<1>4. CASE FreshWritesPid
  <2>1. UNCHANGED <<turnsInFlight, live, owed, proc, op, queue>> /\ (Starting' <=> Starting)
    BY <1>4 DEF FreshWritesPid, Starting
  <2>2. \A r \in Runs : QueuedTurns(r)' = QueuedTurns(r) /\ (Alive(r)' => Alive(r))
    BY <1>0, <2>1, TurnsWaiting DEF Alive
  <2>3. OnItsWay' = OnItsWay
    BY <2>1 DEF OnItsWay
  <2> QED BY <1>0, <2>1, <2>2, <2>3, WorkKept
<1> QED BY <1>1, <1>2, <1>3, <1>4 DEF FreshStep

(* A turn that ends moves from what is owed to what waits in the queue;    *)
(* with its process a run's work is over.                                  *)
LEMMA EmitWork ==
  ASSUME InductiveInv, WorkInv, NEW r \in Runs,
         ProcessEnds(r) \/ \E k \in 0..(Cardinality(Msgs) + 1) : Emits(r, k)
  PROVE  WorkInv'
<1>0. /\ TypeOK /\ queue \in Seq(Tasks) /\ turnsInFlight \in Nat
      /\ live \in Runs \union {NoRun} /\ NoRun \notin Runs
      /\ owed \in [Runs -> Nat] /\ QueuedTurns(r) \in Nat
  BY TurnsWaiting DEF InductiveInv, QueueTypeOK, MemoryTypeOK, AdapterTypeOK, Runs, NoRun
<1>1. live = r /\ Served(r)
  <2>1. Served(r)
    BY DEF ProcessEnds, Ending, Emits, CanEmit, Served
  <2> QED BY <2>1, NoEndQueued DEF InductiveInv
<1>2. UNCHANGED <<turnsInFlight, live, fresh, op>>
  BY DEF ProcessEnds, Emits
<1>3. CASE ProcessEnds(r)
  <2>1. ~Alive(r)'
    BY <1>3 DEF ProcessEnds, Alive, InductiveInv, AdapterTypeOK
  <2>2. live' = r
    BY <1>1, <1>2
  <2> QED BY <1>0, <1>1, <1>2, <2>1, <2>2 DEF WorkInv, WorkAccounted
<1>4. ASSUME NEW k \in 0..(Cardinality(Msgs) + 1), Emits(r, k)
      PROVE  WorkInv'
  <2>1. k \in Nat /\ k <= owed[r] /\ owed'[r] = owed[r] - k /\ UNCHANGED proc
    BY <1>0, <1>4 DEF Emits
  <2>2. QueuedTurns(r)' = QueuedTurns(r) + k
    BY <1>0, <1>4, <2>1, TurnQueued, TurnsWaiting
  <2>3. Alive(r)
    BY <1>1 DEF Alive, Served
  <2>4. turnsInFlight = owed[r] + QueuedTurns(r) + OnItsWay
    BY <1>0, <1>1, <2>3 DEF WorkInv, WorkAccounted, OnItsWay
  <2>5. OnItsWay' = OnItsWay /\ OnItsWay \in Nat /\ live' = r
    BY <1>1, <1>2 DEF OnItsWay
  <2>6. turnsInFlight' = owed'[r] + QueuedTurns(r)' + OnItsWay'
    BY <1>0, <1>2, <2>1, <2>2, <2>4, <2>5
  <2> QED BY <1>0, <2>5, <2>6 DEF WorkInv, WorkAccounted, OnItsWay
<1> QED BY <1>3, <1>4

(* A task that ends no turn is handled: the count is right as it is.       *)
LEMMA OtherTaskWork ==
  ASSUME InductiveInv, WorkInv, queue # <<>>, Dequeue, Head(queue).kind # "turn",
         UNCHANGED <<turnsInFlight, live, owed, proc, fresh>>,
         OnItsWay' = OnItsWay, op'.pc = "starting" <=> op.pc = "starting"
  PROVE  WorkInv'
<1>1. TypeOK /\ queue \in Seq(Tasks)
  BY DEF InductiveInv, QueueTypeOK
<1>2. \A r \in Runs : QueuedTurns(r) = QueuedTurns(r)' + 0 /\ QueuedTurns(r) \in Nat /\ QueuedTurns(r)' \in Nat
  <2>1. queue' \in Seq(Tasks)
    BY <1>1, TaskHandled
  <2>2. \A r \in Runs : QueuedTurns(r)' \in Nat
    BY <2>1, TurnEndsFinite DEF QueuedTurns
  <2> QED BY <1>1, <2>2, TurnsWaiting
<1>3. (Starting' <=> Starting) /\ \A r \in Runs : Alive(r)' => Alive(r)
  BY DEF Starting, Alive
<1> QED BY <1>1, <1>2, <1>3, WorkKept

(* The steps of the event queue.                                           *)
LEMMA HandlerWork ==
  ASSUME InductiveInv, WorkInv, ~MayFailStore, HandlerStep
  PROVE  WorkInv'
<1>0. /\ TypeOK /\ ProcessInv /\ EndsOver /\ SettleInv /\ VerbTasks /\ QueueTypeOK /\ op \in Ops
      /\ queue \in Seq(Tasks) /\ turnsInFlight \in Nat
      /\ live \in Runs \union {NoRun} /\ NoRun \notin Runs
      /\ \A r \in Runs : owed[r] \in Nat /\ QueuedTurns(r) \in Nat
  BY TurnsWaiting DEF InductiveInv, QueueTypeOK, MemoryTypeOK, AdapterTypeOK, Runs, NoRun
<1>1. CASE HandleMessage
  <2>1. queue # <<>> /\ Head(queue).kind = "message" /\ Dequeue /\ op' = [op EXCEPT !.pc = "give"]
        /\ UNCHANGED <<turnsInFlight, live, owed, proc, fresh>>
    BY <1>1 DEF HandleMessage, AtHead
  <2>2. op.pc = "log"
    BY <1>0, <2>1, VerbTaskHandled DEF AwaitedAt
  <2>3. OnItsWay' = OnItsWay /\ op'.pc = "give"
    BY <1>0, <2>1, <2>2 DEF OnItsWay, Ops
  <2> QED BY <2>1, <2>2, <2>3, OtherTaskWork
<1>2. CASE HandleAnswered
  <2>1. queue # <<>> /\ Head(queue).kind = "answered" /\ Dequeue /\ op' = [op EXCEPT !.pc = "tell"]
        /\ UNCHANGED <<turnsInFlight, live, owed, proc, fresh>>
    BY <1>2 DEF HandleAnswered, AtHead
  <2>2. op.pc = "record"
    BY <1>0, <2>1, VerbTaskHandled DEF AwaitedAt
  <2>3. OnItsWay' = OnItsWay /\ op'.pc = "tell"
    BY <1>0, <2>1, <2>2 DEF OnItsWay, Ops
  <2> QED BY <2>1, <2>2, <2>3, OtherTaskWork
<1>3. CASE HandleTurn
  <2>1. queue # <<>> /\ Head(queue).kind = "turn" /\ Dequeue
        /\ UNCHANGED <<live, owed, proc, fresh, op>>
        /\ turnsInFlight' = IF HeadRun = current THEN Dropped(Head(queue).count) ELSE turnsInFlight
    BY <1>3 DEF HandleTurn, AtHead
  <2>2. Head(queue) = queue[1] /\ 1 \in DOMAIN queue /\ Head(queue).count \in Nat /\ HeadRun \in Runs
    BY <1>0, <2>1, HeadTask DEF Tasks, HeadRun
  <2>3. HeadRun = live /\ live = current /\ live # NoRun
    BY <1>0, <2>1, <2>2 DEF SettleInv, EndsLast, IsEvent, ProcessInv, HeadRun
  <2>4. QueuedTurns(live) = QueuedTurns(live)' + Head(queue).count
    BY <1>0, <2>1, <2>3, TurnsWaiting DEF HeadRun
  <2>5. QueuedTurns(live)' \in Nat
    <3>1. queue' \in Seq(Tasks)
      BY <1>0, <2>1, TaskHandled
    <3>2. \A r \in Runs : QueuedTurns(r)' \in Nat
      BY <3>1, TurnEndsFinite DEF QueuedTurns
    <3> QED BY <2>1, <2>2, <2>3, <3>2
  <2>6. OnItsWay' = OnItsWay /\ OnItsWay \in Nat
    BY <2>1 DEF OnItsWay
  <2>7. ASSUME Alive(live)'
        PROVE  turnsInFlight' = owed'[live] + QueuedTurns(live)' + OnItsWay'
    <3>1. Alive(live)
      BY <2>1, <2>7 DEF Alive
    <3>2. turnsInFlight = owed[live] + QueuedTurns(live) + OnItsWay
      BY <2>3, <3>1 DEF WorkInv, WorkAccounted, OnItsWay
    <3> DEFINE c == Head(queue).count
               q == QueuedTurns(live)'
    <3>3. turnsInFlight' = IF turnsInFlight > c THEN turnsInFlight - c ELSE 0
      BY <2>1, <2>3 DEF Dropped
    <3>4. c \in Nat /\ q \in Nat /\ owed[live] \in Nat /\ owed'[live] = owed[live]
      BY <1>0, <2>1, <2>2, <2>3, <2>5
    <3>5. turnsInFlight = owed[live] + (q + c) + OnItsWay
      BY <2>4, <3>2
    <3> HIDE DEF c, q
    <3>6. turnsInFlight' = owed[live] + q + OnItsWay
      BY <1>0, <2>6, <3>3, <3>4, <3>5
    <3> QED BY <2>6, <3>4, <3>6 DEF q
  <2> QED BY <2>1, <2>3, <2>7 DEF WorkInv, WorkAccounted, OnItsWay
<1>4. CASE HandleQuestion \/ HandleUnasked
  <2>1. queue # <<>> /\ Head(queue).kind # "turn" /\ Dequeue
        /\ UNCHANGED <<turnsInFlight, live, owed, proc, fresh, op>>
    BY <1>4 DEF HandleQuestion, HandleUnasked, AtHead
  <2> QED BY <2>1, OtherTaskWork DEF OnItsWay
<1>5. CASE EndIsLogged
  <2>1. HeadRun = current /\ turnsInFlight' = 0 /\ live' = NoRun /\ UNCHANGED <<op, fresh>>
    BY <1>0, <1>5, EndIsCurrent DEF EndIsLogged
  <2>2. settling # NoRun /\ queue # <<>>
    BY <1>0, <1>5, EndAtHead DEF EndIsLogged, AtHead
  <2>3. op.pc # "starting" /\ fresh # "starting"
    BY <1>0, <2>2 DEF SettleInv, VerbWaits, StartPcs, InductiveInv, FreshInv
  <2> QED BY <2>1, <2>3 DEF WorkInv, WorkAccounted
<1>6. CASE EndPatchesRun \/ EndClearsQuestion \/ EndSuspends
  <2>1. UNCHANGED <<turnsInFlight, live, owed, proc, fresh, op>>
    BY <1>6 DEF EndPatchesRun, EndClearsQuestion, EndSuspends
  <2>2. UNCHANGED queue
    BY <1>0, <1>6 DEF EndPatchesRun, EndClearsQuestion, EndSuspends, SettleInv, SettlingOwned
  <2>3. \A r \in Runs : QueuedTurns(r)' = QueuedTurns(r) /\ (Alive(r)' => Alive(r))
    BY <1>0, <2>1, <2>2, TurnsWaiting DEF Alive
  <2>4. OnItsWay' = OnItsWay /\ (Starting' <=> Starting)
    BY <2>1 DEF OnItsWay, Starting
  <2> QED BY <1>0, <2>1, <2>3, <2>4, WorkKept
<1>7. CASE EndOfClose \/ EndSuspended
  <2>1. queue # <<>> /\ Head(queue).kind # "turn" /\ Dequeue
        /\ UNCHANGED <<turnsInFlight, live, owed, proc, fresh, op>>
    BY <1>7 DEF EndOfClose, EndSuspended, EndHandled, AtHead
  <2> QED BY <2>1, OtherTaskWork DEF OnItsWay
<1>8. ~EventStoreFails /\ ~EndStoreFails
  BY DEF EventStoreFails, EndStoreFails
<1> QED BY <1>1, <1>2, <1>3, <1>4, <1>5, <1>6, <1>7, <1>8 DEF HandlerStep

(* Every step keeps the count.                                             *)
LEMMA WorkInductive ==
  ASSUME InductiveInv, WorkInv, ~MayFailStore, [Next]_vars
  PROVE  WorkInv'
<1>0. TypeOK /\ queue \in Seq(Tasks)
  BY DEF InductiveInv, QueueTypeOK
<1>1. CASE UNCHANGED vars
  <2>1. \A r \in Runs : QueuedTurns(r)' = QueuedTurns(r) /\ (Alive(r)' => Alive(r))
    BY <1>0, <1>1, TurnsWaiting DEF vars, Alive
  <2>2. OnItsWay' = OnItsWay /\ (Starting' <=> Starting)
    BY <1>1 DEF vars, OnItsWay, Starting
  <2> QED BY <1>0, <1>1, <2>1, <2>2, WorkKept DEF vars
<1>2. CASE SendToLiveRun \/ Give \/ StartRun \/ StartFails
  BY <1>2, MessageWork
<1>3. CASE StartDone
  <2>1. /\ op.pc = "starting" /\ op'.pc = "pid" /\ live = NoRun /\ settling = NoRun /\ op.run \in Runs
        /\ RunStarted(op.run, 1) /\ UNCHANGED queue
    BY <1>3 DEF StartDone, InductiveInv, VerbInv, ProcessInv, SettleInv, VerbWaits, StartPcs, Ops
  <2>2. turnsInFlight = 1
    BY <2>1 DEF WorkInv
  <2> QED BY <2>1, <2>2, StartWork
<1>4. CASE FreshStep
  BY <1>4, FreshWork
<1>5. CASE HandlerStep
  BY <1>5, HandlerWork
<1>6. CASE Crash
  BY <1>6 DEF Crash, WorkInv, WorkAccounted, Free
<1>7. CASE \E r \in Runs : \/ ProcessEnds(r)
                           \/ \E k \in 0..(Cardinality(Msgs) + 1) : Emits(r, k)
  BY <1>7, EmitWork
<1> QED BY <1>1, <1>2, <1>3, <1>4, <1>5, <1>6, <1>7, CalmWork DEF Calm, Bystander

(* The work the idle sweep must spare is counted exactly while the live    *)
(* run's process exists: what its agent owes, the turn ends that wait to   *)
(* be handled, and the message that is on its way to it.  (A write that    *)
(* rejects may lose a turn end.)                                           *)
THEOREM WorkIsAccounted ==
  LockedStart /\ ~MayFailStore => (Spec => []WorkAccounted)
<1> SUFFICES ASSUME LockedStart, ~MayFailStore PROVE Spec => []WorkAccounted
  OBVIOUS
<1>1. Init => WorkInv
  BY DEF Init, WorkInv, WorkAccounted, Free
<1>2. InductiveInv /\ WorkInv /\ [Next]_vars => WorkInv'
  BY WorkInductive
<1>3. WorkInv => WorkAccounted
  BY DEF WorkInv
<1> QED BY <1>1, <1>2, <1>3, RunsSettle, PTL DEF Spec

-----------------------------------------------------------------------------
(* What is pending and what the agents wait on.                            *)

(* The types the steps below rest on.                                      *)
LEMMA AskTypes ==
  ASSUME InductiveInv
  PROVE  /\ TypeOK /\ queue \in Seq(Tasks) /\ op \in Ops
         /\ asked \in Nat /\ question \in Nat /\ op.ask \in Nat
         /\ live \in Runs \union {NoRun} /\ NoRun \notin Runs
         /\ asking \in [Runs -> Questions \union {NoQuestion}]
         /\ DOMAIN queue = 1..Len(queue) /\ Len(queue) \in Nat
         /\ \A i \in DOMAIN queue : queue[i].ask \in Nat /\ queue[i].run \in Runs
<1>1. TypeOK /\ queue \in Seq(Tasks) /\ op \in Ops
  BY DEF InductiveInv, QueueTypeOK
<1>2. queue \in [1..Len(queue) -> Tasks] /\ DOMAIN queue = 1..Len(queue) /\ Len(queue) \in Nat
  BY <1>1, LenProperties
<1>3. Questions \union {NoQuestion} \subseteq Nat
  BY DEF Questions, NoQuestion
<1>4. \A i \in DOMAIN queue : queue[i].ask \in Nat /\ queue[i].run \in Runs
  BY <1>2, <1>3 DEF Tasks
<1>5. question \in Nat /\ op.ask \in Nat /\ asked \in Nat
  BY <1>1, <1>3 DEF MemoryTypeOK, Ops, AdapterTypeOK
<1> QED BY <1>1, <1>2, <1>4, <1>5 DEF MemoryTypeOK, AdapterTypeOK, Runs, NoRun

(* A question that no queued or pending one is.                            *)
Settled(q) == q # question /\ \A i \in DOMAIN queue : IsQuestion(i) => queue[i].ask # q

(* A step that asks nothing and touches no pending question; an agent may  *)
(* stop waiting on one that is settled, or with word of it.                *)
LEMMA AskKept ==
  ASSUME InductiveInv, AskInv, UNCHANGED <<question, asked, live>>,
         question # NoQuestion => EndBeingDecided',
         ev'.pc = "decide" => question = NoQuestion,
         \A r \in Runs : asking'[r] <= asked,
         \A r \in Runs : live = r /\ Alive(r)' =>
           /\ Alive(r)
           /\ \/ asking'[r] = asking[r]
              \/ Settled(asking[r])
              \/ \E t \in Tasks : t.kind = "unasked" /\ t.ask = asking[r] /\ Enqueue(t),
         UNCHANGED queue \/ \E t \in Tasks : t.kind # "question" /\ Enqueue(t),
         \/ UNCHANGED op
         \/ op'.pc \notin {"record", "tell"}
         \/ op'.pc = "record" /\ op'.ask = question /\ question # NoQuestion
  PROVE  AskInv'
<1>0. /\ live \in Runs \union {NoRun}
      /\ DOMAIN queue = 1..Len(queue) /\ Len(queue) \in Nat /\ queue \in Seq(Tasks)
  BY AskTypes
<1>1. \A i \in DOMAIN queue' : \/ i \in DOMAIN queue /\ queue'[i] = queue[i]
                               \/ queue'[i].kind # "question"
  BY <1>0, TaskQueued
<1>2. \A i \in DOMAIN queue : i \in DOMAIN queue' /\ queue'[i] = queue[i]
  BY <1>0, TaskQueued
<1>3. \A i \in DOMAIN queue' : IsQuestion(i)' => i \in DOMAIN queue /\ IsQuestion(i) /\ queue'[i] = queue[i]
  BY <1>1 DEF IsQuestion
<1> DEFINE WithdrawnNext(q, after) ==
             \E j \in DOMAIN queue' : j > after /\ queue'[j].kind = "unasked" /\ queue'[j].ask = q
<1>4. \A q, n : Withdrawn(q, n) => WithdrawnNext(q, n)
  BY <1>2 DEF Withdrawn
<1>5. ASSUME live' # NoRun, Alive(live)'
      PROVE  /\ question # NoQuestion => asking'[live] = question \/ WithdrawnNext(question, 0)
             /\ \A i \in DOMAIN queue' : IsQuestion(i)' =>
                  asking'[live] = queue'[i].ask \/ WithdrawnNext(queue'[i].ask, i)
  <2>1. /\ live \in Runs /\ live # NoRun /\ Alive(live)
        /\ \/ asking'[live] = asking[live]
           \/ Settled(asking[live])
           \/ \E t \in Tasks : t.kind = "unasked" /\ t.ask = asking[live] /\ Enqueue(t)
    BY <1>0, <1>5
  <2>0. ASSUME NEW t \in Tasks, t.kind = "unasked", t.ask = asking[live], Enqueue(t), NEW i \in DOMAIN queue \union {0}
        PROVE  WithdrawnNext(asking[live], i)
    BY <1>0, <2>0, TaskQueued
  <2>2. question # NoQuestion => asking[live] = question \/ Withdrawn(question, 0)
    BY <2>1 DEF AskInv
  <2>3. \A i \in DOMAIN queue : IsQuestion(i) => asking[live] = queue[i].ask \/ Withdrawn(queue[i].ask, i)
    BY <2>1 DEF AskInv
  <2>4. question # NoQuestion => asking'[live] = question \/ WithdrawnNext(question, 0)
    <3>1. ASSUME question # NoQuestion, asking[live] = question, asking'[live] # question
          PROVE  WithdrawnNext(question, 0)
      BY <2>0, <2>1, <3>1 DEF Settled
    <3> QED BY <1>4, <2>2, <3>1
  <2>5. \A i \in DOMAIN queue' : IsQuestion(i)' =>
          asking'[live] = queue'[i].ask \/ WithdrawnNext(queue'[i].ask, i)
    <3> SUFFICES ASSUME NEW i \in DOMAIN queue', IsQuestion(i)', asking'[live] # queue'[i].ask
                 PROVE  WithdrawnNext(queue'[i].ask, i)
      OBVIOUS
    <3>1. i \in DOMAIN queue /\ IsQuestion(i) /\ queue'[i] = queue[i]
      BY <1>3
    <3>2. CASE asking[live] = queue[i].ask
      BY <2>0, <2>1, <3>1, <3>2 DEF Settled
    <3>3. CASE Withdrawn(queue[i].ask, i)
      BY <1>4, <3>1, <3>3
    <3> QED BY <2>3, <3>1, <3>2, <3>3
  <2> QED BY <2>4, <2>5
<1>6. /\ question' # NoQuestion => EndBeingDecided'
      /\ ev'.pc = "decide" => question' = NoQuestion
      /\ question' <= asked' /\ \A r \in Runs : asking'[r] <= asked'
  BY DEF AskInv
<1>7. \A i \in DOMAIN queue' : IsQuestion(i)' =>
        /\ queue'[i].ask \in 1..asked' /\ queue'[i].ask # question'
        /\ \A j \in DOMAIN queue' : IsQuestion(j)' /\ queue'[j].ask = queue'[i].ask => i = j
  BY <1>3 DEF AskInv
<1>8. op'.pc \in {"record", "tell"} =>
        /\ op'.ask \in 1..asked'
        /\ \A i \in DOMAIN queue' : IsQuestion(i)' => queue'[i].ask # op'.ask
        /\ op'.pc = "tell" => question' # op'.ask
  <2>1. CASE UNCHANGED op
    BY <1>3, <2>1 DEF AskInv
  <2>2. CASE op'.pc = "record" /\ op'.ask = question /\ question # NoQuestion
    <3>1. question \in 1..asked
      BY <2>2, AskTypes DEF AskInv, NoQuestion
    <3>2. \A i \in DOMAIN queue : IsQuestion(i) => queue[i].ask # question
      BY DEF AskInv
    <3> QED BY <1>3, <2>2, <3>1, <3>2
  <2> QED BY <2>1, <2>2
<1> QED BY <1>5, <1>6, <1>7, <1>8 DEF AskInv, Withdrawn

(* A task is handled.  A question that was queued may become pending now;  *)
(* word that one was withdrawn is handled only with it.                    *)
LEMMA AskHandled ==
  ASSUME InductiveInv, AskInv, queue # <<>>, Dequeue, UNCHANGED <<asked, asking, live, proc>>,
         \/ question' = NoQuestion
         \/ question' = question /\ ~(Head(queue).kind = "unasked" /\ Head(queue).ask = question)
         \/ question' = Head(queue).ask /\ Head(queue).kind = "question",
         question' # NoQuestion => live # NoRun,
         \/ UNCHANGED op
         \/ op'.pc \notin {"record", "tell"}
         \/ op.pc = "record" /\ op'.ask = op.ask /\ question' = NoQuestion
  PROVE  AskInv'
<1> DEFINE WithdrawnNext(q, after) ==
             \E j \in DOMAIN queue' : j > after /\ queue'[j].kind = "unasked" /\ queue'[j].ask = q
<1>0. /\ live \in Runs \union {NoRun} /\ asked \in Nat /\ queue \in Seq(Tasks)
      /\ DOMAIN queue = 1..Len(queue) /\ Len(queue) \in Nat
  BY AskTypes
<1>1. /\ Head(queue) = queue[1] /\ 1 \in DOMAIN queue
      /\ \A i \in DOMAIN queue' : queue'[i] = queue[i + 1] /\ i + 1 \in DOMAIN queue /\ i \in Nat
      /\ \A i \in DOMAIN queue : i # 1 => i - 1 \in DOMAIN queue' /\ queue'[i - 1] = queue[i]
      /\ \A i \in DOMAIN queue : i \in Nat
  BY <1>0, HeadTask, TaskHandled
<1>2. \A i \in DOMAIN queue' : IsQuestion(i)' =>
        i + 1 \in DOMAIN queue /\ IsQuestion(i + 1) /\ queue'[i] = queue[i + 1]
  BY <1>1 DEF IsQuestion
<1>3. ev'.pc = "next"
  BY DEF Dequeue, NoEvent
<1>4. /\ question' # NoQuestion => EndBeingDecided'
      /\ ev'.pc = "decide" => question' = NoQuestion
  BY <1>3 DEF EndBeingDecided
<1>5. Head(queue).kind = "question" => IsQuestion(1) /\ Head(queue).ask = queue[1].ask
  BY <1>1 DEF IsQuestion
<1>6. question' <= asked' /\ \A r \in Runs : asking'[r] <= asked'
  BY <1>0, <1>1, <1>5 DEF AskInv, NoQuestion
<1>7. \A i \in DOMAIN queue' : IsQuestion(i)' =>
        /\ queue'[i].ask \in 1..asked' /\ queue'[i].ask # question'
        /\ \A j \in DOMAIN queue' : IsQuestion(j)' /\ queue'[j].ask = queue'[i].ask => i = j
  <2> SUFFICES ASSUME NEW i \in DOMAIN queue', IsQuestion(i)'
               PROVE  /\ queue'[i].ask \in 1..asked' /\ queue'[i].ask # question'
                      /\ \A j \in DOMAIN queue' : IsQuestion(j)' /\ queue'[j].ask = queue'[i].ask => i = j
    OBVIOUS
  <2>0. i \in Nat /\ i >= 1
    BY <1>0, TaskHandled
  <2>1. i + 1 \in DOMAIN queue /\ IsQuestion(i + 1) /\ queue'[i] = queue[i + 1] /\ i + 1 # 1 /\ i \in Nat
    BY <1>2, <2>0
  <2>2. queue[i + 1].ask \in 1..asked /\ queue[i + 1].ask # question /\ queue[i + 1].ask # NoQuestion
    BY <2>1 DEF AskInv, NoQuestion
  <2>3. Head(queue).kind = "question" => queue[i + 1].ask # Head(queue).ask
    BY <1>1, <1>5, <2>1 DEF AskInv
  <2>4. ASSUME NEW j \in DOMAIN queue', IsQuestion(j)', queue'[j].ask = queue'[i].ask
        PROVE  i = j
    <3>1. j + 1 \in DOMAIN queue /\ IsQuestion(j + 1) /\ queue'[j] = queue[j + 1] /\ j \in Nat
      BY <1>1, <1>2, <2>4
    <3>2. i + 1 = j + 1
      BY <2>1, <2>4, <3>1 DEF AskInv
    <3> QED BY <2>1, <3>1, <3>2
  <2> QED BY <2>1, <2>2, <2>3, <2>4
<1>8. op'.pc \in {"record", "tell"} =>
        /\ op'.ask \in 1..asked'
        /\ \A i \in DOMAIN queue' : IsQuestion(i)' => queue'[i].ask # op'.ask
        /\ op'.pc = "tell" => question' # op'.ask
  <2> SUFFICES ASSUME op'.pc \in {"record", "tell"}
               PROVE  /\ op'.ask \in 1..asked'
                      /\ \A i \in DOMAIN queue' : IsQuestion(i)' => queue'[i].ask # op'.ask
                      /\ op'.pc = "tell" => question' # op'.ask
    OBVIOUS
  <2>1. CASE UNCHANGED op
    <3>1. op.ask \in 1..asked /\ \A i \in DOMAIN queue : IsQuestion(i) => queue[i].ask # op.ask
      BY <2>1 DEF AskInv
    <3>2. question' # NoQuestion => ~(op.pc = "tell" /\ question' = op.ask)
      BY <1>1, <1>5, <2>1, <3>1 DEF AskInv
    <3>3. op.pc = "tell" => question' # op.ask
      <4>1. op.ask # NoQuestion
        BY <3>1 DEF NoQuestion
      <4> QED BY <3>2, <4>1
    <3> QED BY <1>2, <2>1, <3>1, <3>3
  <2>2. CASE op.pc = "record" /\ op'.ask = op.ask /\ question' = NoQuestion
    BY <1>2, <2>2 DEF AskInv, NoQuestion
  <2> QED BY <2>1, <2>2
<1>9. ASSUME live' # NoRun, Alive(live)'
      PROVE  /\ question' # NoQuestion => asking'[live] = question' \/ WithdrawnNext(question', 0)
             /\ \A i \in DOMAIN queue' : IsQuestion(i)' =>
                  asking'[live] = queue'[i].ask \/ WithdrawnNext(queue'[i].ask, i)
  <2>1. live # NoRun /\ Alive(live)
    BY <1>9 DEF Alive
  <2>2. /\ question # NoQuestion => asking[live] = question \/ Withdrawn(question, 0)
        /\ \A i \in DOMAIN queue : IsQuestion(i) => asking[live] = queue[i].ask \/ Withdrawn(queue[i].ask, i)
    BY <2>1 DEF AskInv
  <2>3. ASSUME question' # NoQuestion, asking'[live] # question'
        PROVE  WithdrawnNext(question', 0)
    <3>1. PICK j \in DOMAIN queue : j # 1 /\ queue[j].kind = "unasked" /\ queue[j].ask = question'
      <4>1. CASE question' = question /\ ~(Head(queue).kind = "unasked" /\ Head(queue).ask = question)
        BY <1>1, <2>2, <2>3, <4>1 DEF Withdrawn
      <4>2. CASE question' = Head(queue).ask /\ Head(queue).kind = "question"
        BY <1>1, <1>5, <2>2, <2>3, <4>2 DEF Withdrawn
      <4> QED BY <2>3, <4>1, <4>2
    <3>2. j - 1 \in DOMAIN queue' /\ queue'[j - 1] = queue[j] /\ j - 1 > 0
      BY <1>0, <1>1, <3>1
    <3> QED BY <3>1, <3>2 DEF Withdrawn
  <2>4. ASSUME NEW i \in DOMAIN queue', IsQuestion(i)', asking'[live] # queue'[i].ask
        PROVE  WithdrawnNext(queue'[i].ask, i)
    <3>1. i + 1 \in DOMAIN queue /\ IsQuestion(i + 1) /\ queue'[i] = queue[i + 1] /\ i \in Nat
      BY <1>1, <1>2, <2>4
    <3>2. Withdrawn(queue[i + 1].ask, i + 1)
      BY <2>2, <2>4, <3>1
    <3>3. PICK j \in DOMAIN queue : j > i + 1 /\ queue[j].kind = "unasked" /\ queue[j].ask = queue[i + 1].ask
      BY <3>2 DEF Withdrawn
    <3>4. j - 1 \in DOMAIN queue' /\ queue'[j - 1] = queue[j] /\ j - 1 > i
      BY <1>0, <1>1, <3>1, <3>3
    <3> QED BY <3>1, <3>3, <3>4 DEF Withdrawn
  <2> QED BY <2>3, <2>4
<1> QED BY <1>4, <1>6, <1>7, <1>8, <1>9 DEF AskInv, Withdrawn

(* A run starts in a thread with no question pending or queued.            *)
LEMMA AskStarts ==
  ASSUME InductiveInv, AskInv, settling = NoRun, NEW r \in Runs, live' = r,
         UNCHANGED <<question, asked, asking, queue, ev>>,
         UNCHANGED op \/ op'.pc \notin {"record", "tell"}
  PROVE  AskInv'
<1>1. live = NoRun /\ ev.pc = "next" /\ \A i \in DOMAIN queue : ~IsQuestion(i)
  BY NothingSettles DEF InductiveInv, IsEvent, IsQuestion
<1>2. question = NoQuestion
  BY <1>1 DEF AskInv, EndBeingDecided
<1>3. \A i \in DOMAIN queue' : ~IsQuestion(i)'
  BY <1>1 DEF IsQuestion
<1>4. question' = NoQuestion /\ question' <= asked' /\ (\A s \in Runs : asking'[s] <= asked')
      /\ ev'.pc = "next"
  BY <1>1, <1>2 DEF AskInv
<1>5. op'.pc \in {"record", "tell"} =>
        op'.ask \in 1..asked' /\ (op'.pc = "tell" => question' # op'.ask)
  BY DEF AskInv
<1> QED BY <1>3, <1>4, <1>5 DEF AskInv

(* A question gets an id that no other has, and its agent waits on it.     *)
LEMMA AskAsks ==
  ASSUME InductiveInv, AskInv, NEW r \in Runs, Asks(r)
  PROVE  AskInv'
<1>0. /\ queue \in Seq(Tasks) /\ asked \in Nat /\ question \in Nat /\ op.ask \in Nat
      /\ DOMAIN queue = 1..Len(queue) /\ Len(queue) \in Nat
      /\ asking \in [Runs -> Questions \union {NoQuestion}]
      /\ \A i \in DOMAIN queue : queue[i].ask \in Nat
  BY AskTypes
<1>1. live = r /\ Alive(r) /\ r # NoRun
  <2>1. Served(r)
    BY DEF Asks, CanEmit, Served
  <2> QED BY <2>1, NoEndQueued DEF InductiveInv, Alive, Served, Runs, NoRun
<1>2. /\ UNCHANGED <<question, live, ev, op, proc>> /\ asked' = asked + 1
      /\ asking[r] = NoQuestion /\ asking' = [asking EXCEPT ![r] = asked + 1]
  BY DEF Asks
<1>3. PICK t \in Tasks : t.kind = "question" /\ t.run = r /\ t.ask = asked + 1 /\ Enqueue(t)
  BY QuestionQueued DEF InductiveInv
<1> DEFINE n == Len(queue) + 1
           WithdrawnNext(q, after) ==
             \E j \in DOMAIN queue' : j > after /\ queue'[j].kind = "unasked" /\ queue'[j].ask = q
<1>4. /\ DOMAIN queue' = 1..n /\ queue'[n] = t /\ n \notin DOMAIN queue
      /\ \A i \in DOMAIN queue : i \in DOMAIN queue' /\ queue'[i] = queue[i]
      /\ \A i \in DOMAIN queue' : i \in DOMAIN queue \/ i = n
  BY <1>0, <1>3, TaskQueued
<1> HIDE DEF n
<1>5. \A q, a : Withdrawn(q, a) => WithdrawnNext(q, a)
  BY <1>4 DEF Withdrawn
<1>6. \A i \in DOMAIN queue : queue[i].kind = "question" =>
        /\ queue[i].ask \in 1..asked /\ queue[i].ask # question
        /\ \A j \in DOMAIN queue : queue[j].kind = "question" /\ queue[j].ask = queue[i].ask => i = j
  BY DEF AskInv, IsQuestion
<1>7. \A i \in DOMAIN queue' : queue'[i].kind = "question" =>
        \/ i = n /\ queue'[i].ask = asked + 1
        \/ /\ i \in DOMAIN queue /\ queue[i].kind = "question" /\ queue'[i] = queue[i]
           /\ queue'[i].ask \in 1..asked
  BY <1>3, <1>4, <1>6
<1>8. /\ question' # NoQuestion => EndBeingDecided'
      /\ ev'.pc = "decide" => question' = NoQuestion
  BY <1>2 DEF AskInv, EndBeingDecided
<1>9. question' <= asked' /\ \A s \in Runs : asking'[s] <= asked'
  <2>1. question <= asked /\ \A s \in Runs : asking[s] <= asked /\ asking[s] \in Nat
    BY <1>0 DEF AskInv, Questions, NoQuestion
  <2> QED BY <1>0, <1>2, <2>1
<1>10. \A i \in DOMAIN queue' : IsQuestion(i)' =>
         /\ queue'[i].ask \in 1..asked' /\ queue'[i].ask # question'
         /\ \A j \in DOMAIN queue' : IsQuestion(j)' /\ queue'[j].ask = queue'[i].ask => i = j
  <2>1. question <= asked
    BY DEF AskInv
  <2>2. \A i \in DOMAIN queue' : IsQuestion(i)' => queue'[i].ask \in 1..asked' /\ queue'[i].ask # question'
    BY <1>0, <1>2, <1>6, <1>7, <2>1 DEF IsQuestion
  <2>3. ASSUME NEW i \in DOMAIN queue', NEW j \in DOMAIN queue', IsQuestion(i)', IsQuestion(j)',
               queue'[j].ask = queue'[i].ask
        PROVE  i = j
    BY <1>0, <1>6, <1>7, <2>3 DEF IsQuestion
  <2> QED BY <2>2, <2>3
<1>11. op'.pc \in {"record", "tell"} =>
         /\ op'.ask \in 1..asked'
         /\ \A i \in DOMAIN queue' : IsQuestion(i)' => queue'[i].ask # op'.ask
         /\ op'.pc = "tell" => question' # op'.ask
  BY <1>0, <1>2, <1>7 DEF AskInv, IsQuestion
<1>12. /\ question # NoQuestion => WithdrawnNext(question, 0)
       /\ \A i \in DOMAIN queue' : IsQuestion(i)' =>
            asking'[r] = queue'[i].ask \/ WithdrawnNext(queue'[i].ask, i)
  <2>1. /\ question # NoQuestion => Withdrawn(question, 0)
        /\ \A i \in DOMAIN queue : queue[i].kind = "question" => Withdrawn(queue[i].ask, i)
    BY <1>1, <1>2, <1>6 DEF AskInv, IsQuestion, NoQuestion
  <2>2. asking'[r] = asked + 1
    BY <1>0, <1>2
  <2> QED BY <1>5, <1>7, <2>1, <2>2 DEF IsQuestion
<1> QED BY <1>1, <1>2, <1>8, <1>9, <1>10, <1>11, <1>12 DEF AskInv, Withdrawn

(* The steps that leave every question and every agent's wait alone.       *)
AsksNothing ==
  /\ Bystander /\ ~Answer /\ ~TellAgent
  /\ \A r \in Runs : ~Asks(r) /\ ~Abandons(r) /\ ~ProcessEnds(r)

(* Such a step queues no question and answers none.                        *)
LEMMA AsksNothingFrame ==
  ASSUME InductiveInv, AsksNothing
  PROVE  /\ UNCHANGED <<question, asked, asking>>
         /\ UNCHANGED queue \/ \E t \in Tasks : t.kind # "question" /\ Enqueue(t)
         /\ UNCHANGED op \/ op'.pc \notin {"record", "tell"}
<1>0. TypeOK /\ op \in Ops
  BY DEF InductiveInv
<1>1. UNCHANGED <<question, asked, asking>>
  BY DEF AsksNothing, Bystander, Next, VerbBegins, Interrupt, Close, Continue, Handoff,
     SendMessage, SendStep, SendToLiveRun, SendWhileRunSettles, SendReadsRecord, Give, RunSettled,
     Refused, Promote, Wake, WakeWrite, StartRun, BeginRun, StartFails, StartFailed, WritePid,
     DrainThen, Drained, SendStoreFails, ResumeCreatesRun, CreateRun,
     VerbStep, ContinueCloses, CloseReturns, CloseLoads, CloseWrites,
     ContinueNotesFile, VerbStoreFails, HandoffInterrupts, HandoffWithoutRun,
     HandoffEndsRun, HandoffSuspended,
     SweepStep, TimePasses, SweepPicks, SweepEnds, SweepSkips, Archive,
     AdapterChoice, OrphanExits, ProviderFails, Emits,
     SuspendStep, SuspendReads, SuspendEndsRuns, SuspendLoads, SuspendWrites, SuspendFails,
     BootStep, BootReapsRun, BootRunSwept, BootRunsSwept, BootSelectsRows, BootSuspended, BootSweepsRun
<1>2. UNCHANGED queue \/ \E t \in Tasks : t.kind # "question" /\ Enqueue(t)
  <2>1. CASE SendToLiveRun
    <3>1. Task("message", live) \in Tasks /\ Task("message", live).kind = "message"
      BY <1>0, <2>1, TaskFacts DEF SendToLiveRun, MemoryTypeOK
    <3> QED BY <2>1, <3>1 DEF SendToLiveRun
  <2>2. CASE AdapterChoice
    <3>1. ASSUME NEW r \in Runs, ProviderFails(r) \/ OrphanExits(r) PROVE UNCHANGED queue
      BY <3>1 DEF ProviderFails, OrphanExits
    <3>2. ASSUME NEW r \in Runs, NEW k \in 0..(Cardinality(Msgs) + 1), Emits(r, k)
          PROVE  \E t \in Tasks : t.kind # "question" /\ Enqueue(t)
      BY <3>2, TurnQueued
    <3> QED BY <2>2, <3>1, <3>2 DEF AdapterChoice, AsksNothing
  <2>3. CASE ~SendToLiveRun /\ ~AdapterChoice
    BY <2>3 DEF AsksNothing, Bystander, Next, VerbBegins, Interrupt, Close, Continue, Handoff,
     SendMessage, SendStep, SendWhileRunSettles, SendReadsRecord, Give, RunSettled,
     Refused, Promote, Wake, WakeWrite, StartRun, StartFails, WritePid,
     Drained, SendStoreFails, ResumeCreatesRun, CreateRun,
     VerbStep, ContinueCloses, CloseReturns, CloseLoads, CloseWrites,
     ContinueNotesFile, VerbStoreFails, HandoffInterrupts, HandoffWithoutRun,
     HandoffEndsRun, HandoffSuspended,
     SweepStep, TimePasses, SweepPicks, SweepEnds, SweepSkips, Archive,
     SuspendStep, SuspendReads, SuspendEndsRuns, SuspendLoads, SuspendWrites, SuspendFails,
     BootStep, BootReapsRun, BootRunSwept, BootRunsSwept, BootSelectsRows, BootSuspended, BootSweepsRun
  <2> QED BY <2>1, <2>2, <2>3
<1>3. UNCHANGED op \/ op'.pc \notin {"record", "tell"}
  <2> DEFINE Away == op'.pc \notin {"record", "tell"}
  <2>1. CASE VerbBegins
    BY <1>0, <2>1 DEF AsksNothing, VerbBegins, Interrupt, Close, Continue, Handoff, SendMessage, Free
  <2>2. CASE SendStep
    <3>1. SendToLiveRun \/ StartRun => Away
      BY <1>0 DEF SendToLiveRun, StartRun, Ops
    <3>2. SendWhileRunSettles => Away
      <4>1. op.logged \in BOOLEAN
        BY <1>0 DEF Ops
      <4> QED BY <1>0, <4>1, Redelivered DEF SendWhileRunSettles
    <3>3. Give => Away
      <4>1. DeliverAfterRunEnd(TRUE) => op'.pc \in {"free", "settle"}
        BY <1>0, Redelivered
      <4>2. Give /\ proc[op.run] = "up" => op' = Free
        BY DEF Give
      <4>3. Give /\ proc[op.run] # "up" => DeliverAfterRunEnd(TRUE)
        BY DEF Give
      <4>4. Free.pc = "free"
        BY DEF Free
      <4> QED BY <4>1, <4>2, <4>3, <4>4
    <3>4. RunSettled \/ WritePid => Away
      BY <1>0 DEF RunSettled, WritePid, DrainThen, Ops
    <3>5. SendReadsRecord \/ Promote => Away
      BY <1>0 DEF SendReadsRecord, Promote, Return, Free, Ops
    <3>6. Refused \/ StartFails \/ SendStoreFails => Away
      BY <1>0 DEF Refused, StartFails, SendStoreFails, Return, Free
    <3>7. Wake \/ WakeWrite => Away
      BY <1>0 DEF Wake, WakeWrite, AfterWake, Return, Free, Ops
    <3>8. Drained => Away
      BY <1>0 DEF Drained, Return, Free, Ops
    <3>9. ASSUME NEW r \in Runs, ResumeCreatesRun(r) \/ CreateRun(r) PROVE Away
      BY <1>0, <3>9 DEF ResumeCreatesRun, CreateRun, Ops
    <3> HIDE DEF Away
    <3>10. Away
      BY <2>2, <3>1, <3>2, <3>3, <3>4, <3>5, <3>6, <3>7, <3>8, <3>9
         DEF AsksNothing, Bystander, SendStep
    <3> QED BY <3>10 DEF Away
  <2>3. CASE VerbStep
    <3>1. CloseReturns \/ HandoffInterrupts \/ HandoffEndsRun => Away
      BY <1>0 DEF CloseReturns, HandoffInterrupts, HandoffEndsRun, DrainThen, Ops
    <3>2. HandoffWithoutRun => Away
      BY <1>0 DEF HandoffWithoutRun, SuspendFromVerb, Ops
    <3>3. CloseLoads => Away
      BY <1>0 DEF CloseLoads, Return, Free, Ops
    <3>4. ContinueCloses => Away
      BY <1>0 DEF ContinueCloses, AfterClose, Ops
    <3>5. \A o : Return(o) => Away
      BY DEF Return, Free
    <3>6. CloseWrites \/ ContinueNotesFile \/ VerbStoreFails \/ HandoffSuspended => \E o : Return(o)
      BY DEF CloseWrites, ContinueNotesFile, VerbStoreFails, HandoffSuspended
    <3> HIDE DEF Away
    <3>7. Away
      BY <2>3, <3>1, <3>2, <3>3, <3>4, <3>5, <3>6 DEF AsksNothing, VerbStep
    <3> QED BY <3>7 DEF Away
  <2>4. CASE \/ SweepStep \/ Archive \/ AdapterChoice
             \/ \E p \in Suspenders : SuspendStep(p)
             \/ BootStep
    BY <2>4 DEF SweepStep, TimePasses, SweepPicks, SweepEnds, SweepSkips, Archive,
     AdapterChoice, OrphanExits, Asks, Abandons, ProviderFails, Emits,
     SuspendStep, SuspendReads, SuspendEndsRuns, SuspendLoads, SuspendWrites, SuspendFails,
     BootStep, BootReapsRun, BootRunSwept, BootRunsSwept, BootSelectsRows, BootSuspended, BootSweepsRun
  <2> QED BY <2>1, <2>2, <2>3, <2>4 DEF AsksNothing, Bystander, Next
<1> QED BY <1>1, <1>2, <1>3

(* The steps of the verbs, the sweeps, the adapter and the suspends.       *)
LEMMA BystanderAsks ==
  ASSUME InductiveInv, AskInv, ~MayFailStore, Bystander
  PROVE  AskInv'
<1>0. /\ TypeOK /\ ProcessInv /\ op \in Ops /\ asked \in Nat
      /\ live \in Runs \union {NoRun} /\ NoRun \notin Runs
      /\ asking \in [Runs -> Questions \union {NoQuestion}]
      /\ \A r \in Runs : asking[r] <= asked
  BY AskTypes DEF InductiveInv, AskInv
<1>1. /\ UNCHANGED <<live, ev>>
      /\ \A r \in Runs : live = r => (Alive(r)' => Alive(r))
  BY <1>0, BystanderFrame
<1>2. /\ question # NoQuestion => EndBeingDecided'
      /\ ev'.pc = "decide" => question = NoQuestion
  BY <1>1 DEF AskInv, EndBeingDecided
<1>3. CASE AsksNothing
  <2>1. /\ UNCHANGED <<question, asked, asking>>
        /\ UNCHANGED queue \/ \E t \in Tasks : t.kind # "question" /\ Enqueue(t)
        /\ UNCHANGED op \/ op'.pc \notin {"record", "tell"}
    BY <1>3, AsksNothingFrame
  <2> QED BY <1>0, <1>1, <1>2, <2>1, AskKept
<1>4. CASE Answer
  <2>1. /\ UNCHANGED <<question, asked, asking>>
        /\ op'.pc = "record" /\ op'.ask = question /\ question # NoQuestion
    BY <1>4 DEF Answer, Free
  <2>2. \E t \in Tasks : t.kind # "question" /\ Enqueue(t)
    <3>1. Task("answered", live) \in Tasks /\ Task("answered", live).kind = "answered"
      BY <1>0, <1>4, TaskFacts DEF Answer
    <3> QED BY <1>4, <3>1 DEF Answer
  <2> QED BY <1>0, <1>1, <1>2, <2>1, <2>2, AskKept
<1>5. CASE TellAgent
  <2>1. /\ UNCHANGED <<question, asked, queue>> /\ op.pc = "tell" /\ op'.pc = "drain"
        /\ asking' = [asking EXCEPT ![op.run] = IF @ = op.ask THEN NoQuestion ELSE @]
    BY <1>0, <1>5 DEF TellAgent, DrainThen, Ops
  <2>2. Settled(op.ask)
    BY <2>1 DEF AskInv, Settled
  <2>3. \A r \in Runs : asking'[r] = asking[r] \/ (asking[r] = op.ask /\ asking'[r] = NoQuestion)
    BY <1>0, <2>1
  <2>4. \A r \in Runs : asking'[r] <= asked /\ (asking'[r] = asking[r] \/ Settled(asking[r]))
    BY <1>0, <2>2, <2>3 DEF NoQuestion
  <2> QED BY <1>0, <1>1, <1>2, <2>1, <2>4, AskKept
<1>6. ASSUME NEW r \in Runs, Abandons(r)
      PROVE  AskInv'
  <2>1. /\ UNCHANGED <<question, asked, op>>
        /\ asking' = [asking EXCEPT ![r] = NoQuestion]
    BY <1>6 DEF Abandons
  <2>2. PICK t \in Tasks : t.kind = "unasked" /\ t.run = r /\ t.ask = asking[r] /\ Enqueue(t)
    BY <1>0, <1>6, WithdrawalQueued
  <2>3. \A s \in Runs : asking'[s] <= asked
    BY <1>0, <2>1 DEF NoQuestion
  <2>4. \A s \in Runs : \/ asking'[s] = asking[s]
                        \/ \E u \in Tasks : u.kind = "unasked" /\ u.ask = asking[s] /\ Enqueue(u)
    BY <1>0, <2>1, <2>2
  <2> QED BY <1>0, <1>1, <1>2, <2>1, <2>2, <2>3, <2>4, AskKept
<1>7. ASSUME NEW r \in Runs, ProcessEnds(r)
      PROVE  AskInv'
  <2>1. /\ UNCHANGED <<question, asked, op>>
        /\ asking' = [asking EXCEPT ![r] = NoQuestion] /\ ~Alive(r)'
    BY <1>0, <1>7 DEF ProcessEnds, Alive, AdapterTypeOK
  <2>2. live = r
    <3>1. Served(r)
      BY <1>7 DEF ProcessEnds, Ending, Served
    <3> QED BY <3>1, NoEndQueued DEF InductiveInv
  <2>3. \E t \in Tasks : t.kind # "question" /\ Enqueue(t)
    BY <1>0, <1>7, EndEmitted
  <2>4. \A s \in Runs : asking'[s] <= asked
    BY <1>0, <2>1 DEF NoQuestion
  <2>5. \A s \in Runs : live = s => s = r
    BY <2>2
  <2>6. \A s \in Runs : ~(live = s /\ Alive(s)')
    BY <2>1, <2>5
  <2> QED BY <1>0, <1>1, <1>2, <2>1, <2>3, <2>4, <2>6, AskKept
<1> QED BY <1>3, <1>4, <1>5, <1>6, <1>7, AskAsks DEF AsksNothing, Bystander

(* The steps of the event queue.                                           *)
LEMMA HandlerAsks ==
  ASSUME InductiveInv, AskInv, ~MayFailStore, HandlerStep
  PROVE  AskInv'
<1>0. /\ TypeOK /\ QueueTypeOK /\ VerbTasks /\ SettleInv /\ op \in Ops /\ queue \in Seq(Tasks)
      /\ live \in Runs \union {NoRun} /\ NoRun \notin Runs
  BY AskTypes DEF InductiveInv
<1>1. ASSUME AtHead("message") \/ AtHead("answered") \/ AtHead("turn") \/ AtHead("question")
               \/ AtHead("unasked")
      PROVE  ev.pc = "next" /\ (question # NoQuestion => live # NoRun)
  <2>1. ev.pc = "next"
    BY <1>0, <1>1 DEF AtHead, SettleInv, SettlingOwned
  <2> QED BY <2>1 DEF AskInv, EndBeingDecided
<1>2. CASE HandleMessage \/ HandleTurn
  <2>1. /\ queue # <<>> /\ Dequeue /\ Head(queue).kind # "unasked"
        /\ UNCHANGED <<asked, asking, live, proc, question>>
    BY <1>2 DEF HandleMessage, HandleTurn, AtHead
  <2>2. question # NoQuestion => live # NoRun
    BY <1>1, <1>2 DEF HandleMessage, HandleTurn
  <2>3. UNCHANGED op \/ op'.pc = "give"
    BY <1>0, <1>2 DEF HandleMessage, HandleTurn, Ops
  <2> QED BY <2>1, <2>2, <2>3, AskHandled
<1>3. CASE HandleAnswered
  <2>1. /\ queue # <<>> /\ Dequeue /\ Head(queue).kind = "answered"
        /\ UNCHANGED <<asked, asking, live, proc>> /\ question' = NoQuestion
        /\ op' = [op EXCEPT !.pc = "tell"]
    BY <1>3 DEF HandleAnswered, ClearWaiting, AtHead
  <2>2. op.pc = "record" /\ op'.ask = op.ask
    BY <1>0, <2>1, VerbTaskHandled DEF AwaitedAt, Ops
  <2> QED BY <2>1, <2>2, AskHandled
<1>4. CASE HandleQuestion
  <2>1. /\ queue # <<>> /\ Dequeue /\ Head(queue).kind = "question"
        /\ UNCHANGED <<asked, asking, live, proc, op>> /\ question' = Head(queue).ask
    BY <1>4 DEF HandleQuestion, AtHead
  <2>2. live # NoRun
    <3>1. Head(queue) = queue[1] /\ 1 \in DOMAIN queue /\ queue[1].run \in Runs
      BY <1>0, <2>1, HeadTask, AskTypes
    <3> QED BY <1>0, <2>1, <3>1 DEF SettleInv, EndsLast, IsEvent
  <2> QED BY <2>1, <2>2, AskHandled
<1>5. CASE HandleUnasked
  <2>1. /\ queue # <<>> /\ Dequeue /\ Head(queue).kind = "unasked"
        /\ UNCHANGED <<asked, asking, live, proc, op>>
        /\ \/ question' = NoQuestion
           \/ question' = question /\ Head(queue).ask # question
    BY <1>5 DEF HandleUnasked, ClearWaiting, AtHead
  <2>2. question # NoQuestion => live # NoRun
    BY <1>1, <1>5 DEF HandleUnasked
  <2> QED BY <2>1, <2>2, AskHandled
<1>6. CASE EndIsLogged
  <2>1. /\ UNCHANGED <<question, asked, asking, queue, op>> /\ live' = NoRun /\ ev'.pc = "patchRun"
    BY <1>0, <1>6, EndIsCurrent DEF EndIsLogged, InductiveInv
  <2> QED BY <2>1 DEF AskInv, IsQuestion, EndBeingDecided
<1>7. CASE EndPatchesRun \/ EndClearsQuestion \/ EndSuspends
  <2>1. /\ ev.pc # "next" /\ live = NoRun /\ UNCHANGED <<asked, asking, live, op, queue>>
    BY <1>0, <1>7 DEF EndPatchesRun, EndClearsQuestion, EndSuspends, SettleInv, SettlingOwned
  <2>2. /\ question' # NoQuestion => EndBeingDecided'
        /\ ev'.pc = "decide" => question' = NoQuestion
        /\ question' \in {question, NoQuestion}
    BY <1>0, <1>7, <2>1 DEF EndPatchesRun, EndClearsQuestion, EndSuspends, ClearWaiting, AskInv,
       EndBeingDecided, SettleInv, SettlingOwned, QueueTypeOK
  <2> QED BY <2>1, <2>2, AskTypes DEF AskInv, IsQuestion, NoQuestion
<1>8. CASE EndOfClose \/ EndSuspended
  <2>1. /\ queue # <<>> /\ Dequeue /\ UNCHANGED <<asked, asking, live, proc, op, question>>
        /\ ev.pc \in {"decide", "suspend"}
    BY <1>8 DEF EndOfClose, EndSuspended, EndHandled, AtHead
  <2>2. question = NoQuestion
    BY <1>0, <2>1 DEF AskInv, EndBeingDecided, SettleInv, SettlingOwned
  <2> QED BY <2>1, <2>2, AskHandled
<1>9. ~EventStoreFails /\ ~EndStoreFails
  BY DEF EventStoreFails, EndStoreFails
<1> QED BY <1>2, <1>3, <1>4, <1>5, <1>6, <1>7, <1>8, <1>9 DEF HandlerStep

(* Nothing is pending or queued when the thread opens.                     *)
LEMMA InitAsks ==
  ASSUME Init
  PROVE  AskInv
BY DEF Init, AskInv, EndBeingDecided, IsQuestion, Free, NoEvent, NoQuestion, NoRun

(* Every step keeps what is known of the questions.                        *)
LEMMA AskInductive ==
  ASSUME InductiveInv, AskInv, ~MayFailStore, [Next]_vars
  PROVE  AskInv'
<1>0. /\ TypeOK /\ FreshInv /\ SettleInv /\ VerbInv /\ ProcessInv /\ op \in Ops
      /\ live \in Runs \union {NoRun} /\ NoRun \notin Runs /\ 1 \in Runs
      /\ asked \in Nat
  BY AskTypes DEF InductiveInv, Runs
<1>1. /\ question # NoQuestion => EndBeingDecided
      /\ ev.pc = "decide" => question = NoQuestion
      /\ \A r \in Runs : asking[r] <= asked
  BY DEF AskInv
<1>2. CASE UNCHANGED vars
  BY <1>1, <1>2, AskKept DEF vars, Alive, EndBeingDecided
<1>3. CASE Bystander
  BY <1>3, BystanderAsks
<1>4. CASE HandlerStep
  BY <1>4, HandlerAsks
<1>5. CASE StartDone
  <2>1. /\ settling = NoRun /\ op.run \in Runs /\ live' = op.run /\ op'.pc = "pid"
        /\ UNCHANGED <<question, asked, asking, queue, ev>>
    BY <1>0, <1>5 DEF StartDone, RunStarted, SettleInv, VerbWaits, StartPcs, VerbInv, Ops
  <2> QED BY <2>1, AskStarts
<1>6. CASE FreshStarted
  <2>1. /\ settling = NoRun /\ live' = 1
        /\ UNCHANGED <<question, asked, asking, queue, ev>>
        /\ UNCHANGED op \/ op'.pc = "stuck"
    BY <1>0, <1>6 DEF FreshStarted, RunStarted, FreshInv, Ops
  <2> QED BY <1>0, <2>1, AskStarts
<1>7. CASE FreshStart \/ FreshFails \/ FreshWritesPid
  <2>1. UNCHANGED <<question, asked, asking, queue, ev, op, live>>
    BY <1>7 DEF FreshStart, FreshFails, FreshWritesPid, BeginRun, StartFailed
  <2>2. \A r \in Runs : live = r /\ Alive(r)' => Alive(r)
    BY <1>0, <1>7 DEF FreshStart, FreshFails, FreshWritesPid, FreshInv, Alive
  <2> QED BY <1>1, <2>1, <2>2, AskKept DEF EndBeingDecided
<1>8. CASE Crash
  BY <1>0, <1>8 DEF Crash, AskInv, IsQuestion, Free, NoEvent, NoQuestion, EndBeingDecided
<1> QED BY <1>2, <1>3, <1>4, <1>5, <1>6, <1>7, <1>8 DEF Bystander, FreshStep

(* A question is handled at most once, and while one is pending the agent  *)
(* that asked it waits on it, unless word that it has stopped waiting is   *)
(* queued.                                                                 *)
THEOREM QuestionsOwned ==
  LockedStart /\ ~MayFailStore => (Spec => []AskInv)
<1> SUFFICES ASSUME LockedStart, ~MayFailStore PROVE Spec => []AskInv
  OBVIOUS
<1>1. Init => AskInv
  BY InitAsks
<1>2. InductiveInv /\ AskInv /\ [Next]_vars => AskInv'
  BY AskInductive
<1> QED BY <1>1, <1>2, RunsSettle, PTL DEF Spec

-----------------------------------------------------------------------------
(* What the idle sweep takes away.                                         *)

(* Nothing but the sweep itself, or the end of the process, ends its pass. *)
LEMMA PassEnds ==
  ASSUME [Next]_vars, sweep = "picked", sweep' = "off"
  PROVE  SweepEnds \/ SweepSkips \/ Crash
<1>1. CASE VerbBegins \/ VerbStep
  BY <1>1 DEF VerbBegins, Answer, Interrupt, Close, Continue, Handoff, SendMessage,
     VerbStep, ContinueCloses, CloseReturns, CloseLoads, CloseWrites, TellAgent,
     ContinueNotesFile, VerbStoreFails, HandoffInterrupts, HandoffWithoutRun,
     HandoffEndsRun, HandoffSuspended
<1>2. CASE SendStep
  BY <1>2 DEF SendStep, SendToLiveRun, SendWhileRunSettles, SendReadsRecord, Give, RunSettled,
     Refused, Promote, Wake, WakeWrite, StartRun, StartDone, StartFails, WritePid,
     Drained, SendStoreFails, ResumeCreatesRun, CreateRun
<1>3. CASE HandlerStep \/ FreshStep
  BY <1>3 DEF HandlerStep, HandleMessage, HandleAnswered, HandleTurn, HandleQuestion,
     HandleUnasked, EndIsLogged, EndPatchesRun, EndClearsQuestion, EndSuspends, EndOfClose,
     EndSuspended, EndHandled, EventStoreFails, EndStoreFails,
     FreshStep, FreshStart, FreshStarted, FreshFails, FreshWritesPid
<1>4. CASE \/ SweepStep \/ Archive \/ AdapterChoice
           \/ \E r \in Runs : ProcessEnds(r)
           \/ \E p \in Suspenders : SuspendStep(p)
           \/ BootStep
  BY <1>4 DEF SweepStep, TimePasses, SweepPicks, Archive,
     AdapterChoice, OrphanExits, Asks, Abandons, ProviderFails, Emits, ProcessEnds,
     SuspendStep, SuspendReads, SuspendEndsRuns, SuspendLoads, SuspendWrites, SuspendFails,
     BootStep, BootReapsRun, BootRunSwept, BootRunsSwept, BootSelectsRows, BootSuspended, BootSweepsRun
<1>5. CASE UNCHANGED vars
  BY <1>5 DEF vars
<1> QED BY <1>1, <1>2, <1>3, <1>4, <1>5 DEF Next

(* A run the sweep ends has no turn in flight, or a question pending.      *)
LEMMA SweepSpares ==
  ASSUME InductiveInv, WorkInv, AskInv, [Next]_vars, NEW r \in Runs,
         sweep = "picked", sweep' = "off", proc[r] = "up", proc'[r] = "closing"
  PROVE  \/ owed[r] = 0 \/ asking[r] # NoQuestion
         \/ \E i \in DOMAIN queue : queue[i].kind = "unasked"
<1>0. /\ live = r /\ live # NoRun /\ Alive(live)
      /\ owed[r] \in Nat /\ QueuedTurns(r) \in Nat /\ turnsInFlight \in Nat
  <2>1. Served(r)
    BY DEF Served
  <2>2. live = r
    BY <2>1, NoEndQueued DEF InductiveInv
  <2>3. queue \in Seq(Tasks) /\ owed[r] \in Nat /\ turnsInFlight \in Nat
    BY DEF InductiveInv, TypeOK, QueueTypeOK, AdapterTypeOK, MemoryTypeOK
  <2>4. QueuedTurns(r) \in Nat
    BY <2>3, TurnEndsFinite, FS_CardinalityType DEF QueuedTurns
  <2> QED BY <2>2, <2>3, <2>4 DEF Alive, Runs, NoRun
<1>1. SweepEnds
  <2>1. ~SweepSkips
    BY DEF SweepSkips
  <2>2. ~Crash
    BY DEF Crash, InductiveInv, AdapterTypeOK
  <2> QED BY <2>1, <2>2, PassEnds
<1>2. CASE turnsInFlight = 0
  BY <1>0, <1>2 DEF WorkInv, WorkAccounted
<1>3. CASE question # NoQuestion
  BY <1>0, <1>3 DEF AskInv, Withdrawn
<1> QED BY <1>1, <1>2, <1>3 DEF SweepEnds, IsIdle

(* The idle sweep never ends a run whose agent still owes an answer,       *)
(* unless that agent waits, or has just stopped waiting, on the user.      *)
THEOREM IdleSweepSpares ==
  LockedStart /\ ~MayFailStore => (Spec => IdleSweepSparesWork)
<1> SUFFICES ASSUME LockedStart, ~MayFailStore PROVE Spec => IdleSweepSparesWork
  OBVIOUS
<1> DEFINE Spares ==
      \A r \in Runs :
       (sweep = "picked" /\ sweep' = "off" /\ proc[r] = "up" /\ proc'[r] = "closing") =>
         \/ owed[r] = 0 \/ asking[r] # NoQuestion
         \/ \E i \in DOMAIN queue : queue[i].kind = "unasked"
<1>1. InductiveInv /\ WorkInv /\ AskInv /\ [Next]_vars => [Spares]_vars
  BY SweepSpares
<1>2. Spec => []WorkInv
  <2>1. Init => WorkInv
    BY DEF Init, WorkInv, WorkAccounted, Free
  <2>2. InductiveInv /\ WorkInv /\ [Next]_vars => WorkInv'
    BY WorkInductive
  <2> QED BY <2>1, <2>2, RunsSettle, PTL DEF Spec
<1> QED BY <1>1, <1>2, RunsSettle, QuestionsOwned, PTL DEF Spec, IdleSweepSparesWork

-----------------------------------------------------------------------------
(* What the record says of the question.                                   *)

(* Only the event queue changes the question that is pending.              *)
LEMMA QuestionFrame ==
  ASSUME Next, ~HandlerStep, ~Crash
  PROVE  UNCHANGED question
<1>1. CASE VerbBegins \/ VerbStep \/ FreshStep
  BY <1>1 DEF VerbBegins, Answer, Interrupt, Close, Continue, Handoff, SendMessage,
     VerbStep, ContinueCloses, CloseReturns, CloseLoads, CloseWrites, TellAgent,
     ContinueNotesFile, VerbStoreFails, HandoffInterrupts, HandoffWithoutRun,
     HandoffEndsRun, HandoffSuspended, FreshStep, FreshStart, FreshStarted, FreshFails,
     FreshWritesPid, BeginRun, RunStarted, StartFailed
<1>2. CASE SendStep
  BY <1>2 DEF SendStep, SendToLiveRun, SendWhileRunSettles, SendReadsRecord, Give, RunSettled,
     Refused, Promote, Wake, WakeWrite, StartRun, StartDone, StartFails, WritePid,
     BeginRun, RunStarted, StartFailed, Drained, SendStoreFails, ResumeCreatesRun, CreateRun
<1>3. CASE \/ SweepStep \/ Archive \/ AdapterChoice
           \/ \E r \in Runs : ProcessEnds(r)
           \/ \E p \in Suspenders : SuspendStep(p)
           \/ BootStep
  BY <1>3 DEF SweepStep, TimePasses, SweepPicks, SweepEnds, SweepSkips, Archive,
     AdapterChoice, OrphanExits, Asks, Abandons, ProviderFails, Emits, ProcessEnds,
     SuspendStep, SuspendReads, SuspendEndsRuns, SuspendLoads, SuspendWrites, SuspendFails,
     BootStep, BootReapsRun, BootRunSwept, BootRunsSwept, BootSelectsRows, BootSuspended, BootSweepsRun
<1> QED BY <1>1, <1>2, <1>3 DEF Next

(* Only the suspend of a thread nobody serves, at boot, writes of it that  *)
(* nobody waits for the user; no other suspend is given its reason.        *)
LEMMA WaitingFrame ==
  ASSUME InductiveInv, RecordInv, QuestionInv, Next, ~HandlerStep, ~Crash
  PROVE  /\ UNCHANGED waiting
         /\ \A p \in {"queue", "op"} : sus'[p].reason # "host_lost"
<1>0. /\ waiting \in BOOLEAN /\ sus \in [Suspenders -> Suspends] /\ sus["boot"].pc = "off"
      /\ boot = "served"
      /\ \A p \in {"queue", "op"} : sus[p].reason # "host_lost"
  BY DEF InductiveInv, TypeOK, RecordTypeOK, RecordInv, QuestionInv
<1>1. CASE VerbBegins \/ FreshStep
  BY <1>0, <1>1 DEF VerbBegins, Answer, Interrupt, Close, Continue, Handoff, SendMessage,
     FreshStep, FreshStart, FreshStarted, FreshFails, FreshWritesPid
<1>2. CASE VerbStep
  <2>1. CASE HandoffWithoutRun
    <3>1. PICK force \in BOOLEAN : SuspendFromVerb(force) /\ UNCHANGED waiting
      BY <2>1 DEF HandoffWithoutRun
    <3> QED BY <1>0, <3>1 DEF SuspendFromVerb, Suspenders
  <2>2. CASE HandoffSuspended
    BY <1>0, <2>2 DEF HandoffSuspended, NoSuspend, Suspenders
  <2> QED BY <1>0, <1>2, <2>1, <2>2 DEF VerbStep, ContinueCloses, CloseReturns, CloseLoads,
     CloseWrites, TellAgent, ContinueNotesFile, VerbStoreFails, HandoffInterrupts, HandoffEndsRun
<1>3. CASE SendStep
  BY <1>0, <1>3 DEF SendStep, SendToLiveRun, SendWhileRunSettles, SendReadsRecord, Give, RunSettled,
     Refused, Promote, Wake, WakeWrite, StartRun, StartDone, StartFails, WritePid,
     Drained, SendStoreFails, ResumeCreatesRun, CreateRun
<1>4. CASE SweepStep \/ Archive \/ AdapterChoice \/ \E r \in Runs : ProcessEnds(r)
  BY <1>0, <1>4 DEF SweepStep, TimePasses, SweepPicks, SweepEnds, SweepSkips, Archive,
     AdapterChoice, OrphanExits, Asks, Abandons, ProviderFails, Emits, ProcessEnds
<1>5. ASSUME NEW p \in Suspenders, SuspendStep(p)
      PROVE  /\ UNCHANGED waiting
             /\ \A q \in {"queue", "op"} : sus'[q].reason # "host_lost"
  <2>1. sus[p].pc # "off" /\ \E pc : SusGo(p, pc)
    BY <1>5 DEF SuspendStep, SuspendReads, SuspendEndsRuns, SuspendLoads, SuspendWrites,
       SuspendFails, SusAt
  <2>2. sus[p].reason # "host_lost"
    BY <1>0, <2>1 DEF Suspenders
  <2>3. \A q \in Suspenders : sus'[q].reason = sus[q].reason
    BY <1>0, <2>1 DEF SusGo, Suspends
  <2>4. UNCHANGED waiting
    BY <1>0, <1>5, <2>2 DEF SuspendStep, SuspendReads, SuspendEndsRuns, SuspendLoads,
       SuspendWrites, SuspendFails
  <2> QED BY <1>0, <2>3, <2>4 DEF Suspenders
<1>6. ~BootStep
  BY <1>0 DEF BootStep, BootReapsRun, BootRunSwept, BootRunsSwept, BootSelectsRows, BootSuspended, BootSweepsRun
<1> QED BY <1>1, <1>2, <1>3, <1>4, <1>5, <1>6 DEF Next

(* The event queue records a question as it becomes pending, and clears    *)
(* both together.                                                          *)
LEMMA HandlerRecordsQuestion ==
  ASSUME InductiveInv, AskInv, QuestionInv, ~MayFailStore, HandlerStep
  PROVE  QuestionInv'
<1>0. /\ waiting \in BOOLEAN /\ sus \in [Suspenders -> Suspends]
      /\ waiting <=> question # NoQuestion
      /\ \A p \in {"queue", "op"} : sus[p].reason # "host_lost"
      /\ pendingEndReason \in {"none", "idle", "handoff"}
  BY DEF InductiveInv, TypeOK, RecordTypeOK, MemoryTypeOK, QuestionInv
<1>1. CASE HandleMessage \/ HandleTurn \/ EndIsLogged \/ EndPatchesRun \/ EndOfClose
  BY <1>0, <1>1 DEF HandleMessage, HandleTurn, EndIsLogged, EndPatchesRun, EndOfClose, EndHandled,
     QuestionInv
<1>2. CASE HandleAnswered \/ HandleUnasked \/ EndClearsQuestion
  <2>1. UNCHANGED sus
    BY <1>2 DEF HandleAnswered, HandleUnasked, EndClearsQuestion
  <2>2. ClearWaiting \/ UNCHANGED <<question, waiting>>
    BY <1>2 DEF HandleAnswered, HandleUnasked, EndClearsQuestion
  <2> QED BY <1>0, <2>1, <2>2 DEF ClearWaiting, QuestionInv
<1>3. CASE HandleQuestion
  <2>1. Head(queue) = queue[1] /\ 1 \in DOMAIN queue /\ IsQuestion(1)
    BY <1>3, HeadTask, AskTypes DEF HandleQuestion, AtHead, IsQuestion
  <2>2. Head(queue).ask # NoQuestion
    BY <2>1 DEF AskInv, NoQuestion
  <2> QED BY <1>0, <1>3, <2>2 DEF HandleQuestion, QuestionInv
<1>4. CASE EndSuspends
  <2>1. sus'["queue"].reason \in {"run_ended", "idle", "handoff"} /\ sus'["op"] = sus["op"]
    BY <1>0, <1>4 DEF EndSuspends, Suspenders
  <2> QED BY <1>0, <1>4, <2>1 DEF EndSuspends, QuestionInv
<1>5. CASE EndSuspended
  <2>1. sus'["queue"].reason = "run_ended" /\ sus'["op"] = sus["op"]
    BY <1>0, <1>5 DEF EndSuspended, NoSuspend, Suspenders
  <2> QED BY <1>0, <1>5, <2>1 DEF EndSuspended, QuestionInv
<1>6. ~EventStoreFails /\ ~EndStoreFails
  BY DEF EventStoreFails, EndStoreFails
<1> QED BY <1>1, <1>2, <1>3, <1>4, <1>5, <1>6 DEF HandlerStep

(* The record says the user is waited for exactly while a question is      *)
(* pending, and no question outlives its run.  (A crash forgets the        *)
(* question and leaves waiting_since; a rejecting write leaves either.)    *)
THEOREM RecordKnowsQuestion ==
  LockedStart /\ ~MayFailStore => (Spec => [](crashes = 0 => QuestionOwned))
<1> SUFFICES ASSUME LockedStart, ~MayFailStore
             PROVE  Spec => [](crashes = 0 => QuestionOwned)
  OBVIOUS
<1>1. Init => (crashes = 0 => QuestionInv)
  BY DEF Init, QuestionInv, NoSuspend, Suspenders
<1>2. InductiveInv /\ AskInv /\ (crashes = 0 => RecordInv) /\ (crashes = 0 => QuestionInv)
        /\ [Next]_vars => (crashes = 0 => QuestionInv)'
  <2> SUFFICES ASSUME InductiveInv, AskInv, crashes = 0 => RecordInv, crashes = 0 => QuestionInv,
                      [Next]_vars, crashes' = 0
               PROVE  QuestionInv'
    OBVIOUS
  <2>1. CASE UNCHANGED vars
    BY <2>1 DEF vars, QuestionInv
  <2>2. CASE Next /\ Crash
    BY <2>2 DEF Crash, InductiveInv, SweepTypeOK
  <2>3. CASE Next /\ ~Crash
    <3>1. crashes = 0
      BY <2>3, OnlyCrashes
    <3>2. InductiveInv /\ AskInv /\ RecordInv /\ QuestionInv
      BY <3>1
    <3>3. CASE HandlerStep
      BY <3>2, <3>3, HandlerRecordsQuestion
    <3>4. CASE ~HandlerStep
      <4>1. UNCHANGED <<question, waiting>> /\ \A p \in {"queue", "op"} : sus'[p].reason # "host_lost"
        BY <2>3, <3>2, <3>4, QuestionFrame, WaitingFrame
      <4> QED BY <3>2, <4>1 DEF QuestionInv
    <3> QED BY <3>3, <3>4
  <2> QED BY <2>1, <2>2, <2>3
<1>3. AskInv /\ (crashes = 0 => QuestionInv) => (crashes = 0 => QuestionOwned)
  BY DEF AskInv, QuestionInv, QuestionOwned
<1> QED BY <1>1, <1>2, <1>3, RunsSettle, QuestionsOwned, RecordAgrees, PTL DEF Spec
=============================================================================
