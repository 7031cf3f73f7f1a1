---------------------------- MODULE FileOps_proofs ----------------------------
(***************************************************************************)
(* Proofs about FileOps, for any nodes, paths, requests and bounds: the    *)
(* types, no ordered deletion is forgotten, and a retried delete spares    *)
(* what came up after it was ordered.                                      *)
(*                                                                         *)
(* A request and a retry may be at work on the same op, and either may end *)
(* it.  So the invariant says of every op somebody carries that it agrees  *)
(* with the op of that number in the queue, if it is still there, and that *)
(* a deletion is in the queue or has its tombstone (Known); and of every   *)
(* task what its step has ascertained (Fits).                              *)
(***************************************************************************)
EXTENDS FileOps, TLAPS

Buried(f) == \E t \in tombs : t.file = f

Covered(f) == Buried(f) \/ \E op \in ops : op.kind = "delete" /\ op.file = f

\* An op as it is ordered.
Sound(o) ==
    /\ o.kind # "none" => o.from \in Paths
    /\ o.kind = "move" => o.to \in Paths
    /\ o.kind = "delete" => o.hash.id <= o.born

Known(o) ==
    /\ o.n <= made.ops
    /\ Sound(o)
    /\ o.kind = "delete" /\ o.n # 0 => Covered(o.file)
    /\ \A p \in ops : p.n = o.n => p.kind = o.kind /\ p.file = o.file

Queued == \A o \in ops : o.n # 0 /\ Known(o)

\* A row has a path.
Placed(r) == \A f \in Files : r[f] = NoFile \/ r[f].path \in Paths

Fits(w, t) ==
    /\ Known(t.op)
    /\ \A o \in t.todo : o.n # 0 /\ Known(o)
    /\ Placed(t.rows)
    /\ t.pc \in {"match", "stat", "rename", "copy", "unlink", "shadow", "update",
                 "remove", "drop", "audit", "complete"} => t.op.n # 0
    /\ t.pc \in {"vacant", "put", "insert"} => t.op.kind = "none" /\ t.op.to \in Paths
    /\ t.pc \in {"rename", "copy", "unlink", "shadow", "update"} => t.op.kind = "move"
    /\ t.pc \in {"remove", "drop"} => t.op.kind = "delete"
    /\ t.pc = "remove" /\ w = Sweep => t.seen = t.op.hash
    /\ t.pc = "complete" => Buried(t.op.file)
    /\ t.pc = "bury" => t.shadow \in Files
    /\ t.pc = "refresh" => \A f \in t.gone : t.rows[f] # NoFile

\* TypeOK but for the tasks.
Stores ==
    LET n == made.objects IN
    /\ made \in [files : 0 .. MaxFiles, objects : Nat, ops : Nat]
    /\ object \in [Paths -> Objects(n)]
    /\ file \in [Files -> Rows(n)]
    /\ ops \subseteq OpsUpTo(n)
    /\ tombs \subseteq [file : Files \cup {0}, path : Paths \cup {NoPath}]
    /\ lock \in [Paths -> Workers \cup {Nobody}]
    /\ dropped \subseteq Files \cup {0}
    /\ asked \in Nat /\ outside \in Nat /\ failures \in Nat
    /\ \A f, g \in Files : f # g /\ file[f].path = file[g].path => file[f].path = NoPath

OpsInv ==
    /\ Stores
    /\ Placed(file)
    /\ Queued
    /\ Tombstoned
    /\ \A w \in Workers : task[w] \in Tasks(made.objects) /\ Fits(w, task[w])
    /\ task \in [Workers -> Tasks(made.objects)]

USE FileOpsAssumption
    DEF At, Go, Becomes

(* More objects, more types.                                               *)
LEMMA TypesGrow ==
  ASSUME NEW n \in Nat, NEW m \in Nat, n <= m
  PROVE  /\ Objects(n) \subseteq Objects(m)
         /\ Rows(n) \subseteq Rows(m)
         /\ OpsUpTo(n) \subseteq OpsUpTo(m)
         /\ Tasks(n) \subseteq Tasks(m)
<1>1. Objects(n) \subseteq Objects(m)
  BY DEF Objects
<1>2. Rows(n) \subseteq Rows(m)
  BY <1>1 DEF Rows
<1>3. OpsUpTo(n) \subseteq OpsUpTo(m)
  BY <1>1 DEF OpsUpTo
<1>4. SUBSET OpsUpTo(n) \subseteq SUBSET OpsUpTo(m)
  BY <1>3
<1>5. [Paths -> Objects(n)] \subseteq [Paths -> Objects(m)]
  BY <1>1
<1>6. [Files -> Rows(n)] \subseteq [Files -> Rows(m)]
  BY <1>2
<1>7. Tasks(n) \subseteq Tasks(m)
  <2> HIDE DEF Go, Becomes
  <2> SUFFICES ASSUME NEW t \in Tasks(n) PROVE t \in Tasks(m)
    OBVIOUS
  <2>1. /\ t = [pc |-> t.pc, op |-> t.op, todo |-> t.todo, seen |-> t.seen,
                shadow |-> t.shadow, node |-> t.node, listed |-> t.listed,
                rows |-> t.rows, gone |-> t.gone, new |-> t.new]
        /\ t.pc \in PCs /\ t.op \in OpsUpTo(n) /\ t.todo \in SUBSET OpsUpTo(n)
        /\ t.seen \in Objects(n) /\ t.shadow \in Files \cup {0}
        /\ t.node \in Nodes \cup {NoNode} /\ t.listed \in [Paths -> Objects(n)]
        /\ t.rows \in [Files -> Rows(n)] /\ t.gone \in SUBSET Files
        /\ t.new \in SUBSET Paths
    BY DEF Tasks
  <2> QED
    BY <2>1, <1>1, <1>3, <1>4, <1>5, <1>6 DEF Tasks
<1> QED
  BY <1>1, <1>2, <1>3, <1>7

(* A task that is over fits.                                               *)
LEMMA IdleTask ==
  /\ \A n \in Nat : Idle \in Tasks(n)
  /\ NoOp.n = 0 /\ NoOp.kind = "none"
  /\ Idle.op = NoOp /\ Idle.todo = {} /\ Idle.pc = "idle" /\ Placed(Idle.rows)
  /\ \A n \in Nat : Nothing \in Objects(n) /\ NoFile \in Rows(n)
<1>1. \A n \in Nat : Nothing \in Objects(n)
  BY DEF Nothing, Objects
<1>2. \A n \in Nat : NoFile \in Rows(n)
  BY <1>1 DEF NoFile, Rows
<1>3. \A n \in Nat : NoOp \in OpsUpTo(n)
  BY <1>1 DEF NoOp, OpsUpTo, OpKinds
<1>4. NoOp.n = 0 /\ NoOp.kind = "none"
  BY DEF NoOp
<1>5. \A n \in Nat : Idle \in Tasks(n)
  BY <1>1, <1>2, <1>3 DEF Idle, Tasks, PCs
<1>6. Idle.op = NoOp /\ Idle.todo = {} /\ Idle.pc = "idle" /\ Placed(Idle.rows)
  BY DEF Idle, Placed
<1> QED
  BY <1>1, <1>2, <1>4, <1>5, <1>6

(* What a step leaves of the queue: numbers go up, an entry is as it was or *)
(* new, and a deletion stays covered.                                      *)
QueueGoesOn ==
    /\ made.ops <= made'.ops
    /\ tombs \subseteq tombs'
    /\ \A f \in Files \cup {0} : Covered(f) => Covered(f)'
    /\ \A p \in ops' :
          \/ p.n > made.ops
          \/ \E q \in ops : q.n = p.n /\ q.kind = p.kind /\ q.file = p.file

(* Then what was known of an op still is.                                  *)
LEMMA KnownStays ==
  ASSUME OpsInv, QueueGoesOn, made.objects \in Nat, made'.ops \in Nat,
         NEW o \in OpsUpTo(made.objects), Known(o)
  PROVE  Known(o)'
<1>1. o.n \in Nat /\ o.file \in Files \cup {0} /\ made.ops \in Nat
  BY DEF OpsUpTo, OpsInv, Stores
<1>2. \A p \in ops' : p.n = o.n => p.kind = o.kind /\ p.file = o.file
  BY <1>1 DEF QueueGoesOn, Known
<1>3. (\A p \in ops : p.n = o.n => p.kind = o.kind /\ p.file = o.file)'
  BY <1>2
<1> QED
  BY <1>1, <1>3 DEF QueueGoesOn, Known

(* And a task that fits still does.                                        *)
LEMMA FitsStays ==
  ASSUME OpsInv, QueueGoesOn, made'.ops \in Nat,
         NEW v, NEW t \in Tasks(made.objects), Fits(v, t)
  PROVE  Fits(v, t)'
<1>1. made.objects \in Nat
  BY DEF OpsInv, Stores
<1>2. t.op \in OpsUpTo(made.objects) /\ t.todo \subseteq OpsUpTo(made.objects)
  BY DEF Tasks
<1>3. Known(t.op)' /\ \A o \in t.todo : Known(o)'
  BY <1>1, <1>2, KnownStays DEF Fits
<1>4. Buried(t.op.file) => Buried(t.op.file)'
  BY DEF QueueGoesOn, Buried
<1> QED
  BY <1>3, <1>4 DEF Fits

(* The step of one worker.                                                 *)
LEMMA TaskSteps ==
  ASSUME OpsInv, NEW w \in Workers, NEW t, Becomes(w, t),
         Stores', Placed(file)', Queued', QueueGoesOn,
         made.objects <= made'.objects,
         t \in Tasks(made'.objects), Fits(w, t)',
         \A f \in dropped' \ dropped : Covered(f)'
  PROVE  OpsInv'
<1>1. /\ made.objects \in Nat /\ made'.objects \in Nat /\ made'.ops \in Nat
      /\ Tasks(made.objects) \subseteq Tasks(made'.objects)
  BY TypesGrow DEF OpsInv, Stores
<1>2. /\ task'[w] = t
      /\ \A v \in Workers \ {w} : task'[v] = task[v]
      /\ task' \in [Workers -> Tasks(made'.objects)]
  BY <1>1 DEF OpsInv
<1>3. ASSUME NEW v \in Workers PROVE Fits(v, task[v])'
  <2>1. CASE v = w
    BY <1>2, <2>1 DEF Fits
  <2>2. CASE v # w
    <3>1. task'[v] = task[v] /\ task[v] \in Tasks(made.objects) /\ Fits(v, task[v])
      BY <1>2, <2>2 DEF OpsInv
    <3> QED
      BY <3>1, <1>1, FitsStays
  <2> QED
    BY <2>1, <2>2
<1>4. Tombstoned'
  <2> SUFFICES ASSUME NEW f \in dropped' PROVE Covered(f)'
    BY DEF Tombstoned, Covered, Buried
  <2>1. f \in dropped => Covered(f)
    BY DEF OpsInv, Tombstoned, Covered, Buried
  <2> QED
    BY <2>1 DEF QueueGoesOn, OpsInv, Stores
<1> QED
  BY <1>2, <1>3, <1>4 DEF OpsInv

(* What is known of a worker's task.                                       *)
LEMMA Typed ==
  ASSUME OpsInv, NEW w \in Workers
  PROVE  /\ made.objects \in Nat /\ made.ops \in Nat /\ made.files \in 0 .. MaxFiles
         /\ task[w] \in Tasks(made.objects) /\ Fits(w, task[w])
         /\ task[w].op \in OpsUpTo(made.objects)
         /\ task[w].todo \subseteq OpsUpTo(made.objects)
         /\ task[w].node \in Nodes \cup {NoNode}
         /\ task[w].shadow \in Files \cup {0}
         /\ task[w].seen \in Objects(made.objects)
         /\ task[w].gone \subseteq Files /\ task[w].new \subseteq Paths
         /\ task[w].listed \in [Paths -> Objects(made.objects)]
         /\ task[w].rows \in [Files -> Rows(made.objects)]
<1>1. task[w] \in Tasks(made.objects) /\ Fits(w, task[w])
  BY DEF OpsInv
<1> QED
  BY <1>1 DEF OpsInv, Stores, Tasks

(* A step that leaves the queue and its tombstones alone.                  *)
LEMMA QueueRests ==
  ASSUME OpsInv, UNCHANGED <<ops, tombs>>, made'.ops = made.ops,
         made'.objects \in Nat, made.objects <= made'.objects
  PROVE  QueueGoesOn /\ Queued'
<1>1. made.ops \in Nat /\ made.objects \in Nat /\ ops \subseteq OpsUpTo(made.objects)
  BY DEF OpsInv, Stores
<1>2. QueueGoesOn
  BY <1>1 DEF QueueGoesOn, Covered, Buried
<1>3. \A o \in ops : o.n # 0 /\ Known(o)'
  BY <1>1, <1>2, KnownStays DEF OpsInv, Queued
<1> QED
  BY <1>2, <1>3 DEF Queued

(* The step of a worker that leaves the queue and its tombstones alone.    *)
LEMMA StoreSteps ==
  ASSUME OpsInv, NEW w \in Workers, NEW t \in Tasks(made'.objects), Becomes(w, t),
         UNCHANGED <<ops, tombs>>, made'.ops = made.ops,
         made.objects <= made'.objects,
         Stores', Placed(file)', Fits(w, t)',
         \A f \in dropped' \ dropped : Covered(f)
  PROVE  OpsInv'
<1>1. made.objects \in Nat /\ made'.objects \in Nat
  BY DEF OpsInv, Stores
<1>2. QueueGoesOn /\ Queued'
  BY <1>1, QueueRests
<1>3. \A f \in dropped' \ dropped : Covered(f)'
  BY DEF Covered, Buried
<1> QED
  BY <1>2, <1>3, TaskSteps

(* The step of a worker on its own.                                        *)
LEMMA TaskMoves ==
  ASSUME OpsInv, NEW w \in Workers, NEW t \in Tasks(made.objects), Becomes(w, t),
         UNCHANGED <<object, file, ops, tombs, made, dropped>>,
         lock' \in [Paths -> Workers \cup {Nobody}],
         asked' \in Nat, outside' \in Nat, failures' \in Nat,
         Fits(w, t)
  PROVE  OpsInv'
<1>1. Stores' /\ Placed(file)'
  BY DEF OpsInv, Stores, Placed
<1>2. made.objects \in Nat /\ made'.ops \in Nat
  BY DEF OpsInv, Stores
<1>4. t \in Tasks(made'.objects) /\ made.objects <= made'.objects
  BY <1>2
<1>3. Fits(w, t)'
  BY <1>2, QueueRests, FitsStays
<1> QED
  BY <1>1, <1>3, <1>4, StoreSteps

(* The retry goes on with an op that is known, or with the listing.        *)
LEMMA RetryTask ==
  ASSUME OpsInv, NEW w \in Workers, NEW n \in Nodes \cup {NoNode}, NEW todo,
         todo \subseteq OpsUpTo(made.objects),
         \A o \in todo : o.n # 0 /\ Known(o),
         RetryNext(w, n, todo)
  PROVE  \E t \in Tasks(made.objects) : Becomes(w, t) /\ Fits(w, t)
<1>1. made.objects \in Nat /\ made.ops \in Nat
  BY DEF OpsInv, Stores
<1>2. Idle \in Tasks(made.objects) /\ Placed(Idle.rows) /\ Known(Idle.op) /\ Idle.todo = {}
  BY <1>1, IdleTask DEF OpsInv, Known, Sound, Queued
<1>3. CASE todo = {}
  <2> DEFINE t == [Idle EXCEPT !.pc = "list", !.node = n]
  <2>1. t \in Tasks(made.objects)
    BY <1>2 DEF Tasks, PCs
  <2>2. t.pc = "list" /\ t.op = Idle.op /\ t.todo = {} /\ t.rows = Idle.rows
    BY <1>2 DEF Idle
  <2>3. Fits(w, t)
    BY <1>2, <2>2 DEF Fits
  <2> QED
    BY <1>3, <2>1, <2>3 DEF RetryNext
<1>4. ASSUME NEW o \in todo,
             Becomes(w, [Idle EXCEPT !.pc = "match", !.node = n, !.op = o,
                                     !.todo = todo \ {o}])
      PROVE  \E t \in Tasks(made.objects) : Becomes(w, t) /\ Fits(w, t)
  <2> DEFINE t == [Idle EXCEPT !.pc = "match", !.node = n, !.op = o, !.todo = todo \ {o}]
  <2>1. t \in Tasks(made.objects)
    BY <1>2 DEF Tasks, PCs
  <2>2. t.pc = "match" /\ t.op = o /\ t.todo = todo \ {o} /\ t.rows = Idle.rows
    BY <1>2 DEF Idle
  <2>3. Fits(w, t)
    BY <1>2, <2>2 DEF Fits
  <2> QED
    BY <1>4, <2>1, <2>3
<1> QED
  BY <1>3, <1>4 DEF RetryNext

(* An op that is over gives the lock back and makes way for the next.      *)
LEMMA OverTask ==
  ASSUME OpsInv, NEW w \in Workers, OpOver(w)
  PROVE  /\ lock' \in [Paths -> Workers \cup {Nobody}]
         /\ \E t \in Tasks(made.objects) : Becomes(w, t) /\ Fits(w, t)
<1>1. lock' \in [Paths -> Workers \cup {Nobody}]
  BY DEF OpOver, OpsInv, Stores
<1>2. CASE w = Sweep
  <2>1. RetryNext(w, task[w].node, task[w].todo)
    BY <1>2 DEF OpOver
  <2> QED
    BY <1>1, <2>1, Typed, RetryTask DEF Fits
<1>3. CASE w # Sweep
  <2>1. Becomes(w, Idle)
    BY <1>3 DEF OpOver
  <2>2. Known(NoOp)
    BY Typed, IdleTask DEF OpsInv, Known, Sound, Queued
  <2>3. Idle \in Tasks(made.objects) /\ Fits(w, Idle)
    BY <2>2, Typed, IdleTask DEF Fits
  <2> QED
    BY <1>1, <2>1, <2>3
<1> QED
  BY <1>2, <1>3

(* ... and nothing else changes.                                           *)
LEMMA OpGivesUp ==
  ASSUME OpsInv, NEW w \in Workers, OpOver(w),
         UNCHANGED <<object, file, ops, tombs, made, dropped>>,
         asked' \in Nat, outside' \in Nat, failures' \in Nat
  PROVE  OpsInv'
BY OverTask, TaskMoves

(* A task goes on to another step.                                         *)
LEMMA PcChanges ==
  ASSUME OpsInv, NEW w \in Workers, NEW pc \in PCs
  PROVE  LET t == [task[w] EXCEPT !.pc = pc] IN
         /\ t \in Tasks(made.objects)
         /\ t.pc = pc /\ t.op = task[w].op /\ t.todo = task[w].todo
         /\ t.rows = task[w].rows /\ t.seen = task[w].seen /\ t.gone = task[w].gone
         /\ t.shadow = task[w].shadow
BY Typed DEF Tasks

Order(pc, o) == [Idle EXCEPT !.pc = pc, !.op = o]

(* Somebody orders something: the first step of a request.                 *)
LEMMA RequestBegins ==
  ASSUME OpsInv, NEW w \in Workers, NEW o \in OpsUpTo(made.objects), NEW pc \in PCs,
         Becomes(w, Order(pc, o)),
         o.n = 0, Sound(o),
         pc \in {"lock", "enqueue"} \/ (pc = "vacant" /\ o.kind = "none" /\ o.to \in Paths),
         UNCHANGED <<object, file, ops, tombs, lock, made, dropped, outside, failures>>,
         asked' \in Nat
  PROVE  OpsInv'
<1> DEFINE t == Order(pc, o)
<1>1. made.objects \in Nat /\ Idle \in Tasks(made.objects) /\ Idle.todo = {} /\ Placed(Idle.rows)
  BY Typed, IdleTask
<1>2. t \in Tasks(made.objects)
  BY <1>1 DEF Tasks, Order
<1>3. t.pc = pc /\ t.op = o /\ t.todo = {} /\ t.rows = Idle.rows
  BY <1>1 DEF Idle, Order
<1>4. Known(o)
  BY Typed DEF OpsInv, Queued, Known, Sound
<1>5. Fits(w, t)
  BY <1>1, <1>3, <1>4 DEF Fits
<1>6. /\ lock' \in [Paths -> Workers \cup {Nobody}]
      /\ outside' \in Nat /\ failures' \in Nat
  BY DEF OpsInv, Stores
<1> QED
  BY <1>2, <1>5, <1>6, TaskMoves

(* Any of the orders of a user.                                            *)
LEMMA RequestStep ==
  ASSUME OpsInv, NEW w \in Requests,
         \/ \E f \in Files :
               Delete(w, f) \/ \E to \in Paths : Rename(w, f, to) \/ Move(w, f, to)
         \/ \E p \in Paths : Create(w, p)
  PROVE  OpsInv'
<1> w \in Workers
  BY DEF Workers
<1>1. made.objects \in Nat /\ asked \in Nat /\ Nothing \in Objects(made.objects)
  BY IdleTask DEF OpsInv, Stores
<1>2. ASSUME NEW f \in Files, Tracked(f)
      PROVE  file[f].path \in Paths /\ file[f].hash \in Objects(made.objects)
  BY <1>2 DEF OpsInv, Stores, Placed, Tracked, Rows
<1>3. ASSUME NEW f \in Files, Orders(w, f), NEW pc \in {"lock", "enqueue"}, NEW o,
             Becomes(w, Order(pc, o)), o \in OpsUpTo(made.objects), o.n = 0, Sound(o)
      PROVE  OpsInv'
  <2>1. asked' \in Nat /\ pc \in PCs
    BY <1>1, <1>3 DEF Orders, PCs
  <2>2. UNCHANGED <<object, file, ops, tombs, lock, made, dropped, outside, failures>>
    BY <1>3 DEF Orders
  <2> HIDE DEF Becomes
  <2> QED
    BY <1>3, <2>1, <2>2, RequestBegins
<1>5. ASSUME NEW f \in Files, Delete(w, f) PROVE OpsInv'
  <2>1. PICK o : o = DeleteOp(f)
    OBVIOUS
  <2>2. Orders(w, f) /\ Becomes(w, Order("enqueue", o))
    BY <1>5, <2>1 DEF Delete, Order
  <2>3. o \in OpsUpTo(made.objects) /\ o.n = 0 /\ Sound(o)
    BY <1>1, <1>2, <2>1, <2>2 DEF OpsUpTo, OpKinds, Objects, Orders, Sound, DeleteOp
  <2> HIDE DEF Becomes
  <2> QED
    BY <1>3, <2>2, <2>3
<1>6. ASSUME NEW f \in Files, NEW to \in Paths, Rename(w, f, to) \/ Move(w, f, to)
      PROVE  OpsInv'
  <2>1. PICK o : o = MoveOp(f, to)
    OBVIOUS
  <2>2. Orders(w, f) /\ (Becomes(w, Order("lock", o)) \/ Becomes(w, Order("enqueue", o)))
    BY <1>6, <2>1 DEF Rename, Move, Order
  <2>3. o \in OpsUpTo(made.objects) /\ o.n = 0 /\ Sound(o)
    BY <1>1, <1>2, <2>1, <2>2 DEF OpsUpTo, OpKinds, Orders, Sound, MoveOp
  <2> HIDE DEF Becomes
  <2> QED
    BY <1>3, <2>2, <2>3
<1>4. ASSUME NEW p \in Paths, Create(w, p) PROVE OpsInv'
  <2> DEFINE o == [NoOp EXCEPT !.to = p]
  <2>1. /\ Becomes(w, Order("vacant", o)) /\ asked' = asked + 1
        /\ UNCHANGED <<object, file, ops, tombs, lock, made, dropped, outside, failures>>
    BY <1>4 DEF Create, Order, Idle
  <2>2. o \in OpsUpTo(made.objects) /\ o.n = 0 /\ o.kind = "none" /\ o.to \in Paths
        /\ Sound(o)
    BY <1>1 DEF OpsUpTo, OpKinds, NoOp, Sound
  <2>3. asked' \in Nat /\ "vacant" \in PCs
    BY <1>1, <2>1 DEF PCs
  <2> HIDE DEF o, Becomes
  <2> QED
    BY <2>1, <2>2, <2>3, RequestBegins
<1> QED
  BY <1>4, <1>5, <1>6

(* A task that goes on on its own, to a step that promises no more.        *)
LEMMA JustGoes ==
  ASSUME OpsInv, NEW w \in Workers, NEW pc \in PCs, Go(w, pc),
         Fits(w, [task[w] EXCEPT !.pc = pc]),
         UNCHANGED <<object, file, ops, tombs, made, dropped>>,
         lock' \in [Paths -> Workers \cup {Nobody}],
         asked' \in Nat, outside' \in Nat, failures' \in Nat
  PROVE  OpsInv'
BY PcChanges, TaskMoves

LEMMA CountersTyped ==
  ASSUME OpsInv
  PROVE  /\ lock \in [Paths -> Workers \cup {Nobody}]
         /\ asked \in Nat /\ outside \in Nat /\ failures \in Nat
BY DEF OpsInv, Stores

(* The steps of a request or a retry that only look.                       *)
LEMMA LookingStep ==
  ASSUME OpsInv, NEW w \in Workers,
         LockPath(w) \/ Vacant(w) \/ Match(w) \/ StatMove(w) \/ StatDelete(w)
           \/ FindShadow(w)
  PROVE  OpsInv'
<1> DEFINE Goes(pc) == [task[w] EXCEPT !.pc = pc]
<1>0. Fits(w, task[w]) /\ {"enqueue", "put", "stat", "unlink", "shadow", "rename", "copy",
                           "drop", "remove", "update"} \subseteq PCs
  BY Typed DEF PCs
<1>1. CASE LockPath(w)
  <2>1. Fits(w, Goes("enqueue"))
    BY <1>0, <1>1, PcChanges DEF LockPath, Fits
  <2> QED
    BY <1>0, <1>1, <2>1, CountersTyped, JustGoes DEF LockPath
<1>2. CASE Vacant(w)
  <2>1. Fits(w, Goes("put")) /\ Idle \in Tasks(made.objects) /\ Fits(w, Idle)
    <3>1. Fits(w, Goes("put"))
      BY <1>0, <1>2, PcChanges DEF Vacant, Fits
    <3>2. Known(NoOp)
      BY Typed, IdleTask DEF OpsInv, Known, Sound, Queued
    <3> QED
      BY <3>1, <3>2, Typed, IdleTask DEF Fits
  <2> QED
    BY <1>0, <1>2, <2>1, CountersTyped, JustGoes, TaskMoves DEF Vacant
<1>3. CASE Match(w)
  <2>1. task[w].pc = "match" => Fits(w, Goes("stat"))
    BY <1>0, PcChanges DEF Fits
  <2> QED
    BY <1>0, <1>3, <2>1, CountersTyped, JustGoes, OpGivesUp DEF Match
<1>4. CASE StatMove(w)
  <2>1. \A pc \in {"unlink", "shadow", "rename", "copy"} : Fits(w, Goes(pc))
    BY <1>0, <1>4, PcChanges DEF StatMove, Fits
  <2> QED
    BY <1>0, <1>4, <2>1, CountersTyped, JustGoes, OpGivesUp DEF StatMove
<1>5. CASE StatDelete(w)
  <2>1. Fits(w, Goes("drop"))
    BY <1>0, <1>5, PcChanges DEF StatDelete, Fits
  <2>2. ASSUME ~ Foreign(w)
        PROVE  LET t == [task[w] EXCEPT !.seen = object[task[w].op.from], !.pc = "remove"]
               IN  t \in Tasks(made.objects) /\ Fits(w, t)
    <3> DEFINE t == [task[w] EXCEPT !.seen = object[task[w].op.from], !.pc = "remove"]
    <3>1. task[w].op.from \in Paths
      BY <1>0, <1>5 DEF Fits, Known, Sound, StatDelete
    <3>2. object[task[w].op.from] \in Objects(made.objects)
      BY <3>1 DEF OpsInv, Stores
    <3>3. t \in Tasks(made.objects)
      BY <1>0, <3>2, Typed DEF Tasks
    <3>4. /\ t.pc = "remove" /\ t.op = task[w].op /\ t.todo = task[w].todo
          /\ t.rows = task[w].rows /\ t.seen = object[task[w].op.from]
      BY Typed DEF Tasks
    <3>5. w = Sweep => t.seen = t.op.hash
      BY <2>2, <3>4 DEF Foreign
    <3>6. Fits(w, t)
      BY <1>0, <1>5, <3>4, <3>5 DEF Fits, StatDelete
    <3> QED
      BY <3>3, <3>6
  <2> QED
    BY <1>0, <1>5, <2>1, <2>2, CountersTyped, JustGoes, TaskMoves, OpGivesUp DEF StatDelete
<1>6. CASE FindShadow(w)
  <2>1. PICK g \in Files \cup {0} :
          Becomes(w, [task[w] EXCEPT !.shadow = g, !.pc = "update"])
    BY <1>6 DEF FindShadow, Holders
  <2> DEFINE t == [task[w] EXCEPT !.shadow = g, !.pc = "update"]
  <2>2. t \in Tasks(made.objects)
    BY <1>0, Typed DEF Tasks
  <2>3. /\ t.pc = "update" /\ t.op = task[w].op /\ t.todo = task[w].todo
        /\ t.rows = task[w].rows
    BY Typed DEF Tasks
  <2>4. Fits(w, t)
    BY <1>0, <1>6, <2>3 DEF Fits, FindShadow
  <2> QED
    BY <1>6, <2>1, <2>2, <2>4, CountersTyped, TaskMoves DEF FindShadow
<1> QED
  BY <1>1, <1>2, <1>3, <1>4, <1>5, <1>6

(* The steps of the sweep that only read.                                  *)
LEMMA ReadingStep ==
  ASSUME OpsInv, NEW w \in Workers,
         List(w) \/ ReadRows(w) \/ Confirm(w) \/ Forgotten(w) \/ Refreshed(w) \/ Swept(w)
  PROVE  OpsInv'
<1>0. /\ Fits(w, task[w]) /\ task[w] \in Tasks(made.objects) /\ made.objects \in Nat
      /\ {"rows", "confirm", "forget", "refresh", "adopt"} \subseteq PCs
      /\ Idle \in Tasks(made.objects) /\ Nothing \in Objects(made.objects)
      /\ NoFile \in Rows(made.objects)
  BY Typed, IdleTask DEF PCs
<1>1. Fits(w, Idle)
  <2>1. Known(NoOp)
    BY Typed, IdleTask DEF OpsInv, Known, Sound, Queued
  <2> QED
    BY <2>1, IdleTask DEF Fits
<1>2. CASE List(w)
  <2> DEFINE l == [p \in Paths |-> IF Here(w, p) THEN object[p] ELSE Nothing]
             t == [task[w] EXCEPT !.listed = l, !.pc = "rows"]
  <2>1. l \in [Paths -> Objects(made.objects)]
    BY <1>0 DEF OpsInv, Stores
  <2> HIDE DEF l
  <2>2. t \in Tasks(made.objects)
    BY <1>0, <2>1 DEF Tasks
  <2>3. t.pc = "rows" /\ t.op = task[w].op /\ t.todo = task[w].todo /\ t.rows = task[w].rows
    BY <1>0 DEF Tasks
  <2>4. Fits(w, t)
    BY <1>0, <2>3 DEF Fits
  <2>5. Becomes(w, t)
    BY <1>2 DEF List, l
  <2> QED
    BY <1>2, <2>2, <2>4, <2>5, CountersTyped, TaskMoves DEF List
<1>3. CASE ReadRows(w)
  <2> DEFINE rows == [f \in Files |->
                        IF Tracked(f) /\ Here(w, file[f].path) THEN file[f] ELSE NoFile]
             gone == Missing(rows, task[w].listed)
             t == [task[w] EXCEPT !.rows = rows, !.pc = "confirm", !.gone = gone]
  <2>1. rows \in [Files -> Rows(made.objects)] /\ Placed(rows) /\ gone \subseteq Files
    BY <1>0 DEF OpsInv, Stores, Placed, Missing
  <2>2. Becomes(w, t)
    BY <1>3 DEF ReadRows
  <2> HIDE DEF rows, gone
  <2>3. t \in Tasks(made.objects)
    BY <1>0, <2>1 DEF Tasks
  <2>4. t.pc = "confirm" /\ t.op = task[w].op /\ t.todo = task[w].todo /\ t.rows = rows
    BY <1>0 DEF Tasks
  <2>5. Fits(w, t)
    BY <1>0, <2>1, <2>4 DEF Fits
  <2> QED
    BY <1>3, <2>2, <2>3, <2>5, CountersTyped, TaskMoves DEF ReadRows
<1>4. CASE Confirm(w)
  <2> DEFINE gone == {f \in task[w].gone : object[task[w].rows[f].path] = Nothing}
             t == [task[w] EXCEPT !.gone = gone, !.pc = "forget"]
  <2>1. gone \subseteq Files /\ Becomes(w, t)
    BY <1>4, Typed DEF Confirm
  <2> HIDE DEF gone
  <2>2. t \in Tasks(made.objects)
    BY <1>0, <2>1 DEF Tasks
  <2>3. t.pc = "forget" /\ t.op = task[w].op /\ t.todo = task[w].todo /\ t.rows = task[w].rows
    BY <1>0 DEF Tasks
  <2>4. Fits(w, t)
    BY <1>0, <2>3 DEF Fits
  <2> QED
    BY <1>4, <2>1, <2>2, <2>4, CountersTyped, TaskMoves DEF Confirm
<1>5. CASE Forgotten(w)
  <2> DEFINE gone == Stale(task[w].rows, task[w].listed)
             t == [task[w] EXCEPT !.gone = gone, !.pc = "refresh"]
  <2>1. /\ gone \subseteq Files /\ \A f \in gone : task[w].rows[f] # NoFile
        /\ Becomes(w, t)
    BY <1>5 DEF Forgotten, Stale
  <2> HIDE DEF gone
  <2>2. t \in Tasks(made.objects)
    BY <1>0, <2>1 DEF Tasks
  <2>3. t.pc = "refresh" /\ t.op = task[w].op /\ t.todo = task[w].todo /\ t.rows = task[w].rows
        /\ t.gone = gone
    BY <1>0 DEF Tasks
  <2>4. Fits(w, t)
    BY <1>0, <2>1, <2>3 DEF Fits
  <2> QED
    BY <1>5, <2>1, <2>2, <2>4, CountersTyped, TaskMoves DEF Forgotten
<1>6. CASE Refreshed(w)
  <2> DEFINE new == {p \in Paths : task[w].listed[p] # Nothing /\ Holders(p) = {}}
             t == [Idle EXCEPT !.listed = task[w].listed, !.pc = "adopt", !.new = new]
  <2>1. Becomes(w, t)
    BY <1>6 DEF Refreshed
  <2>2. new \subseteq Paths
    OBVIOUS
  <2> HIDE DEF new
  <2>3. t \in Tasks(made.objects)
    BY <1>0, <2>2, Typed DEF Tasks
  <2>4. t.pc = "adopt" /\ t.op = Idle.op /\ t.todo = Idle.todo /\ t.rows = Idle.rows
    BY <1>0 DEF Tasks
  <2>5. Fits(w, t)
    BY <1>1, <2>4 DEF Fits
  <2> QED
    BY <1>6, <2>1, <2>3, <2>5, CountersTyped, TaskMoves DEF Refreshed
<1>7. CASE Swept(w)
  BY <1>0, <1>1, <1>7, CountersTyped, TaskMoves DEF Swept
<1> QED
  BY <1>2, <1>3, <1>4, <1>5, <1>6, <1>7

(* A sweep begins with what is in the queue.                               *)
LEMMA SweepBegins ==
  ASSUME OpsInv, NEW n \in Nodes, StartSweep(n)
  PROVE  OpsInv'
<1>1. Sweep \in Workers
  BY DEF Workers
<1> DEFINE todo == {op \in ops : NodeOf(op.from) = n}
<1>2. todo \subseteq OpsUpTo(made.objects) /\ \A o \in todo : o.n # 0 /\ Known(o)
  BY DEF OpsInv, Stores, Queued
<1>3. RetryNext(Sweep, n, todo)
  BY DEF StartSweep
<1> HIDE DEF todo
<1>4. \E t \in Tasks(made.objects) : Becomes(Sweep, t) /\ Fits(Sweep, t)
  BY <1>1, <1>2, <1>3, RetryTask
<1> QED
  BY <1>1, <1>4, CountersTyped, TaskMoves DEF StartSweep

Unique(r) == \A f, g \in Files : f # g /\ r[f].path = r[g].path => r[f].path = NoPath

(* The stores after a step that leaves the queue and its tombstones alone. *)
LEMMA StoresKept ==
  ASSUME OpsInv, UNCHANGED <<ops, tombs>>,
         made' \in [files : 0 .. MaxFiles, objects : Nat, ops : Nat],
         made.objects <= made'.objects,
         object' \in [Paths -> Objects(made'.objects)],
         file' \in [Files -> Rows(made'.objects)], Unique(file)',
         lock' \in [Paths -> Workers \cup {Nobody}],
         dropped' \subseteq Files \cup {0},
         asked' \in Nat, outside' \in Nat, failures' \in Nat
  PROVE  Stores'
<1>1. OpsUpTo(made.objects) \subseteq OpsUpTo(made'.objects)
  BY TypesGrow DEF OpsInv, Stores
<1> QED
  BY <1>1 DEF OpsInv, Stores, Unique

(* What the stores are before.                                             *)
LEMMA StoresTyped ==
  ASSUME OpsInv
  PROVE  /\ made \in [files : 0 .. MaxFiles, objects : Nat, ops : Nat]
         /\ object \in [Paths -> Objects(made.objects)]
         /\ file \in [Files -> Rows(made.objects)] /\ Unique(file) /\ Placed(file)
         /\ dropped \subseteq Files \cup {0}
         /\ Nothing \in Objects(made.objects) /\ NoFile \in Rows(made.objects)
         /\ NoFile.path = NoPath
         /\ \A r \in Rows(made.objects) :
               r.path \in Paths \cup {NoPath} /\ r.hash \in Objects(made.objects)
<1>1. made.objects \in Nat
  BY DEF OpsInv, Stores
<1> QED
  BY <1>1, IdleTask DEF OpsInv, Stores, Unique, NoFile, Rows

(* The step of a worker that writes to the remote.                         *)
LEMMA ObjectSteps ==
  ASSUME OpsInv, NEW w \in Workers, NEW t \in Tasks(made.objects), Becomes(w, t),
         UNCHANGED <<file, ops, tombs, made, dropped>>,
         object' \in [Paths -> Objects(made.objects)],
         lock' \in [Paths -> Workers \cup {Nobody}],
         asked' \in Nat, outside' \in Nat, failures' \in Nat,
         Fits(w, t)
  PROVE  OpsInv'
<1>1. Unique(file)' /\ Placed(file)'
  BY StoresTyped DEF Unique, Placed
<1>2. /\ made'.objects = made.objects /\ made.objects <= made.objects
      /\ t \in Tasks(made'.objects)
  BY StoresTyped
<1>3. Stores'
  BY <1>1, <1>2, StoresTyped, StoresKept
<1>4. Fits(w, t)'
  BY <1>2, StoresTyped, QueueRests, FitsStays
<1> QED
  BY <1>1, <1>2, <1>3, <1>4, StoreSteps

(* The step of a worker that writes rows.                                  *)
LEMMA RowSteps ==
  ASSUME OpsInv, NEW w \in Workers, NEW t \in Tasks(made.objects), Becomes(w, t),
         UNCHANGED <<object, ops, tombs>>,
         made' \in [files : 0 .. MaxFiles, objects : Nat, ops : Nat],
         made'.objects = made.objects, made'.ops = made.ops,
         file' \in [Files -> Rows(made.objects)], Unique(file)', Placed(file)',
         dropped' \subseteq Files \cup {0}, \A f \in dropped' \ dropped : Covered(f),
         lock' \in [Paths -> Workers \cup {Nobody}],
         asked' \in Nat, outside' \in Nat, failures' \in Nat,
         Fits(w, t)
  PROVE  OpsInv'
<1>1. /\ made.objects <= made'.objects /\ t \in Tasks(made'.objects)
      /\ object' \in [Paths -> Objects(made'.objects)]
      /\ file' \in [Files -> Rows(made'.objects)]
  BY StoresTyped
<1>2. Stores'
  BY <1>1, StoresKept
<1>3. Fits(w, t)'
  BY <1>1, StoresTyped, QueueRests, FitsStays
<1> QED
  BY <1>1, <1>2, <1>3, StoreSteps

(* A new row at a path that has none.                                      *)
LEMMA Inserted ==
  ASSUME OpsInv, NEW p \in Paths, NEW o \in Objects(made.objects), Holders(p) = {},
         Insert(p, o)
  PROVE  /\ made' \in [files : 0 .. MaxFiles, objects : Nat, ops : Nat]
         /\ made'.objects = made.objects /\ made'.ops = made.ops
         /\ file' \in [Files -> Rows(made.objects)] /\ Unique(file)' /\ Placed(file)'
<1> DEFINE row == [path |-> p, hash |-> o]
           id == made.files + 1
<1>1. /\ id \in Files /\ row \in Rows(made.objects) /\ row.path = p
      /\ file' = [file EXCEPT ![id] = row]
      /\ made' = [made EXCEPT !.files = id]
      /\ id \in 0 .. MaxFiles
  BY StoresTyped DEF Insert, Files, Rows
<1> HIDE DEF id, row
<1>2. \A f \in Files : file[f].path # p
  BY DEF Holders
<1> QED
  BY <1>1, <1>2, StoresTyped DEF Unique, Placed

(* A row is removed.                                                       *)
LEMMA Removed ==
  ASSUME OpsInv, NEW f \in Files \cup {0}, file' = [file EXCEPT ![f] = NoFile]
  PROVE  file' \in [Files -> Rows(made.objects)] /\ Unique(file)' /\ Placed(file)'
BY StoresTyped DEF Unique, Placed

(* A relocation's writes have the types of objects.                        *)
LEMMA Relocated ==
  ASSUME OpsInv, NEW o \in OpsUpTo(made.objects), Sound(o), o.kind = "move"
  PROVE  /\ Renamed(o) => object' \in [Paths -> Objects(made.objects)]
         /\ object' = [object EXCEPT ![o.to] = object[o.from]]
              => object' \in [Paths -> Objects(made.objects)]
         /\ object' = [object EXCEPT ![o.from] = Nothing]
              => object' \in [Paths -> Objects(made.objects)]
<1>1. o.from \in Paths /\ o.to \in Paths
  BY DEF Sound
<1> QED
  BY <1>1, StoresTyped DEF Renamed

(* A request or a retry writes to the remote, or gives up.                 *)
LEMMA WritingStep ==
  ASSUME OpsInv, NEW w \in Workers,
         \/ RenameObject(w) \/ CopyObject(w) \/ UnlinkSource(w) \/ RemoveObject(w)
         \/ AnswerLost(w)
  PROVE  OpsInv'
<1> DEFINE Goes(pc) == [task[w] EXCEPT !.pc = pc]
           op == task[w].op
<1>0. /\ Fits(w, task[w]) /\ {"unlink", "shadow", "drop"} \subseteq PCs
      /\ op \in OpsUpTo(made.objects) /\ Sound(op)
  BY Typed DEF PCs, Fits, Known
<1>1. \A pc \in {"unlink", "shadow", "drop"} : Goes(pc) \in Tasks(made.objects)
  BY <1>0, PcChanges
<1>2. CASE RenameObject(w)
  <2>1. op.kind = "move" /\ Fits(w, Goes("shadow"))
    BY <1>0, <1>2, PcChanges DEF RenameObject, Fits
  <2>2. CASE Renamed(op) /\ Go(w, "shadow") /\ UNCHANGED lock
    BY <1>0, <1>1, <1>2, <2>1, <2>2, Relocated, CountersTyped, ObjectSteps DEF RenameObject
  <2>3. CASE OpOver(w) /\ UNCHANGED object
    BY <1>2, <2>3, CountersTyped, OpGivesUp DEF RenameObject
  <2> QED
    BY <1>2, <2>2, <2>3 DEF RenameObject
<1>3. CASE CopyObject(w)
  <2>1. op.kind = "move" /\ Fits(w, Goes("unlink"))
    BY <1>0, <1>3, PcChanges DEF CopyObject, Fits
  <2>2. CASE object' = [object EXCEPT ![op.to] = object[op.from]] /\ Go(w, "unlink")
             /\ UNCHANGED lock
    BY <1>0, <1>1, <1>3, <2>1, <2>2, Relocated, CountersTyped, ObjectSteps DEF CopyObject
  <2>3. CASE OpOver(w) /\ UNCHANGED object
    BY <1>3, <2>3, CountersTyped, OpGivesUp DEF CopyObject
  <2> QED
    BY <1>3, <2>2, <2>3 DEF CopyObject
<1>4. CASE UnlinkSource(w)
  <2>1. op.kind = "move" /\ Fits(w, Goes("shadow"))
    BY <1>0, <1>4, PcChanges DEF UnlinkSource, Fits
  <2> QED
    BY <1>0, <1>1, <1>4, <2>1, Relocated, CountersTyped, ObjectSteps DEF UnlinkSource
<1>5. CASE RemoveObject(w)
  <2>1. op.from \in Paths /\ Fits(w, Goes("drop"))
    BY <1>0, <1>5, PcChanges DEF RemoveObject, Fits, Sound
  <2>2. object' \in [Paths -> Objects(made.objects)]
    BY <1>5, StoresTyped DEF RemoveObject
  <2> QED
    BY <1>0, <1>1, <1>5, <2>1, <2>2, CountersTyped, ObjectSteps DEF RemoveObject
<1>6. CASE AnswerLost(w)
  <2>1. object' \in [Paths -> Objects(made.objects)]
    <3>1. CASE At(w, "rename") /\ Renamed(op)
      BY <1>0, <3>1, Relocated DEF Fits
    <3>2. CASE At(w, "copy") /\ object' = [object EXCEPT ![op.to] = object[op.from]]
      BY <1>0, <3>2, Relocated DEF Fits
    <3>3. CASE At(w, "remove") /\ object' = [object EXCEPT ![op.from] = Nothing]
      BY <3>3, StoresTyped
    <3> QED
      BY <1>6, <3>1, <3>2, <3>3 DEF AnswerLost
  <2>2. PICK t \in Tasks(made.objects) : Becomes(w, t) /\ Fits(w, t)
    BY <1>6, OverTask DEF AnswerLost
  <2>3. /\ lock' \in [Paths -> Workers \cup {Nobody}] /\ failures' \in Nat
        /\ asked' \in Nat /\ outside' \in Nat
    BY <1>6, OverTask, CountersTyped DEF AnswerLost
  <2> QED
    BY <1>6, <2>1, <2>2, <2>3, ObjectSteps DEF AnswerLost
<1> QED
  BY <1>2, <1>3, <1>4, <1>5, <1>6

(* The object of a new file.                                               *)
LEMMA PutStep ==
  ASSUME OpsInv, NEW w \in Workers, Put(w)
  PROVE  OpsInv'
<1> DEFINE n == made.objects + 1
<1>1. PICK t : t = [task[w] EXCEPT !.pc = "insert", !.op.hash = NewObject]
  OBVIOUS
<1>2. /\ made' = [made EXCEPT !.objects = n] /\ Becomes(w, t)
      /\ object' = [object EXCEPT ![task[w].op.to] = NewObject]
      /\ UNCHANGED <<file, ops, tombs, lock, dropped, asked, outside, failures>>
      /\ task[w].pc = "put"
  BY <1>1 DEF Put
<1>3. /\ made.objects \in Nat /\ made.ops \in Nat /\ n \in Nat /\ made.objects <= n
      /\ made' \in [files : 0 .. MaxFiles, objects : Nat, ops : Nat]
      /\ made'.objects = n /\ made'.ops = made.ops
  BY <1>2, StoresTyped
<1>4. /\ Objects(made.objects) \subseteq Objects(n) /\ Rows(made.objects) \subseteq Rows(n)
      /\ OpsUpTo(made.objects) \subseteq OpsUpTo(n)
      /\ Tasks(made.objects) \subseteq Tasks(n)
  BY <1>3, TypesGrow
<1>5. NewObject \in Objects(n)
  BY <1>3 DEF NewObject, Objects
<1>6. /\ task[w] \in Tasks(n) /\ task[w].op \in OpsUpTo(n) /\ "insert" \in PCs
      /\ Fits(w, task[w])
  BY <1>4, Typed DEF PCs
<1>7. [task[w].op EXCEPT !.hash = NewObject] \in OpsUpTo(n)
  BY <1>5, <1>6 DEF OpsUpTo
<1>8. t \in Tasks(n)
  BY <1>1, <1>6, <1>7 DEF Tasks
<1>9. /\ t.pc = "insert" /\ t.todo = task[w].todo /\ t.rows = task[w].rows
      /\ t.op.kind = task[w].op.kind /\ t.op.to = task[w].op.to /\ t.op.n = task[w].op.n
      /\ t.op.file = task[w].op.file /\ t.op.from = task[w].op.from
  BY <1>1, <1>6 DEF Tasks, OpsUpTo
<1>10. Fits(w, t)
  BY <1>2, <1>6, <1>9 DEF Fits, Known, Sound
<1>11. Fits(w, t)'
  <2>1. Known(t.op)' /\ \A o \in t.todo : o.n # 0 /\ Known(o)'
    BY <1>2, <1>3, <1>10 DEF Fits, Known, Covered, Buried
  <2> QED
    BY <1>9, <1>10, <2>1 DEF Fits
<1>12. Unique(file)' /\ Placed(file)'
  BY <1>2, StoresTyped DEF Unique, Placed
<1>13. object' \in [Paths -> Objects(n)] /\ file' \in [Files -> Rows(n)]
  BY <1>2, <1>4, <1>5, StoresTyped
<1>14. Stores'
  BY <1>2, <1>3, <1>12, <1>13, StoresTyped, CountersTyped, StoresKept
<1>15. \A f \in dropped' \ dropped : Covered(f)
  BY <1>2
<1> QED
  BY <1>2, <1>3, <1>8, <1>11, <1>12, <1>14, <1>15, StoreSteps

(* The relocated row replaces the shadow row; no other row is there.       *)
LEMMA RowRelocated ==
  ASSUME OpsInv, NEW w \in Workers, UpdateRow(w), file' # file
  PROVE  file' \in [Files -> Rows(made.objects)] /\ Unique(file)' /\ Placed(file)'
<1> DEFINE op == task[w].op
           rest == [f \in Files |-> IF f = task[w].shadow THEN NoFile ELSE file[f]]
<1>1. op.to \in Paths
  BY Typed DEF UpdateRow, Fits, Known, Sound
<1>2. rest \in [Files -> Rows(made.objects)] /\ Unique(rest) /\ Placed(rest)
  BY StoresTyped DEF Unique, Placed
<1>3. CASE file' = rest
  BY <1>2, <1>3 DEF Unique, Placed
<1>4. CASE /\ file' = [rest EXCEPT ![op.file].path = op.to]
           /\ ~ \E g \in Files \ {op.file} : rest[g].path = op.to
  <2>1. PICK r : r = rest
    OBVIOUS
  <2>2. PICK row : row = [r[op.file] EXCEPT !.path = op.to]
    OBVIOUS
  <2>3. file' = [r EXCEPT ![op.file] = row]
    BY <1>4, <2>1, <2>2
  <2>4. op.file \in Files => row \in Rows(made.objects) /\ row.path = op.to
    BY <1>1, <1>2, <2>1, <2>2 DEF Rows
  <2>5. /\ r \in [Files -> Rows(made.objects)] /\ Unique(r) /\ Placed(r)
        /\ \A g \in Files \ {op.file} : r[g].path # op.to
    BY <1>2, <1>4, <2>1
  <2> QED
    BY <1>1, <2>3, <2>4, <2>5 DEF Unique, Placed
<1> QED
  BY <1>3, <1>4 DEF UpdateRow

(* A task that writes rows, or finds that it need not.                     *)
LEMMA RowWritingStep ==
  ASSUME OpsInv, NEW w \in Workers,
         \/ InsertCreated(w) \/ UpdateRow(w) \/ DropRow(w) \/ Forget(w)
         \/ Refresh(w) \/ Adopt(w)
  PROVE  OpsInv'
<1> DEFINE op == task[w].op
<1>0. /\ Fits(w, task[w]) /\ task[w] \in Tasks(made.objects)
      /\ {"audit", "bury"} \subseteq PCs /\ op \in OpsUpTo(made.objects)
      /\ Idle \in Tasks(made.objects)
  BY Typed, IdleTask DEF PCs
<1>1. Fits(w, Idle)
  <2>1. Known(NoOp)
    BY Typed, IdleTask DEF OpsInv, Known, Sound, Queued
  <2> QED
    BY <2>1, IdleTask DEF Fits
<1>2. /\ file \in [Files -> Rows(made.objects)] /\ Unique(file) /\ Placed(file)
      /\ made \in [files : 0 .. MaxFiles, objects : Nat, ops : Nat]
      /\ dropped \subseteq Files \cup {0}
  BY StoresTyped
<1>3. UNCHANGED <<file, made>> => /\ file' \in [Files -> Rows(made.objects)]
                                  /\ Unique(file)' /\ Placed(file)'
                                  /\ made'.objects = made.objects /\ made'.ops = made.ops
                                  /\ made' \in [files : 0 .. MaxFiles, objects : Nat, ops : Nat]
  BY <1>2 DEF Unique, Placed
<1>4. CASE InsertCreated(w)
  <2>1. op.to \in Paths /\ op.hash \in Objects(made.objects)
    BY <1>0, <1>4 DEF InsertCreated, Fits, OpsUpTo
  <2>2. /\ made' \in [files : 0 .. MaxFiles, objects : Nat, ops : Nat]
        /\ made'.objects = made.objects /\ made'.ops = made.ops
        /\ file' \in [Files -> Rows(made.objects)] /\ Unique(file)' /\ Placed(file)'
    BY <1>3, <1>4, <2>1, Inserted DEF InsertCreated
  <2> QED
    BY <1>0, <1>1, <1>2, <1>4, <2>2, CountersTyped, RowSteps DEF InsertCreated
<1>5. CASE UpdateRow(w)
  <2>1. CASE OpOver(w) /\ UNCHANGED file
    BY <1>5, <2>1, CountersTyped, OpGivesUp DEF UpdateRow
  <2>2. CASE Go(w, "audit") /\ UNCHANGED lock
    <3>1. /\ file' \in [Files -> Rows(made.objects)] /\ Unique(file)' /\ Placed(file)'
      BY <1>2, <1>3, <1>5, RowRelocated DEF UpdateRow
    <3> DEFINE t == [task[w] EXCEPT !.pc = "audit"]
    <3>2. "audit" \in PCs /\ task[w].pc = "update" /\ Fits(w, task[w])
      BY <1>0, <1>5 DEF UpdateRow, At, PCs
    <3>3. /\ t \in Tasks(made.objects) /\ t.pc = "audit" /\ t.op = op
          /\ t.todo = task[w].todo /\ t.rows = task[w].rows
      BY <3>2, PcChanges
    <3> HIDE DEF t
    <3>4. Fits(w, t)
      BY <3>2, <3>3 DEF Fits
    <3> USE DEF t
    <3> QED
      BY <1>2, <1>5, <2>2, <3>1, <3>3, <3>4, CountersTyped, RowSteps DEF UpdateRow
  <2> QED
    BY <1>5, <2>1, <2>2 DEF UpdateRow
<1>6. CASE DropRow(w)
  <2>1. op.file \in Files \cup {0} /\ Covered(op.file)
    BY <1>0, <1>6 DEF DropRow, Fits, Known, OpsUpTo
  <2>2. /\ file' \in [Files -> Rows(made.objects)] /\ Unique(file)' /\ Placed(file)'
    BY <1>6, <2>1, Removed DEF DropRow
  <2>3. [task[w] EXCEPT !.pc = "audit"] \in Tasks(made.objects)
        /\ Fits(w, [task[w] EXCEPT !.pc = "audit"])
    BY <1>0, <1>6, PcChanges DEF DropRow, Fits
  <2>4. dropped' \subseteq Files \cup {0} /\ \A f \in dropped' \ dropped : Covered(f)
    BY <1>2, <1>6, <2>1 DEF DropRow
  <2> QED
    BY <1>2, <1>6, <2>2, <2>3, <2>4, CountersTyped, RowSteps DEF DropRow
<1>7. CASE Forget(w)
  <2>1. PICK f \in task[w].gone :
          /\ file' = [file EXCEPT ![f] = NoFile]
          /\ Becomes(w, [task[w] EXCEPT !.shadow = f, !.gone = @ \ {f}, !.pc = "bury"])
    BY <1>7 DEF Forget
  <2> DEFINE t == [task[w] EXCEPT !.shadow = f, !.gone = task[w].gone \ {f}, !.pc = "bury"]
  <2>2. f \in Files /\ Becomes(w, t)
    BY <2>1, Typed
  <2>3. t \in Tasks(made.objects)
    BY <1>0, <2>2 DEF Tasks
  <2>4. /\ t.pc = "bury" /\ t.op = task[w].op /\ t.todo = task[w].todo
        /\ t.rows = task[w].rows /\ t.shadow = f
    BY <1>0 DEF Tasks
  <2>5. Fits(w, t)
    BY <1>0, <2>2, <2>4 DEF Fits
  <2>6. /\ file' \in [Files -> Rows(made.objects)] /\ Unique(file)' /\ Placed(file)'
    BY <2>1, <2>2, Removed
  <2> QED
    BY <1>2, <1>7, <2>2, <2>3, <2>5, <2>6, CountersTyped, RowSteps DEF Forget
<1>8. CASE Refresh(w)
  <2>1. PICK f \in task[w].gone :
          /\ file' = IF Tracked(f)
                     THEN [file EXCEPT ![f].hash = task[w].listed[task[w].rows[f].path]]
                     ELSE file
          /\ Becomes(w, [task[w] EXCEPT !.gone = @ \ {f}])
    BY <1>8 DEF Refresh
  <2> DEFINE t == [task[w] EXCEPT !.gone = task[w].gone \ {f}]
  <2>2. f \in Files /\ Becomes(w, t) /\ task[w].rows[f].path \in Paths
    BY <1>0, <1>8, <2>1, Typed DEF Refresh, Fits, Placed
  <2>3. t \in Tasks(made.objects)
    BY <1>0, <2>2 DEF Tasks
  <2>4. /\ t.pc = task[w].pc /\ t.op = task[w].op /\ t.todo = task[w].todo
        /\ t.rows = task[w].rows /\ t.seen = task[w].seen
        /\ t.shadow = task[w].shadow /\ t.gone \subseteq task[w].gone
    BY <1>0 DEF Tasks
  <2>5. Fits(w, t)
    BY <1>0, <2>4 DEF Fits
  <2>6. PICK h \in Objects(made.objects) : h = task[w].listed[task[w].rows[f].path]
    BY <2>2, Typed
  <2>7. /\ file' \in [Files -> Rows(made.objects)] /\ Unique(file)' /\ Placed(file)'
    <3>1. CASE Tracked(f)
      <4>1. [file[f] EXCEPT !.hash = h] \in Rows(made.objects)
            /\ [file[f] EXCEPT !.hash = h].path = file[f].path /\ file[f].path \in Paths
        BY <1>2, <2>2, <3>1 DEF Rows, Placed, Tracked
      <4>2. file' = [file EXCEPT ![f] = [file[f] EXCEPT !.hash = h]]
        BY <2>1, <2>6, <3>1
      <4> QED
        BY <1>2, <2>2, <4>1, <4>2 DEF Unique, Placed
    <3>2. CASE ~ Tracked(f)
      BY <1>2, <2>1, <3>2 DEF Unique, Placed
    <3> QED
      BY <3>1, <3>2
  <2> QED
    BY <1>2, <1>8, <2>2, <2>3, <2>5, <2>7, CountersTyped, RowSteps DEF Refresh
<1>9. CASE Adopt(w)
  <2>1. PICK p \in task[w].new :
          /\ IF Holders(p) = {} THEN Insert(p, task[w].listed[p]) ELSE UNCHANGED <<file, made>>
          /\ Becomes(w, [task[w] EXCEPT !.new = @ \ {p}])
    BY <1>9 DEF Adopt
  <2> DEFINE t == [task[w] EXCEPT !.new = task[w].new \ {p}]
  <2>2. p \in Paths /\ Becomes(w, t) /\ task[w].listed[p] \in Objects(made.objects)
    BY <2>1, Typed
  <2>3. t \in Tasks(made.objects)
    BY <1>0 DEF Tasks
  <2>4. /\ t.pc = task[w].pc /\ t.op = task[w].op /\ t.todo = task[w].todo
        /\ t.rows = task[w].rows /\ t.seen = task[w].seen
        /\ t.shadow = task[w].shadow /\ t.gone = task[w].gone
    BY <1>0 DEF Tasks
  <2>5. Fits(w, t)
    BY <1>0, <2>4 DEF Fits
  <2>6. /\ made' \in [files : 0 .. MaxFiles, objects : Nat, ops : Nat]
        /\ made'.objects = made.objects /\ made'.ops = made.ops
        /\ file' \in [Files -> Rows(made.objects)] /\ Unique(file)' /\ Placed(file)'
    BY <1>3, <2>1, <2>2, Inserted
  <2> QED
    BY <1>2, <1>9, <2>2, <2>3, <2>5, <2>6, CountersTyped, RowSteps DEF Adopt
<1> QED
  BY <1>4, <1>5, <1>6, <1>7, <1>8, <1>9

(* The intent enters the queue, under a number of its own.                 *)
LEMMA EnqueueStep ==
  ASSUME OpsInv, NEW w \in Workers, Enqueue(w)
  PROVE  OpsInv'
<1> DEFINE n == made.ops + 1
<1>1. PICK o : o = [task[w].op EXCEPT !.n = n]
  OBVIOUS
<1>2. PICK t : t = [task[w] EXCEPT !.op = o, !.pc = "stat"]
  OBVIOUS
<1>3. /\ made' = [made EXCEPT !.ops = n] /\ ops' = ops \cup {o} /\ Becomes(w, t)
      /\ UNCHANGED <<object, file, tombs, lock, dropped, asked, outside, failures>>
  BY <1>1, <1>2 DEF Enqueue
<1>4. /\ made.objects \in Nat /\ made.ops \in Nat /\ n \in Nat /\ made.ops < n
      /\ made' \in [files : 0 .. MaxFiles, objects : Nat, ops : Nat]
      /\ made'.objects = made.objects /\ made'.ops = n
  BY <1>3, StoresTyped
<1>5. /\ o \in OpsUpTo(made.objects) /\ o.n = n /\ o.kind = task[w].op.kind
      /\ o.file = task[w].op.file /\ o.from = task[w].op.from /\ o.to = task[w].op.to
      /\ o.hash = task[w].op.hash /\ o.born = task[w].op.born
  BY <1>1, <1>4, Typed DEF OpsUpTo
<1>6. QueueGoesOn
  BY <1>3, <1>4, <1>5 DEF QueueGoesOn, Covered, Buried
<1>7. ops \subseteq OpsUpTo(made.objects) /\ \A p \in ops : p.n # 0 /\ Known(p)
  BY DEF OpsInv, Stores, Queued
<1>8. Known(o)'
  <2>1. Sound(o)
    BY <1>5, Typed DEF Fits, Known, Sound
  <2>2. \A p \in ops : p.n # o.n
    BY <1>4, <1>5, <1>7 DEF Known, OpsUpTo
  <2>3. \A p \in ops' : p.n = o.n => p = o
    BY <1>3, <2>2
  <2>4. o.kind = "delete" => Covered(o.file)'
    BY <1>3 DEF Covered
  <2>5. o.n <= made'.ops
    BY <1>4, <1>5
  <2> QED
    BY <2>1, <2>3, <2>4, <2>5 DEF Known, Sound
<1>9. Queued'
  <2>1. \A p \in ops : Known(p)'
    BY <1>4, <1>6, <1>7, KnownStays
  <2>2. o.n # 0
    BY <1>4, <1>5
  <2> QED
    BY <1>3, <1>7, <1>8, <2>1, <2>2 DEF Queued
<1>10. Stores' /\ Placed(file)'
  BY <1>3, <1>4, <1>5 DEF OpsInv, Stores, Placed
<1>11. t \in Tasks(made'.objects) /\ made.objects <= made'.objects
  <2>1. task[w] \in Tasks(made.objects) /\ "stat" \in PCs
    BY Typed DEF PCs
  <2>2. t \in Tasks(made.objects)
    BY <1>2, <1>5, <2>1 DEF Tasks
  <2> QED
    BY <1>4, <2>2
<1>12. t.pc = "stat" /\ t.op = o /\ t.todo = task[w].todo /\ t.rows = task[w].rows
  BY <1>2, Typed DEF Tasks
<1>13. Fits(w, t)'
  <2>1. \A p \in t.todo : p.n # 0 /\ Known(p)'
    BY <1>4, <1>6, <1>12, Typed, KnownStays DEF Fits
  <2>2. Placed(t.rows) /\ o.n # 0
    BY <1>4, <1>5, <1>12, Typed DEF Fits
  <2> QED
    BY <1>8, <1>12, <2>1, <2>2 DEF Fits, Placed
<1>14. \A f \in dropped' \ dropped : Covered(f)'
  BY <1>3
<1> QED
  BY <1>3, <1>6, <1>9, <1>10, <1>11, <1>13, <1>14, TaskSteps

(* A worker whose op is over changed the queue.                            *)
LEMMA QueueSteps ==
  ASSUME OpsInv, NEW w \in Workers, OpOver(w), QueueGoesOn, Queued',
         ops' \subseteq OpsUpTo(made.objects), failures' \in Nat,
         UNCHANGED <<object, file, tombs, made, dropped, asked, outside>>
  PROVE  OpsInv'
<1>1. PICK t \in Tasks(made.objects) : Becomes(w, t) /\ Fits(w, t)
  BY OverTask
<1>2. lock' \in [Paths -> Workers \cup {Nobody}]
  BY OverTask
<1>3. Stores' /\ Placed(file)'
  BY <1>2 DEF OpsInv, Stores, Placed
<1>4. made.objects \in Nat /\ made.ops \in Nat
  BY StoresTyped
<1>5. Fits(w, t)'
  BY <1>1, <1>4, FitsStays
<1>6. t \in Tasks(made'.objects) /\ made.objects <= made'.objects
  BY <1>1, <1>4
<1>7. \A f \in dropped' \ dropped : Covered(f)'
  OBVIOUS
<1> QED
  BY <1>1, <1>3, <1>5, <1>6, <1>7, TaskSteps

(* The op leaves the queue, when its tombstone is written.                 *)
LEMMA CompleteStep ==
  ASSUME OpsInv, NEW w \in Workers, Complete(w)
  PROVE  OpsInv'
<1> DEFINE op == task[w].op
<1>1. /\ ops' = {p \in ops : p.n # op.n} /\ OpOver(w) /\ Buried(op.file) /\ Known(op)
      /\ UNCHANGED <<object, file, tombs, made, dropped, asked, outside, failures>>
  BY Typed DEF Complete, Fits
<1>2. ASSUME NEW f, Covered(f) PROVE Covered(f)'
  <2>1. CASE Buried(f)
    BY <1>1, <2>1 DEF Covered, Buried
  <2>2. ASSUME NEW p \in ops, p.kind = "delete", p.file = f PROVE Covered(f)'
    <3>1. p.n = op.n => f = op.file
      BY <1>1, <2>2 DEF Known
    <3>2. CASE p.n = op.n
      BY <1>1, <3>1, <3>2 DEF Covered, Buried
    <3>3. CASE p.n # op.n
      BY <1>1, <2>2, <3>3 DEF Covered
    <3> QED
      BY <3>2, <3>3
  <2> QED
    BY <1>2, <2>1, <2>2 DEF Covered
<1>3. /\ made.objects \in Nat /\ made.ops \in Nat /\ ops \subseteq OpsUpTo(made.objects)
      /\ \A p \in ops : p.n # 0 /\ Known(p)
  BY DEF OpsInv, Stores, Queued
<1>4. QueueGoesOn
  BY <1>1, <1>2, <1>3 DEF QueueGoesOn
<1>5. Queued'
  BY <1>1, <1>3, <1>4, KnownStays DEF Queued
<1> QED
  BY <1>1, <1>3, <1>4, <1>5, CountersTyped, QueueSteps

(* The note that a copy landed changes nothing else of the op.             *)
LEMMA UnlinkFailsStep ==
  ASSUME OpsInv, NEW w \in Workers, UnlinkFails(w)
  PROVE  OpsInv'
<1>1. /\ OpOver(w) /\ failures' = failures + 1
      /\ UNCHANGED <<object, file, tombs, made, dropped, asked, outside>>
      /\ \A p \in ops' : \E q \in ops : p = q \/ p = [q EXCEPT !.copied = TRUE]
      /\ \A q \in ops : \E p \in ops' : p = q \/ p = [q EXCEPT !.copied = TRUE]
  BY DEF UnlinkFails
<1>2. /\ made.objects \in Nat /\ made.ops \in Nat /\ ops \subseteq OpsUpTo(made.objects)
      /\ \A p \in ops : p.n # 0 /\ Known(p)
  BY DEF OpsInv, Stores, Queued
<1>3. ASSUME NEW q \in ops, NEW p, p = q \/ p = [q EXCEPT !.copied = TRUE]
      PROVE  /\ p \in OpsUpTo(made.objects)
             /\ p.n = q.n /\ p.kind = q.kind /\ p.file = q.file /\ p.from = q.from
             /\ p.to = q.to /\ p.hash = q.hash /\ p.born = q.born
  BY <1>2, <1>3 DEF OpsUpTo
<1>4. QueueGoesOn
  <2>1. \A f : Covered(f) => Covered(f)'
    BY <1>1, <1>3 DEF Covered, Buried
  <2> QED
    BY <1>1, <1>2, <1>3, <2>1 DEF QueueGoesOn
<1>5. \A q \in ops : q.n # 0 /\ Known(q)'
  BY <1>1, <1>2, <1>4, KnownStays
<1>6. ASSUME NEW p \in ops' PROVE p \in OpsUpTo(made.objects) /\ p.n # 0 /\ Known(p)'
  <2>1. PICK q \in ops : p = q \/ p = [q EXCEPT !.copied = TRUE]
    BY <1>1
  <2> QED
    BY <1>3, <1>5, <2>1 DEF Known, Sound
<1>7. Queued' /\ ops' \subseteq OpsUpTo(made.objects) /\ failures' \in Nat
  BY <1>1, <1>6, CountersTyped DEF Queued
<1> QED
  BY <1>1, <1>4, <1>7, QueueSteps

(* A tombstone is written.                                                 *)
LEMMA BurialStep ==
  ASSUME OpsInv, NEW w \in Workers, Audit(w) \/ Bury(w)
  PROVE  OpsInv'
<1>1. PICK t, tomb :
        /\ Becomes(w, t) /\ tombs' = tombs \cup {tomb}
        /\ \/ /\ Audit(w) /\ t = [task[w] EXCEPT !.pc = "complete"]
              /\ tomb = [file |-> task[w].op.file, path |-> task[w].op.from]
           \/ /\ Bury(w) /\ t = [task[w] EXCEPT !.shadow = 0, !.pc = "forget"]
              /\ tomb = [file |-> task[w].shadow,
                         path |-> task[w].rows[task[w].shadow].path]
        /\ UNCHANGED <<object, file, ops, lock, made, dropped, asked, outside, failures>>
  BY DEF Audit, Bury
<1>2. t \in Tasks(made.objects)
  BY ZenonT(60), <1>1, Typed DEF Tasks, PCs
<1>3. tomb \in [file : Files \cup {0}, path : Paths \cup {NoPath}]
  <2>1. CASE Audit(w) /\ tomb = [file |-> task[w].op.file, path |-> task[w].op.from]
    BY <2>1, Typed DEF OpsUpTo
  <2>2. CASE Bury(w) /\ tomb = [file |-> task[w].shadow,
                                path |-> task[w].rows[task[w].shadow].path]
    BY <2>2, Typed DEF Bury, Fits, Rows
  <2> QED
    BY <1>1, <2>1, <2>2
<1>4. /\ made.objects \in Nat /\ made.ops \in Nat /\ ops \subseteq OpsUpTo(made.objects)
      /\ \A p \in ops : p.n # 0 /\ Known(p)
  BY DEF OpsInv, Stores, Queued
<1>5. QueueGoesOn
  BY <1>1, <1>4 DEF QueueGoesOn, Covered, Buried
<1>6. Queued'
  BY <1>1, <1>4, <1>5, KnownStays DEF Queued
<1>7. Stores' /\ Placed(file)'
  BY <1>1, <1>3 DEF OpsInv, Stores, Placed
<1>8. Fits(w, t)'
  <2>1. PICK u : u = task[w]
    OBVIOUS
  <2>2. u \in Tasks(made.objects) /\ Fits(w, u)
    BY <2>1, Typed
  <2>3. Fits(w, u)'
    BY <1>1, <1>4, <1>5, <2>2, FitsStays
  <2>4. CASE Audit(w) /\ t = [u EXCEPT !.pc = "complete"]
                     /\ tomb = [file |-> u.op.file, path |-> u.op.from]
    <3>1. /\ t.pc = "complete" /\ t.op = u.op /\ t.todo = u.todo /\ t.rows = u.rows
          /\ u.op.n # 0
      BY <2>1, <2>2, <2>4 DEF Tasks, Fits, Audit
    <3>2. Buried(t.op.file)'
      BY <1>1, <2>4, <3>1 DEF Buried
    <3> QED
      BY <2>3, <3>1, <3>2 DEF Fits
  <2>5. CASE t = [u EXCEPT !.shadow = 0, !.pc = "forget"]
    <3>1. t.pc = "forget" /\ t.op = u.op /\ t.todo = u.todo /\ t.rows = u.rows
      BY <2>2, <2>5 DEF Tasks
    <3> QED
      BY <2>3, <3>1 DEF Fits
  <2> QED
    BY <1>1, <2>1, <2>4, <2>5
<1>9. t \in Tasks(made'.objects) /\ made.objects <= made'.objects
  BY <1>1, <1>2, <1>4
<1>10. \A f \in dropped' \ dropped : Covered(f)'
  BY <1>1
<1> QED
  BY <1>1, <1>5, <1>6, <1>7, <1>8, <1>9, <1>10, TaskSteps

(* A task that is over fits its worker.                                    *)
LEMMA IdleFits ==
  ASSUME OpsInv, NEW w \in Workers
  PROVE  Idle \in Tasks(made.objects) /\ Fits(w, Idle)
<1>1. Known(NoOp)
  BY Typed, IdleTask DEF OpsInv, Known, Sound, Queued
<1> QED
  BY <1>1, Typed, IdleTask DEF Fits

(* A call fails before it did anything.                                    *)
LEMMA FailingStep ==
  ASSUME OpsInv, NEW w \in Workers, RemoteFails(w)
  PROVE  OpsInv'
<1>1. /\ asked' \in Nat /\ outside' \in Nat /\ failures' \in Nat
      /\ UNCHANGED <<object, file, ops, tombs, made, dropped>>
  BY CountersTyped DEF RemoteFails
<1>2. CASE OpOver(w)
  BY <1>1, <1>2, OpGivesUp
<1>3. CASE Becomes(w, Idle) /\ UNCHANGED lock
  <2>1. lock' \in [Paths -> Workers \cup {Nobody}] /\ Idle \in Tasks(made.objects)
        /\ Fits(w, Idle)
    BY <1>3, CountersTyped, IdleFits
  <2> QED
    BY <1>1, <1>3, <2>1, TaskMoves
<1> QED
  BY <1>2, <1>3 DEF RemoteFails

(* Another program writes to the remote.                                   *)
LEMMA OutsideStep ==
  ASSUME OpsInv, NEW p \in Paths, OutsidePut(p) \/ OutsideEdit(p) \/ OutsideDelete(p)
  PROVE  OpsInv'
<1>1. Sweep \in Workers
  BY DEF Workers
<1>2. PICK t : t = task[Sweep]
  OBVIOUS
<1>3. /\ t \in Tasks(made.objects) /\ Fits(Sweep, t)
      /\ task' = task => Becomes(Sweep, t)
  BY <1>1, <1>2 DEF OpsInv
<1>4. CASE OutsidePut(p)
  <2>1. /\ made' = [made EXCEPT !.objects = made.objects + 1]
        /\ object' = [object EXCEPT ![p] = NewObject] /\ outside' = outside + 1
        /\ UNCHANGED <<file, ops, tombs, lock, task, dropped, asked, failures>>
    BY <1>4 DEF OutsidePut
  <2>2. /\ made.objects \in Nat /\ made.objects <= made'.objects
        /\ made' \in [files : 0 .. MaxFiles, objects : Nat, ops : Nat]
        /\ made'.objects = made.objects + 1 /\ made'.ops = made.ops
        /\ made'.objects \in Nat /\ made'.ops \in Nat
    BY <2>1, StoresTyped
  <2>3. /\ Objects(made.objects) \subseteq Objects(made'.objects)
        /\ Rows(made.objects) \subseteq Rows(made'.objects)
        /\ Tasks(made.objects) \subseteq Tasks(made'.objects)
    BY <2>2, TypesGrow
  <2>4. NewObject \in Objects(made'.objects)
    BY <2>2 DEF NewObject, Objects
  <2>5. /\ object' \in [Paths -> Objects(made'.objects)]
        /\ file' \in [Files -> Rows(made'.objects)]
    BY <2>1, <2>3, <2>4, StoresTyped
  <2>6. Unique(file)' /\ Placed(file)'
    BY <2>1, StoresTyped DEF Unique, Placed
  <2>7. Stores'
    BY <2>1, <2>2, <2>5, <2>6, StoresTyped, CountersTyped, StoresKept
  <2>8. Fits(Sweep, t)'
    BY <1>3, <2>1, <2>2, QueueRests, FitsStays
  <2> QED
    BY <1>1, <1>3, <2>1, <2>2, <2>3, <2>6, <2>7, <2>8, StoreSteps
<1>5. CASE OutsideEdit(p) \/ OutsideDelete(p)
  <2>1. /\ outside' \in Nat /\ asked' \in Nat /\ failures' \in Nat
        /\ lock' \in [Paths -> Workers \cup {Nobody}]
        /\ UNCHANGED <<file, ops, tombs, task, made, dropped>>
    BY <1>5, CountersTyped DEF OutsideEdit, OutsideDelete
  <2>2. [object[p] EXCEPT !.ver = object[p].ver + 1] \in Objects(made.objects)
    BY StoresTyped DEF Objects
  <2>3. object' \in [Paths -> Objects(made.objects)]
    BY <1>5, <2>2, StoresTyped DEF OutsideEdit, OutsideDelete
  <2> QED
    BY <1>1, <1>3, <2>1, <2>3, ObjectSteps
<1> QED
  BY <1>4, <1>5

(* The server dies and starts again.                                       *)
LEMMA CrashStep ==
  ASSUME OpsInv, Crash
  PROVE  OpsInv'
<1>1. /\ task' = [w \in Workers |-> Idle] /\ lock' = [p \in Paths |-> Nobody]
      /\ failures' \in Nat
      /\ UNCHANGED <<object, file, ops, tombs, made, dropped, asked, outside>>
  BY CountersTyped DEF Crash
<1>2. Stores' /\ Placed(file)'
  BY <1>1 DEF OpsInv, Stores, Placed
<1>3. made'.ops \in Nat /\ made'.objects \in Nat /\ made.objects \in Nat
      /\ made'.objects = made.objects
  BY <1>1, StoresTyped
<1>4. QueueGoesOn /\ Queued'
  BY <1>1, <1>3, QueueRests
<1>5. ASSUME NEW w \in Workers
      PROVE  Idle \in Tasks(made'.objects) /\ Fits(w, Idle)'
  BY <1>3, <1>4, IdleFits, FitsStays
<1>6. Tombstoned'
  BY <1>1 DEF OpsInv, Tombstoned
<1> QED
  BY <1>1, <1>2, <1>4, <1>5, <1>6 DEF OpsInv

(* The first file is where it is said to be.                               *)
LEMMA InitHolds == Init => OpsInv
<1> SUFFICES ASSUME Init PROVE OpsInv
  OBVIOUS
<1> DEFINE first == [id |-> 1, ver |-> 0]
<1>1. PICK p \in Homes, pushed \in BOOLEAN :
        /\ object = [q \in Paths |-> IF pushed /\ q = p THEN first ELSE Nothing]
        /\ file = [f \in Files |->
                      IF f = 1 THEN [path |-> p, hash |-> object[p]] ELSE NoFile]
  BY DEF Init
<1>2. /\ ops = {} /\ tombs = {} /\ dropped = {}
      /\ lock = [q \in Paths |-> Nobody] /\ task = [w \in Workers |-> Idle]
      /\ made.files = 1 /\ made.objects = 1 /\ made.ops = 0
      /\ made \in [files : 0 .. MaxFiles, objects : Nat, ops : Nat]
      /\ asked = 0 /\ outside = 0 /\ failures = 0
  BY DEF Init
<1>3. /\ first \in Objects(1) /\ Nothing \in Objects(1) /\ NoFile \in Rows(1)
      /\ NoFile.path = NoPath /\ p \in Paths
  BY IdleTask DEF Objects, NoFile
<1>4. object \in [Paths -> Objects(1)]
  BY <1>1, <1>3
<1>5. [path |-> p, hash |-> object[p]] \in Rows(1)
  BY <1>3, <1>4 DEF Rows
<1>6. file \in [Files -> Rows(1)] /\ Placed(file)
  BY <1>1, <1>3, <1>5 DEF Placed
<1>7. \A f, g \in Files : f # g /\ file[f].path = file[g].path => file[f].path = NoPath
  BY <1>1, <1>3
<1>8. Stores
  BY <1>2, <1>4, <1>6, <1>7 DEF Stores
<1>9. Queued /\ Tombstoned
  BY <1>2 DEF Queued, Tombstoned
<1>10. Known(NoOp)
  BY <1>2, IdleTask DEF Known, Sound
<1>11. Idle \in Tasks(1) /\ \A w \in Workers : Fits(w, Idle)
  BY <1>10, IdleTask DEF Fits
<1> QED
  BY <1>2, <1>6, <1>8, <1>9, <1>11 DEF OpsInv

(* Every step.                                                             *)
LEMMA StepKeeps == OpsInv /\ [Next]_vars => OpsInv'
<1> SUFFICES ASSUME OpsInv, [Next]_vars PROVE OpsInv'
  OBVIOUS
<1>1. CASE UNCHANGED vars
  BY <1>1 DEF vars, OpsInv, Stores, Placed, Queued, Tombstoned, Fits, Known, Sound,
     Covered, Buried
<1>2. ASSUME NEW w \in Requests,
             \/ \E f \in Files :
                   Delete(w, f) \/ \E to \in Paths : Rename(w, f, to) \/ Move(w, f, to)
             \/ \E p \in Paths : Create(w, p)
      PROVE  OpsInv'
  BY <1>2, RequestStep
<1>3. ASSUME NEW w \in Workers, Steps(w) PROVE OpsInv'
  <2>1. CASE LockPath(w) \/ Vacant(w) \/ Match(w) \/ StatMove(w) \/ StatDelete(w)
               \/ FindShadow(w)
    BY <2>1, LookingStep
  <2>2. CASE List(w) \/ ReadRows(w) \/ Confirm(w) \/ Forgotten(w) \/ Refreshed(w)
               \/ Swept(w)
    BY <2>2, ReadingStep
  <2>3. CASE RenameObject(w) \/ CopyObject(w) \/ UnlinkSource(w) \/ RemoveObject(w)
    BY <2>3, WritingStep
  <2>4. CASE InsertCreated(w) \/ UpdateRow(w) \/ DropRow(w) \/ Forget(w) \/ Refresh(w)
               \/ Adopt(w)
    BY <2>4, RowWritingStep
  <2>5. CASE Put(w)
    BY <2>5, PutStep
  <2>6. CASE Enqueue(w)
    BY <2>6, EnqueueStep
  <2>7. CASE Complete(w)
    BY <2>7, CompleteStep
  <2>8. CASE Audit(w) \/ Bury(w)
    BY <2>8, BurialStep
  <2> QED
    BY <1>3, <2>1, <2>2, <2>3, <2>4, <2>5, <2>6, <2>7, <2>8 DEF Steps
<1>4. ASSUME NEW w \in Workers, RemoteFails(w) \/ AnswerLost(w) \/ UnlinkFails(w)
      PROVE  OpsInv'
  BY <1>4, FailingStep, WritingStep, UnlinkFailsStep
<1>5. ASSUME NEW n \in Nodes, StartSweep(n) PROVE OpsInv'
  BY <1>5, SweepBegins
<1>6. ASSUME NEW p \in Paths, OutsidePut(p) \/ OutsideEdit(p) \/ OutsideDelete(p)
      PROVE  OpsInv'
  BY <1>6, OutsideStep
<1>7. CASE Crash
  BY <1>7, CrashStep
<1> QED
  BY <1>1, <1>2, <1>3, <1>4, <1>5, <1>6, <1>7 DEF Next

(* The invariant: what tasks carry agrees with the queue, and what their   *)
(* steps have ascertained is so (engine-mutations.ts, pending-ops.ts,      *)
(* remote-sweep.ts).                                                       *)
THEOREM OpsInvariant == Spec => []OpsInv
BY InitHolds, StepKeeps, PTL DEF Spec

(* The types, the recorded hashes and one row to a path, whatever order    *)
(* relocations, registrations and adoptions come to a path in.             *)
THEOREM OneRowPerPath == Spec => []TypeOK
<1>1. OpsInv => TypeOK
  BY DEF OpsInv, Stores, TypeOK
<1> QED
  BY <1>1, OpsInvariant, PTL

(* No ordered deletion is forgotten: its op leaves the queue only after    *)
(* its tombstone, whoever runs it and whatever fails.                      *)
THEOREM DeletionsNotForgotten == Spec => []Tombstoned
<1>1. OpsInv => Tombstoned
  BY DEF OpsInv
<1> QED
  BY <1>1, OpsInvariant, PTL

(* A retried delete spares an object that came after the delete was        *)
(* ordered, when its last look could tell (runDelete's expected_hash).     *)
THEOREM RetriesSpareNewcomers == Spec => NewcomersSurvive
<1> DEFINE Spares ==
      At(Sweep, "remove") /\ task'[Sweep].pc = "drop"
        => LET op == task[Sweep].op IN
           object[op.from].id <= op.born \/ object[op.from] # task[Sweep].seen
<1>1. OpsInv => Spares
  <2> SUFFICES ASSUME OpsInv, At(Sweep, "remove") PROVE Spares
    OBVIOUS
  <2>1. Sweep \in Workers
    BY DEF Workers
  <2>2. /\ task[Sweep].seen = task[Sweep].op.hash
        /\ task[Sweep].op.hash.id <= task[Sweep].op.born
    BY <2>1, Typed DEF Fits, Known, Sound
  <2> QED
    BY <2>2
<1>2. OpsInv => [Spares]_vars
  BY <1>1
<1>3. OpsInv /\ [Next]_vars => [Spares]_vars
  BY <1>2
<1> QED
  BY <1>3, OpsInvariant, PTL DEF Spec, NewcomersSurvive

=============================================================================
