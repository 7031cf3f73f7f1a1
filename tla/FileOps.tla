------------------------------- MODULE FileOps -------------------------------
(***************************************************************************)
(* The tracked files of some nodes and their objects on the remotes:      *)
(* renames, moves, deletes and creations that users order, the queue that *)
(* remembers each of them until it is done (domain/sync/pending-ops.ts),  *)
(* and the sweep of a sync run, which first retries the node's queue and  *)
(* then makes its records agree with the remote's listing                 *)
(* (remote-sweep.ts).  Sweeps of a node are serialised; requests are not  *)
(* serialised against them, and people work on the remotes with other     *)
(* programs.                                                              *)
(*                                                                        *)
(* An object stands for its content too, so its hash is the object: what  *)
(* a backend that lists hashes reports.  Native formats and the devices'  *)
(* copies of the files (MirrorSync) are not here.                         *)
(***************************************************************************)
EXTENDS Naturals, FiniteSets

CONSTANTS
    Nodes,
    Paths,          \* pairs of a node and a name in its tracked sections
    Homes,          \* the paths at which the first file may be
    NoPath,
    Apart,          \* whether every node is routed to a remote of its own
    Requests,       \* requests served at the same time
    MaxRequests,    \* bound on the requests ever made
    MaxFiles,       \* bound on the file ids ever given out
    MaxOutside,     \* bound on what other programs do to the remote
    MaxFailures     \* bound on the failed calls of the remote and the crashes

ASSUME FileOpsAssumption ==
    /\ Homes \subseteq Paths /\ NoPath \notin Paths
    /\ \A p \in Paths : p[1] \in Nodes
    /\ Apart \in BOOLEAN
    /\ MaxRequests \in Nat /\ MaxFiles \in Nat \ {0}
    /\ MaxOutside \in Nat /\ MaxFailures \in Nat

\* Sweeps of one node wait for each other (withNodeSyncLock); that sweeps of
\* different nodes do too is a bound.
Sweep == "sweep"

Workers == Requests \cup {Sweep}

Files == 1 .. MaxFiles

NodeOf(p) == p[1]

SameRemote(p, q) == NodeOf(p) = NodeOf(q) \/ ~ Apart

VARIABLES
    object,         \* object[p]: what the remote has at p
    file,           \* file[f]: the row of table files
    ops,            \* table pending_file_ops, by id n
    tombs,          \* audit rows that tell devices to drop their old copy
    lock,           \* lock[p]: the renameFileRemote that holds the path lock
    task,           \* task[w]: where w is and what it has read
    made,           \* counts: [files, objects, ops] given out so far
    dropped,        \* history: files whose row an ordered delete removed
    asked, outside, failures   \* counts of what is bounded

vars == <<object, file, ops, tombs, lock, task, made, dropped, asked, outside,
          failures>>

Nothing == [id |-> 0, ver |-> 0]

\* No node, and nobody.
NoNode == NoPath

Nobody == NoPath

NoFile == [path |-> NoPath, hash |-> Nothing]

\* A payload of the queue; "born" is history: the objects there were when the
\* op was ordered.
NoOp == [n |-> 0, kind |-> "none", file |-> 0, from |-> NoPath, to |-> NoPath,
         hash |-> Nothing, copied |-> FALSE, born |-> 0]

Idle == [pc |-> "idle", op |-> NoOp, todo |-> {}, seen |-> Nothing, shadow |-> 0,
         node |-> NoNode, listed |-> [p \in Paths |-> Nothing],
         rows |-> [f \in Files |-> NoFile], gone |-> {}, new |-> {}]

Init ==
    /\ \E p \in Homes, pushed \in BOOLEAN :
          LET first == [id |-> 1, ver |-> 0] IN
          /\ object = [q \in Paths |-> IF pushed /\ q = p THEN first ELSE Nothing]
          /\ file = [f \in Files |->
                        IF f = 1 THEN [path |-> p, hash |-> object[p]] ELSE NoFile]
    /\ ops = {} /\ tombs = {}
    /\ lock = [p \in Paths |-> Nobody]
    /\ task = [w \in Workers |-> Idle]
    /\ made = [files |-> 1, objects |-> 1, ops |-> 0]
    /\ dropped = {}
    /\ asked = 0 /\ outside = 0 /\ failures = 0

-----------------------------------------------------------------------------
At(w, pc) == task[w].pc = pc

Becomes(w, t) == task' = [task EXCEPT ![w] = t]

Go(w, pc) == Becomes(w, [task[w] EXCEPT !.pc = pc])

Tracked(f) == file[f] # NoFile

Holders(p) == {f \in Files : file[f].path = p}

NewObject == [id |-> made.objects + 1, ver |-> 0]

\* INSERT INTO files, with the next id.
Insert(p, o) ==
    /\ made.files < MaxFiles
    /\ file' = [file EXCEPT ![made.files + 1] = [path |-> p, hash |-> o]]
    /\ made' = [made EXCEPT !.files = @ + 1]

\* The retry of the sweep goes on with the next op, or with the listing.  Ops
\* are taken by created_at, which tells seconds only: the model allows any order.
RetryNext(w, n, todo) ==
    \/ /\ todo = {}
       /\ Becomes(w, [Idle EXCEPT !.pc = "list", !.node = n])
    \/ \E op \in todo :
          Becomes(w, [Idle EXCEPT !.pc = "match", !.node = n, !.op = op,
                                  !.todo = todo \ {op}])

\* The op is over, done or failed: the request ends, the sweep goes on.  A
\* failed op stays in the queue (failPendingOp).
OpOver(w) ==
    /\ IF w = Sweep THEN RetryNext(w, task[w].node, task[w].todo) ELSE Becomes(w, Idle)
    /\ lock' = [p \in Paths |-> IF lock[p] = w THEN Nobody ELSE lock[p]]

-----------------------------------------------------------------------------
(***************************************************************************)
(* Requests.                                                               *)
(***************************************************************************)

Orders(w, f) ==
    /\ w \in Requests /\ At(w, "idle") /\ asked < MaxRequests
    /\ Tracked(f)
    /\ asked' = asked + 1
    /\ UNCHANGED <<object, file, ops, tombs, lock, made, dropped, outside, failures>>

MoveOp(f, to) ==
    [n |-> 0, kind |-> "move", file |-> f, from |-> file[f].path, to |-> to,
     hash |-> Nothing, copied |-> FALSE, born |-> made.objects]

\* The recorded hash says what was meant.
DeleteOp(f) ==
    [n |-> 0, kind |-> "delete", file |-> f, from |-> file[f].path, to |-> NoPath,
     hash |-> file[f].hash, copied |-> FALSE, born |-> made.objects]

\* renameFileRemote reads the row, then waits for the lock of the old path.
Rename(w, f, to) ==
    /\ Orders(w, f)
    /\ to # file[f].path /\ NodeOf(to) = NodeOf(file[f].path)
    /\ Becomes(w, [Idle EXCEPT !.pc = "lock", !.op = MoveOp(f, to)])

\* moveFile takes no lock.
Move(w, f, to) ==
    /\ Orders(w, f) /\ to # file[f].path
    /\ Becomes(w, [Idle EXCEPT !.pc = "enqueue", !.op = MoveOp(f, to)])

\* deleteFile and deleteFileRemote.
Delete(w, f) ==
    /\ Orders(w, f)
    /\ Becomes(w, [Idle EXCEPT !.pc = "enqueue", !.op = DeleteOp(f)])

LockPath(w) ==
    /\ At(w, "lock") /\ lock[task[w].op.from] = Nobody
    /\ lock' = [lock EXCEPT ![task[w].op.from] = w]
    /\ Go(w, "enqueue")
    /\ UNCHANGED <<object, file, ops, tombs, made, dropped, asked, outside, failures>>

\* The intent is on disk before the first side effect.
Enqueue(w) ==
    LET op == [task[w].op EXCEPT !.n = made.ops + 1] IN
    /\ At(w, "enqueue")
    /\ made' = [made EXCEPT !.ops = @ + 1]
    /\ ops' = ops \cup {op}
    /\ Becomes(w, [task[w] EXCEPT !.op = op, !.pc = "stat"])
    /\ UNCHANGED <<object, file, tombs, lock, dropped, asked, outside, failures>>

\* createFileRemote: no row and no object at the path, then put and INSERT.
Create(w, p) ==
    /\ w \in Requests /\ At(w, "idle") /\ asked < MaxRequests
    /\ Holders(p) = {}
    /\ asked' = asked + 1
    /\ Becomes(w, [Idle EXCEPT !.pc = "vacant", !.op.to = p])
    /\ UNCHANGED <<object, file, ops, tombs, lock, made, dropped, outside, failures>>

Vacant(w) ==
    /\ At(w, "vacant")
    /\ IF object[task[w].op.to] = Nothing THEN Go(w, "put") ELSE Becomes(w, Idle)
    /\ UNCHANGED <<object, file, ops, tombs, lock, made, dropped, asked, outside,
                   failures>>

Put(w) ==
    /\ At(w, "put")
    /\ object' = [object EXCEPT ![task[w].op.to] = NewObject]
    /\ made' = [made EXCEPT !.objects = @ + 1]
    /\ Becomes(w, [task[w] EXCEPT !.pc = "insert", !.op.hash = NewObject])
    /\ UNCHANGED <<file, ops, tombs, lock, dropped, asked, outside, failures>>

\* MUTANT of InsertCreated: a plain INSERT.
InsertAgain(w) ==
    LET op == task[w].op IN
    /\ At(w, "insert")
    /\ Insert(op.to, op.hash)
    /\ Becomes(w, Idle)
    /\ UNCHANGED <<object, ops, tombs, lock, dropped, asked, outside, failures>>

\* A row that came up since then keeps the path (ON CONFLICT DO NOTHING).
InsertCreated(w) ==
    LET op == task[w].op IN
    /\ At(w, "insert")
    /\ IF Holders(op.to) = {} THEN Insert(op.to, op.hash) ELSE UNCHANGED <<file, made>>
    /\ Becomes(w, Idle)
    /\ UNCHANGED <<object, ops, tombs, lock, dropped, asked, outside, failures>>

-----------------------------------------------------------------------------
(***************************************************************************)
(* What a request does first, the retry does again: the same steps, and    *)
(* each looks at the remote before it acts.                                *)
(***************************************************************************)

\* The paths at which the retry accepts the record.
Candidates(op) == IF op.kind = "move" THEN {op.from, op.to} ELSE {op.from}

\* assertRecordStillMatches.
Matches(op) ==
    \/ Tracked(op.file) /\ file[op.file].path \in Candidates(op)
    \/ ~ Tracked(op.file) /\ \A p \in Candidates(op) : Holders(p) = {}

Match(w) ==
    /\ At(w, "match")
    /\ \/ Matches(task[w].op) /\ Go(w, "stat") /\ UNCHANGED lock
       \/ ~ Matches(task[w].op) /\ OpOver(w)
    /\ UNCHANGED <<object, file, ops, tombs, made, dropped, asked, outside, failures>>

\* MUTANT of StatMove: an object that is already at the target is not a move
\* that was done before.
StatMoveOnce(w) ==
    LET op == task[w].op
        atFrom == object[op.from]
        atTo == object[op.to]
        left == op.copied /\ atFrom # Nothing /\ atFrom = atTo
    IN
    /\ At(w, "stat") /\ op.kind = "move"
    /\ \/ left /\ Go(w, "unlink") /\ UNCHANGED lock
       \/ atFrom = Nothing /\ OpOver(w)
       \/ atFrom # Nothing /\ atTo # Nothing /\ ~ left /\ OpOver(w)
       \/ atFrom # Nothing /\ atTo = Nothing /\ UNCHANGED lock
          /\ Go(w, IF SameRemote(op.from, op.to) THEN "rename" ELSE "copy")
    /\ UNCHANGED <<object, file, ops, tombs, made, dropped, asked, outside, failures>>

\* relocateRemoteObject: both there or none there is refused, unless the copy
\* to another remote is known to have landed and only its source is left.
StatMove(w) ==
    LET op == task[w].op
        atFrom == object[op.from]
        atTo == object[op.to]
        left == op.copied /\ atFrom # Nothing /\ atFrom = atTo
    IN
    /\ At(w, "stat") /\ op.kind = "move"
    /\ \/ left /\ Go(w, "unlink") /\ UNCHANGED lock
       \/ (atFrom = Nothing) = (atTo = Nothing) /\ ~ left /\ OpOver(w)
       \/ atFrom = Nothing /\ atTo # Nothing /\ Go(w, "shadow") /\ UNCHANGED lock
       \/ atFrom # Nothing /\ atTo = Nothing /\ UNCHANGED lock
          /\ Go(w, IF SameRemote(op.from, op.to) THEN "rename" ELSE "copy")
    /\ UNCHANGED <<object, file, ops, tombs, made, dropped, asked, outside, failures>>

\* adapter.rename.  If something is at the target by then, the backend writes
\* over it or keeps two objects of one name and shows either.
Renamed(op) ==
    \E shown \in {object[op.from], object[op.to]} \ {Nothing} :
        object' = [object EXCEPT ![op.from] = Nothing, ![op.to] = shown]

RenameObject(w) ==
    LET op == task[w].op IN
    /\ At(w, "rename")
    /\ \/ /\ object[op.from] # Nothing
          /\ Renamed(op)
          /\ Go(w, "shadow") /\ UNCHANGED lock
       \/ /\ object[op.from] = Nothing
          /\ OpOver(w) /\ UNCHANGED object
    /\ UNCHANGED <<file, ops, tombs, made, dropped, asked, outside, failures>>

\* To another remote: get and put, then the source is deleted.
CopyObject(w) ==
    LET op == task[w].op IN
    /\ At(w, "copy")
    /\ \/ /\ object[op.from] # Nothing
          /\ object' = [object EXCEPT ![op.to] = object[op.from]]
          /\ Go(w, "unlink") /\ UNCHANGED lock
       \/ /\ object[op.from] = Nothing
          /\ OpOver(w) /\ UNCHANGED object
    /\ UNCHANGED <<file, ops, tombs, made, dropped, asked, outside, failures>>

UnlinkSource(w) ==
    /\ At(w, "unlink")
    /\ object' = [object EXCEPT ![task[w].op.from] = Nothing]
    /\ Go(w, "shadow")
    /\ UNCHANGED <<file, ops, tombs, lock, made, dropped, asked, outside, failures>>

\* The source cannot be deleted: the request notes that the copy landed
\* (markPendingMoveSourceCopied), the retry does not.
UnlinkFails(w) ==
    LET n == task[w].op.n IN
    /\ At(w, "unlink") /\ failures < MaxFailures
    /\ ops' = IF w = Sweep THEN ops
              ELSE {IF op.n = n THEN [op EXCEPT !.copied = TRUE] ELSE op : op \in ops}
    /\ OpOver(w)
    /\ failures' = failures + 1
    /\ UNCHANGED <<object, file, tombs, made, dropped, asked, outside>>

\* writeRelocatedRecord looks for another row at the target ...
FindShadow(w) ==
    LET op == task[w].op
        others == Holders(op.to) \ {op.file}
    IN
    /\ At(w, "shadow")
    /\ Becomes(w, [task[w] EXCEPT
                      !.shadow = IF others = {} THEN 0 ELSE CHOOSE g \in others : TRUE,
                      !.pc = "update"])
    /\ UNCHANGED <<object, file, ops, tombs, lock, made, dropped, asked, outside,
                   failures>>

\* ... and folds it into the relocated one.  A row that came up since then
\* makes the UPDATE fail (idx_files_unique_remote).
UpdateRow(w) ==
    LET op == task[w].op
        rest == [f \in Files |-> IF f = task[w].shadow THEN NoFile ELSE file[f]]
        taken == \E g \in Files \ {op.file} : rest[g].path = op.to
    IN
    /\ At(w, "update")
    /\ \/ /\ Tracked(op.file) /\ taken
          /\ OpOver(w) /\ UNCHANGED file
       \/ /\ Tracked(op.file) /\ ~ taken
          /\ file' = [rest EXCEPT ![op.file].path = op.to]
          /\ Go(w, "audit") /\ UNCHANGED lock
       \/ /\ ~ Tracked(op.file)
          /\ file' = rest
          /\ Go(w, "audit") /\ UNCHANGED lock
    /\ UNCHANGED <<object, ops, tombs, made, dropped, asked, outside, failures>>

\* MUTANT of Foreign: what is at the path is what was meant.
NeverForeign(w) == FALSE

\* A retry deletes only the object the delete was aimed at.
Foreign(w) ==
    LET op == task[w].op IN w = Sweep /\ object[op.from] # op.hash

StatDelete(w) ==
    LET op == task[w].op IN
    /\ At(w, "stat") /\ op.kind = "delete"
    /\ \/ /\ object[op.from] = Nothing
          /\ Go(w, "drop") /\ UNCHANGED lock
       \/ /\ object[op.from] # Nothing /\ ~ Foreign(w)
          /\ Becomes(w, [task[w] EXCEPT !.seen = object[op.from], !.pc = "remove"])
          /\ UNCHANGED lock
       \/ /\ object[op.from] # Nothing /\ Foreign(w)
          /\ OpOver(w)
    /\ UNCHANGED <<object, file, ops, tombs, made, dropped, asked, outside, failures>>

RemoveObject(w) ==
    /\ At(w, "remove")
    /\ object' = [object EXCEPT ![task[w].op.from] = Nothing]
    /\ Go(w, "drop")
    /\ UNCHANGED <<file, ops, tombs, lock, made, dropped, asked, outside, failures>>

\* MUTANT of DropRow: the op is cleared with the row, before the tombstone.
DropRowAndOp(w) ==
    LET f == task[w].op.file IN
    /\ At(w, "drop")
    /\ file' = [file EXCEPT ![f] = NoFile]
    /\ dropped' = dropped \cup {f}
    /\ ops' = {op \in ops : op.n # task[w].op.n}
    /\ Go(w, "audit")
    /\ UNCHANGED <<object, tombs, lock, made, asked, outside, failures>>

DropRow(w) ==
    LET f == task[w].op.file IN
    /\ At(w, "drop")
    /\ file' = [file EXCEPT ![f] = NoFile]
    /\ dropped' = dropped \cup {f}
    /\ Go(w, "audit")
    /\ UNCHANGED <<object, ops, tombs, lock, made, asked, outside, failures>>

Audit(w) ==
    LET op == task[w].op IN
    /\ At(w, "audit")
    /\ tombs' = tombs \cup {[file |-> op.file, path |-> op.from]}
    /\ Go(w, "complete")
    /\ UNCHANGED <<object, file, ops, lock, made, dropped, asked, outside, failures>>

Complete(w) ==
    /\ At(w, "complete")
    /\ ops' = {op \in ops : op.n # task[w].op.n}
    /\ OpOver(w)
    /\ UNCHANGED <<object, file, tombs, made, dropped, asked, outside, failures>>

-----------------------------------------------------------------------------
(***************************************************************************)
(* The sweep.                                                              *)
(***************************************************************************)

Here(w, p) == NodeOf(p) = task[w].node

StartSweep(n) ==
    /\ At(Sweep, "idle")
    /\ RetryNext(Sweep, n, {op \in ops : NodeOf(op.from) = n})
    /\ UNCHANGED <<object, file, ops, tombs, lock, made, dropped, asked, outside,
                   failures>>

List(w) ==
    /\ At(w, "list")
    /\ Becomes(w, [task[w] EXCEPT
                      !.listed = [p \in Paths |-> IF Here(w, p) THEN object[p] ELSE Nothing],
                      !.pc = "rows"])
    /\ UNCHANGED <<object, file, ops, tombs, lock, made, dropped, asked, outside,
                   failures>>

\* The rows that once had an object and are not listed.
Missing(rows, listed) ==
    {f \in Files : rows[f] # NoFile /\ rows[f].hash # Nothing
                      /\ listed[rows[f].path] = Nothing}

ReadRows(w) ==
    /\ At(w, "rows")
    /\ LET rows == [f \in Files |->
                        IF Tracked(f) /\ Here(w, file[f].path) THEN file[f] ELSE NoFile]
       IN  Becomes(w, [task[w] EXCEPT !.rows = rows, !.pc = "confirm",
                                 !.gone = Missing(rows, task[w].listed)])
    /\ UNCHANGED <<object, file, ops, tombs, lock, made, dropped, asked, outside,
                   failures>>

\* Each is confirmed with a stat of its own.
Confirm(w) ==
    LET t == task[w] IN
    /\ At(w, "confirm")
    /\ Becomes(w, [t EXCEPT !.gone = {f \in t.gone : object[t.rows[f].path] = Nothing},
                            !.pc = "forget"])
    /\ UNCHANGED <<object, file, ops, tombs, lock, made, dropped, asked, outside,
                   failures>>

Forget(w) ==
    /\ At(w, "forget")
    /\ \E f \in task[w].gone :
          /\ file' = [file EXCEPT ![f] = NoFile]
          /\ Becomes(w, [task[w] EXCEPT !.shadow = f, !.gone = @ \ {f}, !.pc = "bury"])
    /\ UNCHANGED <<object, ops, tombs, lock, made, dropped, asked, outside, failures>>

Bury(w) ==
    LET f == task[w].shadow IN
    /\ At(w, "bury")
    /\ tombs' = tombs \cup {[file |-> f, path |-> task[w].rows[f].path]}
    /\ Becomes(w, [task[w] EXCEPT !.shadow = 0, !.pc = "forget"])
    /\ UNCHANGED <<object, file, ops, lock, made, dropped, asked, outside, failures>>

\* MUTANT of Stale: only a missing hash is filled in.
StaleUnknown(rows, listed) ==
    {f \in Files : rows[f] # NoFile /\ rows[f].hash = Nothing
                      /\ listed[rows[f].path] # Nothing}

\* The rows whose hash is not the listed one (needsHashRefresh).
Stale(rows, listed) ==
    {f \in Files : rows[f] # NoFile /\ ~ listed[rows[f].path] \in {Nothing, rows[f].hash}}

Forgotten(w) ==
    LET t == task[w] IN
    /\ At(w, "forget") /\ t.gone = {}
    /\ Becomes(w, [t EXCEPT !.gone = Stale(t.rows, t.listed), !.pc = "refresh"])
    /\ UNCHANGED <<object, file, ops, tombs, lock, made, dropped, asked, outside,
                   failures>>

\* UPDATE files SET current_remote_hash WHERE id: nothing for a row that is
\* gone.
Refresh(w) ==
    LET t == task[w] IN
    /\ At(w, "refresh")
    /\ \E f \in t.gone :
          /\ file' = IF Tracked(f)
                     THEN [file EXCEPT ![f].hash = t.listed[t.rows[f].path]] ELSE file
          /\ Becomes(w, [t EXCEPT !.gone = @ \ {f}])
    /\ UNCHANGED <<object, ops, tombs, lock, made, dropped, asked, outside, failures>>

Refreshed(w) ==
    LET t == task[w] IN
    /\ At(w, "refresh") /\ t.gone = {}
    /\ Becomes(w, [Idle EXCEPT !.listed = t.listed, !.pc = "adopt",
                      !.new = {p \in Paths : t.listed[p] # Nothing /\ Holders(p) = {}}])
    /\ UNCHANGED <<object, file, ops, tombs, lock, made, dropped, asked, outside,
                   failures>>

\* adoptFiles takes the listing's word for the object.
Adopt(w) ==
    /\ At(w, "adopt")
    /\ \E p \in task[w].new :
          /\ IF Holders(p) = {} THEN Insert(p, task[w].listed[p])
                                ELSE UNCHANGED <<file, made>>
          /\ Becomes(w, [task[w] EXCEPT !.new = @ \ {p}])
    /\ UNCHANGED <<object, ops, tombs, lock, dropped, asked, outside, failures>>

Swept(w) ==
    /\ At(w, "adopt") /\ task[w].new = {}
    /\ Becomes(w, Idle)
    /\ UNCHANGED <<object, file, ops, tombs, lock, made, dropped, asked, outside,
                   failures>>

-----------------------------------------------------------------------------
(***************************************************************************)
(* Other programs, and what goes wrong.                                    *)
(***************************************************************************)

OutsidePut(p) ==
    /\ outside < MaxOutside /\ object[p] = Nothing
    /\ outside' = outside + 1
    /\ object' = [object EXCEPT ![p] = NewObject]
    /\ made' = [made EXCEPT !.objects = @ + 1]
    /\ UNCHANGED <<file, ops, tombs, lock, task, dropped, asked, failures>>

OutsideEdit(p) ==
    /\ outside < MaxOutside /\ object[p] # Nothing
    /\ outside' = outside + 1
    /\ object' = [object EXCEPT ![p].ver = @ + 1]
    /\ UNCHANGED <<file, ops, tombs, lock, task, made, dropped, asked, failures>>

OutsideDelete(p) ==
    /\ outside < MaxOutside /\ object[p] # Nothing
    /\ outside' = outside + 1
    /\ object' = [object EXCEPT ![p] = Nothing]
    /\ UNCHANGED <<file, ops, tombs, lock, task, made, dropped, asked, failures>>

\* A call of the remote rejects before it did anything.
RemoteFails(w) ==
    /\ failures < MaxFailures
    /\ \/ task[w].pc \in {"stat", "rename", "copy", "remove"} /\ OpOver(w)
       \/ task[w].pc \in {"list", "confirm", "put"} /\ Becomes(w, Idle) /\ UNCHANGED lock
    /\ failures' = failures + 1
    /\ UNCHANGED <<object, file, ops, tombs, made, dropped, asked, outside>>

\* Or its answer is lost.
AnswerLost(w) ==
    LET op == task[w].op IN
    /\ failures < MaxFailures
    /\ \/ At(w, "rename") /\ object[op.from] # Nothing /\ Renamed(op)
       \/ At(w, "copy") /\ object[op.from] # Nothing
             /\ object' = [object EXCEPT ![op.to] = object[op.from]]
       \/ At(w, "remove") /\ object' = [object EXCEPT ![op.from] = Nothing]
    /\ OpOver(w)
    /\ failures' = failures + 1
    /\ UNCHANGED <<file, ops, tombs, made, dropped, asked, outside>>

\* The server dies with everything it was doing.
Crash ==
    /\ failures < MaxFailures
    /\ \E w \in Workers : ~ At(w, "idle")
    /\ failures' = failures + 1
    /\ task' = [w \in Workers |-> Idle]
    /\ lock' = [p \in Paths |-> Nobody]
    /\ UNCHANGED <<object, file, ops, tombs, made, dropped, asked, outside>>

-----------------------------------------------------------------------------
Steps(w) ==
    \/ LockPath(w) \/ Enqueue(w) \/ Vacant(w) \/ Put(w) \/ InsertCreated(w)
    \/ Match(w) \/ StatMove(w) \/ RenameObject(w) \/ FindShadow(w) \/ UpdateRow(w)
    \/ CopyObject(w) \/ UnlinkSource(w)
    \/ StatDelete(w) \/ RemoveObject(w) \/ DropRow(w) \/ Audit(w) \/ Complete(w)
    \/ List(w) \/ ReadRows(w) \/ Confirm(w) \/ Forget(w) \/ Bury(w) \/ Forgotten(w)
    \/ Refresh(w) \/ Refreshed(w) \/ Adopt(w) \/ Swept(w)

Next ==
    \/ \E w \in Requests, f \in Files :
          Delete(w, f) \/ \E to \in Paths : Rename(w, f, to) \/ Move(w, f, to)
    \/ \E w \in Requests, p \in Paths : Create(w, p)
    \/ \E w \in Workers : Steps(w) \/ RemoteFails(w) \/ AnswerLost(w) \/ UnlinkFails(w)
    \/ \E n \in Nodes : StartSweep(n)
    \/ \E p \in Paths : OutsidePut(p) \/ OutsideEdit(p) \/ OutsideDelete(p)
    \/ Crash

Spec == Init /\ [][Next]_vars

\* Every task runs on; that somebody synchronises the node again and again is
\* an assumption about its users.
FairSpec ==
    /\ Spec
    /\ \A w \in Workers : WF_vars(Steps(w))
    /\ \A n \in Nodes : SF_vars(StartSweep(n))
-----------------------------------------------------------------------------
Objects(n) == [id : 0 .. n, ver : Nat]

Rows(n) == [path : Paths \cup {NoPath}, hash : Objects(n)]

OpKinds == {"none", "move", "delete"}

OpsUpTo(n) == [n : Nat, kind : OpKinds, file : Files \cup {0},
               from : Paths \cup {NoPath}, to : Paths \cup {NoPath},
               hash : Objects(n), copied : BOOLEAN, born : Nat]

PCs == {"idle", "lock", "enqueue", "vacant", "put", "insert", "match", "stat",
        "rename", "copy", "unlink", "shadow", "update", "remove", "drop", "audit",
        "complete", "list", "rows", "confirm", "forget", "bury", "refresh", "adopt"}

Tasks(n) == [pc : PCs, op : OpsUpTo(n), todo : SUBSET OpsUpTo(n), seen : Objects(n),
             shadow : Files \cup {0}, node : Nodes \cup {NoNode},
             listed : [Paths -> Objects(n)], rows : [Files -> Rows(n)],
             gone : SUBSET Files, new : SUBSET Paths]

(* The types, with every hash that is recorded, listed or queued the one of   *)
(* an object that was there, and one row to a path: every way a row comes to  *)
(* a path gives way to the row that is there (idx_files_unique_remote).       *)
TypeOK ==
    LET n == made.objects IN
    /\ made \in [files : 0 .. MaxFiles, objects : Nat, ops : Nat]
    /\ object \in [Paths -> Objects(n)]
    /\ file \in [Files -> Rows(n)]
    /\ ops \subseteq OpsUpTo(n)
    /\ tombs \subseteq [file : Files \cup {0}, path : Paths \cup {NoPath}]
    /\ lock \in [Paths -> Workers \cup {Nobody}]
    /\ task \in [Workers -> Tasks(n)]
    /\ dropped \subseteq Files \cup {0}
    /\ asked \in Nat /\ outside \in Nat /\ failures \in Nat
    /\ \A f, g \in Files : f # g /\ file[f].path = file[g].path => file[f].path = NoPath

(* A file that a user deleted leaves the tombstone that tells other devices   *)
(* to drop their copies, or is still in the queue: whatever failed, crashed,  *)
(* or ran the same op at the same time (completePendingOp comes last).        *)
Tombstoned ==
    \A f \in dropped :
        \/ \E t \in tombs : t.file = f
        \/ \E op \in ops : op.kind = "delete" /\ op.file = f

(* A retried delete never removes an object that came up after the delete was *)
(* ordered, at the same path, unless it came up after the retry's last look   *)
(* (runDelete's expected_hash).                                               *)
NewcomersSurvive ==
    [][At(Sweep, "remove") /\ task'[Sweep].pc = "drop"
         => LET op == task[Sweep].op IN
            object[op.from].id <= op.born \/ object[op.from] # task[Sweep].seen]_vars

\* The records tell what the remotes have.
Agree ==
    /\ \A p \in Paths : object[p] # Nothing =>
          \E f \in Holders(p) : file[f].hash = object[p]
    /\ \A f \in Files : Tracked(f) /\ file[f].hash # Nothing =>
          object[file[f].path] # Nothing

(* When users, other programs and failures rest and the nodes are swept again *)
(* and again, the records come to tell exactly what the remotes have.         *)
Reconciles == <>[]Agree

\* The retry leaves the decision to a human (assertRecordStillMatches, both or
\* none present, another object than was meant).
Undecided(op) ==
    \/ ~ Matches(op)
    \/ /\ op.kind = "move"
       /\ (object[op.from] = Nothing) = (object[op.to] = Nothing)
       /\ op.copied => object[op.from] # object[op.to]
    \/ op.kind = "delete" /\ ~ object[op.from] \in {Nothing, op.hash}

(* Every op that a request left behind is finished by a retry, except those   *)
(* the code refuses to guess about.                                           *)
RetriesFinish == <>[](\A op \in ops : Undecided(op))

(* "The row keeps its id, so every device follows the file instead of seeing  *)
(* a delete here and an unrelated add there" (remote-watcher.ts, of the way   *)
(* moveFile relocates): a move that reports success leaves the file's row,    *)
(* unless somebody ordered its deletion.                                      *)
MoveKeepsFile ==
    [][\A w \in Requests :
         At(w, "complete") /\ task[w].op.kind = "move" /\ At(w, "idle")'
            /\ ops' # ops /\ ~ task[w].op.file \in dropped
           => Tracked(task[w].op.file)]_vars
=============================================================================
