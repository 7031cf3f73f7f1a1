----------------------------- MODULE MirrorSync -----------------------------
(***************************************************************************)
(* One tracked file in central mode: every device has a copy in its mirror *)
(* and a file_state row about it, the central server has the remote object *)
(* and the hash it recorded for it.  A device's sync run, its explicit     *)
(* store, pull and resolve calls, and its watcher all work on the copy and *)
(* on the row at the same time; pushes of different devices meet at the    *)
(* server (domain/sync/central/engine-central.ts, file-content-remote.ts). *)
(*                                                                         *)
(* A content stands for its own hash, and every edit makes a new content,  *)
(* so the stat identity (mtime, size, inode) that guards the cached hash   *)
(* is a flag: TRUE while no write of the copy followed the stat.  Deleting *)
(* and moving the file, native formats and the backends without a hash are *)
(* not here.                                                               *)
(***************************************************************************)
EXTENDS Naturals, FiniteSets

CONSTANTS
    Devices,        \* devices whose users synchronise the node
    Busy,           \* devices on which something else runs meanwhile
    Calls,          \* and what: "store", "keep", "pull", "take", "watch"
    MaxEdits,       \* bound on the edits, of users and of others
    MaxFailures,    \* bound on the failed requests and the crashes
    OutOfBand       \* whether the remote object is edited outside Portuni

ASSUME SyncAssumption ==
    /\ Busy \subseteq Devices
    /\ Calls \subseteq {"store", "keep", "pull", "take", "watch"}
    /\ MaxEdits \in Nat /\ MaxFailures \in Nat /\ OutOfBand \in BOOLEAN

\* A device runs one synchronisation of a node at a time (withNodeSyncLock);
\* one call of each other kind at a time is a bound.
Workers == [dev : Devices, kind : {"sync"}] \cup [dev : Busy, kind : Calls]

VARIABLES
    disk,           \* disk[d]: content of the mirror copy
    row,            \* row[d]: the file_state row
    lock,           \* lock[d]: who holds the path lock of the copy
    remote,         \* content of the remote object
    record,         \* files.current_remote_hash
    remoteLock,     \* who holds the server's lock of the remote path
    task,           \* task[w]: where w is and what it has read
    held,           \* history: every content the remote object has had
    outside,        \* history: the contents that came from outside Portuni
    edits,
    failures

vars == <<disk, row, lock, remote, record, remoteLock, task, held, outside,
          edits, failures>>

\* No file, no hash.
None == 0

\* The content every device starts from, when there is one.
First == 1

Contents == First .. First + MaxEdits

Free == [dev |-> None, kind |-> "free"]

NoRow == [base |-> None, cached |-> None, fresh |-> FALSE]

Idle == [pc |-> "idle", base |-> None, bytes |-> None, cached |-> None,
         seen |-> None, same |-> FALSE]

Synced(c) == [base |-> c, cached |-> c, fresh |-> TRUE]

Init ==
    /\ remote \in {None, First}
    /\ record = remote
    /\ disk \in [Devices -> {None, remote}]
    /\ row = [d \in Devices |-> IF disk[d] = None THEN NoRow ELSE Synced(remote)]
    /\ lock = [d \in Devices |-> Free]
    /\ remoteLock = Free
    /\ task = [w \in Workers |-> Idle]
    /\ held = {remote} \ {None}
    /\ outside = {}
    /\ edits = 0
    /\ failures = 0

-----------------------------------------------------------------------------
(***************************************************************************)
(* The copy.                                                               *)
(***************************************************************************)

\* The tasks of d after a write of its copy: no stat of theirs holds any more.
Outdated(tasks, d) ==
    [w \in Workers |-> IF w.dev = d THEN [tasks[w] EXCEPT !.same = FALSE] ELSE tasks[w]]

Touched(d) == [row EXCEPT ![d].fresh = FALSE]

NewContent == First + edits + 1

\* Somebody saves the copy: a user, the in-app editor, an agent's tool.
Edit(d) ==
    /\ edits < MaxEdits
    /\ edits' = edits + 1
    /\ disk' = [disk EXCEPT ![d] = NewContent]
    /\ row' = Touched(d)
    /\ task' = Outdated(task, d)
    /\ UNCHANGED <<lock, remote, record, remoteLock, held, outside, failures>>

\* Somebody removes a copy this device has synced.  (Without a baseline the
\* watcher would unregister the file.)
Remove(d) ==
    /\ edits < MaxEdits
    /\ disk[d] # None /\ row[d].base # None
    /\ edits' = edits + 1
    /\ disk' = [disk EXCEPT ![d] = None]
    /\ row' = Touched(d)
    /\ task' = Outdated(task, d)
    /\ UNCHANGED <<lock, remote, record, remoteLock, held, outside, failures>>

\* Somebody edits the remote object with another program.
EditRemote ==
    /\ OutOfBand
    /\ edits < MaxEdits /\ remote # None
    /\ edits' = edits + 1
    /\ remote' = NewContent
    /\ held' = held \cup {NewContent}
    /\ outside' = outside \cup {NewContent}
    /\ UNCHANGED <<disk, row, lock, record, remoteLock, task, failures>>

-----------------------------------------------------------------------------
(***************************************************************************)
(* Steps of a task.                                                        *)
(***************************************************************************)

At(w, pc) == task[w].pc = pc

Becomes(w, t) == task' = [task EXCEPT ![w] = t]

Go(w, pc) == Becomes(w, [task[w] EXCEPT !.pc = pc])

\* MUTANT of Finish: a path lock that is not given back.
FinishHolding(w) ==
    /\ Becomes(w, Idle)
    /\ UNCHANGED lock

\* The task ends; if it held the path lock, it gives it back.
Finish(w) ==
    /\ Becomes(w, Idle)
    /\ lock' = [lock EXCEPT ![w.dev] = IF @ = w THEN Free ELSE @]

\* A sync run starts with the server's sweep, a push or a pull that somebody
\* asked for with its own work, a watcher event with the hash of the copy.
FirstStep(kind) ==
    CASE kind = "sync" -> "sweep"
      [] kind \in {"store", "keep"} -> "push"
      [] kind \in {"pull", "take"} -> "download"
      [] kind = "watch" -> "look"

Start(w) ==
    /\ At(w, "idle")
    /\ Go(w, FirstStep(w.kind))
    /\ UNCHANGED <<disk, row, lock, remote, record, remoteLock, held, outside,
                   edits, failures>>

-----------------------------------------------------------------------------
(***************************************************************************)
(* The sync run: sweep, sync-info, the hash of the copy, the bucket.       *)
(***************************************************************************)

SweepLists(w) ==
    /\ At(w, "sweep")
    /\ Becomes(w, [task[w] EXCEPT !.seen = remote, !.pc = "refresh"])
    /\ UNCHANGED <<disk, row, lock, remote, record, remoteLock, held, outside,
                   edits, failures>>

\* MUTANT of SweepRefreshes: only a missing hash is filled in.
SweepFillsHoles(w) ==
    LET known == IF record = None THEN task[w].seen ELSE record IN
    /\ At(w, "refresh")
    /\ record' = known
    /\ Becomes(w, [task[w] EXCEPT !.seen = known, !.pc = "look"])
    /\ UNCHANGED <<disk, row, lock, remote, remoteLock, held, outside, edits,
                   failures>>

\* The listing answers with a hash; a record that differs takes it.  The
\* sync-info that the device asks for next carries the record.
SweepRefreshes(w) ==
    LET listed == task[w].seen
        known == IF listed # None THEN listed ELSE record
    IN
    /\ At(w, "refresh")
    /\ record' = known
    /\ Becomes(w, [task[w] EXCEPT !.seen = known, !.pc = "look"])
    /\ UNCHANGED <<disk, row, lock, remote, remoteLock, held, outside, edits,
                   failures>>

\* What a sync run does about a file whose copy has the hash "local".
Bucket(local, base, seen) ==
    CASE seen = None /\ local # None /\ base = None -> "push"
      [] seen = None /\ (local = None \/ base # None) -> "remote_missing"
      [] seen # None /\ local = None /\ base # None -> "deleted_local"
      [] seen # None /\ local = None /\ base = None -> "pull"
      [] seen # None /\ local # None /\ base = None ->
            IF seen = local THEN "clean" ELSE "conflict"
      [] OTHER ->
            IF local = base
            THEN IF seen = base THEN "clean" ELSE "pull"
            ELSE IF seen = base THEN "push" ELSE "conflict"

\* A watcher event ends with the hash; a sync run goes on with its bucket.
AfterHash(w, local, base) ==
    LET bucket == Bucket(local, base, task[w].seen)
    IN  CASE w.kind = "sync" /\ bucket = "push" -> "push"
          [] w.kind = "sync" /\ bucket = "pull" -> "download"
          [] OTHER -> "idle"

Hashed(w, local, base) ==
    LET next == AfterHash(w, local, base)
    IN  Becomes(w, IF next = "idle" THEN Idle
                    ELSE [Idle EXCEPT !.pc = next, !.base = base])

\* localHashFor reads the row and the stat.  The cached hash answers when the
\* stat is the one it was taken with.
Look(w) ==
    LET d == w.dev IN
    /\ At(w, "look")
    /\ \/ /\ disk[d] = None
          /\ Hashed(w, None, row[d].base)
       \/ /\ disk[d] # None /\ row[d].fresh /\ row[d].cached # None
          /\ Hashed(w, row[d].cached, row[d].base)
       \/ /\ disk[d] # None /\ ~ (row[d].fresh /\ row[d].cached # None)
          /\ Becomes(w, [task[w] EXCEPT !.base = row[d].base, !.same = TRUE,
                                  !.pc = "hash"])
    /\ UNCHANGED <<disk, row, lock, remote, record, remoteLock, held, outside,
                   edits, failures>>

\* A watcher event for a copy that is gone clears the cached hash.
HashGone(w) ==
    LET d == w.dev IN
    /\ At(w, "look") /\ w.kind = "watch" /\ disk[d] = None /\ row[d] # NoRow
    /\ Becomes(w, [task[w] EXCEPT !.base = row[d].base, !.cached = None,
                            !.same = FALSE, !.pc = "cache"])
    /\ UNCHANGED <<disk, row, lock, remote, record, remoteLock, held, outside,
                   edits, failures>>

ReadForHash(w) ==
    LET d == w.dev IN
    /\ At(w, "hash")
    /\ IF disk[d] = None
       THEN Becomes(w, Idle)
       ELSE Becomes(w, [task[w] EXCEPT !.cached = disk[d], !.pc = "cache"])
    /\ UNCHANGED <<disk, row, lock, remote, record, remoteLock, held, outside,
                   edits, failures>>

\* The whole row is written: the baseline is the one read before the hash.
CacheHash(w) ==
    LET t == task[w] IN
    /\ At(w, "cache")
    /\ row' = [row EXCEPT ![w.dev] =
                  [base |-> t.base, cached |-> t.cached, fresh |-> t.same]]
    /\ Hashed(w, t.cached, t.base)
    /\ UNCHANGED <<disk, lock, remote, record, remoteLock, held, outside, edits,
                   failures>>

-----------------------------------------------------------------------------
(***************************************************************************)
(* A push, under the path lock of the copy: pushEntryCentral of a sync     *)
(* run, storeFileCentral of the others.                                    *)
(***************************************************************************)

\* The baseline is read again under the lock; a sync run falls back to the
\* one of its scan.  The stat comes before the read.
LockPush(w) ==
    LET d == w.dev IN
    /\ At(w, "push") /\ lock[d] = Free
    /\ lock' = [lock EXCEPT ![d] = w]
    /\ Becomes(w, [task[w] EXCEPT !.base = IF row[d].base # None THEN row[d].base ELSE @,
                            !.same = TRUE, !.pc = "read"])
    /\ UNCHANGED <<disk, row, remote, record, remoteLock, held, outside, edits,
                   failures>>

ReadCopy(w) ==
    LET d == w.dev IN
    /\ At(w, "read")
    /\ \/ /\ disk[d] # None
          /\ Becomes(w, [task[w] EXCEPT !.bytes = disk[d], !.pc = "put"])
          /\ UNCHANGED lock
       \/ /\ disk[d] = None
          /\ Finish(w)
    /\ UNCHANGED <<disk, row, remote, record, remoteLock, held, outside, edits,
                   failures>>

\* The server answers that the object is there, or that it changed.
Refused(w) ==
    /\ w.kind # "keep" /\ remote # None
    /\ task[w].base = None \/ task[w].base # remote

\* MUTANT of CheckPut: the precondition and the put are not one.
CheckPutUnlocked(w) ==
    LET t == task[w] IN
    /\ At(w, "put")
    /\ \/ /\ Refused(w)
          /\ record' = IF record = None THEN remote ELSE record
          /\ UNCHANGED remoteLock
          /\ \/ /\ t.base = None
                /\ Go(w, "compare")
                /\ UNCHANGED lock
             \/ /\ t.base # None
                /\ Finish(w)
       \/ /\ ~ Refused(w)
          /\ remoteLock' = w
          /\ Go(w, "upload")
          /\ UNCHANGED <<lock, record>>
    /\ UNCHANGED <<disk, row, remote, held, outside, edits, failures>>

\* The server's lock of the remote path, and the stat of the precondition.
CheckPut(w) ==
    LET t == task[w] IN
    /\ At(w, "put") /\ remoteLock = Free
    /\ \/ /\ Refused(w)
          /\ record' = IF record = None THEN remote ELSE record
          /\ UNCHANGED remoteLock
          /\ \/ /\ t.base = None
                /\ Go(w, "compare")
                /\ UNCHANGED lock
             \/ /\ t.base # None
                /\ Finish(w)
       \/ /\ ~ Refused(w)
          /\ remoteLock' = w
          /\ Go(w, "upload")
          /\ UNCHANGED <<lock, record>>
    /\ UNCHANGED <<disk, row, remote, held, outside, edits, failures>>

Upload(w) ==
    /\ At(w, "upload")
    /\ remote' = task[w].bytes
    /\ held' = held \cup {task[w].bytes}
    /\ Go(w, "record")
    /\ UNCHANGED <<disk, row, lock, record, remoteLock, outside, edits, failures>>

\* MUTANT of RecordPut: the server's lock is not given back.
RecordPutHolding(w) ==
    /\ At(w, "record")
    /\ record' = task[w].bytes
    /\ Go(w, "restat")
    /\ UNCHANGED <<disk, row, lock, remote, remoteLock, held, outside, edits, failures>>

\* The record takes the hash, the server's lock is given back, the reply
\* reaches the device.
RecordPut(w) ==
    /\ At(w, "record")
    /\ record' = task[w].bytes
    /\ remoteLock' = Free
    /\ Go(w, "restat")
    /\ UNCHANGED <<disk, row, lock, remote, held, outside, edits, failures>>

\* A file that was never synced meets an object: only identical bytes are
\* claimed.
Compare(w) ==
    /\ At(w, "compare")
    /\ \/ /\ remote = task[w].bytes
          /\ Go(w, "restat")
          /\ UNCHANGED lock
       \/ /\ remote # task[w].bytes
          /\ Finish(w)
    /\ UNCHANGED <<disk, row, remote, record, remoteLock, held, outside, edits,
                   failures>>

\* MUTANT of Restat: the second stat is not compared with the first.
RestatBlindly(w) ==
    LET t == task[w] IN
    /\ At(w, "restat")
    /\ \/ /\ disk[w.dev] = None
          /\ Finish(w)
       \/ /\ disk[w.dev] # None
          /\ Becomes(w, [task[w] EXCEPT !.cached = t.bytes, !.same = TRUE,
                                  !.pc = "save"])
          /\ UNCHANGED lock
    /\ UNCHANGED <<disk, row, remote, record, remoteLock, held, outside, edits,
                   failures>>

\* The stat is taken again.  If it moved, the copy is hashed again.
Restat(w) ==
    LET t == task[w] IN
    /\ At(w, "restat")
    /\ \/ /\ disk[w.dev] = None
          /\ Finish(w)
       \/ /\ disk[w.dev] # None /\ t.same
          /\ Becomes(w, [task[w] EXCEPT !.cached = t.bytes, !.pc = "save"])
          /\ UNCHANGED lock
       \/ /\ disk[w.dev] # None /\ ~ t.same
          /\ Becomes(w, [task[w] EXCEPT !.same = TRUE, !.pc = "rehash"])
          /\ UNCHANGED lock
    /\ UNCHANGED <<disk, row, remote, record, remoteLock, held, outside, edits,
                   failures>>

Rehash(w) ==
    /\ At(w, "rehash")
    /\ \/ /\ disk[w.dev] # None
          /\ Becomes(w, [task[w] EXCEPT !.cached = disk[w.dev], !.pc = "save"])
          /\ UNCHANGED lock
       \/ /\ disk[w.dev] = None
          /\ Finish(w)
    /\ UNCHANGED <<disk, row, remote, record, remoteLock, held, outside, edits,
                   failures>>

\* MUTANT of SaveBaseline: the baseline is what the copy has by now.
SaveCached(w) ==
    LET t == task[w] IN
    /\ At(w, "save") \/ At(w, "pulled")
    /\ row' = [row EXCEPT ![w.dev] =
                  [base |-> t.cached, cached |-> t.cached, fresh |-> t.same]]
    /\ Finish(w)
    /\ UNCHANGED <<disk, remote, record, remoteLock, held, outside, edits, failures>>

\* The new baseline, of a push and of a pull.
SaveBaseline(w) ==
    LET t == task[w] IN
    /\ At(w, "save") \/ At(w, "pulled")
    /\ row' = [row EXCEPT ![w.dev] =
                  [base |-> t.bytes, cached |-> t.cached, fresh |-> t.same]]
    /\ Finish(w)
    /\ UNCHANGED <<disk, remote, record, remoteLock, held, outside, edits, failures>>

-----------------------------------------------------------------------------
(***************************************************************************)
(* A pull: the download, then the path lock, the guard and the write.      *)
(***************************************************************************)

Download(w) ==
    /\ At(w, "download")
    /\ \/ /\ remote # None
          /\ record' = IF record = None THEN remote ELSE record
          /\ Becomes(w, [task[w] EXCEPT !.bytes = remote, !.pc = "pull"])
          /\ UNCHANGED lock
       \/ /\ remote = None
          /\ Finish(w)
          /\ UNCHANGED record
    /\ UNCHANGED <<disk, row, remote, remoteLock, held, outside, edits, failures>>

\* MUTANT of Dirty: a copy without a baseline is nobody's work.
DirtySynced(w) ==
    LET d == w.dev IN
    /\ disk[d] # None
    /\ disk[d] # task[w].bytes
    /\ row[d].base # None /\ disk[d] # row[d].base

\* A copy with edits this device never pushed.
Dirty(w) ==
    LET d == w.dev IN
    /\ disk[d] # None
    /\ disk[d] # task[w].bytes
    /\ row[d].base = None \/ disk[d] # row[d].base

LockPull(w) ==
    LET d == w.dev IN
    /\ At(w, "pull") /\ lock[d] = Free
    /\ \/ /\ w.kind # "take" /\ Dirty(w)
          /\ Finish(w)
       \/ /\ w.kind = "take" \/ ~ Dirty(w)
          /\ lock' = [lock EXCEPT ![d] = w]
          /\ Becomes(w, [task[w] EXCEPT !.same = TRUE, !.pc = "write"])
    /\ UNCHANGED <<disk, row, remote, record, remoteLock, held, outside, edits,
                   failures>>

WriteCopy(w) ==
    /\ At(w, "write")
    /\ disk' = [disk EXCEPT ![w.dev] = task[w].bytes]
    /\ row' = Touched(w.dev)
    /\ task' = [Outdated(task, w.dev) EXCEPT ![w].pc = "stat"]
    /\ UNCHANGED <<lock, remote, record, remoteLock, held, outside, edits, failures>>

StatCopy(w) ==
    /\ At(w, "stat")
    /\ \/ /\ disk[w.dev] # None
          /\ Becomes(w, [task[w] EXCEPT !.cached = task[w].bytes, !.same = TRUE,
                                  !.pc = "pulled"])
          /\ UNCHANGED lock
       \/ /\ disk[w.dev] = None
          /\ Finish(w)
    /\ UNCHANGED <<disk, row, remote, record, remoteLock, held, outside, edits,
                   failures>>

-----------------------------------------------------------------------------
(***************************************************************************)
(* What goes wrong.                                                        *)
(***************************************************************************)

\* A request fails before it reached the server, or its reply is lost.
RequestFails(w) ==
    /\ failures < MaxFailures
    /\ task[w].pc \in {"sweep", "refresh", "put", "compare", "download", "restat"}
    /\ failures' = failures + 1
    /\ Finish(w)
    /\ UNCHANGED <<disk, row, remote, record, remoteLock, held, outside, edits>>

\* The server's put fails, or what follows it does: the object may be there
\* and the record not know it.
StoreFails(w) ==
    /\ failures < MaxFailures
    /\ task[w].pc \in {"upload", "record"}
    /\ failures' = failures + 1
    /\ remoteLock' = Free
    /\ Finish(w)
    /\ UNCHANGED <<disk, row, remote, record, held, outside, edits>>

\* A central server that refuses the sweep does not stop the run.
SweepRefused(w) ==
    /\ failures < MaxFailures
    /\ At(w, "sweep")
    /\ failures' = failures + 1
    /\ Becomes(w, [task[w] EXCEPT !.seen = record, !.pc = "look"])
    /\ UNCHANGED <<disk, row, lock, remote, record, remoteLock, held, outside,
                   edits>>

\* The device's process dies; what the server is doing for it goes on, so a
\* crash during a put is a crash after it.
Crash(d) ==
    /\ failures < MaxFailures
    /\ \A w \in Workers : w.dev = d => ~ task[w].pc \in {"upload", "record"}
    /\ \E w \in Workers : w.dev = d /\ ~ At(w, "idle")
    /\ failures' = failures + 1
    /\ task' = [w \in Workers |-> IF w.dev = d THEN Idle ELSE task[w]]
    /\ lock' = [lock EXCEPT ![d] = Free]
    /\ UNCHANGED <<disk, row, remote, record, remoteLock, held, outside, edits>>

-----------------------------------------------------------------------------
Locks(w) == LockPush(w) \/ LockPull(w) \/ CheckPut(w)

Steps(w) ==
    \/ SweepLists(w) \/ SweepRefreshes(w)
    \/ Look(w) \/ HashGone(w) \/ ReadForHash(w) \/ CacheHash(w)
    \/ ReadCopy(w) \/ Upload(w) \/ RecordPut(w) \/ Compare(w)
    \/ Restat(w) \/ Rehash(w) \/ SaveBaseline(w)
    \/ Download(w) \/ WriteCopy(w) \/ StatCopy(w)

Next ==
    \/ \E d \in Devices : Edit(d) \/ Remove(d) \/ Crash(d)
    \/ EditRemote
    \/ \E w \in Workers : Start(w) \/ Locks(w) \/ Steps(w)
                          \/ RequestFails(w) \/ StoreFails(w) \/ SweepRefused(w)

Spec == Init /\ [][Next]_vars

\* The event loop runs every task on, and a path lock is a queue of promises,
\* so nobody waits for ever for one that is given back again and again.  That
\* users press Synchronise again and again is an assumption, not the code's.
FairSpec ==
    /\ Spec
    /\ \A w \in Workers : WF_vars(Steps(w)) /\ SF_vars(Locks(w))
    /\ \A w \in Workers : w.kind = "sync" => WF_vars(Start(w))
-----------------------------------------------------------------------------
PCs == {"idle", "sweep", "refresh", "look", "hash", "cache", "push",
        "read", "put", "upload", "record", "compare", "restat", "rehash", "save",
        "download", "pull", "write", "stat", "pulled"}

Hash == Contents \cup {None}

Tasks == [pc : PCs, base : Hash, bytes : Hash, cached : Hash, seen : Hash,
          same : BOOLEAN]

\* Where a task holds the path lock of its copy, and the server's lock.
Locked == {"read", "put", "upload", "record", "compare", "restat", "rehash",
           "save", "write", "stat", "pulled"}
Storing == {"upload", "record"}

(* The types, and the locks: exactly the tasks at work on a copy hold its     *)
(* path lock, and exactly the put in progress holds the server's.  Whatever   *)
(* a task ends with, it gives both back.                                      *)
TypeOK ==
    /\ disk \in [Devices -> Hash]
    /\ row \in [Devices -> [base : Hash, cached : Hash, fresh : BOOLEAN]]
    /\ lock \in [Devices -> Workers \cup {Free}]
    /\ remote \in Hash /\ record \in Hash
    /\ remoteLock \in Workers \cup {Free}
    /\ task \in [Workers -> Tasks]
    /\ held \subseteq Contents /\ outside \subseteq Contents
    /\ edits \in 0 .. MaxEdits /\ failures \in 0 .. MaxFailures
    /\ \A w \in Workers : lock[w.dev] = w <=> task[w].pc \in Locked
    /\ \A w \in Workers : remoteLock = w <=> task[w].pc \in Storing

(* No push overwrites work it has not seen: what an upload replaces is the    *)
(* baseline of the device, nothing, or an edit made outside Portuni between   *)
(* the stat and the upload, which the lock of the path cannot keep out.       *)
NoLostPush ==
    [][\A w \in Workers :
         At(w, "upload") /\ task'[w].pc = "record" /\ w.kind # "keep"
           => remote \in {None, task[w].base} \cup outside]_vars

(* What a pull writes over is somewhere else too: the content was on the      *)
(* remote, unless somebody saved it after the guard had read the copy or      *)
(* asked for the remote's side.                                               *)
LocalWorkSurvives ==
    [][\A w \in Workers :
         At(w, "write") /\ task'[w].pc = "stat" /\ w.kind # "take" /\ task[w].same
           => disk[w.dev] \in held \cup {None}]_vars

(* A baseline is always a content the remote had: a row that claims another   *)
(* one makes the next pull destroy work as if it were synced.                 *)
BaselineWasRemote == \A d \in Devices : row[d].base \in held \cup {None}

(* An edit saved while a push or a hash was under way never reads as clean:   *)
(* a hash about to be cached with a stat that still holds is the copy's.      *)
HashDescribesCopy ==
    \A w \in Workers :
        task[w].pc \in {"cache", "save"} /\ task[w].same
          => task[w].cached = disk[w.dev]

\* The cached hash answers for the copy, but is not its hash.
Masked(d) == row[d].fresh /\ ~ row[d].cached \in {None, disk[d]}

\* Synced, removed here, or waiting for somebody to choose a side.
Settled(d) ==
    \/ disk[d] = remote
    \/ disk[d] = None /\ row[d].base # None
    \/ disk[d] # None /\ ~ row[d].base \in {disk[d], remote}

(* When the edits and the failures are over and users go on synchronising,    *)
(* every copy is the remote object, or is left to its user as removed or in   *)
(* conflict.  The exception is a copy saved between a pull's write and its    *)
(* stat: its hash is cached as the pulled one and nothing looks at it again.  *)
Converges == <>[](\A d \in Devices : Settled(d) \/ Masked(d))

(* No task waits for ever: not for a lock of a task that failed or refused.   *)
EveryTaskEnds == \A w \in Workers : ~ At(w, "idle") ~> At(w, "idle")

(* A pull does not take back what this device has just pushed.                *)
PullKeepsPushed ==
    [][\A w \in Workers :
         At(w, "write") /\ task'[w].pc = "stat" /\ w.kind # "take"
            /\ task[w].same /\ disk[w.dev] = remote
           => task[w].bytes = remote]_vars
=============================================================================
