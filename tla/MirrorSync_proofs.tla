-------------------------- MODULE MirrorSync_proofs --------------------------
(***************************************************************************)
(* Proofs about MirrorSync, for any devices, calls and bounds: who holds   *)
(* which lock, that no push is lost, that baselines were on the remote,    *)
(* that no edit is taken for the pushed bytes, and that a pull writes only *)
(* over what is on the remote too.                                         *)
(*                                                                         *)
(* None of these is inductive.  SyncInv says of every task where the       *)
(* hashes it carries come from (Sourced), what the stat of the server's    *)
(* precondition still tells when the upload begins (Unraced), that bytes   *)
(* whose stat still holds are the copy (Described), and what the guard of  *)
(* a pull has seen (Guarded).                                              *)
(***************************************************************************)
EXTENDS MirrorSync, TLAPS

Sourced(t) ==
    /\ t.base \in held \cup {None}
    /\ t.pc \in {"record", "restat", "rehash", "save", "pull", "write", "stat", "pulled"}
         => t.bytes \in held \cup {None}
    /\ t.pc \in {"put", "upload"} => t.bytes # None

Unraced(w, t) ==
    t.pc = "upload" /\ w.kind # "keep" => remote \in {None, t.base} \cup outside

Described(w, t) ==
    t.same =>
      /\ t.pc \in {"cache", "save"} => t.cached = disk[w.dev]
      /\ t.pc \in {"put", "upload", "record", "compare", "restat"}
           => t.bytes = disk[w.dev]

Guarded(w, t) ==
    t.pc = "write" /\ w.kind # "take" /\ t.same => disk[w.dev] \in held \cup {None}

Fits(w, t) == Sourced(t) /\ Unraced(w, t) /\ Described(w, t) /\ Guarded(w, t)

SyncInv ==
    /\ TypeOK
    /\ remote \in held \cup {None}
    /\ BaselineWasRemote
    /\ \A w \in Workers : Fits(w, task[w])

USE SyncAssumption
    DEF At, Go, Becomes, Hash, Contents, First, None, PCs, Locked, Storing

(* No worker is the mark of a free lock.                                   *)
LEMMA Kinds ==
  /\ \A w \in Workers : w.dev \in Devices /\ w # Free
  /\ \A w \in Workers : w.kind \in {"sync", "store", "keep", "pull", "take", "watch"}
<1>1. \A w \in [dev : Devices, kind : {"sync"}] : w.dev \in Devices /\ w.kind = "sync"
  OBVIOUS
<1>2. \A w \in [dev : Busy, kind : Calls] : w.dev \in Devices /\ w.kind \in Calls
  OBVIOUS
<1>3. \A w \in Workers :
        w.dev \in Devices /\ w.kind \in {"sync", "store", "keep", "pull", "take", "watch"}
  BY <1>1, <1>2 DEF Workers
<1> QED
  BY <1>3 DEF Free

(* A task that ended is a task, and fits.                                  *)
LEMMA IdleTask == Idle \in Tasks /\ \A w \in Workers : Fits(w, Idle)
BY DEF Idle, Tasks, Fits, Sourced, Unraced, Described, Guarded

(* What a worker reads has its type.                                       *)
LEMMA Typed ==
  ASSUME SyncInv, NEW w \in Workers
  PROVE  /\ task[w] \in Tasks
         /\ disk[w.dev] \in Hash /\ remote \in Hash /\ record \in Hash
         /\ row[w.dev] \in [base : Hash, cached : Hash, fresh : BOOLEAN]
         /\ row[w.dev].base \in Hash
BY Kinds DEF SyncInv, TypeOK

(* A task that goes on without a lock, a file or the remote changing keeps *)
(* the invariant, when what it carries fits.                               *)
LEMMA TaskMoves ==
  ASSUME SyncInv, NEW w \in Workers, NEW t \in Tasks, Becomes(w, t),
         Fits(w, t),
         t.pc \in Locked <=> task[w].pc \in Locked,
         t.pc \in Storing <=> task[w].pc \in Storing,
         UNCHANGED <<disk, row, lock, remote, remoteLock, held, outside, edits>>,
         record' \in Hash, failures' \in 0 .. MaxFailures
  PROVE  SyncInv'
<1>1. task' \in [Workers -> Tasks] /\ task'[w] = t
      /\ \A v \in Workers : v # w => task'[v] = task[v]
  BY DEF SyncInv, TypeOK
<1>2. TypeOK'
  BY <1>1 DEF SyncInv, TypeOK
<1>3. ASSUME NEW v \in Workers PROVE Fits(v, task[v])'
  BY <1>1 DEF SyncInv, Fits, Sourced, Unraced, Described, Guarded
<1> QED
  BY <1>2, <1>3 DEF SyncInv, BaselineWasRemote

(* A task that ends gives its path lock back, whatever it was at; not in   *)
(* the middle of a put.                                                    *)
LEMMA TaskEnds ==
  ASSUME SyncInv, NEW w \in Workers, Finish(w), ~ task[w].pc \in Storing,
         UNCHANGED <<disk, row, remote, remoteLock, held, outside, edits>>,
         record' \in Hash, failures' \in 0 .. MaxFailures
  PROVE  SyncInv'
<1>1. task' \in [Workers -> Tasks] /\ task'[w] = Idle /\ Idle.pc = "idle"
      /\ \A v \in Workers : v # w => task'[v] = task[v]
  BY IdleTask DEF SyncInv, TypeOK, Finish, Idle
<1>2. /\ lock' \in [Devices -> Workers \cup {Free}]
      /\ \A v \in Workers : lock'[v.dev] = v <=> lock[v.dev] = v /\ v # w
  BY Kinds DEF SyncInv, TypeOK, Finish
<1>3. TypeOK'
  <2>1. (\A v \in Workers : lock[v.dev] = v <=> task[v].pc \in Locked)'
    BY <1>1, <1>2 DEF SyncInv, TypeOK
  <2>2. (\A v \in Workers : remoteLock = v <=> task[v].pc \in Storing)'
    BY <1>1 DEF SyncInv, TypeOK
  <2> QED
    BY <1>1, <1>2, <2>1, <2>2 DEF SyncInv, TypeOK
<1>4. ASSUME NEW v \in Workers PROVE Fits(v, task[v])'
  BY <1>1, IdleTask DEF SyncInv, Fits, Sourced, Unraced, Described, Guarded
<1> QED
  BY <1>3, <1>4 DEF SyncInv, BaselineWasRemote

(* Somebody writes or removes a copy: no stat of it holds any more.        *)
LEMMA CopyWritten ==
  ASSUME SyncInv, NEW d \in Devices, NEW c \in Hash,
         disk' = [disk EXCEPT ![d] = c], row' = Touched(d), task' = Outdated(task, d),
         edits' \in 0 .. MaxEdits,
         UNCHANGED <<lock, remote, record, remoteLock, held, outside, failures>>
  PROVE  SyncInv'
<1>1. /\ task' \in [Workers -> Tasks]
      /\ \A v \in Workers :
            /\ task'[v].pc = task[v].pc /\ task'[v].base = task[v].base
            /\ task'[v].bytes = task[v].bytes /\ task'[v].cached = task[v].cached
            /\ v.dev = d => task'[v].same = FALSE
            /\ v.dev # d => task'[v].same = task[v].same
  <2>1. \A t \in Tasks : /\ [t EXCEPT !.same = FALSE] \in Tasks
                      /\ [t EXCEPT !.same = FALSE].pc = t.pc
                      /\ [t EXCEPT !.same = FALSE].base = t.base
                      /\ [t EXCEPT !.same = FALSE].bytes = t.bytes
                      /\ [t EXCEPT !.same = FALSE].cached = t.cached
                      /\ [t EXCEPT !.same = FALSE].same = FALSE
    BY DEF Tasks
  <2> QED
    BY <2>1 DEF SyncInv, TypeOK, Outdated
<1>2. /\ disk' \in [Devices -> Hash]
      /\ row' \in [Devices -> [base : Hash, cached : Hash, fresh : BOOLEAN]]
      /\ \A e \in Devices : row'[e].base = row[e].base /\ (e # d => disk'[e] = disk[e])
  <2>1. \A r \in [base : Hash, cached : Hash, fresh : BOOLEAN] :
           /\ [r EXCEPT !.fresh = FALSE] \in [base : Hash, cached : Hash, fresh : BOOLEAN]
           /\ [r EXCEPT !.fresh = FALSE].base = r.base
    OBVIOUS
  <2> QED
    BY <2>1 DEF SyncInv, TypeOK, Touched
<1>3. TypeOK'
  BY <1>1, <1>2 DEF SyncInv, TypeOK
<1>4. ASSUME NEW v \in Workers PROVE Fits(v, task[v])'
  BY <1>1, <1>2, Kinds DEF SyncInv, Fits, Sourced, Unraced, Described, Guarded
<1> QED
  BY <1>2, <1>3, <1>4 DEF SyncInv, BaselineWasRemote

(* A user's edit or removal of a copy keeps the invariant.                 *)
LEMMA EditKeeps ==
  ASSUME SyncInv, NEW d \in Devices, Edit(d) \/ Remove(d)
  PROVE  SyncInv'
<1>1. /\ edits' \in 0 .. MaxEdits
      /\ NewContent \in Hash
      /\ row' = Touched(d) /\ task' = Outdated(task, d)
      /\ UNCHANGED <<lock, remote, record, remoteLock, held, outside, failures>>
  BY DEF SyncInv, TypeOK, Edit, Remove, NewContent
<1>2. \E c \in Hash : disk' = [disk EXCEPT ![d] = c]
  BY <1>1 DEF Edit, Remove
<1> QED
  BY <1>1, <1>2, CopyWritten

(* So does a crash: its tasks end, and nobody at a put is among them.      *)
LEMMA CrashKeeps ==
  ASSUME SyncInv, NEW d \in Devices, Crash(d)
  PROVE  SyncInv'
<1>1. /\ task' \in [Workers -> Tasks] /\ Idle.pc = "idle"
      /\ \A v \in Workers : task'[v] = IF v.dev = d THEN Idle ELSE task[v]
  BY IdleTask DEF SyncInv, TypeOK, Crash, Idle
<1>2. TypeOK'
  BY <1>1, Kinds DEF SyncInv, TypeOK, Crash
<1>3. ASSUME NEW v \in Workers PROVE Fits(v, task[v])'
  BY <1>1, IdleTask DEF SyncInv, Crash, Fits, Sourced, Unraced, Described, Guarded
<1> QED
  BY <1>2, <1>3 DEF SyncInv, BaselineWasRemote, Crash

(* So does an edit outside Portuni: the content joins held and outside.    *)
LEMMA EditRemoteKeeps ==
  ASSUME SyncInv, EditRemote
  PROVE  SyncInv'
<1>1. NewContent \in Contents /\ edits' \in 0 .. MaxEdits
  BY DEF SyncInv, TypeOK, EditRemote, NewContent
<1>2. TypeOK'
  BY <1>1 DEF SyncInv, TypeOK, EditRemote
<1>3. ASSUME NEW v \in Workers PROVE Fits(v, task[v])'
  BY <1>1 DEF SyncInv, EditRemote, Fits, Sourced, Unraced, Described, Guarded
<1> QED
  BY <1>2, <1>3 DEF SyncInv, BaselineWasRemote, EditRemote

(* The first step of a sync run, a call or a watcher event (Start).        *)
LEMMA StartKeeps ==
  ASSUME SyncInv, NEW w \in Workers, Start(w)
  PROVE  SyncInv'
<1> DEFINE t == [task[w] EXCEPT !.pc = FirstStep(w.kind)]
<1>1. /\ Becomes(w, t) /\ record' \in Hash /\ failures' \in 0 .. MaxFailures
      /\ UNCHANGED <<disk, row, lock, remote, remoteLock, held, outside, edits>>
      /\ t.pc \in Locked <=> task[w].pc \in Locked
      /\ t.pc \in Storing <=> task[w].pc \in Storing
  BY Kinds DEF SyncInv, TypeOK, Tasks, Start, FirstStep
<1>2. t \in Tasks
  BY Typed, <1>1, Kinds DEF Tasks, FirstStep
<1>3. Fits(w, t)
  BY Kinds DEF SyncInv, TypeOK, Tasks, BaselineWasRemote, Start, FirstStep, Fits,
     Sourced, Unraced, Described, Guarded
<1> QED
  BY <1>1, <1>2, <1>3, TaskMoves

(* The listing of remoteSweep.                                             *)
LEMMA SweepListsKeeps ==
  ASSUME SyncInv, NEW w \in Workers, SweepLists(w)
  PROVE  SyncInv'
<1> DEFINE t == [task[w] EXCEPT !.seen = remote, !.pc = "refresh"]
<1>1. /\ Becomes(w, t) /\ record' \in Hash /\ failures' \in 0 .. MaxFailures
      /\ UNCHANGED <<disk, row, lock, remote, remoteLock, held, outside, edits>>
      /\ t.pc \in Locked <=> task[w].pc \in Locked
      /\ t.pc \in Storing <=> task[w].pc \in Storing
  BY Kinds DEF SyncInv, TypeOK, Tasks, SweepLists
<1>2. t \in Tasks
  BY ZenonT(60), Typed, <1>1, Kinds DEF Tasks
<1>3. Fits(w, t)
  BY Kinds DEF SyncInv, TypeOK, Tasks, BaselineWasRemote, SweepLists, Fits,
     Sourced, Unraced, Described, Guarded
<1> QED
  BY <1>1, <1>2, <1>3, TaskMoves

(* refreshRemoteHashes writes the listed hash into the record.             *)
LEMMA SweepRefreshesKeeps ==
  ASSUME SyncInv, NEW w \in Workers, SweepRefreshes(w)
  PROVE  SyncInv'
<1> DEFINE t == [task[w] EXCEPT !.seen = record', !.pc = "look"]
<1>1. /\ Becomes(w, t) /\ record' \in Hash /\ failures' \in 0 .. MaxFailures
      /\ UNCHANGED <<disk, row, lock, remote, remoteLock, held, outside, edits>>
      /\ t.pc \in Locked <=> task[w].pc \in Locked
      /\ t.pc \in Storing <=> task[w].pc \in Storing
  BY Kinds DEF SyncInv, TypeOK, Tasks, SweepRefreshes
<1>2. t \in Tasks
  BY ZenonT(60), Typed, <1>1, Kinds DEF Tasks
<1>3. Fits(w, t)
  BY Kinds DEF SyncInv, TypeOK, Tasks, BaselineWasRemote, SweepRefreshes, Fits,
     Sourced, Unraced, Described, Guarded
<1> QED
  BY <1>1, <1>2, <1>3, TaskMoves

(* A sweep the server refuses; syncRunCentral goes on.                     *)
LEMMA SweepRefusedKeeps ==
  ASSUME SyncInv, NEW w \in Workers, SweepRefused(w)
  PROVE  SyncInv'
<1> DEFINE t == [task[w] EXCEPT !.seen = record, !.pc = "look"]
<1>1. /\ Becomes(w, t) /\ record' \in Hash /\ failures' \in 0 .. MaxFailures
      /\ UNCHANGED <<disk, row, lock, remote, remoteLock, held, outside, edits>>
      /\ t.pc \in Locked <=> task[w].pc \in Locked
      /\ t.pc \in Storing <=> task[w].pc \in Storing
  BY Kinds DEF SyncInv, TypeOK, Tasks, SweepRefused
<1>2. t \in Tasks
  BY ZenonT(60), Typed, <1>1, Kinds DEF Tasks
<1>3. Fits(w, t)
  BY Kinds DEF SyncInv, TypeOK, Tasks, BaselineWasRemote, SweepRefused, Fits,
     Sourced, Unraced, Described, Guarded
<1> QED
  BY <1>1, <1>2, <1>3, TaskMoves

(* The watcher's branch of localHashFor for a copy that is gone.           *)
LEMMA HashGoneKeeps ==
  ASSUME SyncInv, NEW w \in Workers, HashGone(w)
  PROVE  SyncInv'
<1> DEFINE t == [task[w] EXCEPT !.base = row[w.dev].base, !.cached = None,
   !.same = FALSE, !.pc = "cache"]
<1>1. /\ Becomes(w, t) /\ record' \in Hash /\ failures' \in 0 .. MaxFailures
      /\ UNCHANGED <<disk, row, lock, remote, remoteLock, held, outside, edits>>
      /\ t.pc \in Locked <=> task[w].pc \in Locked
      /\ t.pc \in Storing <=> task[w].pc \in Storing
  BY Kinds DEF SyncInv, TypeOK, Tasks, HashGone
<1>2. t \in Tasks
  <2>1. task[w] \in Tasks /\ row[w.dev].base \in Hash /\ "cache" \in PCs
    BY Typed
  <2> QED
    BY <2>1 DEF Tasks
<1>3. Fits(w, t)
  BY Kinds DEF SyncInv, TypeOK, Tasks, BaselineWasRemote, HashGone, Fits,
     Sourced, Unraced, Described, Guarded
<1> QED
  BY <1>1, <1>2, <1>3, TaskMoves

(* localHashFor reads and hashes the copy.                                 *)
LEMMA ReadForHashKeeps ==
  ASSUME SyncInv, NEW w \in Workers, ReadForHash(w)
  PROVE  SyncInv'
<1>1. CASE disk[w.dev] # None
  <2> DEFINE t == [task[w] EXCEPT !.cached = disk[w.dev], !.pc = "cache"]
  <2>1. /\ Becomes(w, t) /\ record' \in Hash /\ failures' \in 0 .. MaxFailures
        /\ UNCHANGED <<disk, row, lock, remote, remoteLock, held, outside, edits>>
        /\ t.pc \in Locked <=> task[w].pc \in Locked
        /\ t.pc \in Storing <=> task[w].pc \in Storing
    BY <1>1, Kinds DEF SyncInv, TypeOK, Tasks, ReadForHash, Idle
  <2>2. t \in Tasks
    BY Typed, IdleTask DEF Tasks
  <2>3. Fits(w, t)
    BY <1>1, Kinds, IdleTask DEF SyncInv, TypeOK, Tasks, BaselineWasRemote,
       ReadForHash, Idle, Fits, Sourced, Unraced, Described, Guarded
  <2> QED
    BY <2>1, <2>2, <2>3, TaskMoves
<1>2. CASE disk[w.dev] = None
  <2> DEFINE t == Idle
  <2>1. /\ Becomes(w, t) /\ record' \in Hash /\ failures' \in 0 .. MaxFailures
        /\ UNCHANGED <<disk, row, lock, remote, remoteLock, held, outside, edits>>
        /\ t.pc \in Locked <=> task[w].pc \in Locked
        /\ t.pc \in Storing <=> task[w].pc \in Storing
    BY <1>2, Kinds DEF SyncInv, TypeOK, Tasks, ReadForHash, Idle
  <2>2. t \in Tasks
    BY Typed, IdleTask DEF Tasks
  <2>3. Fits(w, t)
    BY <1>2, Kinds, IdleTask DEF SyncInv, TypeOK, Tasks, BaselineWasRemote,
       ReadForHash, Idle, Fits, Sourced, Unraced, Described, Guarded
  <2> QED
    BY <2>1, <2>2, <2>3, TaskMoves
<1> QED
  BY <1>1, <1>2

(* A push reads the bytes under the path lock.                             *)
LEMMA ReadCopyKeeps ==
  ASSUME SyncInv, NEW w \in Workers, ReadCopy(w)
  PROVE  SyncInv'
<1>1. CASE disk[w.dev] # None
  <2> DEFINE t == [task[w] EXCEPT !.bytes = disk[w.dev], !.pc = "put"]
  <2>1. /\ Becomes(w, t) /\ record' \in Hash /\ failures' \in 0 .. MaxFailures
        /\ UNCHANGED <<disk, row, lock, remote, remoteLock, held, outside, edits>>
        /\ t.pc \in Locked <=> task[w].pc \in Locked
        /\ t.pc \in Storing <=> task[w].pc \in Storing
    BY <1>1, Kinds DEF SyncInv, TypeOK, Tasks, ReadCopy
  <2>2. t \in Tasks
    BY Typed, IdleTask DEF Tasks
  <2>3. Fits(w, t)
    BY <1>1, Kinds, IdleTask DEF SyncInv, TypeOK, Tasks, BaselineWasRemote,
       ReadCopy, Fits, Sourced, Unraced, Described, Guarded
  <2> QED
    BY <2>1, <2>2, <2>3, TaskMoves
<1>2. CASE ~ (disk[w.dev] # None)
  <2>1. /\ Finish(w) /\ ~ task[w].pc \in Storing
        /\ record' \in Hash /\ failures' \in 0 .. MaxFailures
        /\ UNCHANGED <<disk, row, remote, remoteLock, held, outside, edits>>
    BY <1>2 DEF SyncInv, TypeOK, ReadCopy
  <2> QED
    BY <2>1, TaskEnds
<1> QED
  BY <1>1, <1>2

(* storeFileCentral compares the remote's bytes with its own.              *)
LEMMA CompareKeeps ==
  ASSUME SyncInv, NEW w \in Workers, Compare(w)
  PROVE  SyncInv'
<1>1. CASE remote = task[w].bytes
  <2> DEFINE t == [task[w] EXCEPT !.pc = "restat"]
  <2>1. /\ Becomes(w, t) /\ record' \in Hash /\ failures' \in 0 .. MaxFailures
        /\ UNCHANGED <<disk, row, lock, remote, remoteLock, held, outside, edits>>
        /\ t.pc \in Locked <=> task[w].pc \in Locked
        /\ t.pc \in Storing <=> task[w].pc \in Storing
    BY <1>1, Kinds DEF SyncInv, TypeOK, Tasks, Compare
  <2>2. t \in Tasks
    BY Typed, IdleTask DEF Tasks
  <2>3. Fits(w, t)
    BY <1>1, Kinds, IdleTask DEF SyncInv, TypeOK, Tasks, BaselineWasRemote,
       Compare, Fits, Sourced, Unraced, Described, Guarded
  <2> QED
    BY <2>1, <2>2, <2>3, TaskMoves
<1>2. CASE ~ (remote = task[w].bytes)
  <2>1. /\ Finish(w) /\ ~ task[w].pc \in Storing
        /\ record' \in Hash /\ failures' \in 0 .. MaxFailures
        /\ UNCHANGED <<disk, row, remote, remoteLock, held, outside, edits>>
    BY <1>2 DEF SyncInv, TypeOK, Compare
  <2> QED
    BY <2>1, TaskEnds
<1> QED
  BY <1>1, <1>2

(* The stat after a put, compared with the one before the read.            *)
LEMMA RestatKeeps ==
  ASSUME SyncInv, NEW w \in Workers, Restat(w)
  PROVE  SyncInv'
<1>1. CASE disk[w.dev] # None /\ task[w].same
  <2> DEFINE t == [task[w] EXCEPT !.cached = task[w].bytes, !.pc = "save"]
  <2>1. /\ Becomes(w, t) /\ record' \in Hash /\ failures' \in 0 .. MaxFailures
        /\ UNCHANGED <<disk, row, lock, remote, remoteLock, held, outside, edits>>
        /\ t.pc \in Locked <=> task[w].pc \in Locked
        /\ t.pc \in Storing <=> task[w].pc \in Storing
    BY <1>1, Kinds DEF SyncInv, TypeOK, Tasks, Restat
  <2>2. t \in Tasks
    BY Typed, IdleTask DEF Tasks
  <2>3. Fits(w, t)
    BY <1>1, Kinds, IdleTask DEF SyncInv, TypeOK, Tasks, BaselineWasRemote,
       Restat, Fits, Sourced, Unraced, Described, Guarded
  <2> QED
    BY <2>1, <2>2, <2>3, TaskMoves
<1>2. CASE disk[w.dev] # None /\ ~ task[w].same
  <2> DEFINE t == [task[w] EXCEPT !.same = TRUE, !.pc = "rehash"]
  <2>1. /\ Becomes(w, t) /\ record' \in Hash /\ failures' \in 0 .. MaxFailures
        /\ UNCHANGED <<disk, row, lock, remote, remoteLock, held, outside, edits>>
        /\ t.pc \in Locked <=> task[w].pc \in Locked
        /\ t.pc \in Storing <=> task[w].pc \in Storing
    BY <1>2, Kinds DEF SyncInv, TypeOK, Tasks, Restat
  <2>2. t \in Tasks
    BY Typed, IdleTask DEF Tasks
  <2>3. Fits(w, t)
    BY <1>2, Kinds, IdleTask DEF SyncInv, TypeOK, Tasks, BaselineWasRemote,
       Restat, Fits, Sourced, Unraced, Described, Guarded
  <2> QED
    BY <2>1, <2>2, <2>3, TaskMoves
<1>3. CASE ~ (disk[w.dev] # None /\ task[w].same) /\ ~ (disk[w.dev] # None /\ ~ task[w].same)
  <2>1. /\ Finish(w) /\ ~ task[w].pc \in Storing
        /\ record' \in Hash /\ failures' \in 0 .. MaxFailures
        /\ UNCHANGED <<disk, row, remote, remoteLock, held, outside, edits>>
    BY <1>3 DEF SyncInv, TypeOK, Restat
  <2> QED
    BY <2>1, TaskEnds
<1> QED
  BY <1>1, <1>2, <1>3

(* The copy is hashed again when the two stats differ.                     *)
LEMMA RehashKeeps ==
  ASSUME SyncInv, NEW w \in Workers, Rehash(w)
  PROVE  SyncInv'
<1>1. CASE disk[w.dev] # None
  <2> DEFINE t == [task[w] EXCEPT !.cached = disk[w.dev], !.pc = "save"]
  <2>1. /\ Becomes(w, t) /\ record' \in Hash /\ failures' \in 0 .. MaxFailures
        /\ UNCHANGED <<disk, row, lock, remote, remoteLock, held, outside, edits>>
        /\ t.pc \in Locked <=> task[w].pc \in Locked
        /\ t.pc \in Storing <=> task[w].pc \in Storing
    BY <1>1, Kinds DEF SyncInv, TypeOK, Tasks, Rehash
  <2>2. t \in Tasks
    BY Typed, IdleTask DEF Tasks
  <2>3. Fits(w, t)
    BY <1>1, Kinds, IdleTask DEF SyncInv, TypeOK, Tasks, BaselineWasRemote,
       Rehash, Fits, Sourced, Unraced, Described, Guarded
  <2> QED
    BY <2>1, <2>2, <2>3, TaskMoves
<1>2. CASE ~ (disk[w.dev] # None)
  <2>1. /\ Finish(w) /\ ~ task[w].pc \in Storing
        /\ record' \in Hash /\ failures' \in 0 .. MaxFailures
        /\ UNCHANGED <<disk, row, remote, remoteLock, held, outside, edits>>
    BY <1>2 DEF SyncInv, TypeOK, Rehash
  <2> QED
    BY <2>1, TaskEnds
<1> QED
  BY <1>1, <1>2

(* pullFileCentral downloads, outside the path lock.                       *)
LEMMA DownloadKeeps ==
  ASSUME SyncInv, NEW w \in Workers, Download(w)
  PROVE  SyncInv'
<1>1. CASE remote # None
  <2> DEFINE t == [task[w] EXCEPT !.bytes = remote, !.pc = "pull"]
  <2>1. /\ Becomes(w, t) /\ record' \in Hash /\ failures' \in 0 .. MaxFailures
        /\ UNCHANGED <<disk, row, lock, remote, remoteLock, held, outside, edits>>
        /\ t.pc \in Locked <=> task[w].pc \in Locked
        /\ t.pc \in Storing <=> task[w].pc \in Storing
    BY <1>1, Kinds DEF SyncInv, TypeOK, Tasks, Download
  <2>2. t \in Tasks
    BY Typed, IdleTask DEF Tasks
  <2>3. Fits(w, t)
    BY <1>1, Kinds, IdleTask DEF SyncInv, TypeOK, Tasks, BaselineWasRemote,
       Download, Fits, Sourced, Unraced, Described, Guarded
  <2> QED
    BY <2>1, <2>2, <2>3, TaskMoves
<1>2. CASE ~ (remote # None)
  <2>1. /\ Finish(w) /\ ~ task[w].pc \in Storing
        /\ record' \in Hash /\ failures' \in 0 .. MaxFailures
        /\ UNCHANGED <<disk, row, remote, remoteLock, held, outside, edits>>
    BY <1>2 DEF SyncInv, TypeOK, Download
  <2> QED
    BY <2>1, TaskEnds
<1> QED
  BY <1>1, <1>2

(* pullFileCentral takes the stat of what it wrote.                        *)
LEMMA StatCopyKeeps ==
  ASSUME SyncInv, NEW w \in Workers, StatCopy(w)
  PROVE  SyncInv'
<1>1. CASE disk[w.dev] # None
  <2> DEFINE t == [task[w] EXCEPT !.cached = task[w].bytes, !.same = TRUE,
     !.pc = "pulled"]
  <2>1. /\ Becomes(w, t) /\ record' \in Hash /\ failures' \in 0 .. MaxFailures
        /\ UNCHANGED <<disk, row, lock, remote, remoteLock, held, outside, edits>>
        /\ t.pc \in Locked <=> task[w].pc \in Locked
        /\ t.pc \in Storing <=> task[w].pc \in Storing
    BY <1>1, Kinds DEF SyncInv, TypeOK, Tasks, StatCopy
  <2>2. t \in Tasks
    BY Typed, IdleTask DEF Tasks
  <2>3. Fits(w, t)
    BY <1>1, Kinds, IdleTask DEF SyncInv, TypeOK, Tasks, BaselineWasRemote,
       StatCopy, Fits, Sourced, Unraced, Described, Guarded
  <2> QED
    BY <2>1, <2>2, <2>3, TaskMoves
<1>2. CASE ~ (disk[w.dev] # None)
  <2>1. /\ Finish(w) /\ ~ task[w].pc \in Storing
        /\ record' \in Hash /\ failures' \in 0 .. MaxFailures
        /\ UNCHANGED <<disk, row, remote, remoteLock, held, outside, edits>>
    BY <1>2 DEF SyncInv, TypeOK, StatCopy
  <2> QED
    BY <2>1, TaskEnds
<1> QED
  BY <1>1, <1>2

(* A failed request ends its task, and a put under way is none.            *)
LEMMA RequestFailsKeeps ==
  ASSUME SyncInv, NEW w \in Workers, RequestFails(w)
  PROVE  SyncInv'
BY TaskEnds DEF SyncInv, TypeOK, RequestFails

(* A put that fails on the server gives both locks back.                   *)
LEMMA StoreFailsKeeps ==
  ASSUME SyncInv, NEW w \in Workers, StoreFails(w)
  PROVE  SyncInv'
<1>1. task' \in [Workers -> Tasks] /\ task'[w] = Idle /\ Idle.pc = "idle"
      /\ \A v \in Workers : v # w => task'[v] = task[v]
  BY IdleTask DEF SyncInv, TypeOK, StoreFails, Finish, Idle
<1>2. /\ lock' \in [Devices -> Workers \cup {Free}]
      /\ \A v \in Workers : lock'[v.dev] = v <=> lock[v.dev] = v /\ v # w
  BY Kinds DEF SyncInv, TypeOK, StoreFails, Finish
<1>3. remoteLock = w /\ remoteLock' = Free /\ failures' \in 0 .. MaxFailures
  BY DEF SyncInv, TypeOK, StoreFails, Storing
<1>4. UNCHANGED <<disk, row, remote, record, held, outside, edits>>
  BY DEF StoreFails
<1>5. TypeOK'
  <2>1. (\A v \in Workers : lock[v.dev] = v <=> task[v].pc \in Locked)'
    BY <1>1, <1>2 DEF SyncInv, TypeOK, Locked
  <2>2. (\A v \in Workers : remoteLock = v <=> task[v].pc \in Storing)'
    BY <1>1, <1>3, Kinds DEF SyncInv, TypeOK, Storing
  <2> QED
    BY <1>1, <1>2, <1>3, <1>4, <2>1, <2>2 DEF SyncInv, TypeOK
<1>6. ASSUME NEW v \in Workers PROVE Fits(v, task[v])'
  BY <1>1, <1>4, IdleTask DEF SyncInv, Fits, Sourced, Unraced, Described, Guarded
<1> QED
  BY <1>4, <1>5, <1>6 DEF SyncInv, BaselineWasRemote

(* The next step of a task that has the hash carries its baseline only.    *)
LEMMA HashedTask ==
  ASSUME SyncInv, NEW w \in Workers, NEW local, NEW base \in Hash,
         base \in held \cup {None}, Hashed(w, local, base)
  PROVE  \E t \in Tasks :
            Becomes(w, t) /\ Fits(w, t) /\ ~ t.pc \in Locked /\ ~ t.pc \in Storing
<1> DEFINE next == AfterHash(w, local, base)
           t == IF next = "idle" THEN Idle ELSE [Idle EXCEPT
              !.pc = next, !.base = base]
<1>1. next \in {"push", "download", "idle"}
  BY DEF AfterHash
<1>2. t \in Tasks /\ Becomes(w, t) /\ ~ t.pc \in Locked /\ ~ t.pc \in Storing
  BY <1>1 DEF Hashed, Tasks, Idle
<1>3. Fits(w, t)
  BY <1>1 DEF Idle, Fits, Sourced, Unraced, Described, Guarded
<1> QED
  BY <1>2, <1>3

(* localHashFor reads the row and the stat.                                *)
LEMMA LookKeeps ==
  ASSUME SyncInv, NEW w \in Workers, Look(w)
  PROVE  SyncInv'
<1>1. /\ record' \in Hash /\ failures' \in 0 .. MaxFailures
      /\ UNCHANGED <<disk, row, lock, remote, remoteLock, held, outside, edits>>
      /\ ~ task[w].pc \in Locked /\ ~ task[w].pc \in Storing
      /\ row[w.dev].base \in Hash /\ row[w.dev].base \in held \cup {None}
  BY Kinds DEF SyncInv, TypeOK, BaselineWasRemote, Look
<1>2. CASE \E local : Hashed(w, local, row[w.dev].base)
  BY <1>1, <1>2, HashedTask, TaskMoves
<1>3. CASE disk[w.dev] # None /\ ~ (row[w.dev].fresh /\ row[w.dev].cached # None)
  <2> DEFINE t == [task[w] EXCEPT !.base = row[w.dev].base, !.same = TRUE,
     !.pc = "hash"]
  <2>1. t \in Tasks
    BY ZenonT(60), Typed DEF Tasks
  <2>2. Becomes(w, t) /\ ~ t.pc \in Locked /\ ~ t.pc \in Storing
    BY <1>3, Typed, IdleTask DEF Tasks, Look
  <2>3. Fits(w, t)
    BY <1>1, Typed DEF Tasks, Fits, Sourced, Unraced, Described, Guarded
  <2> QED
    BY <1>1, <2>1, <2>2, <2>3, TaskMoves
<1> QED
  BY <1>2, <1>3 DEF Look

(* A push takes the path lock and reads the baseline again.                *)
LEMMA LockPushKeeps ==
  ASSUME SyncInv, NEW w \in Workers, LockPush(w)
  PROVE  SyncInv'
<1> DEFINE t == [task[w] EXCEPT
                   !.base = IF row[w.dev].base # None THEN row[w.dev].base ELSE @,
                   !.same = TRUE, !.pc = "read"]
<1>1. t \in Tasks
  BY Typed, IdleTask DEF Tasks
<1>2. Becomes(w, t)
  BY DEF LockPush
<1>3. t.pc = "read" /\ t.base \in {task[w].base, row[w.dev].base} /\ task[w].pc = "push"
  BY Typed DEF Tasks, LockPush
<1>4. /\ task' \in [Workers -> Tasks] /\ task'[w] = t
      /\ \A v \in Workers : v # w => task'[v] = task[v]
  BY <1>1, <1>2 DEF SyncInv, TypeOK
<1> HIDE DEF t
<1>5. TypeOK'
  <2>1. task[w].bytes \in Hash /\ task[w].cached \in Hash /\ task[w].same \in BOOLEAN
    BY Typed DEF Tasks
  <2>2. /\ disk' \in [Devices -> Hash]
        /\ row' \in [Devices -> [base : Hash, cached : Hash, fresh : BOOLEAN]]
        /\ remoteLock' \in Workers \cup {Free} /\ record' \in Hash
        /\ edits' \in 0 .. MaxEdits /\ failures' \in 0 .. MaxFailures
    BY <2>1, Kinds DEF SyncInv, TypeOK, LockPush
  <2>3. lock' \in [Devices -> Workers \cup {Free}]
    BY Kinds DEF SyncInv, TypeOK, LockPush
  <2>4. remote' \in Hash /\ held' \subseteq Contents /\ outside' \subseteq Contents
    BY <1>3, <2>1 DEF SyncInv, TypeOK, LockPush
  <2>5. (\A v \in Workers : lock[v.dev] = v <=> task[v].pc \in Locked)'
    BY <1>3, <1>4, Kinds DEF SyncInv, TypeOK, LockPush
  <2>6. (\A v \in Workers : remoteLock = v <=> task[v].pc \in Storing)'
    BY <1>3, <1>4, Kinds DEF SyncInv, TypeOK, LockPush
  <2> QED
    BY <1>4, <2>2, <2>3, <2>4, <2>5, <2>6 DEF TypeOK
<1>6. ASSUME NEW v \in Workers PROVE Fits(v, task[v])'
  <2>1. CASE v = w
    BY <1>3, <1>4, <2>1, Kinds, Typed DEF SyncInv, BaselineWasRemote, LockPush,
       Fits, Sourced, Unraced, Described, Guarded
  <2>2. CASE v # w
    BY <1>3, <1>4, <2>2, Kinds DEF SyncInv, TypeOK, LockPush, Fits, Sourced,
       Unraced, Described, Guarded
  <2> QED
    BY <2>1, <2>2
<1>7. (remote \in held \cup {None})' /\ BaselineWasRemote'
  BY <1>3, Kinds DEF SyncInv, TypeOK, BaselineWasRemote, LockPush, Fits, Sourced
<1> QED
  BY <1>5, <1>6, <1>7 DEF SyncInv

(* The put of writeFileBytesRemote: Unraced says what it replaces.         *)
LEMMA UploadKeeps ==
  ASSUME SyncInv, NEW w \in Workers, Upload(w)
  PROVE  SyncInv'
<1> DEFINE t == [task[w] EXCEPT !.pc = "record"]
<1>1. t \in Tasks
  BY Typed, IdleTask DEF Tasks
<1>2. Becomes(w, t)
  BY DEF Upload
<1>3. /\ t.pc = "record" /\ t.bytes = task[w].bytes /\ t.base = task[w].base
      /\ t.same = task[w].same /\ task[w].pc = "upload" /\ task[w].bytes \in Contents
  BY Typed DEF Tasks, Upload, SyncInv, Fits, Sourced
<1>4. /\ task' \in [Workers -> Tasks] /\ task'[w] = t
      /\ \A v \in Workers : v # w => task'[v] = task[v]
  BY <1>1, <1>2 DEF SyncInv, TypeOK
<1> HIDE DEF t
<1>5. TypeOK'
  <2>1. task[w].bytes \in Hash /\ task[w].cached \in Hash /\ task[w].same \in BOOLEAN
    BY Typed DEF Tasks
  <2>2. /\ disk' \in [Devices -> Hash]
        /\ row' \in [Devices -> [base : Hash, cached : Hash, fresh : BOOLEAN]]
        /\ remoteLock' \in Workers \cup {Free} /\ record' \in Hash
        /\ edits' \in 0 .. MaxEdits /\ failures' \in 0 .. MaxFailures
    BY <2>1, Kinds DEF SyncInv, TypeOK, Upload
  <2>3. lock' \in [Devices -> Workers \cup {Free}]
    BY Kinds DEF SyncInv, TypeOK, Upload
  <2>4. remote' \in Hash /\ held' \subseteq Contents /\ outside' \subseteq Contents
    BY <1>3, <2>1 DEF SyncInv, TypeOK, Upload
  <2>5. (\A v \in Workers : lock[v.dev] = v <=> task[v].pc \in Locked)'
    BY <1>3, <1>4, Kinds DEF SyncInv, TypeOK, Upload
  <2>6. (\A v \in Workers : remoteLock = v <=> task[v].pc \in Storing)'
    BY <1>3, <1>4, Kinds DEF SyncInv, TypeOK, Upload
  <2> QED
    BY <1>4, <2>2, <2>3, <2>4, <2>5, <2>6 DEF TypeOK
<1>6. ASSUME NEW v \in Workers PROVE Fits(v, task[v])'
  <2>1. CASE v = w
    BY <1>3, <1>4, <2>1, Kinds, Typed DEF SyncInv, BaselineWasRemote, Upload,
       Fits, Sourced, Unraced, Described, Guarded
  <2>2. CASE v # w
    BY <1>3, <1>4, <2>2, Kinds DEF SyncInv, TypeOK, Upload, Fits, Sourced,
       Unraced, Described, Guarded
  <2> QED
    BY <2>1, <2>2
<1>7. (remote \in held \cup {None})' /\ BaselineWasRemote'
  BY <1>3, Kinds DEF SyncInv, TypeOK, BaselineWasRemote, Upload, Fits, Sourced
<1> QED
  BY <1>5, <1>6, <1>7 DEF SyncInv

(* recordRemotePush, and the server's lock given back.                     *)
LEMMA RecordPutKeeps ==
  ASSUME SyncInv, NEW w \in Workers, RecordPut(w)
  PROVE  SyncInv'
<1> DEFINE t == [task[w] EXCEPT !.pc = "restat"]
<1>1. t \in Tasks
  BY Typed, IdleTask DEF Tasks
<1>2. Becomes(w, t)
  BY DEF RecordPut
<1>3. /\ t.pc = "restat" /\ t.bytes = task[w].bytes /\ t.base = task[w].base
      /\ t.same = task[w].same /\ task[w].pc = "record"
  BY Typed DEF Tasks, RecordPut
<1>4. /\ task' \in [Workers -> Tasks] /\ task'[w] = t
      /\ \A v \in Workers : v # w => task'[v] = task[v]
  BY <1>1, <1>2 DEF SyncInv, TypeOK
<1> HIDE DEF t
<1>5. TypeOK'
  <2>1. task[w].bytes \in Hash /\ task[w].cached \in Hash /\ task[w].same \in BOOLEAN
    BY Typed DEF Tasks
  <2>2. /\ disk' \in [Devices -> Hash]
        /\ row' \in [Devices -> [base : Hash, cached : Hash, fresh : BOOLEAN]]
        /\ remoteLock' \in Workers \cup {Free} /\ record' \in Hash
        /\ edits' \in 0 .. MaxEdits /\ failures' \in 0 .. MaxFailures
    BY <2>1, Kinds DEF SyncInv, TypeOK, RecordPut
  <2>3. lock' \in [Devices -> Workers \cup {Free}]
    BY Kinds DEF SyncInv, TypeOK, RecordPut
  <2>4. remote' \in Hash /\ held' \subseteq Contents /\ outside' \subseteq Contents
    BY <1>3, <2>1 DEF SyncInv, TypeOK, RecordPut
  <2>5. (\A v \in Workers : lock[v.dev] = v <=> task[v].pc \in Locked)'
    BY <1>3, <1>4, Kinds DEF SyncInv, TypeOK, RecordPut
  <2>6. (\A v \in Workers : remoteLock = v <=> task[v].pc \in Storing)'
    BY <1>3, <1>4, Kinds DEF SyncInv, TypeOK, RecordPut
  <2> QED
    BY <1>4, <2>2, <2>3, <2>4, <2>5, <2>6 DEF TypeOK
<1>6. ASSUME NEW v \in Workers PROVE Fits(v, task[v])'
  <2>1. CASE v = w
    BY <1>3, <1>4, <2>1, Kinds, Typed DEF SyncInv, BaselineWasRemote, RecordPut,
       Fits, Sourced, Unraced, Described, Guarded
  <2>2. CASE v # w
    BY <1>3, <1>4, <2>2, Kinds DEF SyncInv, TypeOK, RecordPut, Fits, Sourced,
       Unraced, Described, Guarded
  <2> QED
    BY <2>1, <2>2
<1>7. (remote \in held \cup {None})' /\ BaselineWasRemote'
  BY <1>3, Kinds DEF SyncInv, TypeOK, BaselineWasRemote, RecordPut, Fits, Sourced
<1> QED
  BY <1>5, <1>6, <1>7 DEF SyncInv

(* upsertFileState of a push or a pull: the baseline was remote.           *)
LEMMA SaveBaselineKeeps ==
  ASSUME SyncInv, NEW w \in Workers, SaveBaseline(w)
  PROVE  SyncInv'
<1> DEFINE t == Idle
<1>1. t \in Tasks
  BY Typed, IdleTask DEF Tasks
<1>2. Becomes(w, t)
  BY DEF SaveBaseline, Finish, Idle
<1>3. t.pc = "idle" /\ t.base = None /\ ~ t.same /\ task[w].pc \in {"save", "pulled"}
  BY Typed DEF Tasks, SaveBaseline, Finish, Idle
<1>4. /\ task' \in [Workers -> Tasks] /\ task'[w] = t
      /\ \A v \in Workers : v # w => task'[v] = task[v]
  BY <1>1, <1>2 DEF SyncInv, TypeOK
<1> HIDE DEF t
<1>5. TypeOK'
  <2>1. task[w].bytes \in Hash /\ task[w].cached \in Hash /\ task[w].same \in BOOLEAN
    BY Typed DEF Tasks
  <2>2. /\ disk' \in [Devices -> Hash]
        /\ row' \in [Devices -> [base : Hash, cached : Hash, fresh : BOOLEAN]]
        /\ remoteLock' \in Workers \cup {Free} /\ record' \in Hash
        /\ edits' \in 0 .. MaxEdits /\ failures' \in 0 .. MaxFailures
    BY <2>1, Kinds DEF SyncInv, TypeOK, SaveBaseline, Finish, Idle
  <2>3. lock' \in [Devices -> Workers \cup {Free}]
    BY Kinds DEF SyncInv, TypeOK, SaveBaseline, Finish, Idle
  <2>4. remote' \in Hash /\ held' \subseteq Contents /\ outside' \subseteq Contents
    BY <1>3, <2>1 DEF SyncInv, TypeOK, SaveBaseline, Finish, Idle
  <2>5. (\A v \in Workers : lock[v.dev] = v <=> task[v].pc \in Locked)'
    BY <1>3, <1>4, Kinds DEF SyncInv, TypeOK, SaveBaseline, Finish, Idle
  <2>6. (\A v \in Workers : remoteLock = v <=> task[v].pc \in Storing)'
    BY <1>3, <1>4, Kinds DEF SyncInv, TypeOK, SaveBaseline, Finish, Idle
  <2> QED
    BY <1>4, <2>2, <2>3, <2>4, <2>5, <2>6 DEF TypeOK
<1>6. ASSUME NEW v \in Workers PROVE Fits(v, task[v])'
  <2>1. CASE v = w
    BY <1>3, <1>4, <2>1, Kinds, Typed DEF SyncInv, BaselineWasRemote,
       SaveBaseline, Finish, Idle, Fits, Sourced, Unraced, Described, Guarded
  <2>2. CASE v # w
    BY <1>3, <1>4, <2>2, Kinds DEF SyncInv, TypeOK, SaveBaseline, Finish, Idle,
       Fits, Sourced, Unraced, Described, Guarded
  <2> QED
    BY <2>1, <2>2
<1>7. (remote \in held \cup {None})' /\ BaselineWasRemote'
  BY <1>3, Kinds DEF SyncInv, TypeOK, BaselineWasRemote, SaveBaseline, Finish,
     Idle, Fits, Sourced
<1> QED
  BY <1>5, <1>6, <1>7 DEF SyncInv

(* The server's precondition: from its stat on Unraced holds.              *)
LEMMA CheckPutKeeps ==
  ASSUME SyncInv, NEW w \in Workers, CheckPut(w)
  PROVE  SyncInv'
<1>1. CASE Refused(w) /\ task[w].base = None
  <2> DEFINE t == [task[w] EXCEPT !.pc = "compare"]
  <2>1. /\ Becomes(w, t) /\ record' \in Hash /\ failures' \in 0 .. MaxFailures
        /\ UNCHANGED <<disk, row, lock, remote, remoteLock, held, outside, edits>>
        /\ t.pc \in Locked <=> task[w].pc \in Locked
        /\ t.pc \in Storing <=> task[w].pc \in Storing
    BY <1>1 DEF SyncInv, TypeOK, Tasks, CheckPut
  <2>2. t \in Tasks
    BY Typed DEF Tasks
  <2>3. Fits(w, t)
    BY <1>1, Typed DEF SyncInv, Tasks, CheckPut, Fits, Sourced, Unraced,
       Described, Guarded
  <2> QED
    BY <2>1, <2>2, <2>3, TaskMoves
<1>2. CASE Refused(w) /\ task[w].base # None
  <2>1. /\ Finish(w) /\ ~ task[w].pc \in Storing
        /\ record' \in Hash /\ failures' \in 0 .. MaxFailures
        /\ UNCHANGED <<disk, row, remote, remoteLock, held, outside, edits>>
    BY <1>2 DEF SyncInv, TypeOK, CheckPut
  <2> QED
    BY <2>1, TaskEnds
<1>3. CASE ~ Refused(w)
  <2>1. /\ task' \in [Workers -> Tasks] /\ task'[w].pc = "upload"
        /\ task'[w].base = task[w].base /\ task'[w].bytes = task[w].bytes
        /\ task'[w].same = task[w].same
        /\ \A v \in Workers : v # w => task'[v] = task[v]
        /\ task[w].pc = "put" /\ remoteLock = Free /\ remoteLock' = w
        /\ UNCHANGED <<disk, row, lock, remote, record, held, outside, edits, failures>>
    BY <1>3 DEF SyncInv, TypeOK, Tasks, CheckPut
  <2>2. TypeOK'
    BY <2>1, Kinds DEF SyncInv, TypeOK
  <2>3. ASSUME NEW v \in Workers PROVE Fits(v, task[v])'
    BY <1>3, <2>1 DEF SyncInv, Refused, Fits, Sourced, Unraced, Described, Guarded
  <2> QED
    BY <2>1, <2>2, <2>3 DEF SyncInv, BaselineWasRemote
<1> QED
  BY <1>1, <1>2, <1>3

(* The guard of a pull under the path lock: Guarded holds from here.       *)
LEMMA LockPullKeeps ==
  ASSUME SyncInv, NEW w \in Workers, LockPull(w)
  PROVE  SyncInv'
<1>1. CASE w.kind # "take" /\ Dirty(w)
  BY <1>1, TaskEnds DEF SyncInv, TypeOK, LockPull
<1>2. CASE w.kind = "take" \/ ~ Dirty(w)
  <2>1. /\ task' \in [Workers -> Tasks] /\ task'[w].pc = "write"
        /\ task'[w].base = task[w].base /\ task'[w].bytes = task[w].bytes
        /\ \A v \in Workers : v # w => task'[v] = task[v]
        /\ task[w].pc = "pull" /\ lock[w.dev] = Free /\ lock' = [lock EXCEPT ![w.dev] = w]
        /\ UNCHANGED <<disk, row, remote, record, remoteLock, held, outside, edits, failures>>
    <3> DEFINE t == [task[w] EXCEPT !.same = TRUE, !.pc = "write"]
    <3>1. /\ t \in Tasks /\ t.pc = "write" /\ t.base = task[w].base
          /\ t.bytes = task[w].bytes
      BY Typed DEF Tasks
    <3>2. /\ Becomes(w, t)
          /\ task[w].pc = "pull" /\ lock[w.dev] = Free /\ lock' = [lock EXCEPT ![w.dev] = w]
          /\ UNCHANGED <<disk, row, remote, record, remoteLock, held, outside, edits, failures>>
      BY <1>2 DEF LockPull
    <3> HIDE DEF t
    <3> QED
      BY <3>1, <3>2 DEF SyncInv, TypeOK
  <2>2. TypeOK'
    <3>1. lock' \in [Devices -> Workers \cup {Free}]
      BY <2>1, Kinds DEF SyncInv, TypeOK
    <3>2. (\A v \in Workers : lock[v.dev] = v <=> task[v].pc \in Locked)'
      BY <2>1, Kinds DEF SyncInv, TypeOK
    <3>3. (\A v \in Workers : remoteLock = v <=> task[v].pc \in Storing)'
      BY <2>1 DEF SyncInv, TypeOK
    <3> QED
      BY <2>1, <3>1, <3>2, <3>3 DEF SyncInv, TypeOK
  <2>3. w.kind # "take" => disk[w.dev] \in held \cup {None}
    BY <1>2, <2>1, Kinds DEF Dirty, SyncInv, BaselineWasRemote, Fits, Sourced
  <2>4. ASSUME NEW v \in Workers PROVE Fits(v, task[v])'
    BY <2>1, <2>3 DEF SyncInv, Fits, Sourced, Unraced, Described, Guarded
  <2> QED
    BY <2>1, <2>2, <2>4 DEF SyncInv, BaselineWasRemote
<1> QED
  BY <1>1, <1>2

(* The write of a pull: no stat of the copy holds any more.                *)
LEMMA WriteCopyKeeps ==
  ASSUME SyncInv, NEW w \in Workers, WriteCopy(w)
  PROVE  SyncInv'
<1>1. /\ task' \in [Workers -> Tasks]
      /\ \A v \in Workers :
            /\ task'[v].pc = IF v = w THEN "stat" ELSE task[v].pc
            /\ task'[v].base = task[v].base /\ task'[v].bytes = task[v].bytes
            /\ task'[v].cached = task[v].cached
            /\ v.dev = w.dev => task'[v].same = FALSE
            /\ v.dev # w.dev => task'[v].same = task[v].same
  <2>1. \A t \in Tasks : /\ [t EXCEPT !.same = FALSE] \in Tasks
                      /\ [t EXCEPT !.pc = "stat"] \in Tasks
                      /\ [t EXCEPT !.same = FALSE].pc = t.pc
                      /\ [t EXCEPT !.same = FALSE].base = t.base
                      /\ [t EXCEPT !.same = FALSE].bytes = t.bytes
                      /\ [t EXCEPT !.same = FALSE].cached = t.cached
                      /\ [t EXCEPT !.same = FALSE].same = FALSE
    BY DEF Tasks
  <2>2. \A t \in Tasks : /\ [t EXCEPT !.pc = "stat"].pc = "stat"
                      /\ [t EXCEPT !.pc = "stat"].base = t.base
                      /\ [t EXCEPT !.pc = "stat"].bytes = t.bytes
                      /\ [t EXCEPT !.pc = "stat"].cached = t.cached
                      /\ [t EXCEPT !.pc = "stat"].same = t.same
    BY DEF Tasks
  <2> DEFINE written == Outdated(task, w.dev)
  <2>3. /\ written \in [Workers -> Tasks]
        /\ \A v \in Workers :
             written[v] = IF v.dev = w.dev THEN [task[v] EXCEPT !.same = FALSE] ELSE task[v]
    BY <2>1 DEF SyncInv, TypeOK, Outdated
  <2>4. task' = [written EXCEPT ![w] = [written[w] EXCEPT !.pc = "stat"]]
    BY DEF WriteCopy
  <2> HIDE DEF written
  <2>5. /\ task' \in [Workers -> Tasks]
        /\ \A v \in Workers :
             task'[v] = IF v = w THEN [written[v] EXCEPT
                !.pc = "stat"] ELSE written[v]
    BY <2>1, <2>3, <2>4
  <2>6. ASSUME NEW v \in Workers
        PROVE  /\ task'[v].pc = IF v = w THEN "stat" ELSE task[v].pc
               /\ task'[v].base = task[v].base /\ task'[v].bytes = task[v].bytes
               /\ task'[v].cached = task[v].cached
               /\ v.dev = w.dev => task'[v].same = FALSE
               /\ v.dev # w.dev => task'[v].same = task[v].same
    <3>1. task[v] \in Tasks /\ written[v] \in Tasks
      BY <2>3 DEF SyncInv, TypeOK
    <3>2. /\ written[v].pc = task[v].pc /\ written[v].base = task[v].base
          /\ written[v].bytes = task[v].bytes /\ written[v].cached = task[v].cached
          /\ v.dev = w.dev => written[v].same = FALSE
          /\ v.dev # w.dev => written[v].same = task[v].same
      <4>1. CASE v.dev = w.dev
        <5>1. written[v] = [task[v] EXCEPT !.same = FALSE]
          BY <2>3, <4>1
        <5> QED
          BY <2>1, <3>1, <4>1, <5>1
      <4>2. CASE v.dev # w.dev
        <5>1. written[v] = task[v]
          BY <2>3, <4>2
        <5> QED
          BY <4>2, <5>1
      <4> QED
        BY <4>1, <4>2
    <3>3. CASE v = w
      <4>1. task'[v] = [written[v] EXCEPT !.pc = "stat"]
        BY <2>5, <3>3
      <4> QED
        BY <2>2, <3>1, <3>2, <3>3, <4>1
    <3>4. CASE v # w
      <4>1. task'[v] = written[v]
        BY <2>5, <3>4
      <4> QED
        BY <3>2, <3>4, <4>1
    <3> QED
      BY <3>3, <3>4
  <2> QED
    BY <2>5, <2>6
<1>2. /\ disk' \in [Devices -> Hash]
      /\ row' \in [Devices -> [base : Hash, cached : Hash, fresh : BOOLEAN]]
      /\ \A e \in Devices : row'[e].base = row[e].base /\ (e # w.dev => disk'[e] = disk[e])
      /\ task[w].pc = "write"
      /\ UNCHANGED <<lock, remote, record, remoteLock, held, outside, edits, failures>>
  <2>1. task[w].bytes \in Hash
    BY Typed DEF Tasks
  <2>2. \A r \in [base : Hash, cached : Hash, fresh : BOOLEAN] :
           /\ [r EXCEPT !.fresh = FALSE] \in [base : Hash, cached : Hash, fresh : BOOLEAN]
           /\ [r EXCEPT !.fresh = FALSE].base = r.base
    OBVIOUS
  <2>3. w.dev \in Devices /\ disk \in [Devices -> Hash]
        /\ row \in [Devices -> [base : Hash, cached : Hash, fresh : BOOLEAN]]
    BY Kinds DEF SyncInv, TypeOK
  <2>4. /\ disk' = [disk EXCEPT ![w.dev] = task[w].bytes]
        /\ row' = [row EXCEPT ![w.dev] = [row[w.dev] EXCEPT !.fresh = FALSE]]
        /\ task[w].pc = "write"
        /\ UNCHANGED <<lock, remote, record, remoteLock, held, outside, edits, failures>>
    BY DEF WriteCopy, Touched
  <2>5. /\ disk' \in [Devices -> Hash]
        /\ \A e \in Devices : e # w.dev => disk'[e] = disk[e]
    BY <2>1, <2>3, <2>4
  <2>6. /\ row' \in [Devices -> [base : Hash, cached : Hash, fresh : BOOLEAN]]
        /\ \A e \in Devices : row'[e].base = row[e].base
    BY <2>2, <2>3, <2>4
  <2> QED
    BY <2>4, <2>5, <2>6
<1>3. TypeOK'
  BY SMTT(30), <1>1, <1>2 DEF SyncInv, TypeOK
<1>4. ASSUME NEW v \in Workers PROVE Fits(v, task[v])'
  BY <1>1, <1>2, Kinds DEF SyncInv, Fits, Sourced, Unraced, Described, Guarded
<1> QED
  BY <1>2, <1>3, <1>4 DEF SyncInv, BaselineWasRemote

(* localHashFor writes the row back, with the baseline it had read.        *)
LEMMA CacheHashKeeps ==
  ASSUME SyncInv, NEW w \in Workers, CacheHash(w)
  PROVE  SyncInv'
<1>1. task[w].base \in Hash /\ task[w].base \in held \cup {None} /\ task[w].pc = "cache"
  BY DEF SyncInv, TypeOK, Tasks, Fits, Sourced, CacheHash
<1>2. PICK t \in Tasks :
         Becomes(w, t) /\ Fits(w, t) /\ ~ t.pc \in Locked /\ ~ t.pc \in Storing
  BY <1>1, HashedTask DEF CacheHash
<1>3. /\ row' \in [Devices -> [base : Hash, cached : Hash, fresh : BOOLEAN]]
      /\ \A d \in Devices : row'[d].base \in {row[d].base, task[w].base}
      /\ UNCHANGED <<disk, lock, remote, record, remoteLock, held, outside, edits, failures>>
  BY Kinds DEF SyncInv, TypeOK, Tasks, CacheHash
<1>4. task' \in [Workers -> Tasks] /\ task'[w] = t
      /\ \A v \in Workers : v # w => task'[v] = task[v]
  BY <1>2 DEF SyncInv, TypeOK
<1>5. TypeOK'
  BY <1>1, <1>2, <1>3, <1>4 DEF SyncInv, TypeOK
<1>6. ASSUME NEW v \in Workers PROVE Fits(v, task[v])'
  BY <1>2, <1>3, <1>4 DEF SyncInv, Fits, Sourced, Unraced, Described, Guarded
<1> QED
  BY <1>1, <1>3, <1>5, <1>6 DEF SyncInv, BaselineWasRemote

(* The invariant holds at the start.                                       *)
LEMMA InitSyncInv == Init => SyncInv
<1> SUFFICES ASSUME Init PROVE SyncInv
  OBVIOUS
<1>1. TypeOK
  <2>1. row \in [Devices -> [base : Hash, cached : Hash, fresh : BOOLEAN]]
    BY DEF Init, NoRow, Synced
  <2>2. task \in [Workers -> Tasks] /\ \A w \in Workers : task[w].pc = "idle"
    BY IdleTask DEF Init, Idle
  <2>3. \A w \in Workers : lock[w.dev] = Free /\ remoteLock # w
    BY Kinds DEF Init
  <2> QED
    BY <2>1, <2>2, <2>3, Kinds DEF Init, TypeOK
<1>2. BaselineWasRemote
  BY DEF Init, BaselineWasRemote, NoRow, Synced
<1>3. \A w \in Workers : Fits(w, task[w])
  BY IdleTask DEF Init
<1> QED
  BY <1>1, <1>2, <1>3 DEF Init, SyncInv

(* Every step keeps it.                                                    *)
LEMMA NextSyncInv == SyncInv /\ [Next]_vars => SyncInv'
<1> SUFFICES ASSUME SyncInv, [Next]_vars PROVE SyncInv'
  OBVIOUS
<1>1. CASE \E d \in Devices : Edit(d) \/ Remove(d) \/ Crash(d)
  BY <1>1, EditKeeps, CrashKeeps
<1>2. CASE EditRemote
  BY <1>2, EditRemoteKeeps
<1>3. ASSUME NEW w \in Workers,
             Start(w) \/ RequestFails(w) \/ StoreFails(w) \/ SweepRefused(w)
      PROVE  SyncInv'
  BY <1>3, StartKeeps, RequestFailsKeeps, StoreFailsKeeps, SweepRefusedKeeps
<1>4. ASSUME NEW w \in Workers, Locks(w) PROVE SyncInv'
  BY <1>4, LockPushKeeps, LockPullKeeps, CheckPutKeeps DEF Locks
<1>5. ASSUME NEW w \in Workers, Steps(w) PROVE SyncInv'
  BY <1>5, SweepListsKeeps, SweepRefreshesKeeps, LookKeeps, HashGoneKeeps,
     ReadForHashKeeps, CacheHashKeeps, ReadCopyKeeps, UploadKeeps, RecordPutKeeps,
     CompareKeeps, RestatKeeps, RehashKeeps, SaveBaselineKeeps, DownloadKeeps,
     WriteCopyKeeps, StatCopyKeeps DEF Steps
<1>6. CASE UNCHANGED vars
  BY <1>6 DEF vars, SyncInv, TypeOK, BaselineWasRemote, Fits, Sourced, Unraced,
     Described, Guarded
<1> QED
  BY <1>1, <1>2, <1>3, <1>4, <1>5, <1>6 DEF Next

(* SyncInv holds in every state.                                           *)
THEOREM SyncInvariant == Spec => []SyncInv
BY InitSyncInv, NextSyncInv, PTL DEF Spec

(* The types, and the locks: a path lock of engine-central.ts and the      *)
(* server's lock of the remote path are held exactly while a task is at    *)
(* work under them, whatever it ends with.                                 *)
THEOREM LocksAreHeld == Spec => []TypeOK
<1>1. SyncInv => TypeOK
  BY DEF SyncInv
<1> QED
  BY <1>1, SyncInvariant, PTL

(* Every baseline in file_state is a content the remote object had.        *)
THEOREM BaselinesWereRemote == Spec => []BaselineWasRemote
<1>1. SyncInv => BaselineWasRemote
  BY DEF SyncInv
<1> QED
  BY <1>1, SyncInvariant, PTL

(* An edit saved while a push or a hash is under way never reads as clean. *)
THEOREM EditsStayVisible == Spec => []HashDescribesCopy
<1>1. SyncInv => HashDescribesCopy
  BY DEF SyncInv, HashDescribesCopy, Fits, Described
<1> QED
  BY <1>1, SyncInvariant, PTL

(* An upload of writeFileBytesRemote replaces what its device has synced,  *)
(* nothing, or an edit made outside Portuni.                               *)
THEOREM PushesAreNotLost == Spec => NoLostPush
<1> DEFINE Kept == \A w \in Workers :
               At(w, "upload") /\ task'[w].pc = "record" /\ w.kind # "keep"
                 => remote \in {None, task[w].base} \cup outside
<1>1. SyncInv /\ [Next]_vars => [Kept]_vars
  BY DEF SyncInv, Fits, Unraced
<1> QED
  BY <1>1, SyncInvariant, PTL DEF Spec, NoLostPush

(* A pull that nobody forced writes only over what the remote had.         *)
THEOREM PullsSpareLocalWork == Spec => LocalWorkSurvives
<1> DEFINE Spared == \A w \in Workers :
               At(w, "write") /\ task'[w].pc = "stat" /\ w.kind # "take" /\ task[w].same
                 => disk[w.dev] \in held \cup {None}
<1>1. SyncInv /\ [Next]_vars => [Spared]_vars
  BY DEF SyncInv, Fits, Guarded
<1> QED
  BY <1>1, SyncInvariant, PTL DEF Spec, LocalWorkSurvives
=============================================================================
