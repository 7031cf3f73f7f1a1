---------------------------- MODULE LiveChannel ----------------------------
(***************************************************************************)
(* The live event channel of one thread between one window and the        *)
(* sidecar: api/sessions-ws.ts (subscribe, replay, live events) on one    *)
(* side, web/src/lib/sessions-client.ts with its direct transport and the *)
(* chat that mounts and unmounts on the other.  The socket may drop at any *)
(* moment and takes every frame under way with it; the client opens the   *)
(* next one.                                                               *)
(*                                                                         *)
(* A thread's events are numbered 1, 2, ... by the store, so a set of     *)
(* consecutive events is its first and last number.  Sequence number 0    *)
(* stands for "none": the code's `after: undefined` and `after: 0` select *)
(* the same rows.                                                          *)
(***************************************************************************)
EXTENDS Naturals, Sequences

CONSTANTS
  MaxSeq,       \* events the thread ever gets
  PageSize,     \* REPLAY_PAGE_SIZE
  MaxConns,     \* sockets ever opened
  MaxMounts,    \* times the chat of this thread is opened
  MaxFailures   \* subscribes refused by the server or given up by the client

ASSUME ChannelAssumption ==
  /\ MaxSeq \in Nat \ {0} /\ PageSize \in Nat \ {0}
  /\ MaxConns \in Nat \ {0} /\ MaxMounts \in Nat \ {0}
  /\ MaxFailures \in Nat

VARIABLES
  log,         \* events in the store (their last number)
  published,   \* events the runtime has handed to its listeners
  handlers,    \* handleSubscribe calls of the open socket, by request id
  listener,    \* Connection.subscriptions.get(session): a request id, or 0
  isOpen,      \* a socket is open
  conns,       \* sockets opened so far
  up,          \* frames on the wire to the server
  down,        \* frames on the wire to the client
  sendQueue,   \* frames the transport holds for the next open
  subscribed,  \* subscribedSessions has this thread
  lastSeq,     \* lastSeq.get(session)
  awaited,     \* the sent subscribe the mounted chat waits on, or 0
  parked,      \* the mounted chat waits for the next open
  nextId,      \* request ids given out
  view,        \* the mounted chat: [mount, on, seen, status, sameSocket]
  failures     \* subscribes refused or given up

store  == <<log, published>>
socket == <<isOpen, conns, up, down, sendQueue>>
server == <<handlers, listener>>
client == <<subscribed, lastSeq, awaited, parked, nextId>>
vars   == <<log, published, handlers, listener, isOpen, conns, up, down,
            sendQueue, subscribed, lastSeq, awaited, parked, nextId, view,
            failures>>

-----------------------------------------------------------------------------
Ids  == 1 .. MaxMounts + MaxConns
Seqs == 1 .. MaxSeq

Idle == [phase |-> "idle", last |-> 0, hi |-> 0, from |-> 0, to |-> 0]

Subscribe(id, after)  == [kind |-> "subscribe", id |-> id, after |-> after]
Unsubscribe           == [kind |-> "unsubscribe", id |-> 0, after |-> 0]
Events(lo, hi)        == [kind |-> "events", lo |-> lo, hi |-> hi]
Reply(id, ok)         == [kind |-> IF ok THEN "reply" ELSE "error", lo |-> id, hi |-> id]

Handler  == [phase: {"idle", "access", "query", "page", "live"},
             last: 0 .. MaxSeq, hi: 0 .. MaxSeq, from: 0 .. MaxSeq, to: 0 .. MaxSeq]
Requests == [kind: {"subscribe", "unsubscribe"}, id: Ids \cup {0}, after: 0 .. MaxSeq]
Frames   == [kind: {"events", "reply", "error"}, lo: Nat, hi: Nat]
View     == [mount: 0 .. MaxMounts, on: BOOLEAN, seen: SUBSET Seqs,
             status: {"none", "loading", "ready", "error"}, sameSocket: BOOLEAN]

TypeOK ==
  /\ log \in 0 .. MaxSeq /\ published \in 0 .. log
  /\ handlers \in [Ids -> Handler] /\ listener \in Ids \cup {0}
  /\ isOpen \in BOOLEAN /\ conns \in 0 .. MaxConns
  /\ up \in Seq(Requests) /\ down \in Seq(Frames) /\ sendQueue \in Seq({Unsubscribe})
  /\ subscribed \in BOOLEAN /\ lastSeq \in 0 .. MaxSeq
  /\ awaited \in Ids \cup {0} /\ parked \in BOOLEAN
  /\ nextId \in 0 .. MaxMounts + MaxConns
  /\ view \in View
  /\ failures \in 0 .. MaxFailures

Init ==
  /\ log = 0 /\ published = 0
  /\ handlers = [i \in Ids |-> Idle] /\ listener = 0
  /\ isOpen = FALSE /\ conns = 0 /\ up = <<>> /\ down = <<>> /\ sendQueue = <<>>
  /\ subscribed = FALSE /\ lastSeq = 0
  /\ awaited = 0 /\ parked = FALSE /\ nextId = 0
  /\ view = [mount |-> 0, on |-> FALSE, seen |-> {}, status |-> "none",
             sameSocket |-> FALSE]
  /\ failures = 0

-----------------------------------------------------------------------------
(* The runtime: appendAndPublish.  The store answers before the listeners  *)
(* hear of the event, so a replay can read an event that is published      *)
(* later.  Events are published in their order: the content store is the   *)
(* device's own database, which answers one append after the other.        *)

AppendEvent ==
  /\ log < MaxSeq
  /\ log' = log + 1
  /\ UNCHANGED <<published, server, socket, client, view, failures>>

(* MUTANT of Deliver: only a live listener hears of an event.              *)
DeliverLive(h, n) == h

(* A listener still replaying buffers the event, a live one sends it.  A   *)
(* buffer is the events after `from` and up to `to`: they come in order.   *)
Deliver(h, n) == IF h.phase = "live" THEN h ELSE [h EXCEPT !.to = n]

(* MUTANT of Publish: a live event is sent while the replay is still       *)
(* reading the log.                                                        *)
PublishAtOnce ==
  /\ published < log
  /\ published' = published + 1
  /\ IF listener = 0
     THEN UNCHANGED <<handlers, down>>
     ELSE /\ handlers' = [handlers EXCEPT ![listener] = Deliver(@, published + 1)]
          /\ down' = Append(down, Events(published + 1, published + 1))
  /\ UNCHANGED <<log, listener, isOpen, conns, up, sendQueue, client, view,
                 failures>>

Publish ==
  /\ published < log
  /\ published' = published + 1
  /\ IF listener = 0
     THEN UNCHANGED <<handlers, down>>
     ELSE /\ handlers' = [handlers EXCEPT ![listener] = Deliver(@, published + 1)]
          /\ down' = IF handlers[listener].phase = "live"
                     THEN Append(down, Events(published + 1, published + 1))
                     ELSE down
  /\ UNCHANGED <<log, listener, isOpen, conns, up, sendQueue, client, view,
                 failures>>

-----------------------------------------------------------------------------
(* The server: dispatch starts a handler per frame and awaits none of them *)

(* The access check of a subscribe is under way when the next frame runs.  *)
StartSubscribe(f) ==
  /\ handlers' = [handlers EXCEPT ![f.id] =
                    [Idle EXCEPT !.phase = "access", !.last = f.after, !.hi = f.after]]
  /\ UNCHANGED listener

(* handleUnsubscribe never awaits.  A replay under way keeps sending.      *)
DropListener(hs) ==
  IF listener # 0 /\ hs[listener].phase = "live"
  THEN [hs EXCEPT ![listener] = Idle]
  ELSE hs

HandleUnsubscribe ==
  /\ handlers' = DropListener(handlers)
  /\ listener' = 0

ReadFrame ==
  /\ isOpen /\ up # <<>>
  /\ up' = Tail(up)
  /\ \/ Head(up).kind = "subscribe" /\ StartSubscribe(Head(up))
     \/ Head(up).kind = "unsubscribe" /\ HandleUnsubscribe
  /\ UNCHANGED <<store, isOpen, conns, down, sendQueue, client, view, failures>>

(* Access granted: the listener of an earlier subscribe is dropped, this   *)
(* one listens, buffering, before the log is read.                         *)
StartReplay(i) ==
  /\ handlers[i].phase = "access"
  /\ handlers' = [DropListener(handlers) EXCEPT ![i].phase = "query",
                                                 ![i].from = published, ![i].to = published]
  /\ listener' = i
  /\ UNCHANGED <<store, socket, client, view, failures>>

RefuseSubscribe(i) ==
  /\ handlers[i].phase = "access"
  /\ failures < MaxFailures
  /\ failures' = failures + 1
  /\ handlers' = [handlers EXCEPT ![i] = Idle]
  /\ down' = Append(down, Reply(i, FALSE))
  /\ UNCHANGED <<store, listener, isOpen, conns, up, sendQueue, client, view>>

(* MUTANT of PageEnd: one row more than the limit.                         *)
LongPageEnd(after) == IF log < after THEN after
                      ELSE IF log - after <= PageSize THEN log + 1 ELSE after + PageSize

(* listEvents(after, limit): the rows read now reach the handler later.    *)
PageEnd(after) == IF log < after THEN after
                  ELSE IF log - after < PageSize THEN log ELSE after + PageSize

ReadPage(i) ==
  /\ handlers[i].phase = "query"
  /\ handlers' = [handlers EXCEPT ![i].phase = "page", ![i].hi = PageEnd(@)]
  /\ UNCHANGED <<store, listener, socket, client, view, failures>>

Page(h) == IF h.hi > h.last THEN <<Events(h.last + 1, h.hi)>> ELSE <<>>

Later(m, n) == IF m < n THEN n ELSE m

(* MUTANT of Flush: what was buffered during the replay is forgotten.      *)
FlushNothing(h) == <<>>

(* Of the buffer, only what the replay has not sent, an event a frame.     *)
Flush(h) ==
  LET sent == Later(h.from, h.hi)
  IN  [k \in 1 .. (Later(sent, h.to) - sent) |-> Events(sent + k, sent + k)]

(* A full page is followed by the next query; after a short one the buffer *)
(* is flushed, the subscribe is answered and the listener sends directly.  *)
SendPage(i) ==
  LET h == handlers[i]
  IN  /\ h.phase = "page"
      /\ IF h.hi - h.last = PageSize
         THEN /\ handlers' = [handlers EXCEPT ![i].phase = "query", ![i].last = h.hi]
              /\ down' = down \o Page(h)
         ELSE /\ handlers' = [handlers EXCEPT ![i] =
                               IF listener = i THEN [Idle EXCEPT !.phase = "live"] ELSE Idle]
              /\ down' = down \o Page(h) \o Flush(h) \o <<Reply(i, TRUE)>>
      /\ UNCHANGED <<store, listener, isOpen, conns, up, sendQueue, client, view,
                     failures>>

-----------------------------------------------------------------------------
(* The client: subscribe, unsubscribe and the frames it gets.  A chat asks *)
(* for everything (after 0).  The promise of an earlier mount is cancelled *)
(* and touches nothing, so only the mounted chat's is kept.                *)

Answered(v, ok) == [v EXCEPT !.status = IF ok THEN "ready" ELSE "error"]

Mount ==
  /\ ~view.on /\ view.mount < MaxMounts
  /\ view' = [mount |-> view.mount + 1, on |-> TRUE, seen |-> {}, status |-> "loading",
              sameSocket |-> isOpen]
  /\ subscribed' = TRUE
  /\ IF isOpen
     THEN /\ nextId' = nextId + 1
          /\ awaited' = nextId + 1
          /\ up' = Append(up, Subscribe(nextId + 1, 0))
          /\ UNCHANGED parked
     ELSE /\ parked' = TRUE
          /\ UNCHANGED <<nextId, awaited, up>>
  /\ UNCHANGED <<store, server, isOpen, conns, down, sendQueue, lastSeq, failures>>

Unmount ==
  /\ view.on
  /\ view' = [view EXCEPT !.on = FALSE, !.seen = {}, !.status = "none", !.sameSocket = FALSE]
  /\ subscribed' = FALSE
  /\ lastSeq' = 0
  /\ awaited' = 0 /\ parked' = FALSE
  /\ IF isOpen
     THEN up' = Append(up, Unsubscribe) /\ UNCHANGED sendQueue
     ELSE sendQueue' = Append(sendQueue, Unsubscribe) /\ UNCHANGED up
  /\ UNCHANGED <<store, server, isOpen, conns, down, nextId, failures>>

(* Every events frame moves lastSeq, whether or not the thread is still    *)
(* subscribed; only a mounted chat has a callback for it.                  *)
ReceiveEvents(f) ==
  /\ lastSeq' = f.hi
  /\ view' = [view EXCEPT !.seen = IF view.on THEN @ \cup (f.lo .. f.hi) ELSE @]
  /\ UNCHANGED awaited

ReceiveReply(f, ok) ==
  /\ IF f.lo = awaited
     THEN view' = Answered(view, ok) /\ awaited' = 0
     ELSE UNCHANGED <<view, awaited>>
  /\ UNCHANGED lastSeq

Receive ==
  /\ isOpen /\ down # <<>>
  /\ down' = Tail(down)
  /\ \/ Head(down).kind = "events" /\ ReceiveEvents(Head(down))
     \/ Head(down).kind = "reply" /\ ReceiveReply(Head(down), TRUE)
     \/ Head(down).kind = "error" /\ ReceiveReply(Head(down), FALSE)
  /\ UNCHANGED <<store, server, isOpen, conns, up, sendQueue, subscribed, parked,
                 nextId, failures>>

(* REQUEST_TIMEOUT_MS after the chat's subscribe went out.                 *)
TimeOut ==
  /\ awaited # 0 /\ failures < MaxFailures
  /\ failures' = failures + 1
  /\ awaited' = 0
  /\ view' = Answered(view, FALSE)
  /\ UNCHANGED <<store, server, socket, subscribed, lastSeq, parked, nextId>>

(* MUTANT of Drop: the chat's sent subscribe is forgotten with its socket. *)
DropPending ==
  /\ isOpen /\ conns < MaxConns
  /\ isOpen' = FALSE
  /\ up' = <<>> /\ down' = <<>>
  /\ handlers' = [i \in Ids |-> Idle] /\ listener' = 0
  /\ awaited' = 0 /\ parked' = FALSE
  /\ view' = [view EXCEPT !.sameSocket = FALSE]
  /\ UNCHANGED <<store, conns, sendQueue, subscribed, lastSeq, nextId, failures>>

(* The socket drops with everything on it.  The chat's sent subscribe      *)
(* waits for the next open instead.                                        *)
Drop ==
  /\ isOpen /\ conns < MaxConns
  /\ isOpen' = FALSE
  /\ up' = <<>> /\ down' = <<>>
  /\ handlers' = [i \in Ids |-> Idle] /\ listener' = 0
  /\ awaited' = 0 /\ parked' = (awaited # 0)
  /\ view' = [view EXCEPT !.sameSocket = FALSE]
  /\ UNCHANGED <<store, conns, sendQueue, subscribed, lastSeq, nextId, failures>>

(* The transport flushes its queue, then onConnectionOpened subscribes a   *)
(* wanted thread once, from the last event this client observed (none: the *)
(* parked subscribe's own `after`, which is 0).                            *)
Open ==
  /\ ~isOpen /\ conns < MaxConns
  /\ isOpen' = TRUE /\ conns' = conns + 1
  /\ sendQueue' = <<>>
  /\ IF subscribed
     THEN /\ nextId' = nextId + 1
          /\ up' = sendQueue \o <<Subscribe(nextId + 1, lastSeq)>>
          /\ awaited' = IF parked THEN nextId + 1 ELSE 0
          /\ parked' = FALSE
     ELSE /\ up' = sendQueue
          /\ UNCHANGED <<nextId, awaited, parked>>
  /\ UNCHANGED <<store, server, down, subscribed, lastSeq, view, failures>>

-----------------------------------------------------------------------------
ServerStep ==
  \/ Publish
  \/ ReadFrame
  \/ \E i \in Ids : StartReplay(i) \/ ReadPage(i) \/ SendPage(i)

ClientStep == Receive \/ Open

Next ==
  \/ AppendEvent
  \/ ServerStep
  \/ \E i \in Ids : RefuseSubscribe(i)
  \/ ClientStep
  \/ Mount \/ Unmount \/ Drop \/ TimeOut

Spec == Init /\ [][Next]_vars

(* The server's tasks and the client's event loop run; the transport       *)
(* retries the connection for ever.  Nothing obliges the user, the socket  *)
(* or the access check to fail.                                            *)
FairSpec ==
  /\ Spec
  /\ WF_vars(Publish) /\ WF_vars(ReadFrame) /\ WF_vars(Receive) /\ WF_vars(Open)
  /\ \A i \in Ids :
       WF_vars(StartReplay(i)) /\ WF_vars(ReadPage(i)) /\ WF_vars(SendPage(i))

-----------------------------------------------------------------------------
(* Nothing is under way between the store and the chat.                    *)
Quiet ==
  /\ isOpen /\ published = log
  /\ up = <<>> /\ down = <<>>
  /\ \A i \in Ids : handlers[i].phase \in {"idle", "live"}

(* A chat with a live subscription and a quiet channel shows every event   *)
(* of the thread: no drop, page boundary, or event published while the     *)
(* replay reads the log loses one.  It covers the first chat of a thread   *)
(* through any number of drops, and a later loaded one while its socket    *)
(* lives (handleSubscribe, onConnectionOpened).                            *)
LiveIsComplete ==
  Quiet /\ view.on /\ listener # 0 =>
    \/ view.seen = 1 .. log
    \/ view.mount > 1 /\ (~view.sameSocket \/ view.status # "ready")

(* What sessions-client.ts says of a reconnect: "nothing is missed".  A    *)
(* mounted chat that shows no error and hears nothing more has it all.     *)
NothingMissed ==
  Quiet /\ view.on /\ view.status = "ready" => view.seen = 1 .. log

(* The first chat of a thread always shows a beginning of the log that     *)
(* only grows: no event before the ones before it, whatever page, live     *)
(* event or reconnect brings it (the steps map to ThreadFeed's).           *)
Feed == INSTANCE ThreadFeed WITH
          happened <- log,
          shown    <- IF view.mount = 1 THEN view.seen ELSE {}

ShowsABeginning == Feed!Spec

(* The spinner of a mounted chat ends, whatever drops (parkedSubscribes,   *)
(* REQUEST_TIMEOUT_MS).                                                    *)
LoadingEnds ==
  (view.status = "loading") ~> (view.status # "loading")

(* The first chat of a thread catches up with the log unless the server    *)
(* refused a subscribe or the chat is closed.                              *)
CatchesUp ==
  \A n \in Seqs :
    (view.on /\ view.mount = 1 /\ log >= n)
      ~> (n \in view.seen \/ ~view.on \/ failures > 0)
=============================================================================
