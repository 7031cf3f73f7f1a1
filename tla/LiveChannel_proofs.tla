------------------------- MODULE LiveChannel_proofs -------------------------
(***************************************************************************)
(* What the live channel keeps for every number of events, sockets, mounts *)
(* and failures, and every page size.                                      *)
(*                                                                         *)
(* Request ids tell the subscribes apart (WireInv): one is in the socket,  *)
(* or being handled, or answered, never two of these.  The first chat of a *)
(* thread has one subscribe per socket, so what is on its way to it        *)
(* continues what it shows, frame after frame (BeginningInv).  A later     *)
(* chat may be served by several handlers at once; what its own has sent   *)
(* when it answers, and what whoever listens then has sent since, is all   *)
(* there is (CompleteInv).                                                 *)
(***************************************************************************)
EXTENDS LiveChannel, SequenceTheorems, TLAPS

Replaying == {"query", "page"}

Active(j)   == handlers[j].phase # "idle"
Asked(j)    == \E k \in DOMAIN up : up[k].kind = "subscribe" /\ up[k].id = j
IsEvents(k) == down[k].kind = "events"

(* A subscribe is in the socket, or handled, or answered.                  *)
RequestsInv ==
  \A k \in DOMAIN up : up[k].kind = "subscribe" =>
    /\ up[k].id \in 1 .. nextId /\ up[k].after <= log /\ ~Active(up[k].id)
    /\ \A l \in DOMAIN up : up[l].kind = "subscribe" /\ up[l].id = up[k].id => l = k
IsOver(j) == j \in 1 .. nextId /\ ~Asked(j) /\ handlers[j].phase \in {"idle", "live"}
FramesInv ==
  \A k \in DOMAIN down :
    /\ IsEvents(k) => 1 <= down[k].lo /\ down[k].lo <= down[k].hi /\ down[k].hi <= log
    /\ ~IsEvents(k) => IsOver(down[k].lo)
WireInv ==
  /\ nextId <= view.mount + conns
  /\ isOpen => sendQueue = <<>>
  /\ ~isOpen => up = <<>> /\ down = <<>> /\ \A j \in Ids : ~Active(j)
  /\ \A j \in Ids : Active(j) => j <= nextId
  /\ lastSeq <= log /\ view.seen \subseteq 1 .. log
  /\ RequestsInv /\ FramesInv

(* The client waits for its last subscribe, and a thread never opened has  *)
(* sent nothing.                                                           *)
ClientInv ==
  /\ subscribed = view.on
  /\ awaited # 0 => awaited = nextId /\ view.on /\ isOpen
  /\ parked => view.on /\ ~isOpen
  /\ ~view.on => view.seen = {}
  /\ view.sameSocket => view.on /\ isOpen
  /\ view.mount = 0 => /\ ~view.on /\ nextId = 0 /\ lastSeq = 0
                       /\ sendQueue = <<>> /\ up = <<>> /\ down = <<>>

(* A replay has read no more than the log, and buffers what it may not     *)
(* have read.                                                              *)
ReplayOf(j) ==
  LET h == handlers[j] IN
  /\ h.phase = "live" => listener = j
  /\ h.last <= log
  /\ h.phase \in {"access", "query"} => h.hi = h.last
  /\ h.phase = "page" => /\ h.last <= h.hi /\ h.hi <= log /\ h.hi <= h.last + PageSize
                         /\ h.hi < h.last + PageSize => h.from <= h.hi
  /\ h.phase \in Replaying => /\ h.from <= h.to /\ h.to <= published
                              /\ listener = j => h.to = published
ReplayInv ==
  /\ listener # 0 => handlers[listener].phase \in Replaying \cup {"live"}
  /\ \A j \in Ids : ReplayOf(j)

(* Event n is shown, or brought by one of the first k frames of the wire   *)
(* with all before it; the wire is in order when no frame leaves a gap.    *)
Sent(seen, wire, n, k) ==
  \/ n = 0 \/ n \in seen
  \/ \E j \in 1 .. k : j \in DOMAIN wire /\ wire[j].kind = "events" /\ n <= wire[j].hi
InOrder(seen, wire) ==
  \A k \in DOMAIN wire : wire[k].kind = "events" => Sent(seen, wire, wire[k].lo - 1, k - 1)

(* What the first chat of a thread shows, and what is on its way to it.    *)
IsFirst == view.on /\ view.mount = 1
Catching(j) ==
  /\ Active(j) => j = nextId
  /\ handlers[j].phase \in {"access"} \cup Replaying =>
       Sent(view.seen, down, handlers[j].last, Len(down))
  /\ handlers[j].phase = "live" => Sent(view.seen, down, published, Len(down))
BeginningInv ==
  IsFirst =>
    /\ sendQueue = <<>>
    /\ \E m \in 0 .. log : view.seen = 1 .. m
    /\ lastSeq = 0 \/ lastSeq \in view.seen
    /\ InOrder(view.seen, down)
    /\ up # <<>> => /\ \E n \in 0 .. MaxSeq : /\ n = 0 \/ n \in view.seen
                                              /\ up = <<Subscribe(nextId, n)>>
                    /\ down = <<>> /\ listener = 0 /\ \A j \in Ids : ~Active(j)
    /\ \A j \in Ids : Catching(j)

(* Every event after a and up to b is shown or on the wire.                *)
OnItsWay(seen, wire, n) ==
  \/ n \in seen
  \/ \E k \in DOMAIN wire : wire[k].kind = "events" /\ wire[k].lo <= n /\ n <= wire[k].hi
Covered(seen, wire, a, b) == \A n \in Seqs : a < n /\ n <= b => OnItsWay(seen, wire, n)

(* A chat whose own subscribe, nextId, went out on this socket; what a     *)
(* listener has sent so far; and whether the subscribe was answered.       *)
IsSame == view.on /\ view.sameSocket
Reaches(j) == IF handlers[j].phase = "live" THEN published ELSE handlers[j].last
IsAnswered == \/ view.status = "ready"
              \/ \E k \in DOMAIN down : down[k].kind = "reply" /\ down[k].lo = nextId

OwnInv ==
  /\ nextId # 0
  /\ up # <<>> => up[Len(up)] = Subscribe(nextId, 0) /\ ~IsAnswered
  /\ Active(nextId) => up = <<>>
  /\ handlers[nextId].phase = "access" => handlers[nextId].last = 0
  /\ handlers[nextId].phase \in Replaying =>
       Covered(view.seen, down, 0, handlers[nextId].last) /\ listener # 0
(* Its last page read, what the others have sent and will begin with.      *)
EndingInv ==
  LET h == handlers[nextId] IN
  h.phase = "page" /\ h.hi < h.last + PageSize =>
    /\ \A j \in Ids : handlers[j].phase = "access" => handlers[j].last <= h.hi
    /\ listener # nextId => Covered(view.seen, down, h.hi, Reaches(listener))
AnsweredInv ==
  IsAnswered =>
    /\ handlers[nextId].phase \in {"idle", "live"}
    /\ \A j \in Ids : handlers[j].phase = "access" =>
         Covered(view.seen, down, 0, handlers[j].last)
    /\ listener # 0 => Covered(view.seen, down, 0, Reaches(listener))
CompleteInv == IsSame => OwnInv /\ EndingInv /\ AnsweredInv

ChannelInv == TypeOK /\ WireInv /\ ClientInv /\ ReplayInv

-----------------------------------------------------------------------------
USE ChannelAssumption
    DEF store, socket, server, client, Ids, Seqs

(* What TypeOK says of the wires and the handlers, place by place.         *)
LEMMA Types ==
  ASSUME TypeOK
  PROVE  /\ handlers \in [Ids -> Handler] /\ \A j \in Ids : handlers[j] \in Handler
         /\ Idle \in Handler
         /\ up \in Seq(Requests) /\ down \in Seq(Frames) /\ sendQueue \in Seq({Unsubscribe})
         /\ DOMAIN up = 1 .. Len(up) /\ Len(up) \in Nat
         /\ DOMAIN down = 1 .. Len(down) /\ Len(down) \in Nat
         /\ \A k \in DOMAIN up : up[k] \in Requests
         /\ \A k \in DOMAIN down : down[k] \in Frames
<1>1. /\ handlers \in [Ids -> Handler] /\ up \in Seq(Requests) /\ down \in Seq(Frames)
      /\ sendQueue \in Seq({Unsubscribe})
  BY DEF TypeOK
<1>2. Idle \in Handler
  BY DEF Idle, Handler
<1>3. \A j \in Ids : handlers[j] \in Handler
  BY <1>1
<1>4. /\ DOMAIN up = 1 .. Len(up) /\ Len(up) \in Nat
      /\ DOMAIN down = 1 .. Len(down) /\ Len(down) \in Nat
      /\ \A k \in DOMAIN up : up[k] \in Requests
      /\ \A k \in DOMAIN down : down[k] \in Frames
  BY <1>1, LenProperties, ElementOfSeq
<1> QED BY <1>1, <1>2, <1>3, <1>4

(* And of what is no sequence.                                             *)
LEMMA Scalars ==
  ASSUME TypeOK
  PROVE  /\ log \in Nat /\ published \in Nat /\ published <= log /\ log <= MaxSeq
         /\ listener \in Ids \cup {0} /\ 0 \notin Ids
         /\ isOpen \in BOOLEAN /\ conns \in 0 .. MaxConns
         /\ subscribed \in BOOLEAN /\ lastSeq \in 0 .. MaxSeq
         /\ awaited \in Ids \cup {0} /\ parked \in BOOLEAN /\ nextId \in 0 .. MaxMounts + MaxConns
         /\ view \in View
         /\ failures \in 0 .. MaxFailures
<1>1. log \in 0 .. MaxSeq /\ published \in 0 .. log
  BY DEF TypeOK
<1> QED BY <1>1 DEF TypeOK

(* One frame more on a wire.                                               *)
LEMMA Appended ==
  ASSUME NEW S, NEW s \in Seq(S), NEW e \in S, NEW t, t = Append(s, e)
  PROVE  /\ t \in Seq(S) /\ t # <<>> /\ Len(t) = Len(s) + 1
         /\ DOMAIN s = 1 .. Len(s) /\ Len(s) \in Nat /\ DOMAIN t = 1 .. Len(s) + 1
         /\ \A k \in DOMAIN s : t[k] = s[k]
         /\ t[Len(s) + 1] = e
BY AppendProperties, LenProperties

(* The first frame of a wire taken off it.                                 *)
LEMMA Removed ==
  ASSUME NEW S, NEW s \in Seq(S), s # <<>>, NEW t, t = Tail(s)
  PROVE  /\ t \in Seq(S) /\ Len(t) = Len(s) - 1 /\ Len(s) \in Nat \ {0}
         /\ DOMAIN s = 1 .. Len(s) /\ DOMAIN t = 1 .. Len(s) - 1
         /\ \A k \in DOMAIN t : k + 1 \in DOMAIN s /\ t[k] = s[k + 1]
         /\ Head(s) = s[1] /\ Head(s) \in S /\ 1 \in DOMAIN s
BY HeadTailProperties, LenProperties, EmptySeq

(* Only a listener that is live is dropped with its subscription.          *)
LEMMA ListenerDropped ==
  ASSUME TypeOK
  PROVE  /\ DropListener(handlers) \in [Ids -> Handler]
         /\ \A j \in Ids : DropListener(handlers)[j] =
              IF handlers[j].phase = "live" /\ listener = j THEN Idle ELSE handlers[j]
<1>1. handlers \in [Ids -> Handler] /\ Idle \in Handler
  BY Types
<1>2. listener \in Ids \/ listener = 0
  BY DEF TypeOK
<1>3. CASE listener # 0 /\ handlers[listener].phase = "live"
  BY <1>1, <1>2, <1>3 DEF DropListener
<1>4. CASE ~(listener # 0 /\ handlers[listener].phase = "live")
  <2>1. DropListener(handlers) = handlers
    BY <1>4 DEF DropListener
  <2> QED BY <1>1, <1>2, <1>4, <2>1
<1> QED BY <1>3, <1>4

(* Who handles what after the server has read a frame.                     *)
LEMMA ReadFrameStep ==
  ASSUME TypeOK, WireInv, ReadFrame
  PROVE  /\ up # <<>> /\ isOpen /\ up' \in Seq(Requests) /\ Len(up') = Len(up) - 1
         /\ DOMAIN up' = 1 .. Len(up) - 1 /\ 1 \in DOMAIN up
         /\ \A k \in DOMAIN up' : k + 1 \in DOMAIN up /\ up'[k] = up[k + 1]
         /\ \/ /\ up[1].kind = "subscribe" /\ listener' = listener
               /\ up[1].id \in 1 .. nextId /\ up[1].id \in Ids
               /\ up[1].after \in 0 .. MaxSeq /\ up[1].after <= log
               /\ handlers' = [handlers EXCEPT ![up[1].id] =
                    [Idle EXCEPT !.phase = "access", !.last = up[1].after, !.hi = up[1].after]]
            \/ /\ up[1].kind = "unsubscribe" /\ listener' = 0
               /\ handlers' \in [Ids -> Handler]
               /\ \A j \in Ids : handlers'[j] = IF handlers[j].phase = "live" /\ listener = j
                                                THEN Idle ELSE handlers[j]
<1>1. /\ up # <<>> /\ isOpen /\ up' = Tail(up) /\ up \in Seq(Requests)
  BY Types DEF ReadFrame
<1>2. /\ up' \in Seq(Requests) /\ Len(up') = Len(up) - 1
      /\ DOMAIN up' = 1 .. Len(up) - 1 /\ 1 \in DOMAIN up /\ Head(up) = up[1]
      /\ \A k \in DOMAIN up' : k + 1 \in DOMAIN up /\ up'[k] = up[k + 1]
  BY <1>1, Removed
<1>3. CASE up[1].kind = "subscribe" /\ StartSubscribe(up[1])
  <2>1. up[1].id \in 1 .. nextId /\ up[1].after <= log
    BY <1>2, <1>3 DEF WireInv, RequestsInv
  <2>2. up[1].after \in 0 .. MaxSeq /\ up[1].id \in Ids \cup {0}
    BY <1>2, Types DEF Requests
  <2>3. up[1].id \in Ids
    BY <2>1, <2>2
  <2> QED BY <1>1, <1>2, <1>3, <2>1, <2>2, <2>3 DEF StartSubscribe
<1>4. CASE up[1].kind = "unsubscribe" /\ HandleUnsubscribe
  <2>1. /\ handlers' \in [Ids -> Handler]
        /\ \A j \in Ids : handlers'[j] = IF handlers[j].phase = "live" /\ listener = j
                                         THEN Idle ELSE handlers[j]
    BY <1>4, ListenerDropped DEF HandleUnsubscribe
  <2> QED BY <1>1, <1>2, <1>4, <2>1 DEF HandleUnsubscribe
<1> QED BY <1>1, <1>2, <1>3, <1>4 DEF ReadFrame

(* A subscribe that was granted listens and drops whoever listened.        *)
LEMMA StartReplayStep ==
  ASSUME TypeOK, NEW i \in Ids, StartReplay(i)
  PROVE  /\ handlers' \in [Ids -> Handler] /\ handlers[i].phase = "access" /\ listener' = i
         /\ handlers'[i] = [handlers[i] EXCEPT !.phase = "query", !.from = published,
                                               !.to = published]
         /\ \A j \in Ids \ {i} :
              handlers'[j] = IF handlers[j].phase = "live" /\ listener = j
                             THEN Idle ELSE handlers[j]
<1>1. /\ handlers[i].phase = "access" /\ listener' = i
      /\ handlers' = [DropListener(handlers) EXCEPT ![i].phase = "query",
                                                    ![i].from = published, ![i].to = published]
  BY DEF StartReplay
<1> DEFINE hs == DropListener(handlers)
<1>2. /\ hs \in [Ids -> Handler] /\ hs[i] = handlers[i]
      /\ \A j \in Ids : hs[j] = IF handlers[j].phase = "live" /\ listener = j
                                THEN Idle ELSE handlers[j]
  BY <1>1, ListenerDropped
<1>3. published \in 0 .. MaxSeq
  BY DEF TypeOK
<1> HIDE DEF hs
<1>4. handlers' = [hs EXCEPT ![i] = [hs[i] EXCEPT !.phase = "query", !.from = published,
                                                  !.to = published]]
  BY <1>1, <1>2 DEF hs, Handler
<1> DEFINE g == [hs[i] EXCEPT !.phase = "query", !.from = published, !.to = published]
<1>5. g \in Handler
  <2> DEFINE h == hs[i]
  <2>1. h \in Handler
    BY <1>2
  <2> HIDE DEF h
  <2>2. [h EXCEPT !.phase = "query", !.from = published, !.to = published] \in Handler
    BY <1>3, <2>1 DEF Handler
  <2> QED BY <2>2 DEF h
<1>6. handlers' = [hs EXCEPT ![i] = g]
  BY <1>4
<1>7. g = [handlers[i] EXCEPT !.phase = "query", !.from = published, !.to = published]
  BY <1>2
<1> HIDE DEF g
<1>8. handlers' \in [Ids -> Handler] /\ handlers'[i] = g
      /\ \A j \in Ids \ {i} : handlers'[j] = hs[j]
  BY <1>2, <1>5, <1>6
<1> QED BY <1>1, <1>2, <1>7, <1>8

(* Frames sent come behind those on the wire.                              *)
LEMMA Extended ==
  ASSUME TypeOK, NEW t \in Seq(Frames), down' = down \o t
  PROVE  /\ down' \in Seq(Frames) /\ Len(down') = Len(down) + Len(t) /\ Len(t) \in Nat
         /\ DOMAIN down' = 1 .. Len(down) + Len(t) /\ DOMAIN t = 1 .. Len(t)
         /\ \A k \in DOMAIN down : k \in DOMAIN down' /\ down'[k] = down[k]
         /\ \A k \in DOMAIN t : Len(down) + k \in DOMAIN down' /\ down'[Len(down) + k] = t[k]
         /\ \A k \in DOMAIN down' : k \notin DOMAIN down =>
              k - Len(down) \in DOMAIN t /\ down'[k] = t[k - Len(down)]
<1>1. down \in Seq(Frames) /\ DOMAIN down = 1 .. Len(down) /\ Len(down) \in Nat
  BY Types
<1>2. DOMAIN t = 1 .. Len(t) /\ Len(t) \in Nat
  BY LenProperties
<1>3. /\ down' \in Seq(Frames) /\ Len(down') = Len(down) + Len(t)
      /\ \A k \in 1 .. Len(down) + Len(t) :
           down'[k] = IF k <= Len(down) THEN down[k] ELSE t[k - Len(down)]
  BY <1>1, ConcatProperties
<1>4. DOMAIN down' = 1 .. Len(down) + Len(t)
  BY <1>3, LenProperties
<1> QED BY <1>1, <1>2, <1>3, <1>4

(* What a step leaves on the wire of what it sends: `from` is what it      *)
(* continues and `to` how far it goes; only the last frame may answer.     *)
Continues(t, a, b) ==
  /\ \A k \in DOMAIN t : t[k].kind = "events" =>
       /\ 1 <= t[k].lo /\ t[k].lo <= t[k].hi /\ t[k].hi <= log
       /\ \/ t[k].lo - 1 <= a
          \/ \E l \in DOMAIN t : l < k /\ t[l].kind = "events" /\ t[k].lo - 1 <= t[l].hi
  /\ \A n \in Nat : a < n /\ n <= b =>
       \E k \in DOMAIN t : t[k].kind = "events" /\ t[k].lo <= n /\ n <= t[k].hi

(* One frame alone.                                                        *)
LEMMA One ==
  ASSUME NEW S, NEW e \in S
  PROVE  <<e>> \in Seq(S) /\ Len(<<e>>) = 1 /\ DOMAIN <<e>> = {1} /\ <<e>>[1] = e
OBVIOUS

(* One event published is the next one.                                    *)
LEMMA PublishStep ==
  ASSUME TypeOK, Publish
  PROVE  /\ published < log /\ published' = published + 1
         /\ \/ listener = 0 /\ UNCHANGED <<handlers, down>>
            \/ /\ listener \in Ids /\ handlers[listener].phase # "live" /\ UNCHANGED down
               /\ handlers' = [handlers EXCEPT ![listener] =
                                [handlers[listener] EXCEPT !.to = published + 1]]
            \/ /\ listener \in Ids /\ handlers[listener].phase = "live" /\ UNCHANGED handlers
               /\ \E t \in Seq(Frames) : /\ down' = down \o t
                                         /\ \A k \in DOMAIN t : t[k].kind = "events"
                                         /\ Continues(t, published, published + 1)
<1>1. published < log /\ published' = published + 1 /\ published \in Nat /\ log \in Nat
  BY DEF Publish, TypeOK
<1>2. CASE listener = 0
  BY <1>1, <1>2 DEF Publish
<1>3. CASE listener # 0 /\ handlers[listener].phase # "live"
  BY <1>1, <1>3 DEF Publish, Deliver, TypeOK
<1>4. CASE listener # 0 /\ handlers[listener].phase = "live"
  <2> DEFINE t == <<Events(published + 1, published + 1)>>
  <2>1. /\ listener \in Ids /\ down' = Append(down, Events(published + 1, published + 1))
        /\ handlers' = [handlers EXCEPT ![listener] = handlers[listener]]
    BY <1>4 DEF Publish, Deliver, TypeOK
  <2>2. UNCHANGED handlers
    BY <2>1, Types
  <2>3. Events(published + 1, published + 1) \in Frames
    BY <1>1 DEF Events, Frames
  <2>4. t \in Seq(Frames) /\ down' = down \o t
    BY <2>1, <2>3, Types, AppendIsConcat
  <2>5. Continues(t, published, published + 1) /\ \A k \in DOMAIN t : t[k].kind = "events"
    BY <1>1 DEF Continues, Events
  <2> QED BY <1>1, <1>4, <2>1, <2>2, <2>4, <2>5
<1> QED BY <1>2, <1>3, <1>4

(* A refusal is an answer and sends nothing else.                          *)
LEMMA RefuseStep ==
  ASSUME TypeOK, NEW i \in Ids, RefuseSubscribe(i)
  PROVE  /\ handlers[i].phase = "access" /\ handlers' = [handlers EXCEPT ![i] = Idle]
         /\ \E t \in Seq(Frames) : down' = down \o t /\ t = <<Reply(i, FALSE)>>
<1>1. Reply(i, FALSE) \in Frames
  BY DEF Reply, Frames
<1>2. <<Reply(i, FALSE)>> \in Seq(Frames)
  BY <1>1, One
<1>3. down' = Append(down, Reply(i, FALSE))
  BY DEF RefuseSubscribe
<1>4. down' = down \o <<Reply(i, FALSE)>>
  BY <1>1, <1>3, Types, AppendIsConcat
<1> QED BY <1>2, <1>4 DEF RefuseSubscribe

(* A page reaches as far as the log or its size allow.                     *)
LEMMA ReadPageStep ==
  ASSUME TypeOK, ReplayInv, NEW i \in Ids, ReadPage(i)
  PROVE  /\ handlers[i].phase = "query"
         /\ \E n \in 0 .. MaxSeq :
              /\ handlers' = [handlers EXCEPT ![i] = [handlers[i] EXCEPT !.phase = "page", !.hi = n]]
              /\ handlers[i].last <= n /\ n <= log /\ n <= handlers[i].last + PageSize
              /\ n < handlers[i].last + PageSize => n = log
<1> DEFINE h == handlers[i]
<1>1. h \in Handler /\ h.phase = "query" /\ h.hi = h.last /\ h.last <= log
  BY Types DEF ReadPage, ReplayInv, ReplayOf
<1>2. log \in 0 .. MaxSeq /\ h.last \in 0 .. MaxSeq
  BY <1>1 DEF TypeOK, Handler
<1>3. /\ PageEnd(h.hi) \in 0 .. MaxSeq
      /\ h.last <= PageEnd(h.hi) /\ PageEnd(h.hi) <= log /\ PageEnd(h.hi) <= h.last + PageSize
      /\ PageEnd(h.hi) < h.last + PageSize => PageEnd(h.hi) = log
  BY <1>1, <1>2 DEF PageEnd
<1>4. handlers' = [handlers EXCEPT ![i] = [h EXCEPT !.phase = "page", !.hi = PageEnd(h.hi)]]
  <2>1. handlers' = [handlers EXCEPT ![i].phase = "page", ![i].hi = PageEnd(@)]
    BY DEF ReadPage
  <2> QED BY <1>1, <2>1, Types DEF Handler
<1> QED BY <1>1, <1>3, <1>4

(* A page continues what the replay has sent.                              *)
LEMMA PageFrames ==
  ASSUME NEW h \in Handler, h.last <= h.hi, h.hi <= log, log \in Nat
  PROVE  /\ Page(h) \in Seq(Frames)
         /\ \A k \in DOMAIN Page(h) : Page(h)[k].kind = "events"
         /\ Continues(Page(h), h.last, h.hi)
<1>1. h.last \in Nat /\ h.hi \in Nat
  BY DEF Handler
<1>2. CASE h.hi > h.last
  <2>1. Events(h.last + 1, h.hi) \in Frames
    BY <1>1, <1>2 DEF Events, Frames
  <2>2. Page(h) = <<Events(h.last + 1, h.hi)>>
    BY <1>2 DEF Page
  <2>3. Page(h) \in Seq(Frames) /\ DOMAIN Page(h) = {1} /\ Page(h)[1] = Events(h.last + 1, h.hi)
    BY <2>1, <2>2, One
  <2> QED BY <1>1, <1>2, <2>3 DEF Continues, Events
<1>3. CASE h.hi = h.last
  <2>1. Page(h) = <<>>
    BY <1>1, <1>3 DEF Page
  <2> QED BY <1>1, <1>3, <2>1 DEF Continues
<1> QED BY <1>1, <1>2, <1>3

(* The buffer continues the last page.                                     *)
LEMMA FlushFrames ==
  ASSUME NEW h \in Handler, h.from <= h.hi, h.to <= log, log \in Nat
  PROVE  /\ Flush(h) \in Seq(Frames)
         /\ \A k \in DOMAIN Flush(h) : Flush(h)[k].kind = "events"
         /\ Continues(Flush(h), h.hi, Later(h.hi, h.to))
<1>1. h.from \in Nat /\ h.hi \in Nat /\ h.to \in Nat
  BY DEF Handler
<1> DEFINE n == Later(h.hi, h.to) - h.hi
<1>2. n \in Nat /\ h.hi + n <= Later(h.hi, h.to) /\ n = (IF h.hi < h.to THEN h.to - h.hi ELSE 0)
  BY <1>1 DEF Later
<1>3. Flush(h) = [k \in 1 .. n |-> Events(h.hi + k, h.hi + k)]
  BY <1>1 DEF Flush, Later
<1> HIDE DEF n
<1>4. Flush(h) \in [1 .. n -> Frames]
  BY <1>1, <1>2, <1>3 DEF Events, Frames
<1>5. Flush(h) \in Seq(Frames)
  BY <1>2, <1>4, SeqDef
<1>6. \A k \in 1 .. n : Flush(h)[k] = [kind |-> "events", lo |-> h.hi + k, hi |-> h.hi + k]
  BY <1>3 DEF Events
<1>7. DOMAIN Flush(h) = 1 .. n
  BY <1>4
<1>8. \A k \in DOMAIN Flush(h) :
        /\ 1 <= Flush(h)[k].lo /\ Flush(h)[k].lo <= Flush(h)[k].hi /\ Flush(h)[k].hi <= log
        /\ \/ Flush(h)[k].lo - 1 <= h.hi
           \/ \E l \in DOMAIN Flush(h) : /\ l < k /\ Flush(h)[l].kind = "events"
                                         /\ Flush(h)[k].lo - 1 <= Flush(h)[l].hi
  <2> SUFFICES ASSUME NEW k \in 1 .. n
               PROVE  /\ h.hi + k <= log
                      /\ \/ k = 1
                         \/ \E l \in DOMAIN Flush(h) : /\ l < k /\ Flush(h)[l].kind = "events"
                                                       /\ h.hi + k - 1 <= Flush(h)[l].hi
    BY <1>1, <1>6, <1>7
  <2>1. h.hi + k <= log
    BY <1>1, <1>2
  <2>2. CASE k # 1
    <3>1. k - 1 \in 1 .. n
      BY <1>2, <2>2
    <3> QED BY <1>1, <1>6, <1>7, <2>1, <3>1
  <2> QED BY <2>1, <2>2
<1>9. \A m \in Nat : h.hi < m /\ m <= Later(h.hi, h.to) =>
        \E k \in DOMAIN Flush(h) : /\ Flush(h)[k].kind = "events"
                                   /\ Flush(h)[k].lo <= m /\ m <= Flush(h)[k].hi
  <2> SUFFICES ASSUME NEW m \in Nat, h.hi < m, m <= Later(h.hi, h.to)
               PROVE  \E k \in DOMAIN Flush(h) : /\ Flush(h)[k].kind = "events"
                                                 /\ Flush(h)[k].lo <= m /\ m <= Flush(h)[k].hi
    OBVIOUS
  <2>1. m - h.hi \in 1 .. n /\ h.hi + (m - h.hi) = m
    BY <1>1, <1>2 DEF Later
  <2> QED BY <1>6, <1>7, <2>1
<1> QED BY <1>5, <1>6, <1>7, <1>8, <1>9 DEF Continues

(* What continues a continuation continues.                                *)
LEMMA ContinuesOn ==
  ASSUME NEW s \in Seq(Frames), NEW t \in Seq(Frames), log \in Nat,
         NEW a \in Nat, NEW b \in Nat, NEW c \in Nat, a <= b,
         Continues(s, a, b), Continues(t, b, c)
  PROVE  /\ s \o t \in Seq(Frames) /\ Len(s \o t) = Len(s) + Len(t)
         /\ DOMAIN (s \o t) = 1 .. Len(s) + Len(t)
         /\ \A k \in 1 .. Len(s) + Len(t) :
              (s \o t)[k] = IF k <= Len(s) THEN s[k] ELSE t[k - Len(s)]
         /\ Continues(s \o t, a, c) /\ Continues(s \o t, a, b)
<1> DEFINE u == s \o t
<1>1. /\ DOMAIN s = 1 .. Len(s) /\ Len(s) \in Nat /\ DOMAIN t = 1 .. Len(t) /\ Len(t) \in Nat
      /\ \A k \in DOMAIN s : s[k] \in Frames
      /\ \A k \in DOMAIN t : t[k] \in Frames
  BY LenProperties
<1>2. /\ u \in Seq(Frames) /\ Len(u) = Len(s) + Len(t)
      /\ \A k \in 1 .. Len(s) + Len(t) : u[k] = IF k <= Len(s) THEN s[k] ELSE t[k - Len(s)]
  BY ConcatProperties
<1>3. DOMAIN u = 1 .. Len(s) + Len(t)
  BY <1>2, LenProperties
<1> HIDE DEF u
<1>4. /\ \A k \in DOMAIN s : k \in DOMAIN u /\ u[k] = s[k]
      /\ \A k \in DOMAIN t : Len(s) + k \in DOMAIN u /\ u[Len(s) + k] = t[k]
      /\ \A k \in DOMAIN u : \/ k \in DOMAIN s
                             \/ \E l \in DOMAIN t : k = Len(s) + l
  <2>1. ASSUME NEW k \in DOMAIN t PROVE Len(s) + k \in DOMAIN u /\ u[Len(s) + k] = t[k]
    <3>1. Len(s) + k - Len(s) = k /\ ~(Len(s) + k <= Len(s)) /\ Len(s) + k \in 1 .. Len(s) + Len(t)
      BY <1>1
    <3> QED BY <1>2, <1>3, <3>1
  <2>2. \A k \in DOMAIN s : k \in DOMAIN u /\ u[k] = s[k]
    BY <1>1, <1>2, <1>3
  <2>3. ASSUME NEW k \in DOMAIN u, k \notin DOMAIN s PROVE \E l \in DOMAIN t : k = Len(s) + l
    <3>1. k - Len(s) \in DOMAIN t /\ k = Len(s) + (k - Len(s))
      BY <1>1, <1>3, <2>3
    <3> QED BY <3>1
  <2> QED BY <2>1, <2>2, <2>3
<1>5. \A n \in Nat : a < n /\ n <= b =>
        \E k \in DOMAIN u : u[k].kind = "events" /\ u[k].lo <= n /\ n <= u[k].hi
  BY <1>4 DEF Continues
<1>6. \A n \in Nat : b < n /\ n <= c =>
        \E k \in DOMAIN u : u[k].kind = "events" /\ u[k].lo <= n /\ n <= u[k].hi
  <2> TAKE n \in Nat
  <2> HAVE b < n /\ n <= c
  <2>1. PICK k \in DOMAIN t : t[k].kind = "events" /\ t[k].lo <= n /\ n <= t[k].hi
    BY DEF Continues
  <2>2. Len(s) + k \in DOMAIN u /\ u[Len(s) + k] = t[k]
    BY <1>4
  <2> QED BY <2>1, <2>2
<1>7. ASSUME NEW k \in DOMAIN u, u[k].kind = "events"
      PROVE  /\ 1 <= u[k].lo /\ u[k].lo <= u[k].hi /\ u[k].hi <= log
             /\ \/ u[k].lo - 1 <= a
                \/ \E l \in DOMAIN u : l < k /\ u[l].kind = "events" /\ u[k].lo - 1 <= u[l].hi
  <2>1. CASE k \in DOMAIN s
    BY <1>4, <1>7, <2>1 DEF Continues
  <2>2. ASSUME NEW l \in DOMAIN t, k = Len(s) + l
        PROVE  /\ 1 <= u[k].lo /\ u[k].lo <= u[k].hi /\ u[k].hi <= log
               /\ \/ u[k].lo - 1 <= a
                  \/ \E m \in DOMAIN u : m < k /\ u[m].kind = "events" /\ u[k].lo - 1 <= u[m].hi
    <3>1. u[k] = t[l] /\ u[k] \in Frames /\ l \in Nat
      BY <1>1, <1>4, <2>2
    <3>2. 1 <= u[k].lo /\ u[k].lo <= u[k].hi /\ u[k].hi <= log
      BY <1>7, <3>1 DEF Continues
    <3>3. CASE u[k].lo - 1 <= b
      <4>1. CASE a = b
        BY <3>2, <3>3, <4>1
      <4>2. CASE a < b
        <5>1. PICK m \in DOMAIN s : s[m].kind = "events" /\ b <= s[m].hi
          BY <4>2 DEF Continues
        <5>2. m \in DOMAIN u /\ u[m] = s[m] /\ s[m].hi \in Nat /\ u[k].lo \in Nat
          BY <1>1, <1>4, <3>1 DEF Frames
        <5>3. m < k
          BY <1>1, <2>2
        <5> QED BY <3>2, <3>3, <5>1, <5>2, <5>3
      <4> QED BY <4>1, <4>2
    <3>4. CASE \E m \in DOMAIN t : m < l /\ t[m].kind = "events" /\ t[l].lo - 1 <= t[m].hi
      <4>1. PICK m \in DOMAIN t : m < l /\ t[m].kind = "events" /\ t[l].lo - 1 <= t[m].hi
        BY <3>4
      <4>2. Len(s) + m \in DOMAIN u /\ u[Len(s) + m] = t[m] /\ Len(s) + m < k
        BY <1>1, <1>4, <2>2, <4>1
      <4> QED BY <3>1, <3>2, <4>1, <4>2
    <3> QED BY <1>7, <3>1, <3>2, <3>3, <3>4 DEF Continues
  <2> QED BY <1>4, <2>1, <2>2
<1>8. \A n \in Nat : a < n /\ n <= c =>
        \E k \in DOMAIN u : u[k].kind = "events" /\ u[k].lo <= n /\ n <= u[k].hi
  BY <1>5, <1>6
<1>9. Continues(u, a, c) /\ Continues(u, a, b)
  BY <1>5, <1>7, <1>8 DEF Continues
<1> QED BY <1>2, <1>3, <1>9 DEF u

(* A replay that sends a full page goes on after it; another sends its     *)
(* buffer too, and answers.                                                *)
LEMMA SendPageStep ==
  ASSUME TypeOK, ReplayInv, NEW i \in Ids, SendPage(i)
  PROVE  LET h == handlers[i] IN
         /\ h.phase = "page"
         /\ \E t \in Seq(Frames) :
              /\ down' = down \o t
              /\ \/ /\ h.hi = h.last + PageSize /\ Continues(t, h.last, h.hi)
                    /\ handlers' = [handlers EXCEPT ![i] = [h EXCEPT !.phase = "query", !.last = h.hi]]
                    /\ \A k \in DOMAIN t : t[k].kind = "events"
                 \/ /\ h.hi < h.last + PageSize /\ Continues(t, h.last, Later(h.hi, h.to))
                    /\ handlers' = [handlers EXCEPT ![i] =
                         IF listener = i THEN [Idle EXCEPT !.phase = "live"] ELSE Idle]
                    /\ \A k \in DOMAIN t : t[k].kind # "events" => t[k] = Reply(i, TRUE)
<1> DEFINE h == handlers[i]
<1>1. /\ h \in Handler /\ h.phase = "page" /\ log \in Nat /\ log <= MaxSeq
      /\ h.last <= h.hi /\ h.hi <= log /\ h.hi <= h.last + PageSize
      /\ h.last \in Nat /\ h.hi \in Nat /\ h.to \in Nat /\ h.from \in Nat
  <2>1. h \in Handler /\ log \in Nat /\ log <= MaxSeq
    BY Types, Scalars
  <2>2. h.phase = "page"
    BY DEF SendPage
  <2>3. h.last \in Nat /\ h.hi \in Nat /\ h.to \in Nat /\ h.from \in Nat
    BY <2>1 DEF Handler
  <2>4. h.last <= h.hi /\ h.hi <= log /\ h.hi <= h.last + PageSize
    BY <2>2 DEF ReplayInv, ReplayOf
  <2> QED BY <2>1, <2>2, <2>3, <2>4
<1>2. /\ Page(h) \in Seq(Frames) /\ Continues(Page(h), h.last, h.hi)
      /\ \A k \in DOMAIN Page(h) : Page(h)[k].kind = "events"
  BY <1>1, PageFrames
<1>3. CASE h.hi - h.last = PageSize
  <2>1. /\ handlers' = [handlers EXCEPT ![i].phase = "query", ![i].last = h.hi]
        /\ down' = down \o Page(h)
    BY <1>3 DEF SendPage
  <2>2. handlers' = [handlers EXCEPT ![i] = [h EXCEPT !.phase = "query", !.last = h.hi]]
    BY <2>1, Types DEF Handler
  <2>3. h.hi = h.last + PageSize
    BY <1>1, <1>3
  <2> QED BY <1>1, <1>2, <2>1, <2>2, <2>3
<1>4. CASE h.hi - h.last # PageSize
  <2>1. h.hi < h.last + PageSize
    BY <1>1, <1>4
  <2>2. h.from <= h.hi /\ h.to <= log
    <3>1. h.from <= h.hi /\ h.to <= published
      BY <1>1, <2>1 DEF ReplayInv, ReplayOf, Replaying
    <3> QED BY <1>1, <3>1, Scalars
  <2>3. /\ Flush(h) \in Seq(Frames) /\ Continues(Flush(h), h.hi, Later(h.hi, h.to))
        /\ \A k \in DOMAIN Flush(h) : Flush(h)[k].kind = "events"
    BY <1>1, <2>2, FlushFrames
  <2> DEFINE s == Page(h) \o Flush(h)
             e == <<Reply(i, TRUE)>>
             c == Later(h.hi, h.to)
  <2>4. c \in Nat /\ h.last <= c
    BY <1>1 DEF Later
  <2>5. Reply(i, TRUE) \in Frames /\ Reply(i, TRUE).kind = "reply"
    BY DEF Reply, Frames
  <2>6. e \in Seq(Frames) /\ Len(e) = 1 /\ DOMAIN e = {1} /\ e[1] = Reply(i, TRUE)
    BY <2>5, One
  <2> HIDE DEF e
  <2>14. e \in Seq(Frames) /\ Len(e) = 1
    BY <2>6
  <2>7. Continues(e, c, c)
    <3>1. \A k \in DOMAIN e : e[k].kind = "reply"
      BY <2>5, <2>6
    <3> HIDE DEF c
    <3>2. \A n \in Nat : ~(c < n /\ n <= c)
      BY <2>4
    <3> QED BY <3>1, <3>2 DEF Continues
  <2>8. /\ s \in Seq(Frames) /\ Len(s) = Len(Page(h)) + Len(Flush(h))
        /\ DOMAIN s = 1 .. Len(Page(h)) + Len(Flush(h)) /\ Continues(s, h.last, c)
        /\ \A k \in 1 .. Len(Page(h)) + Len(Flush(h)) :
             s[k] = IF k <= Len(Page(h)) THEN Page(h)[k] ELSE Flush(h)[k - Len(Page(h))]
    BY <1>1, <1>2, <2>3, <2>4, ContinuesOn
  <2>9. \A k \in DOMAIN s : s[k].kind = "events"
    <3> TAKE k \in DOMAIN s
    <3>1. /\ Len(Page(h)) \in Nat /\ DOMAIN Page(h) = 1 .. Len(Page(h))
          /\ Len(Flush(h)) \in Nat /\ DOMAIN Flush(h) = 1 .. Len(Flush(h))
      BY <1>2, <2>3, LenProperties
    <3>2. \/ k \in DOMAIN Page(h) /\ s[k] = Page(h)[k]
          \/ k - Len(Page(h)) \in DOMAIN Flush(h) /\ s[k] = Flush(h)[k - Len(Page(h))]
      BY <2>8, <3>1
    <3> QED BY <1>2, <2>3, <3>2
  <2> HIDE DEF s, c
  <2>10. /\ s \o e \in Seq(Frames) /\ Continues(s \o e, h.last, c)
         /\ DOMAIN (s \o e) = 1 .. Len(s) + 1 /\ DOMAIN s = 1 .. Len(s) /\ Len(s) \in Nat
         /\ \A k \in 1 .. Len(s) + 1 : (s \o e)[k] = IF k <= Len(s) THEN s[k] ELSE e[k - Len(s)]
    <3>1. DOMAIN s = 1 .. Len(s) /\ Len(s) \in Nat
      BY <2>8, LenProperties
    <3>2. s \in Seq(Frames) /\ Continues(s, h.last, c)
      BY <2>8
    <3>3. /\ s \o e \in Seq(Frames) /\ Continues(s \o e, h.last, c)
          /\ DOMAIN (s \o e) = 1 .. Len(s) + Len(e)
          /\ \A k \in 1 .. Len(s) + Len(e) :
               (s \o e)[k] = IF k <= Len(s) THEN s[k] ELSE e[k - Len(s)]
      BY <1>1, <2>4, <2>14, <2>7, <3>2, ContinuesOn
    <3> QED BY <2>14, <3>1, <3>3
  <2>11. \A k \in DOMAIN (s \o e) : (s \o e)[k].kind # "events" => (s \o e)[k] = Reply(i, TRUE)
    <3> TAKE k \in DOMAIN (s \o e)
    <3>1. \/ k \in DOMAIN s /\ (s \o e)[k] = s[k]
          \/ (s \o e)[k] = e[1]
      BY <2>10
    <3> QED BY <2>6, <2>9, <3>1
  <2>12. /\ handlers' = [handlers EXCEPT ![i] =
                          IF listener = i THEN [Idle EXCEPT !.phase = "live"] ELSE Idle]
         /\ down' = down \o Page(h) \o Flush(h) \o e
    BY <1>4 DEF SendPage, e
  <2>13. down' = down \o (s \o e)
    <3>1. down \in Seq(Frames)
      BY Types
    <3>2. (down \o Page(h)) \o Flush(h) = down \o s
      BY SMTT(30), <1>2, <2>3, <3>1, ConcatAssociative DEF s
    <3>3. (down \o s) \o e = down \o (s \o e)
      <4>1. s \in Seq(Frames)
        BY <2>8
      <4> QED BY SMTT(30), <2>14, <3>1, <4>1, ConcatAssociative
    <3> QED BY <2>12, <3>2, <3>3
  <2> QED BY <1>1, <2>1, <2>10, <2>11, <2>12, <2>13 DEF c
<1> QED BY <1>3, <1>4

-----------------------------------------------------------------------------
(* No step takes the state out of its types: ids suffice, as each mount    *)
(* and each socket gives out one (WireInv), and frames carry events.       *)
LEMMA TypesKept ==
  ASSUME TypeOK, WireInv, ClientInv, ReplayInv, [Next]_vars
  PROVE  TypeOK'
<1>0. /\ handlers \in [Ids -> Handler] /\ Idle \in Handler
      /\ up \in Seq(Requests) /\ down \in Seq(Frames) /\ sendQueue \in Seq({Unsubscribe})
  BY Types
<1>f. \A t \in Seq(Frames) : down' = down \o t => down' \in Seq(Frames)
  BY <1>0, ConcatProperties
<1>1. CASE AppendEvent
  BY <1>0, <1>1, Scalars DEF AppendEvent, TypeOK
<1>2. CASE Publish
  <2>1. handlers' \in [Ids -> Handler] /\ down' \in Seq(Frames) /\ published' \in 0 .. log
    <3>1. published < log /\ published' \in 0 .. log
      BY <1>2, Scalars DEF Publish
    <3>4. down' \in Seq(Frames)
      BY <1>0, <1>2, <1>f, PublishStep
    <3>2. ASSUME NEW i \in Ids PROVE [handlers[i] EXCEPT !.to = published + 1] \in Handler
      <4>1. handlers[i] \in Handler /\ published + 1 \in 0 .. MaxSeq
        BY SMTT(30), <1>0, <3>1, Scalars
      <4> QED BY <4>1 DEF Handler
    <3> QED BY <1>0, <1>2, <3>1, <3>2, <3>4, PublishStep
  <2> QED BY <1>0, <1>2, <2>1, Scalars DEF Publish, TypeOK
<1>3. CASE ReadFrame
  <2>1. handlers' \in [Ids -> Handler] /\ up' \in Seq(Requests) /\ listener' \in Ids \cup {0}
    <3>1. ASSUME NEW n \in 0 .. MaxSeq
          PROVE  [Idle EXCEPT !.phase = "access", !.last = n, !.hi = n] \in Handler
      BY <1>0 DEF Handler
    <3> QED BY <1>0, <1>3, <3>1, ReadFrameStep, Scalars
  <2> QED BY <1>0, <1>3, <2>1, Scalars DEF ReadFrame, TypeOK
<1>4. ASSUME NEW i \in Ids, StartReplay(i) PROVE TypeOK'
  BY <1>0, <1>4, StartReplayStep, Scalars DEF StartReplay, TypeOK
<1>5. ASSUME NEW i \in Ids, ReadPage(i) PROVE TypeOK'
  <2>1. handlers' \in [Ids -> Handler]
    <3>1. ASSUME NEW n \in 0 .. MaxSeq
          PROVE  [handlers[i] EXCEPT !.phase = "page", !.hi = n] \in Handler
      BY <1>0 DEF Handler
    <3>2. PICK n \in 0 .. MaxSeq :
            handlers' = [handlers EXCEPT ![i] = [handlers[i] EXCEPT !.phase = "page", !.hi = n]]
      BY <1>5, ReadPageStep
    <3> QED BY <1>0, <3>1, <3>2
  <2> QED BY <1>0, <1>5, <2>1, Scalars DEF ReadPage, TypeOK
<1>6. ASSUME NEW i \in Ids, SendPage(i) PROVE TypeOK'
  <2>1. handlers' \in [Ids -> Handler] /\ down' \in Seq(Frames)
    <3>1. /\ [handlers[i] EXCEPT !.phase = "query", !.last = handlers[i].hi] \in Handler
          /\ [Idle EXCEPT !.phase = "live"] \in Handler
      BY <1>0 DEF Handler
    <3>2. /\ \E t \in Seq(Frames) : down' = down \o t
          /\ \E g \in Handler : handlers' = [handlers EXCEPT ![i] = g]
      BY <1>0, <1>6, <3>1, SendPageStep
    <3> QED BY <1>0, <1>f, <3>2
  <2> QED BY <1>0, <1>6, <2>1, Scalars DEF SendPage, TypeOK
<1>7. ASSUME NEW i \in Ids, RefuseSubscribe(i) PROVE TypeOK'
  <2>1. handlers' \in [Ids -> Handler] /\ down' \in Seq(Frames)
    BY <1>0, <1>7, <1>f, RefuseStep
  <2>2. /\ failures' \in 0 .. MaxFailures
        /\ UNCHANGED <<store, listener, isOpen, conns, up, sendQueue, client, view>>
    BY <1>7, Scalars DEF RefuseSubscribe
  <2> QED BY <1>0, <2>1, <2>2, Scalars DEF TypeOK
<1>8. CASE Receive
  <2>1. /\ down' \in Seq(Frames) /\ Head(down) = down[1] /\ 1 \in DOMAIN down
        /\ down[1] \in Frames
    BY <1>0, <1>8, Removed, Types DEF Receive
  <2>2. lastSeq' \in 0 .. MaxSeq /\ awaited' \in Ids \cup {0} /\ view' \in View
    <3>1. CASE down[1].kind = "events" /\ ReceiveEvents(down[1])
      <4>1. 1 <= down[1].lo /\ down[1].hi <= log
        BY <2>1, <3>1 DEF WireInv, FramesInv, IsEvents
      <4>2. down[1].lo .. down[1].hi \subseteq Seqs /\ down[1].hi \in 0 .. MaxSeq
        BY <2>1, <4>1, Scalars DEF Frames
      <4> QED BY <3>1, <4>2, Scalars DEF ReceiveEvents, View
    <3>2. CASE ReceiveReply(down[1], TRUE)
      BY <3>2, Scalars DEF ReceiveReply, Answered, View
    <3>3. CASE ReceiveReply(down[1], FALSE)
      BY <3>3, Scalars DEF ReceiveReply, Answered, View
    <3> QED BY <1>8, <2>1, <3>1, <3>2, <3>3 DEF Receive
  <2> QED BY <1>0, <1>8, <2>1, <2>2, Scalars DEF Receive, TypeOK
<1>9. CASE Open
  <2>1. conns' \in 0 .. MaxConns /\ isOpen' = TRUE /\ sendQueue' = <<>>
    BY SMTT(30), <1>9, Scalars DEF Open
  <2>2. sendQueue \in Seq(Requests)
    <3>1. Unsubscribe \in Requests
      BY DEF Unsubscribe, Requests
    <3> HIDE DEF Unsubscribe
    <3>2. {Unsubscribe} \subseteq Requests
      BY <3>1
    <3> QED BY <1>0, <3>2, SeqMonotonic
  <2>3. CASE subscribed
    <3>1. nextId' = nextId + 1 /\ nextId' \in Ids
      BY SMTT(30), <1>9, <2>3, Scalars DEF Open, WireInv, View
    <3>2. Subscribe(nextId + 1, lastSeq) \in Requests
      BY <3>1, Scalars DEF Subscribe, Requests
    <3>3. <<Subscribe(nextId + 1, lastSeq)>> \in Seq(Requests)
      BY <3>2, One
    <3>4. up' \in Seq(Requests)
      BY <1>9, <2>2, <2>3, <3>3, ConcatProperties DEF Open
    <3>5. /\ awaited' \in Ids \cup {0} /\ parked' \in BOOLEAN
          /\ UNCHANGED <<store, server, down, subscribed, lastSeq, view, failures>>
      BY <1>9, <2>3, <3>1 DEF Open
    <3>6. nextId' \in 0 .. MaxMounts + MaxConns /\ sendQueue' \in Seq({Unsubscribe})
      BY <2>1, <3>1, EmptySeq
    <3> QED BY <1>0, <2>1, <3>4, <3>5, <3>6, Scalars DEF TypeOK
  <2>4. CASE ~subscribed
    BY <1>0, <1>9, <2>1, <2>2, <2>4, Scalars DEF Open, TypeOK
  <2> QED BY <2>3, <2>4
<1>10. CASE Mount
  <2>1. view' \in View /\ subscribed' = TRUE
    BY SMTT(30), <1>10, Scalars DEF Mount, View
  <2>2. CASE isOpen
    <3>1. nextId' = nextId + 1 /\ nextId' \in Ids /\ awaited' = nextId'
      BY SMTT(30), <1>10, <2>2, Scalars DEF Mount, WireInv, View
    <3>2. Subscribe(nextId + 1, 0) \in Requests
      BY <3>1 DEF Subscribe, Requests
    <3>3. up' \in Seq(Requests)
      <4>1. up' = Append(up, Subscribe(nextId + 1, 0))
        BY <1>10, <2>2 DEF Mount
      <4> QED BY <1>0, <3>2, <4>1, AppendProperties
    <3> QED BY <1>0, <1>10, <2>1, <2>2, <3>1, <3>3, Scalars DEF Mount, TypeOK
  <2>3. CASE ~isOpen
    BY <1>0, <1>10, <2>1, <2>3, Scalars DEF Mount, TypeOK
  <2> QED BY <2>2, <2>3
<1>11. CASE Unmount
  <2>1. view' \in View
    BY <1>11, Scalars DEF Unmount, View
  <2>2. Unsubscribe \in Requests
    BY DEF Unsubscribe, Requests
  <2>3. up' \in Seq(Requests) /\ sendQueue' \in Seq({Unsubscribe})
    <3>1. \/ up' = Append(up, Unsubscribe) /\ UNCHANGED sendQueue
          \/ sendQueue' = Append(sendQueue, Unsubscribe) /\ UNCHANGED up
      BY <1>11 DEF Unmount
    <3>2. Unsubscribe \in {Unsubscribe}
      OBVIOUS
    <3> HIDE DEF Unsubscribe
    <3>3. Append(up, Unsubscribe) \in Seq(Requests)
      BY <1>0, <2>2, AppendProperties
    <3>4. Append(sendQueue, Unsubscribe) \in Seq({Unsubscribe})
      BY <1>0, <3>2, AppendProperties
    <3> QED BY <1>0, <3>1, <3>3, <3>4
  <2>4. /\ subscribed' = FALSE /\ lastSeq' = 0 /\ awaited' = 0 /\ parked' = FALSE
        /\ UNCHANGED <<store, server, isOpen, conns, down, nextId, failures>>
    BY <1>11 DEF Unmount
  <2>5. lastSeq' \in 0 .. MaxSeq /\ awaited' \in Ids \cup {0}
    <3>1. lastSeq' = 0 /\ awaited' = 0
      BY <2>4
    <3> QED BY <3>1
  <2>6. subscribed' \in BOOLEAN /\ parked' \in BOOLEAN
    <3>1. subscribed' = FALSE /\ parked' = FALSE
      BY <2>4
    <3> QED BY <3>1
  <2> HIDE DEF Ids
  <2> QED BY <1>0, <2>1, <2>3, <2>4, <2>5, <2>6, Scalars DEF TypeOK
<1>12. CASE Drop
  <2>1. view' \in View
    BY <1>12, Scalars DEF Drop, View
  <2> QED BY <1>0, <1>12, <2>1, Scalars, EmptySeq DEF Drop, TypeOK
<1>13. CASE TimeOut
  <2>1. view' \in View
    BY <1>13, Scalars DEF TimeOut, View, Answered
  <2>2. /\ awaited' = 0 /\ failures' \in 0 .. MaxFailures
        /\ UNCHANGED <<store, server, socket, subscribed, lastSeq, parked, nextId>>
    BY <1>13, Scalars DEF TimeOut
  <2> QED BY <1>0, <2>1, <2>2, Scalars DEF TypeOK
<1>14. CASE UNCHANGED vars
  BY <1>0, <1>14, Scalars DEF vars, TypeOK
<1> QED
  BY <1>1, <1>2, <1>3, <1>4, <1>5, <1>6, <1>7, <1>8, <1>9, <1>10, <1>11, <1>12, <1>13, <1>14
     DEF Next, ServerStep, ClientStep

-----------------------------------------------------------------------------
(* The client waits for its last subscribe only.                           *)
LEMMA ClientKept ==
  ASSUME TypeOK, WireInv, ClientInv, ReplayInv, [Next]_vars
  PROVE  ClientInv'
<1>0. view \in View /\ view.mount \in Nat /\ nextId \in Nat /\ awaited \in Nat
      /\ subscribed \in BOOLEAN /\ isOpen \in BOOLEAN /\ parked \in BOOLEAN
      /\ view.on \in BOOLEAN /\ view.sameSocket \in BOOLEAN /\ 0 \notin Ids
  BY Scalars DEF View
<1>1. view.mount = 0 => listener = 0 /\ \A j \in Ids : ~Active(j)
  <2> SUFFICES ASSUME view.mount = 0 PROVE listener = 0 /\ \A j \in Ids : ~Active(j)
    OBVIOUS
  <2>1. nextId = 0
    BY DEF ClientInv
  <2>2. \A j \in Ids : ~Active(j)
    BY <2>1 DEF WireInv
  <2> QED BY <2>2, Scalars DEF Active, ReplayInv, Replaying
<1>2. ASSUME UNCHANGED <<subscribed, awaited, parked, nextId, lastSeq, sendQueue, isOpen, view>>,
             view.mount = 0 => UNCHANGED <<up, down>>
      PROVE  ClientInv'
  BY <1>2 DEF ClientInv
<1>3. CASE AppendEvent
  BY <1>2, <1>3 DEF AppendEvent
<1>4. CASE Publish
  BY <1>1, <1>2, <1>4 DEF Publish
<1>5. CASE ReadFrame
  BY <1>2, <1>5 DEF ReadFrame, ClientInv
<1>6. ASSUME NEW i \in Ids, StartReplay(i) \/ ReadPage(i) \/ SendPage(i) \/ RefuseSubscribe(i)
      PROVE  ClientInv'
  <2>1. Active(i)
    BY <1>6 DEF StartReplay, ReadPage, SendPage, RefuseSubscribe, Active
  <2>2. view.mount # 0
    BY <1>1, <2>1
  <2> QED BY <1>2, <1>6, <2>2 DEF StartReplay, ReadPage, SendPage, RefuseSubscribe
<1>7. CASE Receive
  <2>1. view.mount # 0
    BY <1>7 DEF Receive, ClientInv
  <2>2. UNCHANGED <<subscribed, parked, nextId, isOpen>>
    BY <1>7 DEF Receive
  <2>3. /\ awaited' \in {awaited, 0} /\ view'.mount = view.mount /\ view'.on = view.on
        /\ view'.sameSocket = view.sameSocket /\ (~view.on => view'.seen = view.seen)
    <3>1. ASSUME NEW ok \in BOOLEAN, ReceiveReply(Head(down), ok) PROVE <2>3
      BY <1>0, <3>1 DEF ReceiveReply, Answered, View
    <3>2. CASE ReceiveEvents(Head(down))
      BY <1>0, <3>2 DEF ReceiveEvents, View
    <3> QED BY <1>7, <3>1, <3>2 DEF Receive
  <2> QED BY <1>0, <2>1, <2>2, <2>3 DEF ClientInv
<1>8. CASE Open
  <2>1. view.mount = 0 => ~subscribed /\ sendQueue = <<>> /\ down = <<>>
    BY <1>8, <1>0 DEF ClientInv
  <2>2. CASE subscribed
    BY <1>0, <1>8, <2>1, <2>2 DEF Open, ClientInv
  <2>3. CASE ~subscribed
    BY <1>0, <1>8, <2>1, <2>3 DEF Open, ClientInv
  <2> QED BY <2>2, <2>3
<1>9. CASE Mount
  <2>1. /\ view'.mount = view.mount + 1 /\ view'.on = TRUE /\ view'.sameSocket = isOpen
        /\ subscribed' = TRUE /\ UNCHANGED isOpen
    BY <1>9 DEF Mount
  <2>2. CASE isOpen
    BY <1>0, <1>9, <2>1, <2>2 DEF Mount, ClientInv
  <2>3. CASE ~isOpen
    BY <1>0, <1>9, <2>1, <2>3 DEF Mount, ClientInv
  <2> QED BY <1>0, <2>2, <2>3
<1>10. CASE Unmount
  <2>1. /\ view'.mount = view.mount /\ view'.on = FALSE /\ view'.sameSocket = FALSE
        /\ view'.seen = {} /\ view.on
    BY <1>0, <1>10 DEF Unmount, View
  <2>2. /\ subscribed' = FALSE /\ awaited' = 0 /\ parked' = FALSE /\ view.mount # 0
    BY <1>10, <2>1 DEF Unmount, ClientInv
  <2> QED BY <2>1, <2>2 DEF ClientInv
<1>11. CASE Drop
  <2>1. /\ view'.mount = view.mount /\ view'.on = view.on /\ view'.sameSocket = FALSE
        /\ view'.seen = view.seen
    BY <1>0, <1>11 DEF Drop, View
  <2>2. /\ UNCHANGED <<subscribed, sendQueue, nextId, lastSeq>> /\ awaited' = 0
        /\ parked' = (awaited # 0) /\ isOpen' = FALSE /\ up' = <<>> /\ down' = <<>>
    BY <1>11 DEF Drop
  <2> QED BY <1>0, <2>1, <2>2 DEF ClientInv
<1>12. CASE TimeOut
  <2>1. /\ view'.mount = view.mount /\ view'.on = view.on
        /\ view'.sameSocket = view.sameSocket /\ view'.seen = view.seen
    BY <1>0, <1>12 DEF TimeOut, Answered, View
  <2>2. /\ UNCHANGED <<subscribed, sendQueue, nextId, lastSeq, parked, isOpen, up, down>>
        /\ awaited' = 0
    BY <1>12 DEF TimeOut
  <2> QED BY <1>0, <2>1, <2>2 DEF ClientInv
<1>13. CASE UNCHANGED vars
  BY <1>2, <1>13 DEF vars
<1> QED
  BY <1>3, <1>4, <1>5, <1>6, <1>7, <1>8, <1>9, <1>10, <1>11, <1>12, <1>13
     DEF Next, ServerStep, ClientStep

-----------------------------------------------------------------------------
(* A replay reads what is in the log and buffers the rest.                 *)
LEMMA ReplayKept ==
  ASSUME TypeOK, WireInv, ClientInv, ReplayInv, [Next]_vars
  PROVE  ReplayInv'
<1> USE DEF Replaying, ReplayOf
<1>0. /\ handlers \in [Ids -> Handler] /\ \A j \in Ids : handlers[j] \in Handler
      /\ log \in Nat /\ published \in Nat /\ published <= log
      /\ listener \in Ids \cup {0} /\ 0 \notin Ids
  BY Types, Scalars
<1>1. \A j \in Ids : /\ handlers[j].last \in Nat /\ handlers[j].hi \in Nat
                     /\ handlers[j].from \in Nat /\ handlers[j].to \in Nat
  BY SMTT(30), <1>0 DEF Handler
<1>2. CASE UNCHANGED <<handlers, listener, store>>
  BY <1>2 DEF ReplayInv
<1>3. CASE AppendEvent
  BY <1>0, <1>1, <1>3 DEF AppendEvent, ReplayInv
<1>4. CASE Publish
  <2>1. /\ published' = published + 1 /\ UNCHANGED <<log, listener>>
    BY <1>4 DEF Publish
  <2>2. CASE listener = 0
    <3>1. UNCHANGED handlers
      BY <1>4, <2>2 DEF Publish
    <3> QED BY <1>0, <1>1, <2>1, <2>2, <3>1 DEF ReplayInv
  <2>3. CASE listener # 0
    <3> DEFINE g == [handlers[listener] EXCEPT !.to = published + 1]
    <3>1. /\ listener \in Ids
          /\ \/ handlers[listener].phase = "live" /\ UNCHANGED handlers
             \/ handlers[listener].phase # "live" /\ handlers' = [handlers EXCEPT ![listener] = g]
      BY <1>0, <1>4, <2>3, PublishStep
    <3>2. /\ g.phase = handlers[listener].phase /\ g.last = handlers[listener].last
          /\ g.hi = handlers[listener].hi /\ g.from = handlers[listener].from /\ g.to = published + 1
      BY <1>0, <3>1 DEF Handler
    <3> HIDE DEF g
    <3>3. CASE handlers[listener].phase = "live" /\ UNCHANGED handlers
      BY <1>0, <1>1, <2>1, <3>1, <3>3 DEF ReplayInv
    <3>4. CASE handlers[listener].phase # "live" /\ handlers' = [handlers EXCEPT ![listener] = g]
      <4>1. /\ handlers'[listener] = g
            /\ \A j \in Ids : j # listener => handlers'[j] = handlers[j]
        BY <1>0, <3>1, <3>4
      <4>2. /\ handlers[listener].phase \in Replaying
            /\ handlers[listener].to = published /\ handlers[listener].from <= published
        BY <2>3, <3>1, <3>4 DEF ReplayInv
      <4>3. listener' # 0 => handlers'[listener'].phase \in Replaying \cup {"live"}
        BY <2>1, <3>1, <3>2, <4>1, <4>2
      <4>4. ASSUME NEW j \in Ids PROVE ReplayOf(j)'
        <5>1. CASE j = listener
          <6>1. ReplayOf(listener)
            BY <3>1 DEF ReplayInv
          <6>2. /\ handlers'[j].phase = handlers[j].phase /\ handlers'[j].last = handlers[j].last
                /\ handlers'[j].hi = handlers[j].hi /\ handlers'[j].from = handlers[j].from
                /\ handlers'[j].to = published' /\ listener' = j
            BY <2>1, <3>2, <4>1, <5>1
          <6>3. handlers'[j].from <= published'
            BY <1>0, <1>1, <2>1, <4>2, <5>1, <6>2
          <6> QED BY <1>0, <1>1, <2>1, <5>1, <6>1, <6>2, <6>3, <4>2
        <5>2. CASE j # listener
          <6>1. ReplayOf(j)
            BY DEF ReplayInv
          <6>2. /\ handlers'[j] = handlers[j] /\ listener' = listener /\ log' = log
                /\ published' = published + 1
            BY <2>1, <4>1, <5>2
          <6>3. /\ handlers[j].to <= published => handlers[j].to <= published'
                /\ listener' # j
            BY <1>0, <1>1, <5>2, <6>2
          <6> QED BY <5>2, <6>1, <6>2, <6>3
        <5> QED BY <5>1, <5>2
      <4> HIDE DEF ReplayOf
      <4> QED BY <4>3, <4>4 DEF ReplayInv
    <3> QED BY <3>1, <3>3, <3>4
  <2> QED BY <2>2, <2>3
<1>5. CASE ReadFrame
  <2>1. UNCHANGED <<log, published>>
    BY <1>5 DEF ReadFrame
  <2>2. CASE /\ up[1].kind = "subscribe" /\ listener' = listener /\ up[1].id \in Ids
             /\ up[1].after <= log /\ ~Active(up[1].id)
             /\ handlers' = [handlers EXCEPT ![up[1].id] =
                    [Idle EXCEPT !.phase = "access", !.last = up[1].after, !.hi = up[1].after]]
    <3> DEFINE g == [Idle EXCEPT !.phase = "access", !.last = up[1].after, !.hi = up[1].after]
    <3>1. g.phase = "access" /\ g.last = up[1].after /\ g.hi = g.last
      BY DEF Idle
    <3> HIDE DEF g
    <3>2. handlers' = [handlers EXCEPT ![up[1].id] = g] /\ up[1].id # listener
      BY <2>2 DEF ReplayInv, g, Active
    <3> QED BY <1>0, <1>1, <2>1, <2>2, <3>1, <3>2 DEF ReplayInv
  <2>3. CASE /\ listener' = 0
             /\ \A j \in Ids : handlers'[j] = IF handlers[j].phase = "live" /\ listener = j
                                              THEN Idle ELSE handlers[j]
    BY SMTT(30), <1>0, <1>1, <2>1, <2>3 DEF ReplayInv, Idle
  <2>4. 1 \in DOMAIN up
    BY <1>5, ReadFrameStep
  <2> QED BY <1>5, <2>2, <2>3, <2>4, ReadFrameStep DEF WireInv, RequestsInv
<1>6. ASSUME NEW i \in Ids, StartReplay(i) PROVE ReplayInv'
  <2>1. UNCHANGED <<log, published>> /\ listener' = i
    BY <1>6 DEF StartReplay
  <2>2. /\ handlers[i].phase = "access"
        /\ handlers'[i] = [handlers[i] EXCEPT !.phase = "query", !.from = published,
                                              !.to = published]
        /\ \A j \in Ids \ {i} :
             handlers'[j] = IF handlers[j].phase = "live" /\ listener = j
                            THEN Idle ELSE handlers[j]
    BY <1>6, StartReplayStep
  <2>3. /\ handlers'[i].phase = "query" /\ handlers'[i].last = handlers[i].last
        /\ handlers'[i].hi = handlers[i].hi
        /\ handlers'[i].from = published /\ handlers'[i].to = published
    BY <1>0, <2>2 DEF Handler
  <2>4. Idle.phase = "idle" /\ Idle.last = 0
    BY DEF Idle
  <2>5. ASSUME NEW j \in Ids \ {i}
        PROVE  /\ handlers'[j].phase # "live"
               /\ handlers'[j] = handlers[j] \/ handlers'[j] = Idle
    BY <2>2, <2>4, <2>5 DEF ReplayInv
  <2>6. ASSUME NEW j \in Ids PROVE ReplayOf(j)'
    <3>1. CASE j = i
      <4>1. ReplayOf(i)
        BY DEF ReplayInv
      <4>2. handlers[i].hi = handlers[i].last /\ handlers[i].last <= log
        BY <2>2, <4>1
      <4> QED BY <1>0, <1>1, <2>1, <2>3, <3>1, <4>2
    <3>2. CASE j # i
      <4>1. ReplayOf(j)
        BY DEF ReplayInv
      <4>2. CASE handlers'[j] = Idle
        BY <1>0, <2>1, <2>4, <4>2
      <4>3. CASE handlers'[j] = handlers[j] /\ handlers[j].phase # "live"
        <5>1. listener' # j
          BY <2>1, <3>2
        <5> QED BY <2>1, <4>1, <4>3, <5>1
      <4> QED BY <2>5, <3>2, <4>2, <4>3
    <3> QED BY <3>1, <3>2
  <2> HIDE DEF ReplayOf
  <2> QED BY <2>1, <2>3, <2>6 DEF ReplayInv
<1>7. ASSUME NEW i \in Ids, ReadPage(i) PROVE ReplayInv'
  <2>1. UNCHANGED <<log, published, listener>>
    BY <1>7 DEF ReadPage
  <2>2. PICK n \in 0 .. MaxSeq :
          /\ handlers' = [handlers EXCEPT ![i] = [handlers[i] EXCEPT !.phase = "page", !.hi = n]]
          /\ handlers[i].last <= n /\ n <= log /\ n <= handlers[i].last + PageSize
          /\ n < handlers[i].last + PageSize => n = log
    BY <1>7, ReadPageStep
  <2> DEFINE g == [handlers[i] EXCEPT !.phase = "page", !.hi = n]
  <2>3. /\ handlers[i].phase = "query" /\ g.phase = "page" /\ g.last = handlers[i].last
        /\ g.hi = n /\ g.from = handlers[i].from /\ g.to = handlers[i].to
    BY <1>0, <1>7 DEF ReadPage, Handler
  <2> HIDE DEF g
  <2>4. handlers' = [handlers EXCEPT ![i] = g]
    BY <2>2 DEF g
  <2> QED BY SMTT(30), <1>0, <1>1, <2>1, <2>2, <2>3, <2>4 DEF ReplayInv
<1>8. ASSUME NEW i \in Ids, SendPage(i) PROVE ReplayInv'
  <2>1. UNCHANGED <<log, published, listener>>
    BY <1>8 DEF SendPage
  <2>2. CASE handlers' = [handlers EXCEPT ![i] = [handlers[i] EXCEPT !.phase = "query",
                                                                    !.last = handlers[i].hi]]
    <3> DEFINE g == [handlers[i] EXCEPT !.phase = "query", !.last = handlers[i].hi]
    <3>1. /\ handlers[i].phase = "page" /\ g.phase = "query" /\ g.last = handlers[i].hi
          /\ g.hi = handlers[i].hi /\ g.from = handlers[i].from /\ g.to = handlers[i].to
      BY <1>0, <1>8 DEF SendPage, Handler
    <3> HIDE DEF g
    <3>2. handlers' = [handlers EXCEPT ![i] = g]
      BY <2>2 DEF g
    <3> QED BY <1>0, <1>1, <2>1, <3>1, <3>2 DEF ReplayInv
  <2>3. CASE handlers' = [handlers EXCEPT ![i] =
                           IF listener = i THEN [Idle EXCEPT !.phase = "live"] ELSE Idle]
    <3> DEFINE g == IF listener = i THEN [Idle EXCEPT !.phase = "live"] ELSE Idle
    <3>1. g.phase = (IF listener = i THEN "live" ELSE "idle") /\ g.last = 0
      BY DEF Idle
    <3> HIDE DEF g
    <3>2. handlers' = [handlers EXCEPT ![i] = g]
      BY <2>3 DEF g
    <3> QED BY <1>0, <1>1, <2>1, <3>1, <3>2 DEF ReplayInv
  <2> QED BY <1>8, <2>2, <2>3, SendPageStep
<1>9. ASSUME NEW i \in Ids, RefuseSubscribe(i) PROVE ReplayInv'
  <2>1. UNCHANGED <<log, published, listener>> /\ handlers[i].phase = "access"
        /\ handlers' = [handlers EXCEPT ![i] = Idle]
    BY <1>9 DEF RefuseSubscribe
  <2>2. Idle.phase = "idle" /\ Idle.last = 0
    BY DEF Idle
  <2> QED BY <1>0, <1>1, <2>1, <2>2 DEF ReplayInv
<1>10. CASE Receive
  BY <1>2, <1>10 DEF Receive
<1>11. CASE Open \/ Mount \/ Unmount
  BY <1>2, <1>11 DEF Open, Mount, Unmount
<1>12. CASE Drop
  BY <1>0, <1>12 DEF Drop, ReplayInv, Idle
<1>13. CASE TimeOut
  BY <1>2, <1>13 DEF TimeOut
<1>14. CASE UNCHANGED vars
  BY <1>2, <1>14 DEF vars
<1> QED
  BY <1>3, <1>4, <1>5, <1>6, <1>7, <1>8, <1>9, <1>10, <1>11, <1>12, <1>13, <1>14
     DEF Next, ServerStep, ClientStep

-----------------------------------------------------------------------------
(* A step of the server that starts no subscribe sends events it has, and  *)
(* answers what it has done with.                                          *)
Sends(t) ==
  /\ down' = down \o t
  /\ UNCHANGED <<up, isOpen, sendQueue, nextId, conns, lastSeq, view>>
  /\ log' \in Nat /\ log <= log' /\ (isOpen \/ t = <<>>)
  /\ \A j \in Ids : /\ handlers[j].phase = "idle" => handlers'[j].phase = "idle"
                    /\ handlers[j].phase = "live" => handlers'[j].phase \in {"idle", "live"}
  /\ \A k \in DOMAIN t :
       /\ t[k].kind = "events" => 1 <= t[k].lo /\ t[k].lo <= t[k].hi /\ t[k].hi <= log
       /\ t[k].kind # "events" => /\ t[k].lo \in Ids /\ Active(t[k].lo)
                                  /\ handlers'[t[k].lo].phase \in {"idle", "live"}

(* Such a step leaves every subscribe in one place.                        *)
LEMMA ServerKeepsWire ==
  ASSUME TypeOK, WireInv, NEW t \in Seq(Frames), Sends(t)
  PROVE  WireInv'
<1> USE DEF Sends
<1>a. \A j \in Ids : /\ Active(j)' => Active(j)
                     /\ handlers[j].phase \in {"idle", "live"} =>
                          handlers'[j].phase \in {"idle", "live"}
  BY DEF Active
<1>0. /\ log \in Nat /\ lastSeq \in Nat /\ nextId \in Nat /\ nextId <= MaxMounts + MaxConns
      /\ view \in View
      /\ DOMAIN down = 1 .. Len(down) /\ \A k \in DOMAIN down : down[k] \in Frames
      /\ \A k \in DOMAIN up : up[k] \in Requests
  BY Types, Scalars
<1>1. /\ DOMAIN t = 1 .. Len(t) /\ \A k \in DOMAIN t : t[k] \in Frames
  BY LenProperties
<1>2. RequestsInv'
  <2> SUFFICES ASSUME NEW k \in DOMAIN up, up[k].kind = "subscribe"
               PROVE  /\ up[k].id \in 1 .. nextId /\ up[k].after <= log' /\ ~Active(up[k].id)'
                      /\ \A l \in DOMAIN up :
                           up[l].kind = "subscribe" /\ up[l].id = up[k].id => l = k
    BY DEF RequestsInv
  <2>1. /\ up[k].id \in 1 .. nextId /\ up[k].after <= log /\ ~Active(up[k].id)
        /\ \A l \in DOMAIN up : up[l].kind = "subscribe" /\ up[l].id = up[k].id => l = k
    BY DEF WireInv, RequestsInv
  <2>2. up[k].id \in Ids /\ up[k].after \in Nat
    BY <1>0, <2>1 DEF Requests
  <2> QED BY <1>a, <1>0, <2>1, <2>2
<1>3. \A j \in Ids : Asked(j)' = Asked(j)
  BY DEF Asked
<1>4. FramesInv'
  <2>0. ASSUME NEW j \in Ids, IsOver(j) PROVE IsOver(j)'
    BY <1>a, <1>3, <2>0 DEF IsOver
  <2>1. ASSUME NEW k \in DOMAIN down', k \in DOMAIN down
        PROVE  (/\ IsEvents(k) => 1 <= down[k].lo /\ down[k].lo <= down[k].hi /\ down[k].hi <= log
                /\ ~IsEvents(k) => IsOver(down[k].lo))'
    <3>1. down'[k] = down[k] /\ down[k] \in Frames
      BY <1>0, <2>1, Extended
    <3>2. /\ IsEvents(k) => 1 <= down[k].lo /\ down[k].lo <= down[k].hi /\ down[k].hi <= log
          /\ ~IsEvents(k) => IsOver(down[k].lo)
      BY <2>1 DEF WireInv, FramesInv
    <3>3. CASE IsEvents(k)
      BY <1>0, <3>1, <3>2, <3>3 DEF IsEvents, Frames
    <3>4. CASE ~IsEvents(k)
      <4>1. down[k].lo \in Ids
        BY <1>0, <3>2, <3>4 DEF IsOver
      <4>2. IsEvents(k)' <=> IsEvents(k)
        BY <3>1 DEF IsEvents
      <4>3. IsOver(down[k].lo)'
        BY <2>0, <3>1, <3>2, <3>4, <4>1
      <4> QED BY <3>4, <4>2, <4>3
    <3> QED BY <3>3, <3>4
  <2>2. ASSUME NEW k \in DOMAIN down', k \notin DOMAIN down
        PROVE  (/\ IsEvents(k) => 1 <= down[k].lo /\ down[k].lo <= down[k].hi /\ down[k].hi <= log
                /\ ~IsEvents(k) => IsOver(down[k].lo))'
    <3> DEFINE l == k - Len(down)
    <3>1. l \in DOMAIN t /\ down'[k] = t[l]
      BY <2>2, Extended
    <3> HIDE DEF l
    <3>2. t[l] \in Frames
      BY <1>1, <3>1
    <3>3. CASE t[l].kind = "events"
      <4>1. 1 <= t[l].lo /\ t[l].lo <= t[l].hi /\ t[l].hi <= log
        BY <3>1, <3>3
      <4>2. 1 <= t[l].lo /\ t[l].lo <= t[l].hi /\ t[l].hi <= log'
        BY <1>0, <3>2, <4>1 DEF Frames
      <4> QED BY <3>1, <3>3, <4>2 DEF IsEvents
    <3>4. CASE t[l].kind # "events"
      <4>1. /\ t[l].lo \in Ids /\ Active(t[l].lo)
            /\ handlers'[t[l].lo].phase \in {"idle", "live"}
        BY <3>1, <3>4
      <4>2. t[l].lo <= nextId
        BY <4>1 DEF WireInv
      <4>3. ~Asked(t[l].lo)
        BY <4>1 DEF WireInv, RequestsInv, Asked
      <4>4. t[l].lo \in 1 .. nextId'
        BY <1>0, <4>1, <4>2
      <4>5. ASSUME NEW j \in Ids, j = t[l].lo PROVE IsOver(j)'
        <5>1. ~(Asked(j)')
          BY <1>3, <4>3, <4>5
        <5> QED BY <4>1, <4>4, <4>5, <5>1 DEF IsOver
      <4>6. IsOver(down[k].lo)'
        BY <3>1, <4>1, <4>5
      <4> QED BY <3>1, <3>4, <4>6 DEF IsEvents
    <3> QED BY <3>3, <3>4
  <2> QED BY <2>1, <2>2 DEF FramesInv
<1>5. lastSeq' <= log' /\ view'.seen \subseteq 1 .. log'
  BY <1>0 DEF WireInv
<1>6. ~isOpen' => up' = <<>> /\ down' = <<>> /\ \A j \in Ids : ~Active(j)'
  <2> SUFFICES ASSUME ~isOpen PROVE up = <<>> /\ down' = <<>> /\ \A j \in Ids : ~Active(j)'
    OBVIOUS
  <2>1. up = <<>> /\ down = <<>> /\ \A j \in Ids : ~Active(j)
    BY DEF WireInv
  <2>2. t = <<>> /\ down' = <<>> \o t
    BY <2>1
  <2> QED BY <1>a, <2>1, <2>2, ConcatEmptySeq
<1>7. /\ nextId' <= view'.mount + conns' /\ (isOpen' => sendQueue' = <<>>)
      /\ \A j \in Ids : Active(j)' => j <= nextId'
  BY <1>a DEF WireInv
<1> QED BY <1>2, <1>4, <1>5, <1>6, <1>7 DEF WireInv

(* The server reads a request: its subscribe is now handled.               *)
LEMMA ReadKeepsWire ==
  ASSUME TypeOK, WireInv, ReplayInv, ReadFrame
  PROVE  WireInv'
<1>0. /\ handlers \in [Ids -> Handler] /\ DOMAIN up = 1 .. Len(up) /\ Len(up) \in Nat
      /\ \A k \in DOMAIN up : up[k] \in Requests
      /\ nextId \in Nat /\ 0 \notin Ids /\ nextId <= MaxMounts + MaxConns
  BY Types, Scalars
<1>1. /\ isOpen /\ isOpen' = isOpen
      /\ UNCHANGED <<store, conns, down, sendQueue, client, view, failures>>
  BY DEF ReadFrame
<1>2. /\ Len(up') = Len(up) - 1 /\ DOMAIN up' = 1 .. Len(up) - 1 /\ 1 \in DOMAIN up
      /\ \A k \in DOMAIN up' : k + 1 \in DOMAIN up /\ up'[k] = up[k + 1]
  BY ReadFrameStep
<1>3. \A j \in Ids : Asked(j)' => Asked(j)
  BY <1>2 DEF Asked
<1>4. /\ up[1].kind = "subscribe" => /\ \A j \in Ids : j = up[1].id => ~(Asked(j)')
                                     /\ Asked(up[1].id)
      /\ \A j \in Ids :
           \/ up[1].kind = "subscribe" /\ j = up[1].id /\ Active(j)' /\ j <= nextId
           \/ handlers'[j] = handlers[j]
           \/ ~(Active(j)') /\ handlers'[j].phase = "idle"
  <2>1. CASE /\ up[1].kind = "subscribe" /\ up[1].id \in Ids /\ up[1].id \in 1 .. nextId
             /\ handlers' = [handlers EXCEPT ![up[1].id] =
                    [Idle EXCEPT !.phase = "access", !.last = up[1].after, !.hi = up[1].after]]
    <3> DEFINE g == [Idle EXCEPT !.phase = "access", !.last = up[1].after, !.hi = up[1].after]
    <3>1. g.phase = "access"
      BY DEF Idle
    <3> HIDE DEF g
    <3>6. handlers' = [handlers EXCEPT ![up[1].id] = g]
      BY <2>1 DEF g
    <3>2. \A l \in DOMAIN up : up[l].kind = "subscribe" /\ up[l].id = up[1].id => l = 1
      BY <1>2, <2>1 DEF WireInv, RequestsInv
    <3>3. Asked(up[1].id)
      BY <1>2, <2>1 DEF Asked
    <3>4. ASSUME NEW l \in DOMAIN up', up'[l].kind = "subscribe", up'[l].id = up[1].id PROVE FALSE
      <4>1. l + 1 \in DOMAIN up /\ up[l + 1].kind = "subscribe" /\ up[l + 1].id = up[1].id
        BY <1>2, <3>4
      <4>2. l + 1 = 1
        BY <3>2, <4>1
      <4> QED BY <1>0, <1>2, <4>2
    <3>5. ASSUME NEW j, j = up[1].id PROVE ~(Asked(j)')
      BY <3>4, <3>5 DEF Asked
    <3>7. handlers'[up[1].id].phase = "access"
          /\ \A j \in Ids : j # up[1].id => handlers'[j] = handlers[j]
      BY <1>0, <2>1, <3>1, <3>6
    <3> QED BY <1>0, <2>1, <3>3, <3>5, <3>7 DEF Active
  <2>2. CASE /\ up[1].kind = "unsubscribe"
             /\ \A j \in Ids : handlers'[j] = IF handlers[j].phase = "live" /\ listener = j
                                              THEN Idle ELSE handlers[j]
    BY <2>2 DEF Idle, Active
  <2> QED BY <2>1, <2>2, ReadFrameStep
<1>5. RequestsInv'
  <2> SUFFICES ASSUME NEW k \in DOMAIN up', up'[k].kind = "subscribe"
               PROVE  /\ up'[k].id \in 1 .. nextId' /\ up'[k].after <= log'
                      /\ \A j \in Ids : j = up'[k].id => ~(Active(j)')
                      /\ \A l \in DOMAIN up' :
                           up'[l].kind = "subscribe" /\ up'[l].id = up'[k].id => l = k
    <3>1. \A j \in 1 .. nextId' : j \in Ids
      BY <1>0, <1>1
    <3> QED BY <3>1 DEF RequestsInv, Active
  <2>1. k + 1 \in DOMAIN up /\ up'[k] = up[k + 1]
    BY <1>2
  <2>2. /\ up[k + 1].id \in 1 .. nextId /\ up[k + 1].after <= log /\ ~Active(up[k + 1].id)
        /\ \A l \in DOMAIN up : up[l].kind = "subscribe" /\ up[l].id = up[k + 1].id => l = k + 1
    BY <2>1 DEF WireInv, RequestsInv
  <2>3. ASSUME NEW l \in DOMAIN up', up'[l].kind = "subscribe", up'[l].id = up'[k].id
        PROVE  l = k
    <3>1. l + 1 \in DOMAIN up /\ up[l + 1].kind = "subscribe" /\ up[l + 1].id = up[k + 1].id
      BY <1>2, <2>1, <2>3
    <3>2. l + 1 = k + 1
      BY <2>2, <3>1
    <3> QED BY <1>0, <1>2, <3>2
  <2>4. ASSUME NEW j \in Ids, j = up'[k].id PROVE ~(Active(j)')
    <3>1. up[1].kind = "subscribe" => j # up[1].id
      <4>1. k + 1 # 1
        BY <1>0, <1>2
      <4> QED BY <1>2, <2>1, <2>2, <2>4, <4>1
    <3> QED BY <1>4, <2>1, <2>2, <2>4, <3>1 DEF Active
  <2> QED BY <1>1, <2>1, <2>2, <2>3, <2>4
<1>6. FramesInv'
  <2>1. ASSUME NEW j \in Ids, IsOver(j) PROVE IsOver(j)'
    <3>1. up[1].kind = "subscribe" => j # up[1].id
      BY <1>4, <2>1 DEF IsOver
    <3>2. ~(Asked(j)') /\ j \in 1 .. nextId'
      BY <1>1, <1>3, <2>1 DEF IsOver
    <3>3. handlers'[j].phase \in {"idle", "live"}
      BY <1>4, <2>1, <3>1 DEF IsOver
    <3> QED BY <3>2, <3>3 DEF IsOver
  <2>2. ASSUME NEW k \in DOMAIN down, ~IsEvents(k) PROVE IsOver(down[k].lo)'
    <3>1. IsOver(down[k].lo) /\ down[k].lo \in Ids
      BY <1>0, <2>2 DEF WireInv, FramesInv, IsOver
    <3>2. ASSUME NEW j \in Ids, j = down[k].lo PROVE IsOver(j)'
      BY <2>1, <3>1, <3>2
    <3> QED BY <1>1, <3>1, <3>2
  <2>3. \A k \in DOMAIN down : IsEvents(k)' = IsEvents(k)
    BY <1>1 DEF IsEvents
  <2>4. down' = down /\ log' = log
    BY <1>1
  <2>5. \A k \in DOMAIN down : IsEvents(k) =>
          1 <= down[k].lo /\ down[k].lo <= down[k].hi /\ down[k].hi <= log
    BY DEF WireInv, FramesInv
  <2> QED BY <2>2, <2>3, <2>4, <2>5 DEF FramesInv
<1>7. \A j \in Ids : Active(j)' => j <= nextId'
  BY <1>1, <1>4 DEF WireInv, Active
<1> QED BY <1>1, <1>5, <1>6, <1>7 DEF WireInv

(* A request more in the socket, whose subscribe has an id of its own.     *)
LEMMA RequestKeepsWire ==
  ASSUME TypeOK, WireInv, nextId' \in 0 .. MaxMounts + MaxConns, nextId <= nextId',
         UNCHANGED <<log, handlers>>, down' = down \/ down' = <<>>,
         NEW n \in Nat,
         \A k \in DOMAIN up' : k # n /\ up'[k].kind = "subscribe" =>
           k \in DOMAIN up /\ up'[k] = up[k],
         n \in DOMAIN up' /\ up'[n].kind = "subscribe" =>
           up'[n].id = nextId + 1 /\ nextId' = nextId + 1 /\ up'[n].after <= log
  PROVE  RequestsInv' /\ FramesInv' /\ \A j \in Ids : Active(j)' => j <= nextId'
<1>0. nextId \in Nat /\ log \in Nat /\ \A j \in Ids : j \in Nat
  BY Scalars
<1>1. \A j \in Ids : Active(j)' = Active(j) /\ (Active(j) => j <= nextId)
  BY DEF Active, WireInv
<1>2. ASSUME NEW k \in DOMAIN up', up'[k].kind = "subscribe", k # n
      PROVE  /\ k \in DOMAIN up /\ up'[k] = up[k] /\ up[k].id \in 1 .. nextId
             /\ up[k].after <= log /\ ~Active(up[k].id)
             /\ \A l \in DOMAIN up : up[l].kind = "subscribe" /\ up[l].id = up[k].id => l = k
  BY <1>2 DEF WireInv, RequestsInv
<1>3. RequestsInv'
  <2> SUFFICES ASSUME NEW k \in DOMAIN up', up'[k].kind = "subscribe"
               PROVE  /\ up'[k].id \in 1 .. nextId' /\ up'[k].after <= log
                      /\ handlers[up'[k].id].phase = "idle"
                      /\ \A l \in DOMAIN up' :
                           up'[l].kind = "subscribe" /\ up'[l].id = up'[k].id => l = k
    BY DEF RequestsInv, Active
  <2>1. CASE k = n
    <3>1. up'[k].id = nextId + 1 /\ nextId' = nextId + 1 /\ up'[k].after <= log
      BY <2>1
    <3>2. handlers[nextId + 1].phase = "idle"
      <4>1. nextId + 1 \in Ids
        BY <1>0, <2>1, <3>1
      <4> QED BY <1>0, <1>1, <4>1 DEF Active
    <3>3. ASSUME NEW l \in DOMAIN up', up'[l].kind = "subscribe", up'[l].id = up'[k].id
          PROVE  l = k
      BY <1>0, <1>2, <2>1, <3>1, <3>3
    <3> QED BY <1>0, <3>1, <3>2, <3>3
  <2>2. CASE k # n
    <3>1. /\ up'[k].id \in 1 .. nextId /\ up'[k].after <= log
          /\ handlers[up'[k].id].phase = "idle"
      BY <1>2, <2>2 DEF Active
    <3>2. ASSUME NEW l \in DOMAIN up', up'[l].kind = "subscribe", up'[l].id = up'[k].id
          PROVE  l = k
      BY <1>0, <1>2, <2>2, <3>1, <3>2
    <3> QED BY <1>0, <3>1, <3>2
  <2> QED BY <2>1, <2>2
<1>4. FramesInv'
  <2>1. ASSUME NEW j \in Ids, IsOver(j) PROVE IsOver(j)'
    <3>1. ~(Asked(j)')
      <4> SUFFICES ASSUME NEW k \in DOMAIN up', up'[k].kind = "subscribe", up'[k].id = j
                   PROVE FALSE
        BY DEF Asked
      <4>1. j \in 1 .. nextId
        BY <2>1 DEF IsOver
      <4>2. k # n
        BY <1>0, <4>1
      <4>3. k \in DOMAIN up /\ up[k].kind = "subscribe" /\ up[k].id = j
        BY <1>2, <4>2
      <4> QED BY <2>1, <4>3 DEF IsOver, Asked
    <3> QED BY <1>0, <2>1, <3>1 DEF IsOver
  <2>2. CASE down' = down
    <3>1. ASSUME NEW k \in DOMAIN down, ~IsEvents(k)
          PROVE  \A j \in Ids : j = down[k].lo => IsOver(j)'
      BY <2>1, <3>1 DEF WireInv, FramesInv
    <3>2. ASSUME NEW k \in DOMAIN down, ~IsEvents(k) PROVE down[k].lo \in Ids
      BY <1>0, <3>2, Scalars DEF WireInv, FramesInv, IsOver
    <3>3. \A k \in DOMAIN down : IsEvents(k) =>
            1 <= down[k].lo /\ down[k].lo <= down[k].hi /\ down[k].hi <= log
      BY DEF WireInv, FramesInv
    <3>4. \A k \in DOMAIN down : IsEvents(k)' = IsEvents(k)
      BY <2>2 DEF IsEvents
    <3>5. ASSUME NEW k \in DOMAIN down, ~IsEvents(k) PROVE IsOver(down[k].lo)'
      BY <2>2, <3>1, <3>2, <3>5
    <3> QED BY <2>2, <3>3, <3>4, <3>5 DEF FramesInv
  <2>3. CASE down' = <<>>
    BY <2>3 DEF FramesInv
  <2> QED BY <2>2, <2>3
<1>5. \A j \in Ids : Active(j)' => j <= nextId'
  BY <1>0, <1>1
<1> QED BY <1>3, <1>4, <1>5

(* One subscribe is in the socket, or handled, or answered.                *)
LEMMA WireKept ==
  ASSUME TypeOK, WireInv, ClientInv, ReplayInv, [Next]_vars
  PROVE  WireInv'
<1>0. /\ handlers \in [Ids -> Handler] /\ \A j \in Ids : handlers[j] \in Handler
      /\ up \in Seq(Requests) /\ down \in Seq(Frames)
      /\ DOMAIN up = 1 .. Len(up) /\ Len(up) \in Nat
      /\ DOMAIN down = 1 .. Len(down) /\ Len(down) \in Nat
      /\ \A k \in DOMAIN up : up[k] \in Requests
      /\ \A k \in DOMAIN down : down[k] \in Frames
  BY Types
<1>1. /\ log \in Nat /\ nextId \in Nat /\ nextId <= MaxMounts + MaxConns /\ lastSeq \in Nat
      /\ view \in View /\ view.mount \in Nat /\ conns \in Nat /\ 0 \notin Ids
      /\ isOpen \in BOOLEAN /\ published \in Nat /\ published <= log /\ listener \in Ids \cup {0}
  BY Scalars DEF View
<1>2. TypeOK'
  BY TypesKept
<1>3. nextId' \in 0 .. MaxMounts + MaxConns
  BY <1>2 DEF TypeOK
<1>e. /\ <<>> \in Seq(Frames) /\ down = down \o <<>> /\ DOMAIN <<>> = {}
  BY <1>0, EmptySeq, ConcatEmptySeq
<1>4. CASE AppendEvent
  <2>1. /\ log' = log + 1
        /\ UNCHANGED <<handlers, down, up, isOpen, sendQueue, nextId, conns, lastSeq, view>>
    BY <1>4 DEF AppendEvent
  <2>2. Sends(<<>>)
    BY <1>1, <1>e, <2>1 DEF Sends
  <2> QED BY <1>e, <2>2, ServerKeepsWire
<1>5. CASE Publish
  <2>1. UNCHANGED <<log, up, isOpen, sendQueue, nextId, conns, lastSeq, view>>
    BY <1>5 DEF Publish
  <2>2. \A j \in Ids : handlers'[j].phase = handlers[j].phase
    <3>1. ASSUME NEW i \in Ids PROVE [handlers[i] EXCEPT !.to = published + 1].phase = handlers[i].phase
      BY <1>0 DEF Handler
    <3> QED BY <1>0, <1>5, <3>1, PublishStep
  <2>3. \E t \in Seq(Frames) :
          /\ down' = down \o t /\ (isOpen \/ t = <<>>)
          /\ \A k \in DOMAIN t : /\ t[k].kind = "events" /\ 1 <= t[k].lo
                                 /\ t[k].lo <= t[k].hi /\ t[k].hi <= log
    <3>1. CASE UNCHANGED down
      BY <1>e, <3>1
    <3>2. CASE /\ listener \in Ids /\ handlers[listener].phase = "live"
               /\ \E t \in Seq(Frames) : /\ down' = down \o t
                                         /\ \A k \in DOMAIN t : t[k].kind = "events"
                                         /\ Continues(t, published, published + 1)
      <4>1. isOpen
        BY <3>2 DEF WireInv, Active
      <4> QED BY <3>2, <4>1 DEF Continues
    <3> QED BY <1>5, <3>1, <3>2, PublishStep
  <2>4. PICK t \in Seq(Frames) :
          /\ down' = down \o t /\ (isOpen \/ t = <<>>)
          /\ \A k \in DOMAIN t : /\ t[k].kind = "events" /\ 1 <= t[k].lo
                                 /\ t[k].lo <= t[k].hi /\ t[k].hi <= log
    BY <2>3
  <2>5. Sends(t)
    BY <1>1, <2>1, <2>2, <2>4 DEF Sends
  <2> QED BY <2>5, ServerKeepsWire
<1>6. CASE ReadFrame
  BY <1>6, ReadKeepsWire
<1>7. ASSUME NEW i \in Ids, StartReplay(i) PROVE WireInv'
  <2>1. UNCHANGED <<log, down, up, isOpen, sendQueue, nextId, conns, lastSeq, view>>
    BY <1>7 DEF StartReplay
  <2>2. /\ handlers[i].phase = "access"
        /\ \A j \in Ids \ {i} : handlers'[j] \in {handlers[j], Idle}
    BY <1>7, StartReplayStep
  <2>3. Sends(<<>>)
    BY <1>1, <1>e, <2>1, <2>2 DEF Sends, Idle
  <2> QED BY <1>e, <2>3, ServerKeepsWire
<1>8. ASSUME NEW i \in Ids, ReadPage(i) PROVE WireInv'
  <2>1. UNCHANGED <<log, down, up, isOpen, sendQueue, nextId, conns, lastSeq, view>>
    BY <1>8 DEF ReadPage
  <2>2. handlers[i].phase = "query" /\ \A j \in Ids : j # i => handlers'[j] = handlers[j]
    BY <1>0, <1>8, ReadPageStep
  <2>3. Sends(<<>>)
    BY <1>1, <1>e, <2>1, <2>2 DEF Sends
  <2> QED BY <1>e, <2>3, ServerKeepsWire
<1>9. ASSUME NEW i \in Ids, SendPage(i) PROVE WireInv'
  <2>1. UNCHANGED <<log, up, isOpen, sendQueue, nextId, conns, lastSeq, view>>
    BY <1>9 DEF SendPage
  <2>2. handlers[i].phase = "page" /\ Active(i) /\ isOpen
    BY <1>9, <1>1 DEF SendPage, Active, WireInv
  <2>3. PICK t \in Seq(Frames) :
          /\ down' = down \o t
          /\ \/ /\ Continues(t, handlers[i].last, handlers[i].hi)
                /\ handlers' = [handlers EXCEPT ![i] = [handlers[i] EXCEPT !.phase = "query",
                                                                         !.last = handlers[i].hi]]
                /\ \A k \in DOMAIN t : t[k].kind = "events"
             \/ /\ Continues(t, handlers[i].last, Later(handlers[i].hi, handlers[i].to))
                /\ handlers' = [handlers EXCEPT ![i] =
                     IF listener = i THEN [Idle EXCEPT !.phase = "live"] ELSE Idle]
                /\ \A k \in DOMAIN t : t[k].kind # "events" => t[k] = Reply(i, TRUE)
    BY <1>9, SendPageStep
  <2>4. \A j \in Ids : j # i => handlers'[j] = handlers[j]
    BY <1>0, <2>3
  <2>5. ASSUME NEW k \in DOMAIN t
        PROVE  /\ t[k].kind = "events" => 1 <= t[k].lo /\ t[k].lo <= t[k].hi /\ t[k].hi <= log
               /\ t[k].kind # "events" => /\ t[k].lo \in Ids /\ Active(t[k].lo)
                                          /\ handlers'[t[k].lo].phase \in {"idle", "live"}
    <3>1. t[k].kind = "events" => 1 <= t[k].lo /\ t[k].lo <= t[k].hi /\ t[k].hi <= log
      BY <2>3 DEF Continues
    <3>2. CASE t[k].kind # "events"
      <4>1. t[k] = Reply(i, TRUE)
            /\ handlers' = [handlers EXCEPT ![i] =
                     IF listener = i THEN [Idle EXCEPT !.phase = "live"] ELSE Idle]
        BY <2>3, <3>2
      <4>2. t[k].lo = i
        BY <4>1 DEF Reply
      <4>3. handlers'[i].phase \in {"idle", "live"}
        BY <1>0, <4>1 DEF Idle
      <4> QED BY <2>2, <3>2, <4>2, <4>3
    <3> QED BY <3>1, <3>2
  <2>6. down' = down \o t
    BY <2>3
  <2>7. Sends(t)
    BY <1>1, <2>1, <2>2, <2>4, <2>5, <2>6 DEF Sends
  <2> QED BY <2>7, ServerKeepsWire
<1>10. ASSUME NEW i \in Ids, RefuseSubscribe(i) PROVE WireInv'
  <2>1. UNCHANGED <<log, up, isOpen, sendQueue, nextId, conns, lastSeq, view>>
    BY <1>10 DEF RefuseSubscribe
  <2>2. /\ handlers[i].phase = "access" /\ handlers' = [handlers EXCEPT ![i] = Idle]
        /\ \E t \in Seq(Frames) : down' = down \o t /\ t = <<Reply(i, FALSE)>>
    BY <1>10, RefuseStep
  <2>3. Active(i) /\ isOpen
    BY <1>1, <2>2 DEF Active, WireInv
  <2> DEFINE e == Reply(i, FALSE)
  <2>4. e.lo = i /\ e.kind = "error" /\ e \in Frames
    BY DEF Reply, Frames
  <2> HIDE DEF e
  <2>5. PICK t \in Seq(Frames) : down' = down \o t /\ t = <<e>>
    BY <2>2 DEF e
  <2>6. DOMAIN t = {1} /\ t[1] = e
    BY <2>4, <2>5, One
  <2>7. /\ handlers'[i].phase = "idle"
        /\ \A j \in Ids : j # i => handlers'[j] = handlers[j]
        /\ handlers[i].phase = "access"
    BY <1>0, <2>2 DEF Idle
  <2>9. \A k \in DOMAIN t :
           /\ t[k].kind # "events" /\ t[k].lo \in Ids /\ Active(t[k].lo)
           /\ handlers'[t[k].lo].phase \in {"idle", "live"}
    BY <2>3, <2>4, <2>6, <2>7
  <2>8. \A j \in Ids : /\ handlers[j].phase = "idle" => handlers'[j].phase = "idle"
                       /\ handlers[j].phase = "live" => handlers'[j].phase \in {"idle", "live"}
    BY <2>7
  <2>11. log' \in Nat /\ log <= log'
    BY <1>1, <2>1
  <2>12. UNCHANGED <<up, isOpen, sendQueue, nextId, conns, lastSeq, view>>
    BY <2>1
  <2>10. Sends(t)
    BY <2>3, <2>5, <2>8, <2>9, <2>11, <2>12 DEF Sends
  <2> QED BY <2>10, ServerKeepsWire
<1>11. CASE Receive
  <2>1. /\ isOpen /\ UNCHANGED <<store, server, isOpen, conns, up, sendQueue, nextId>>
        /\ down # <<>> /\ down' = Tail(down)
    BY <1>11 DEF Receive
  <2>2. /\ DOMAIN down' = 1 .. Len(down) - 1 /\ Len(down) \in Nat \ {0}
        /\ \A k \in DOMAIN down' : k + 1 \in DOMAIN down /\ down'[k] = down[k + 1]
        /\ Head(down) = down[1] /\ 1 \in DOMAIN down /\ down[1] \in Frames
    BY <1>0, <2>1, Removed
  <2>3. /\ \A j \in Ids : Active(j)' = Active(j)
        /\ \A j \in Ids : IsOver(j)' = IsOver(j)
    BY <2>1 DEF Active, IsOver, Asked
  <2>4. RequestsInv'
    BY <2>1 DEF WireInv, RequestsInv, Active
  <2>5. FramesInv'
    <3> SUFFICES ASSUME NEW k \in DOMAIN down'
                 PROVE  (/\ IsEvents(k) => /\ 1 <= down[k].lo /\ down[k].lo <= down[k].hi
                                           /\ down[k].hi <= log
                         /\ ~IsEvents(k) => IsOver(down[k].lo))'
      BY DEF FramesInv
    <3>1. k + 1 \in DOMAIN down /\ down'[k] = down[k + 1]
      BY <2>2
    <3>2. /\ IsEvents(k + 1) => /\ 1 <= down[k + 1].lo /\ down[k + 1].lo <= down[k + 1].hi
                                /\ down[k + 1].hi <= log
          /\ ~IsEvents(k + 1) => IsOver(down[k + 1].lo)
      BY <3>1 DEF WireInv, FramesInv
    <3>3. IsEvents(k)' <=> IsEvents(k + 1)
      BY <3>1 DEF IsEvents
    <3>4. IsOver(down[k + 1].lo) => IsOver(down[k].lo)'
      BY <2>1, <3>1 DEF IsOver, Asked
    <3> QED BY <2>1, <3>1, <3>2, <3>3, <3>4
  <2>6. lastSeq' <= log /\ view'.seen \subseteq 1 .. log /\ view'.mount = view.mount
    <3>1. CASE down[1].kind = "events" /\ ReceiveEvents(down[1])
      <4>1. 1 <= down[1].lo /\ down[1].lo <= down[1].hi /\ down[1].hi <= log
        BY <2>2, <3>1 DEF WireInv, FramesInv, IsEvents
      <4>2. down[1].lo .. down[1].hi \subseteq 1 .. log
        BY <1>1, <2>2, <4>1 DEF Frames
      <4> QED BY <1>1, <3>1, <4>1, <4>2 DEF ReceiveEvents, View, WireInv
    <3>2. ASSUME NEW ok \in BOOLEAN, ReceiveReply(down[1], ok) PROVE <2>6
      BY <1>1, <3>2 DEF ReceiveReply, Answered, View, WireInv
    <3> QED BY <1>11, <2>2, <3>1, <3>2 DEF Receive
  <2> QED BY <2>1, <2>3, <2>4, <2>5, <2>6 DEF WireInv
<1>12. CASE Open
  <2>1. /\ ~isOpen /\ isOpen' = TRUE /\ conns' = conns + 1 /\ sendQueue' = <<>>
        /\ UNCHANGED <<store, server, down, lastSeq, view>>
    BY <1>12 DEF Open
  <2>2. nextId' \in {nextId, nextId + 1}
    BY <1>12 DEF Open
  <2>3. /\ DOMAIN sendQueue = 1 .. Len(sendQueue) /\ Len(sendQueue) \in Nat
        /\ \A k \in DOMAIN sendQueue : sendQueue[k].kind = "unsubscribe"
    <3>1. sendQueue \in Seq({Unsubscribe}) /\ Unsubscribe.kind = "unsubscribe"
      BY Types DEF Unsubscribe
    <3> HIDE DEF Unsubscribe
    <3> QED BY <3>1, LenProperties, ElementOfSeq
  <2>4. /\ \A k \in DOMAIN up' : k # Len(sendQueue) + 1 => up'[k].kind # "subscribe"
        /\ LET n == Len(sendQueue) + 1 IN n \in DOMAIN up' /\ up'[n].kind = "subscribe" =>
             up'[n].id = nextId + 1 /\ nextId' = nextId + 1 /\ up'[n].after <= log
    <3>1. CASE ~subscribed
      <4>1. up' = sendQueue
        BY <1>12, <3>1 DEF Open
      <4> QED BY <2>3, <4>1
    <3>2. CASE subscribed
      <4> DEFINE e == Subscribe(nextId + 1, lastSeq)
      <4>1. up' = sendQueue \o <<e>> /\ nextId' = nextId + 1
        BY <1>12, <3>2 DEF Open
      <4>2. e.id = nextId + 1 /\ e.after <= log
        BY DEF Subscribe, WireInv
      <4> HIDE DEF e
      <4>3. /\ DOMAIN up' = 1 .. Len(sendQueue) + 1
            /\ \A k \in 1 .. Len(sendQueue) : up'[k] = sendQueue[k]
            /\ up'[Len(sendQueue) + 1] = e
        BY <2>3, <4>1
      <4> QED BY <2>3, <4>1, <4>2, <4>3
    <3> QED BY <3>1, <3>2
  <2>5. RequestsInv' /\ FramesInv' /\ \A j \in Ids : Active(j)' => j <= nextId'
    BY <1>1, <1>3, <2>1, <2>2, <2>3, <2>4, RequestKeepsWire
  <2>6. nextId' <= view'.mount + conns'
    BY <1>1, <2>1, <2>2 DEF WireInv
  <2> QED BY <2>1, <2>5, <2>6 DEF WireInv
<1>13. CASE Mount
  <2>1. /\ view'.mount = view.mount + 1 /\ view'.seen = {}
        /\ nextId' \in {nextId, nextId + 1}
        /\ UNCHANGED <<store, server, isOpen, conns, down, sendQueue, lastSeq>>
    BY <1>13 DEF Mount
  <2>2. nextId' <= view'.mount + conns'
    BY <1>1, <2>1 DEF WireInv
  <2>3. CASE isOpen
    <3> DEFINE e == Subscribe(nextId + 1, 0)
    <3>1. up' = Append(up, e) /\ nextId' = nextId + 1
      BY <1>13, <2>3 DEF Mount
    <3>2. e.id = nextId + 1 /\ e.after = 0 /\ e \in Requests
      BY <1>1, <1>3, <3>1 DEF Subscribe, Requests
    <3> HIDE DEF e
    <3>3. /\ DOMAIN up' = 1 .. Len(up) + 1 /\ up'[Len(up) + 1] = e
          /\ \A k \in DOMAIN up : up'[k] = up[k]
      BY <1>0, <3>1, <3>2, Appended
    <3>4. RequestsInv' /\ FramesInv' /\ \A j \in Ids : Active(j)' => j <= nextId'
      <4>1. \A k \in DOMAIN up' : k # Len(up) + 1 => k \in DOMAIN up /\ up'[k] = up[k]
        BY <1>0, <3>3
      <4>2. Len(up) + 1 \in Nat /\ nextId <= nextId'
        BY <1>0, <1>1, <3>1
      <4> QED BY <1>1, <1>3, <2>1, <3>1, <3>2, <3>3, <4>1, <4>2, RequestKeepsWire
    <3> QED BY <2>1, <2>2, <2>3, <3>4 DEF WireInv
  <2>4. CASE ~isOpen
    <3>1. UNCHANGED <<up, nextId>>
      BY <1>13, <2>4 DEF Mount
    <3> QED BY <2>1, <2>2, <2>4, <3>1
            DEF WireInv, RequestsInv, FramesInv, IsOver, IsEvents, Asked, Active
  <2> QED BY <2>3, <2>4
<1>14. CASE Unmount
  <2>1. /\ view'.mount = view.mount /\ view'.seen = {} /\ lastSeq' = 0
        /\ UNCHANGED <<store, server, isOpen, conns, down, nextId>>
    BY <1>1, <1>14 DEF Unmount, View
  <2>3. CASE isOpen
    <3> DEFINE e == Unsubscribe
    <3>1. up' = Append(up, e) /\ UNCHANGED sendQueue
      BY <1>14, <2>3 DEF Unmount
    <3>2. e.kind = "unsubscribe" /\ e \in Requests
      BY DEF Unsubscribe, Requests
    <3> HIDE DEF e
    <3>3. /\ DOMAIN up' = 1 .. Len(up) + 1 /\ up'[Len(up) + 1] = e
          /\ \A k \in DOMAIN up : up'[k] = up[k]
      BY <1>0, <3>1, <3>2, Appended
    <3>4. RequestsInv' /\ FramesInv' /\ \A j \in Ids : Active(j)' => j <= nextId'
      <4>1. \A k \in DOMAIN up' : k # Len(up) + 1 => k \in DOMAIN up /\ up'[k] = up[k]
        BY <1>0, <3>3
      <4>2. Len(up) + 1 \in Nat /\ nextId <= nextId'
        BY <1>0, <1>1, <2>1
      <4> QED BY <1>1, <1>3, <2>1, <3>1, <3>2, <3>3, <4>1, <4>2, RequestKeepsWire
    <3> QED BY <1>1, <2>1, <2>3, <3>1, <3>4 DEF WireInv
  <2>4. CASE ~isOpen
    <3>1. UNCHANGED up
      BY <1>14, <2>4 DEF Unmount
    <3> QED BY <1>1, <2>1, <2>4, <3>1
            DEF WireInv, RequestsInv, FramesInv, IsOver, IsEvents, Asked, Active
  <2> QED BY <2>3, <2>4
<1>15. CASE Drop
  <2>1. /\ isOpen' = FALSE /\ up' = <<>> /\ down' = <<>>
        /\ handlers' = [j \in Ids |-> Idle]
        /\ view'.mount = view.mount /\ view'.seen = view.seen
        /\ UNCHANGED <<store, conns, nextId, lastSeq>>
    BY <1>1, <1>15 DEF Drop, View
  <2>2. \A j \in Ids : ~(Active(j)')
    BY <2>1 DEF Active, Idle
  <2>3. RequestsInv' /\ FramesInv'
    BY <2>1 DEF RequestsInv, FramesInv
  <2>4. nextId' <= view'.mount + conns' /\ lastSeq' <= log' /\ view'.seen \subseteq 1 .. log'
    BY <2>1 DEF WireInv
  <2> QED BY <2>1, <2>2, <2>3, <2>4 DEF WireInv
<1>16. CASE TimeOut
  <2>1. /\ view'.mount = view.mount /\ view'.seen = view.seen
        /\ UNCHANGED <<store, server, socket, nextId, lastSeq>>
    BY <1>1, <1>16 DEF TimeOut, Answered, View
  <2> QED BY <2>1 DEF WireInv, RequestsInv, FramesInv, IsOver, IsEvents, Asked, Active
<1>17. CASE UNCHANGED vars
  BY <1>17 DEF vars, WireInv, RequestsInv, FramesInv, IsOver, IsEvents, Asked, Active
<1> QED
  BY <1>4, <1>5, <1>6, <1>7, <1>8, <1>9, <1>10, <1>11, <1>12, <1>13, <1>14, <1>15, <1>16, <1>17
     DEF Next, ServerStep, ClientStep

-----------------------------------------------------------------------------
(* At first nothing has been opened.                                      *)
LEMMA ChannelInvInit ==
  ASSUME Init
  PROVE  ChannelInv
<1>1. /\ log = 0 /\ published = 0 /\ listener = 0 /\ isOpen = FALSE /\ conns = 0
      /\ up = <<>> /\ down = <<>> /\ sendQueue = <<>> /\ subscribed = FALSE /\ lastSeq = 0
      /\ awaited = 0 /\ parked = FALSE /\ nextId = 0 /\ failures = 0
      /\ view = [mount |-> 0, on |-> FALSE, seen |-> {}, status |-> "none",
                 sameSocket |-> FALSE]
  BY DEF Init
<1>2. handlers \in [Ids -> Handler] /\ \A j \in Ids : handlers[j] = Idle
  BY DEF Init, Idle, Handler
<1>3. <<>> \in Seq(Requests) /\ <<>> \in Seq(Frames) /\ <<>> \in Seq({Unsubscribe})
  BY EmptySeq
<1>4. view \in View
  BY <1>1 DEF View
<1>5. TypeOK
  <2>1. /\ log \in 0 .. MaxSeq /\ published \in 0 .. log /\ listener \in Ids \cup {0}
        /\ conns \in 0 .. MaxConns /\ lastSeq \in 0 .. MaxSeq /\ awaited \in Ids \cup {0}
        /\ nextId \in 0 .. MaxMounts + MaxConns /\ failures \in 0 .. MaxFailures
    BY <1>1
  <2>2. up \in Seq(Requests) /\ down \in Seq(Frames) /\ sendQueue \in Seq({Unsubscribe})
    BY <1>1, <1>3
  <2>3. isOpen \in BOOLEAN /\ subscribed \in BOOLEAN /\ parked \in BOOLEAN
    BY <1>1
  <2> QED BY <1>2, <1>4, <2>1, <2>2, <2>3 DEF TypeOK
<1>6. WireInv
  BY <1>1, <1>2 DEF WireInv, RequestsInv, FramesInv, Active, Idle
<1>7. ClientInv
  BY <1>1 DEF ClientInv
<1>8. ReplayInv
  BY <1>1, <1>2 DEF ReplayInv, ReplayOf, Replaying, Idle
<1> QED BY <1>5, <1>6, <1>7, <1>8 DEF ChannelInv

(* No step of the channel breaks it.                                       *)
LEMMA ChannelInvKept ==
  ASSUME ChannelInv, [Next]_vars
  PROVE  ChannelInv'
BY TypesKept, WireKept, ClientKept, ReplayKept DEF ChannelInv

(* The types of the live channel's state (sessions-ws.ts,                  *)
(* sessions-client.ts), whatever the socket drops: a request id is never   *)
(* given out twice, nor more often than chats are opened and sockets are.  *)
THEOREM ChannelTypes == Spec => []TypeOK
<1>1. Init => ChannelInv
  BY ChannelInvInit
<1>2. ChannelInv /\ [Next]_vars => ChannelInv'
  BY ChannelInvKept
<1>3. ChannelInv => TypeOK
  BY DEF ChannelInv
<1> QED BY <1>1, <1>2, <1>3, PTL DEF Spec

-----------------------------------------------------------------------------
(* What was shown or on the wire stays so when frames follow.              *)
LEMMA SentStays ==
  ASSUME NEW seen, NEW s \in Seq(Frames), NEW t \in Seq(Frames), NEW n,
         NEW k \in Nat, NEW l \in Nat, k <= l, Sent(seen, s, n, k)
  PROVE  Sent(seen, s \o t, n, l)
<1>1. /\ DOMAIN s = 1 .. Len(s) /\ Len(s) \in Nat /\ Len(t) \in Nat
      /\ DOMAIN (s \o t) = 1 .. Len(s) + Len(t)
      /\ \A j \in 1 .. Len(s) : (s \o t)[j] = s[j]
  BY LenProperties, ConcatProperties
<1>2. \A j \in 1 .. k : j \in 1 .. l
  OBVIOUS
<1>3. \A j \in DOMAIN s : j \in DOMAIN (s \o t) /\ (s \o t)[j] = s[j]
  BY <1>1
<1> QED BY <1>2, <1>3 DEF Sent

(* Frames that continue what was sent leave no gap.                        *)
LEMMA Continued ==
  ASSUME NEW m \in Nat, NEW s \in Seq(Frames), NEW t \in Seq(Frames), log \in Nat,
         NEW a \in Nat, NEW b \in Nat, InOrder(1 .. m, s), Sent(1 .. m, s, a, Len(s)),
         Continues(t, a, b)
  PROVE  /\ InOrder(1 .. m, s \o t)
         /\ \A c \in Nat : c <= b => Sent(1 .. m, s \o t, c, Len(s \o t))
<1> DEFINE u == s \o t
           seen == 1 .. m
<1>1. /\ DOMAIN s = 1 .. Len(s) /\ Len(s) \in Nat /\ DOMAIN t = 1 .. Len(t) /\ Len(t) \in Nat
      /\ \A k \in DOMAIN s : s[k] \in Frames
      /\ \A k \in DOMAIN t : t[k] \in Frames
  BY LenProperties
<1>2. /\ u \in Seq(Frames) /\ Len(u) = Len(s) + Len(t)
      /\ \A k \in 1 .. Len(s) + Len(t) : u[k] = IF k <= Len(s) THEN s[k] ELSE t[k - Len(s)]
  BY ConcatProperties
<1>3. DOMAIN u = 1 .. Len(s) + Len(t)
  BY <1>2, LenProperties
<1>4. \A n : \A k \in Nat : \A l \in Nat : k <= l /\ Sent(seen, s, n, k) => Sent(seen, u, n, l)
  BY SentStays
<1> HIDE DEF u
<1>5. /\ \A k \in DOMAIN s : k \in DOMAIN u /\ u[k] = s[k]
      /\ \A k \in DOMAIN u : \/ k \in DOMAIN s
                             \/ k - Len(s) \in DOMAIN t /\ u[k] = t[k - Len(s)]
  BY <1>1, <1>2, <1>3
<1>6. ASSUME NEW k \in DOMAIN t PROVE Len(s) + k \in DOMAIN u /\ u[Len(s) + k] = t[k]
  <2>1. Len(s) + k - Len(s) = k /\ ~(Len(s) + k <= Len(s)) /\ Len(s) + k \in 1 .. Len(s) + Len(t)
    BY <1>1
  <2> QED BY <1>2, <1>3, <2>1
<1>7. ASSUME NEW c \in Nat, c <= a PROVE Sent(seen, s, c, Len(s))
  <2>1. CASE a = 0 \/ a \in seen
    BY <1>7, <2>1 DEF Sent
  <2>2. CASE \E j \in 1 .. Len(s) : j \in DOMAIN s /\ s[j].kind = "events" /\ a <= s[j].hi
    <3>1. PICK j \in 1 .. Len(s) : j \in DOMAIN s /\ s[j].kind = "events" /\ a <= s[j].hi
      BY <2>2
    <3>2. s[j].hi \in Nat
      BY <1>1, <3>1 DEF Frames
    <3> QED BY <1>7, <3>1, <3>2 DEF Sent
  <2> QED BY <2>1, <2>2 DEF Sent
<1>8. ASSUME NEW c \in Nat, c <= b PROVE Sent(seen, u, c, Len(u))
  <2>1. CASE c <= a
    BY <1>1, <1>2, <1>4, <1>7, <2>1
  <2>2. CASE a < c
    <3>1. PICK k \in DOMAIN t : t[k].kind = "events" /\ c <= t[k].hi
      BY <1>8, <2>2 DEF Continues
    <3>2. Len(s) + k \in 1 .. Len(u)
      BY <1>1, <1>2
    <3> QED BY <1>6, <3>1, <3>2 DEF Sent
  <2> QED BY <2>1, <2>2
<1>9. ASSUME NEW k \in DOMAIN u, u[k].kind = "events" PROVE Sent(seen, u, u[k].lo - 1, k - 1)
  <2>1. CASE k \in DOMAIN s
    <3>1. Sent(seen, s, s[k].lo - 1, k - 1) /\ k - 1 \in Nat
      BY <1>1, <1>5, <1>9, <2>1 DEF InOrder
    <3> QED BY <1>4, <1>5, <2>1, <3>1
  <2>2. CASE k \notin DOMAIN s
    <3> DEFINE l == k - Len(s)
    <3>1. l \in DOMAIN t /\ u[k] = t[l] /\ l \in 1 .. Len(t) /\ k = Len(s) + l
      BY <1>1, <1>3, <1>5, <2>2
    <3> HIDE DEF l
    <3>2. /\ 1 <= t[l].lo /\ t[l].lo \in Nat
          /\ \/ t[l].lo - 1 <= a
             \/ \E x \in DOMAIN t : x < l /\ t[x].kind = "events" /\ t[l].lo - 1 <= t[x].hi
      BY <1>1, <1>9, <3>1 DEF Continues, Frames
    <3>3. CASE t[l].lo - 1 <= a
      <4>1. t[l].lo - 1 \in Nat
        BY <3>2
      <4>2. Sent(seen, s, t[l].lo - 1, Len(s))
        BY <1>7, <3>3, <4>1
      <4>3. k - 1 \in Nat /\ Len(s) <= k - 1
        BY <1>1, <3>1
      <4> QED BY <1>1, <1>4, <3>1, <4>2, <4>3
    <3>4. CASE \E x \in DOMAIN t : x < l /\ t[x].kind = "events" /\ t[l].lo - 1 <= t[x].hi
      <4>1. PICK x \in DOMAIN t : x < l /\ t[x].kind = "events" /\ t[l].lo - 1 <= t[x].hi
        BY <3>4
      <4>2. Len(s) + x \in DOMAIN u /\ u[Len(s) + x] = t[x] /\ Len(s) + x \in 1 .. k - 1
        BY <1>1, <1>6, <3>1, <4>1
      <4> QED BY <3>1, <4>1, <4>2 DEF Sent
    <3> QED BY <3>2, <3>3, <3>4
  <2> QED BY <2>1, <2>2
<1> QED BY <1>8, <1>9 DEF InOrder, u

(* A frame shown leaves no gap either.                                     *)
LEMMA Shown ==
  ASSUME NEW m \in Nat, NEW s \in Seq(Frames), s # <<>>, InOrder(1 .. m, s),
         NEW t, t = Tail(s), NEW seen,
         \/ /\ s[1].kind = "events" /\ seen = (1 .. m) \cup (s[1].lo .. s[1].hi)
         \/ s[1].kind # "events" /\ seen = 1 .. m,
         \A k \in DOMAIN s : s[k].kind = "events" => 1 <= s[k].lo /\ s[k].lo <= s[k].hi
  PROVE  /\ seen = 1 .. (IF s[1].kind = "events" THEN Later(m, s[1].hi) ELSE m)
         /\ InOrder(seen, t)
         /\ \A n \in Nat : Sent(1 .. m, s, n, Len(s)) => Sent(seen, t, n, Len(t))
<1>1. /\ t \in Seq(Frames) /\ Len(t) = Len(s) - 1 /\ Len(s) \in Nat \ {0}
      /\ DOMAIN s = 1 .. Len(s) /\ DOMAIN t = 1 .. Len(s) - 1
      /\ \A k \in DOMAIN t : k + 1 \in DOMAIN s /\ t[k] = s[k + 1]
      /\ 1 \in DOMAIN s
  BY Removed
<1>2. \A k \in DOMAIN s : s[k] \in Frames /\ s[k].lo \in Nat /\ s[k].hi \in Nat
  <2>1. \A k \in DOMAIN s : s[k] \in Frames
    BY <1>1, ElementOfSeq
  <2> QED BY <2>1 DEF Frames
<1>3. seen = 1 .. (IF s[1].kind = "events" THEN Later(m, s[1].hi) ELSE m)
  <2>1. CASE s[1].kind = "events"
    <3>1. Sent(1 .. m, s, s[1].lo - 1, 1 - 1)
      BY <1>1, <2>1 DEF InOrder
    <3>2. s[1].lo - 1 = 0 \/ s[1].lo - 1 \in 1 .. m
      BY <3>1 DEF Sent
    <3>3. s[1].lo \in Nat /\ s[1].hi \in Nat /\ 1 <= s[1].lo /\ s[1].lo <= s[1].hi
          /\ seen = (1 .. m) \cup (s[1].lo .. s[1].hi)
      BY <1>1, <1>2, <2>1
    <3> QED BY <2>1, <3>2, <3>3 DEF Later
  <2>2. CASE s[1].kind # "events"
    BY <2>2
  <2> QED BY <2>1, <2>2
<1>4. ASSUME NEW n \in Nat, NEW k \in 1 .. Len(s), Sent(1 .. m, s, n, k)
      PROVE  Sent(seen, t, n, k - 1)
  <2>1. CASE n = 0 \/ n \in 1 .. m
    BY <2>1 DEF Sent
  <2>2. CASE \E j \in 1 .. k : j \in DOMAIN s /\ s[j].kind = "events" /\ n <= s[j].hi
    <3>1. PICK j \in 1 .. k : j \in DOMAIN s /\ s[j].kind = "events" /\ n <= s[j].hi
      BY <2>2
    <3>2. CASE j = 1
      <4>1. n = 0 \/ n \in 1 .. Later(m, s[1].hi)
        BY <1>1, <1>2, <3>1, <3>2 DEF Later
      <4> QED BY <1>3, <3>1, <3>2, <4>1 DEF Sent
    <3>3. CASE j # 1
      <4>1. j - 1 \in 1 .. k - 1 /\ j - 1 \in DOMAIN t /\ t[j - 1] = s[j]
        <5>1. j - 1 \in 1 .. k - 1 /\ j - 1 \in DOMAIN t /\ (j - 1) + 1 = j
          BY <1>1, <3>1, <3>3
        <5>2. t[j - 1] = s[(j - 1) + 1]
          BY <1>1, <5>1
        <5> QED BY <5>1, <5>2
      <4> QED BY <3>1, <4>1 DEF Sent
    <3> QED BY <3>2, <3>3
  <2> QED BY <1>4, <2>1, <2>2 DEF Sent
<1>5. InOrder(seen, t)
  <2> SUFFICES ASSUME NEW k \in DOMAIN t, t[k].kind = "events"
               PROVE  Sent(seen, t, t[k].lo - 1, k - 1)
    BY DEF InOrder
  <2>1. k + 1 \in DOMAIN s /\ t[k] = s[k + 1] /\ k \in 1 .. Len(s) /\ t[k].lo \in Nat
    BY <1>1, <1>2
  <2>2. Sent(1 .. m, s, t[k].lo - 1, (k + 1) - 1) /\ (k + 1) - 1 = k
    BY <2>1 DEF InOrder
  <2>3. t[k].lo - 1 \in Nat
    BY <2>1
  <2> QED BY <1>4, <2>1, <2>2, <2>3
<1>6. \A n \in Nat : Sent(1 .. m, s, n, Len(s)) => Sent(seen, t, n, Len(t))
  BY <1>1, <1>4
<1> QED BY <1>3, <1>5, <1>6

(* A step of the server, seen from the first chat: what it sends continues *)
(* what is on its way.                                                     *)
GoesOn(j, b) ==
  /\ Active(j)' => Active(j)
  /\ handlers'[j].phase \in {"access"} \cup Replaying =>
       \/ handlers'[j].last <= b
       \/ /\ handlers[j].phase \in {"access"} \cup Replaying
          /\ handlers'[j].last = handlers[j].last
  /\ handlers'[j].phase = "live" =>
       published' <= b \/ (published' = published /\ handlers[j].phase = "live")
Brings(t, a, b) ==
  /\ down' = down \o t /\ Continues(t, a, b)
  /\ Sent(view.seen, down, a, Len(down))
  /\ log <= log' /\ up = <<>>
  /\ UNCHANGED <<up, sendQueue, lastSeq, nextId, view>>
  /\ \A j \in Ids : GoesOn(j, b)

(* And what the first chat shows stays the beginning of a beginning.       *)
LEMMA BringsBeginning ==
  ASSUME TypeOK, TypeOK', BeginningInv, IsFirst, NEW t \in Seq(Frames), NEW a \in Nat,
         NEW b \in Nat, Brings(t, a, b)
  PROVE  BeginningInv'
<1>1. /\ down \in Seq(Frames) /\ Len(down) \in Nat /\ log \in Nat /\ log' \in Nat
      /\ published' \in Nat /\ \A j \in Ids : handlers'[j].last \in Nat
  <2>1. \A j \in Ids : handlers'[j].last \in Nat
    <3>1. handlers' \in [Ids -> Handler]
      BY DEF TypeOK
    <3> QED BY <3>1 DEF Handler
  <2>2. log' \in 0 .. MaxSeq /\ published' \in 0 .. log'
    BY DEF TypeOK
  <2> QED BY <2>1, <2>2, Types, Scalars
<1>2. PICK m \in 0 .. log : view.seen = 1 .. m
  BY DEF BeginningInv
<1>3. /\ down' = down \o t /\ log <= log' /\ up = <<>>
      /\ UNCHANGED <<up, sendQueue, lastSeq, nextId, view>>
  BY DEF Brings
<1>4. /\ InOrder(view.seen, down')
      /\ \A c \in Nat : c <= b => Sent(view.seen, down', c, Len(down'))
  <2>1. m \in Nat /\ InOrder(1 .. m, down) /\ Sent(1 .. m, down, a, Len(down)) /\ Continues(t, a, b)
    BY <1>2 DEF BeginningInv, Brings
  <2>2. /\ InOrder(1 .. m, down \o t)
        /\ \A c \in Nat : c <= b => Sent(1 .. m, down \o t, c, Len(down \o t))
    BY <1>1, <2>1, Continued
  <2> QED BY <1>2, <1>3, <2>2
<1>5. \A n : Sent(view.seen, down, n, Len(down)) => Sent(view.seen, down', n, Len(down'))
  <2>1. Len(down') = Len(down) + Len(t) /\ Len(t) \in Nat
    BY <1>1, <1>3, ConcatProperties, LenProperties
  <2> QED BY <1>1, <1>3, <2>1, SentStays
<1>6. ASSUME NEW j \in Ids PROVE Catching(j)'
  <2>1. Catching(j)
    BY DEF BeginningInv
  <2>2. Active(j)' => j = nextId'
    BY <1>3, <2>1 DEF Catching, Brings, GoesOn
  <2>3. handlers'[j].phase \in {"access"} \cup Replaying =>
          Sent(view.seen, down', handlers'[j].last, Len(down'))
    BY <1>1, <1>4, <1>5, <2>1 DEF Catching, Brings, GoesOn
  <2>4. handlers'[j].phase = "live" => Sent(view.seen, down', published', Len(down'))
    BY <1>1, <1>4, <1>5, <2>1 DEF Catching, Brings, GoesOn
  <2> QED BY <1>3, <2>2, <2>3, <2>4 DEF Catching, Replaying
<1>7. m \in 0 .. log'
  BY <1>1, <1>3
<1> QED BY <1>2, <1>3, <1>4, <1>6, <1>7 DEF BeginningInv

(* The first chat has one subscribe a socket, and its frames leave no gap. *)
LEMMA BeginningKept ==
  ASSUME ChannelInv, ChannelInv', BeginningInv, [Next]_vars
  PROVE  BeginningInv'
<1>0. TypeOK /\ TypeOK' /\ WireInv /\ ClientInv /\ ReplayInv
  BY DEF ChannelInv
<1>1. /\ handlers \in [Ids -> Handler]
      /\ \A j \in Ids : /\ handlers[j].last \in Nat /\ handlers[j].hi \in Nat
                        /\ handlers[j].to \in Nat
      /\ down \in Seq(Frames) /\ DOMAIN down = 1 .. Len(down) /\ Len(down) \in Nat
      /\ log \in Nat /\ published \in Nat /\ published <= log /\ log <= MaxSeq
      /\ view \in View /\ view.mount \in Nat /\ nextId \in Nat /\ lastSeq \in 0 .. MaxSeq
      /\ listener \in Ids \cup {0} /\ 0 \notin Ids
  <2>1. /\ handlers \in [Ids -> Handler] /\ down \in Seq(Frames)
        /\ DOMAIN down = 1 .. Len(down) /\ Len(down) \in Nat
        /\ \A j \in Ids : handlers[j] \in Handler
    BY <1>0, Types
  <2>2. \A j \in Ids : /\ handlers[j].last \in Nat /\ handlers[j].hi \in Nat
                       /\ handlers[j].to \in Nat
    BY SMTT(30), <2>1 DEF Handler
  <2>3. view \in View /\ view.mount \in Nat
    BY <1>0, Scalars DEF View
  <2> QED BY <1>0, <2>1, <2>2, <2>3, Scalars
<1>u. ASSUME NEW j \in Ids, NEW b, handlers'[j] = handlers[j] \/ handlers'[j].phase = "idle",
             UNCHANGED published
      PROVE  GoesOn(j, b)
  BY <1>u DEF GoesOn, Active, Replaying
<1>e. /\ <<>> \in Seq(Frames) /\ down = down \o <<>> /\ Continues(<<>>, 0, 0)
      /\ Sent(view.seen, down, 0, Len(down))
  BY <1>1, EmptySeq, ConcatEmptySeq DEF Continues, Sent
<1>2. IsFirst /\ (\E j \in Ids : Active(j)) => up = <<>>
  BY DEF BeginningInv
<1>3. ASSUME UNCHANGED <<log, published, server, socket, lastSeq, nextId, view.on, view.mount, view.seen>>
      PROVE  BeginningInv'
  BY <1>3 DEF BeginningInv, IsFirst, Catching, Active
<1>4. CASE AppendEvent
  <2>1. log' = log + 1 /\ UNCHANGED <<published, server, socket, lastSeq, nextId, view>>
    BY <1>4 DEF AppendEvent
  <2>2. \A m \in 0 .. log : m \in 0 .. log'
    BY <1>1, <2>1
  <2> QED BY <2>1, <2>2 DEF BeginningInv, IsFirst, Catching, Active
<1>5. CASE Publish
  <2> SUFFICES ASSUME IsFirst PROVE BeginningInv'
    BY <1>5 DEF BeginningInv, Publish, IsFirst
  <2>1. UNCHANGED <<log, up, sendQueue, lastSeq, nextId, view>> /\ published' = published + 1
    BY <1>5 DEF Publish
  <2>2. \A j \in Ids : handlers'[j].phase = handlers[j].phase /\ handlers'[j].last = handlers[j].last
    <3>1. ASSUME NEW i \in Ids, NEW g, g = [handlers[i] EXCEPT !.to = published + 1]
          PROVE  g.phase = handlers[i].phase /\ g.last = handlers[i].last
      <4>1. handlers[i] \in Handler
        BY <1>1
      <4> QED BY <3>1, <4>1 DEF Handler
    <3> QED BY <1>0, <1>1, <1>5, <3>1, PublishStep
  <2>3. \A j \in Ids : handlers[j].phase = "live" => listener = j
    BY <1>0 DEF ReplayInv, ReplayOf
  <2>4. CASE listener # 0 /\ handlers[listener].phase = "live"
    <3>1. PICK t \in Seq(Frames) : down' = down \o t /\ Continues(t, published, published + 1)
      BY <1>0, <1>5, <2>4, PublishStep
    <3>2. Sent(view.seen, down, published, Len(down)) /\ up = <<>>
      BY <1>1, <1>2, <2>4 DEF BeginningInv, Catching, Active
    <3>3. Brings(t, published, published + 1)
      BY <1>1, <2>1, <2>2, <3>1, <3>2 DEF Brings, GoesOn, Active
    <3> QED BY <1>0, <1>1, <3>3, BringsBeginning
  <2>5. CASE ~(listener # 0 /\ handlers[listener].phase = "live")
    <3>1. UNCHANGED down /\ UNCHANGED listener
      BY <1>0, <1>5, <2>5, PublishStep DEF Publish
    <3>2. \A j \in Ids : handlers[j].phase # "live"
      BY <1>1, <2>3, <2>5
    <3>3. \A j \in Ids : Catching(j)'
      BY <2>1, <2>2, <3>1, <3>2 DEF BeginningInv, Catching, Active
    <3>4. \A j \in Ids : Active(j)' = Active(j)
      BY <2>2 DEF Active
    <3> QED BY <2>1, <3>1, <3>3, <3>4 DEF BeginningInv
  <2> QED BY <2>4, <2>5
<1>6. CASE ReadFrame
  <2> SUFFICES ASSUME IsFirst PROVE BeginningInv'
    BY <1>6 DEF BeginningInv, ReadFrame, IsFirst
  <2>1. UNCHANGED <<store, isOpen, conns, down, sendQueue, client, view>> /\ up # <<>>
        /\ up' = Tail(up)
    BY <1>6 DEF ReadFrame
  <2>2. PICK n \in 0 .. MaxSeq : (n = 0 \/ n \in view.seen) /\ up = <<Subscribe(nextId, n)>>
    BY <2>1 DEF BeginningInv
  <2>3. /\ up' = <<>> /\ up[1].kind = "subscribe" /\ up[1].id = nextId /\ up[1].after = n
    BY <2>1, <2>2 DEF Subscribe
  <2>4. down = <<>> /\ listener = 0 /\ \A j \in Ids : ~Active(j)
    BY <2>1 DEF BeginningInv
  <2> DEFINE g == [Idle EXCEPT !.phase = "access", !.last = n, !.hi = n]
  <2>5. nextId \in Ids /\ listener' = listener /\ handlers' = [handlers EXCEPT ![nextId] = g]
    BY <1>0, <1>6, <2>3, ReadFrameStep
  <2>6. g.phase = "access" /\ g.last = n
    BY DEF Idle
  <2> HIDE DEF g
  <2>7. ASSUME NEW j \in Ids PROVE Catching(j)'
    <3>1. CASE j = nextId
      <4>1. handlers'[j] = g
        BY <1>1, <2>5, <3>1
      <4>2. Sent(view.seen, down, n, Len(down))
        BY <2>2 DEF Sent
      <4> QED BY <2>1, <2>6, <3>1, <4>1, <4>2 DEF Catching
    <3>2. CASE j # nextId
      <4>1. handlers'[j].phase = "idle"
        BY <1>1, <2>4, <2>5, <3>2 DEF Active
      <4> QED BY <4>1 DEF Catching, Active, Replaying
    <3> QED BY <3>1, <3>2
  <2> QED BY <2>1, <2>3, <2>7 DEF BeginningInv
<1>7. ASSUME NEW i \in Ids, StartReplay(i) PROVE BeginningInv'
  <2> SUFFICES ASSUME IsFirst PROVE BeginningInv'
    BY <1>7 DEF BeginningInv, StartReplay, IsFirst
  <2>1. UNCHANGED <<log, published, down, up, sendQueue, lastSeq, nextId, view>>
    BY <1>7 DEF StartReplay
  <2>2. /\ handlers[i].phase = "access"
        /\ handlers'[i].phase = "query" /\ handlers'[i].last = handlers[i].last
        /\ \A j \in Ids \ {i} : handlers'[j] = handlers[j] \/ handlers'[j].phase = "idle"
    <3>1. /\ handlers[i].phase = "access"
          /\ handlers'[i] = [handlers[i] EXCEPT !.phase = "query", !.from = published,
                                                !.to = published]
          /\ \A j \in Ids \ {i} : handlers'[j] = handlers[j] \/ handlers'[j] = Idle
      BY <1>0, <1>7, StartReplayStep
    <3>2. handlers[i] \in Handler
      BY <1>1
    <3>3. handlers'[i].phase = "query" /\ handlers'[i].last = handlers[i].last
      BY <3>1, <3>2 DEF Handler
    <3>4. Idle.phase = "idle"
      BY DEF Idle
    <3> QED BY <3>1, <3>3, <3>4
  <2>3. up = <<>>
    BY <1>2, <2>2 DEF Active
  <2>5. GoesOn(i, 0) /\ \A j \in Ids : GoesOn(j, 0)
    <3>1. GoesOn(i, 0)
      BY <2>2 DEF GoesOn, Active, Replaying
    <3> QED BY <1>u, <2>1, <2>2, <3>1
  <2>4. Brings(<<>>, 0, 0)
    BY <1>1, <1>e, <2>1, <2>3, <2>5 DEF Brings
  <2> QED BY <1>0, <1>e, <2>4, BringsBeginning
<1>8. ASSUME NEW i \in Ids, ReadPage(i) PROVE BeginningInv'
  <2> SUFFICES ASSUME IsFirst PROVE BeginningInv'
    BY <1>8 DEF BeginningInv, ReadPage, IsFirst
  <2>1. UNCHANGED <<log, published, down, up, sendQueue, lastSeq, nextId, view>>
    BY <1>8 DEF ReadPage
  <2>2. PICK n \in 0 .. MaxSeq :
          handlers' = [handlers EXCEPT ![i] = [handlers[i] EXCEPT !.phase = "page", !.hi = n]]
    BY <1>0, <1>8, ReadPageStep
  <2> DEFINE g == [handlers[i] EXCEPT !.phase = "page", !.hi = n]
  <2>3. /\ handlers[i].phase = "query" /\ g.phase = "page" /\ g.last = handlers[i].last
    BY <1>0, <1>8, Types DEF ReadPage, Handler
  <2> HIDE DEF g
  <2>4. handlers'[i] = g /\ \A j \in Ids \ {i} : handlers'[j] = handlers[j]
    BY <1>1, <2>2 DEF g
  <2>5. up = <<>>
    BY <1>2, <2>3 DEF Active
  <2>7. \A j \in Ids : GoesOn(j, 0)
    <3>1. GoesOn(i, 0)
      BY <2>3, <2>4 DEF GoesOn, Active, Replaying
    <3> QED BY <1>u, <2>1, <2>4, <3>1
  <2>6. Brings(<<>>, 0, 0)
    BY <1>1, <1>e, <2>1, <2>5, <2>7 DEF Brings
  <2> QED BY <1>0, <1>e, <2>6, BringsBeginning
<1>9. ASSUME NEW i \in Ids, SendPage(i) PROVE BeginningInv'
  <2> SUFFICES ASSUME IsFirst PROVE BeginningInv'
    BY <1>9 DEF BeginningInv, SendPage, IsFirst
  <2> DEFINE h == handlers[i]
  <2>1. UNCHANGED <<log, published, listener, up, sendQueue, lastSeq, nextId, view>>
    BY <1>9 DEF SendPage
  <2>2. h.phase = "page" /\ up = <<>> /\ Sent(view.seen, down, h.last, Len(down))
    BY <1>2, <1>9 DEF SendPage, Active, BeginningInv, Catching, Replaying
  <2>3. PICK t \in Seq(Frames) :
          /\ down' = down \o t
          /\ \/ /\ Continues(t, h.last, h.hi)
                /\ handlers' = [handlers EXCEPT ![i] = [h EXCEPT !.phase = "query", !.last = h.hi]]
             \/ /\ Continues(t, h.last, Later(h.hi, h.to))
                /\ handlers' = [handlers EXCEPT ![i] =
                     IF listener = i THEN [Idle EXCEPT !.phase = "live"] ELSE Idle]
    BY <1>0, <1>9, SendPageStep
  <2>4. CASE /\ Continues(t, h.last, h.hi)
             /\ handlers' = [handlers EXCEPT ![i] = [h EXCEPT !.phase = "query", !.last = h.hi]]
    <3>1. handlers'[i].phase = "query" /\ handlers'[i].last = h.hi
          /\ \A j \in Ids \ {i} : handlers'[j] = handlers[j]
      BY <1>0, <1>1, <2>4, Types DEF Handler
    <3>3. \A j \in Ids : GoesOn(j, h.hi)
      <4>1. GoesOn(i, h.hi)
        BY <1>1, <2>2, <3>1 DEF GoesOn, Active, Replaying
      <4> QED BY <1>u, <2>1, <3>1, <4>1
    <3>2. Brings(t, h.last, h.hi)
      BY <1>1, <2>1, <2>2, <2>3, <2>4, <3>3 DEF Brings
    <3> QED BY <1>0, <1>1, <3>2, BringsBeginning
  <2>5. CASE /\ Continues(t, h.last, Later(h.hi, h.to))
             /\ handlers' = [handlers EXCEPT ![i] =
                     IF listener = i THEN [Idle EXCEPT !.phase = "live"] ELSE Idle]
    <3>1. /\ handlers'[i].phase = (IF listener = i THEN "live" ELSE "idle")
          /\ \A j \in Ids \ {i} : handlers'[j] = handlers[j]
      BY <1>1, <2>5 DEF Idle
    <3>2. listener = i => h.to = published
      BY <1>0, <2>2 DEF ReplayInv, ReplayOf, Replaying
    <3>3. Later(h.hi, h.to) \in Nat /\ (listener = i => published <= Later(h.hi, h.to))
      BY <1>1, <3>2 DEF Later
    <3>5. \A j \in Ids : GoesOn(j, Later(h.hi, h.to))
      <4>1. GoesOn(i, Later(h.hi, h.to))
        BY <1>1, <2>1, <2>2, <3>1, <3>3 DEF GoesOn, Active, Replaying
      <4> QED BY <1>u, <2>1, <3>1, <4>1
    <3>4. Brings(t, h.last, Later(h.hi, h.to))
      BY <1>1, <2>1, <2>2, <2>3, <2>5, <3>5 DEF Brings
    <3> QED BY <1>0, <1>1, <3>3, <3>4, BringsBeginning
  <2> QED BY <2>3, <2>4, <2>5
<1>10. ASSUME NEW i \in Ids, RefuseSubscribe(i) PROVE BeginningInv'
  <2> SUFFICES ASSUME IsFirst PROVE BeginningInv'
    BY <1>10 DEF BeginningInv, RefuseSubscribe, IsFirst
  <2>1. UNCHANGED <<log, published, up, sendQueue, lastSeq, nextId, view>>
    BY <1>10 DEF RefuseSubscribe
  <2>2. /\ handlers[i].phase = "access" /\ handlers' = [handlers EXCEPT ![i] = Idle]
        /\ \E t \in Seq(Frames) : down' = down \o t /\ t = <<Reply(i, FALSE)>>
    BY <1>0, <1>10, RefuseStep
  <2> DEFINE e == Reply(i, FALSE)
  <2>4. e.kind = "error" /\ e \in Frames
    BY DEF Reply, Frames
  <2> HIDE DEF e
  <2>5. PICK t \in Seq(Frames) : down' = down \o t /\ t = <<e>>
    BY <2>2 DEF e
  <2>6. DOMAIN t = {1} /\ t[1] = e
    BY <2>4, <2>5, One
  <2>7. Continues(t, 0, 0)
    BY <2>4, <2>6 DEF Continues
  <2>8. handlers'[i].phase = "idle" /\ handlers[i].phase = "access"
        /\ \A j \in Ids \ {i} : handlers'[j] = handlers[j]
    BY <1>1, <2>2 DEF Idle
  <2>9. up = <<>>
    BY <1>2, <2>8 DEF Active
  <2>10. down' = down \o t
    BY <2>5
  <2>12. \A j \in Ids : GoesOn(j, 0)
    BY <1>u, <2>1, <2>8
  <2>11. Brings(t, 0, 0)
    BY <1>1, <1>e, <2>1, <2>7, <2>9, <2>10, <2>12 DEF Brings
  <2> QED BY <1>0, <2>11, BringsBeginning
<1>11. CASE Receive
  <2>1. /\ isOpen /\ UNCHANGED <<store, server, isOpen, conns, up, sendQueue, nextId>>
        /\ down # <<>> /\ down' = Tail(down)
    BY <1>11 DEF Receive
  <2>2. Head(down) = down[1] /\ 1 \in DOMAIN down /\ down[1] \in Frames
    BY <1>1, <2>1, Removed
  <2>3. /\ view'.on = view.on /\ view'.mount = view.mount
        /\ \/ /\ down[1].kind = "events" /\ lastSeq' = down[1].hi
              /\ view.on => view'.seen = view.seen \cup (down[1].lo .. down[1].hi)
           \/ down[1].kind # "events" /\ lastSeq' = lastSeq /\ view'.seen = view.seen
    <3>1. CASE down[1].kind = "events" /\ ReceiveEvents(down[1])
      BY <1>1, <3>1 DEF ReceiveEvents, View
    <3>2. ASSUME NEW ok \in BOOLEAN, down[1].kind # "events", ReceiveReply(down[1], ok) PROVE <2>3
      BY <1>1, <3>2 DEF ReceiveReply, Answered, View
    <3> QED BY <1>11, <2>2, <3>1, <3>2 DEF Receive
  <2> SUFFICES ASSUME IsFirst PROVE BeginningInv'
    BY <2>3 DEF BeginningInv, IsFirst
  <2>4. PICK m \in 0 .. log : view.seen = 1 .. m
    BY DEF BeginningInv
  <2>5. up = <<>> /\ InOrder(1 .. m, down) /\ sendQueue = <<>>
    BY <2>1, <2>4 DEF BeginningInv
  <2>6. \A k \in DOMAIN down : down[k].kind = "events" =>
          1 <= down[k].lo /\ down[k].lo <= down[k].hi /\ down[k].hi <= log
    BY <1>0 DEF WireInv, FramesInv, IsEvents
  <2>7. /\ view'.seen = 1 .. (IF down[1].kind = "events" THEN Later(m, down[1].hi) ELSE m)
        /\ InOrder(view'.seen, down')
        /\ \A n \in Nat : Sent(1 .. m, down, n, Len(down)) => Sent(view'.seen, down', n, Len(down'))
    <3>1. m \in Nat
      BY <1>1
    <3>2. \/ down[1].kind = "events" /\ view'.seen = (1 .. m) \cup (down[1].lo .. down[1].hi)
          \/ down[1].kind # "events" /\ view'.seen = 1 .. m
      BY <2>3, <2>4 DEF IsFirst
    <3> QED BY <1>1, <2>1, <2>5, <2>6, <3>1, <3>2, Shown
  <2>8. \E n \in 0 .. log' : view'.seen = 1 .. n
    <3>1. (IF down[1].kind = "events" THEN Later(m, down[1].hi) ELSE m) \in 0 .. log'
      <4>1. CASE down[1].kind = "events"
        <5>1. down[1].hi \in Nat /\ down[1].hi <= log /\ log' = log
          BY <2>1, <2>2, <2>6, <4>1 DEF Frames
        <5> QED BY <1>1, <4>1, <5>1 DEF Later
      <4>2. CASE down[1].kind # "events"
        BY <2>1, <4>2
      <4> QED BY <4>1, <4>2
    <3> QED BY <2>7, <3>1
  <2>9. lastSeq' = 0 \/ lastSeq' \in view'.seen
    <3>1. CASE down[1].kind = "events"
      <4>1. down[1].hi \in 1 .. Later(m, down[1].hi)
        BY <1>1, <2>2, <2>6, <3>1 DEF Later, Frames
      <4> QED BY <2>3, <2>7, <3>1, <4>1
    <3>2. CASE down[1].kind # "events"
      BY <2>3, <3>2 DEF BeginningInv
    <3> QED BY <3>1, <3>2
  <2>10. ASSUME NEW j \in Ids PROVE Catching(j)'
    <3>1. Catching(j)
      BY DEF BeginningInv
    <3> QED BY <1>1, <2>1, <2>4, <2>7, <3>1 DEF Catching, Active
  <2> QED BY <2>1, <2>5, <2>7, <2>8, <2>9, <2>10 DEF BeginningInv
<1>12. CASE Open
  <2> SUFFICES ASSUME IsFirst PROVE BeginningInv'
    BY <1>12 DEF BeginningInv, Open, IsFirst
  <2>1. /\ ~isOpen /\ sendQueue' = <<>> /\ UNCHANGED <<store, server, down, lastSeq, view>>
    BY <1>12 DEF Open
  <2>2. subscribed /\ sendQueue = <<>>
    BY <1>0 DEF ClientInv, IsFirst, BeginningInv
  <2>3. nextId' = nextId + 1 /\ up' = <<Subscribe(nextId', lastSeq)>>
    BY <1>12, <2>2 DEF Open
  <2>4. down = <<>> /\ \A j \in Ids : ~Active(j)
    BY <1>0, <2>1 DEF WireInv
  <2>5. listener = 0
    BY <1>0, <1>1, <2>4 DEF ReplayInv, Active, Replaying
  <2>6. \A j \in Ids : Catching(j)' /\ ~(Active(j)')
    BY <2>1, <2>4 DEF Catching, Active, Replaying
  <2>7. /\ lastSeq = 0 \/ lastSeq \in view.seen
        /\ \E m \in 0 .. log : view.seen = 1 .. m
        /\ InOrder(view.seen, down)
    BY DEF BeginningInv
  <2> QED BY <1>1, <2>1, <2>3, <2>4, <2>5, <2>6, <2>7 DEF BeginningInv
<1>13. CASE Mount
  <2> SUFFICES ASSUME IsFirst' PROVE BeginningInv'
    BY DEF BeginningInv
  <2>1. /\ view'.mount = view.mount + 1 /\ view'.seen = {}
        /\ UNCHANGED <<store, server, isOpen, conns, down, sendQueue, lastSeq>>
    BY <1>13 DEF Mount
  <2>2. view.mount = 0
    BY <1>1, <2>1 DEF IsFirst
  <2>3. nextId = 0 /\ lastSeq = 0 /\ sendQueue = <<>> /\ up = <<>> /\ down = <<>>
    BY <1>0, <2>2 DEF ClientInv
  <2>4. \A j \in Ids : ~Active(j)
    BY <1>0, <2>3 DEF WireInv
  <2>5. listener = 0
    BY <1>0, <1>1, <2>4 DEF ReplayInv, Active, Replaying
  <2>6. \A j \in Ids : Catching(j)' /\ ~(Active(j)')
    BY <2>1, <2>4 DEF Catching, Active, Replaying
  <2>7. up' = <<>> \/ up' = <<Subscribe(nextId', 0)>>
    <3>1. CASE isOpen
      <4>1. up' = Append(up, Subscribe(nextId + 1, 0)) /\ nextId' = nextId + 1
        BY <1>13, <3>1 DEF Mount
      <4> QED BY <2>3, <4>1
    <3>2. CASE ~isOpen
      BY <1>13, <2>3, <3>2 DEF Mount
    <3> QED BY <3>1, <3>2
  <2>8. 0 \in 0 .. log /\ 1 .. 0 = {} /\ 0 \in 0 .. MaxSeq
    BY <1>1
  <2>9. InOrder(view'.seen, down')
    BY <2>1, <2>3 DEF InOrder
  <2>10. up' # <<>> => \E n \in 0 .. MaxSeq : /\ n = 0 \/ n \in view'.seen
                                              /\ up' = <<Subscribe(nextId', n)>>
    BY <2>7, <2>8
  <2>11. \E m \in 0 .. log' : view'.seen = 1 .. m
    BY <2>1, <2>8
  <2> QED BY <2>1, <2>3, <2>5, <2>6, <2>9, <2>10, <2>11 DEF BeginningInv
<1>14. CASE Unmount
  <2>1. view'.on = FALSE
    BY <1>1, <1>14 DEF Unmount, View
  <2> QED BY <2>1 DEF BeginningInv, IsFirst
<1>15. CASE Drop
  <2>1. /\ view'.on = view.on /\ view'.mount = view.mount /\ view'.seen = view.seen
    BY <1>1, <1>15 DEF Drop, View
  <2>2. /\ up' = <<>> /\ down' = <<>> /\ handlers' = [j \in Ids |-> Idle]
        /\ UNCHANGED <<store, sendQueue, lastSeq>>
    BY <1>15 DEF Drop
  <2>3. \A j \in Ids : Catching(j)'
    BY <2>2 DEF Catching, Active, Idle, Replaying
  <2>4. InOrder(view'.seen, down')
    BY <2>2 DEF InOrder
  <2> QED BY <2>1, <2>2, <2>3, <2>4 DEF BeginningInv, IsFirst
<1>16. CASE TimeOut
  <2>1. view'.on = view.on /\ view'.mount = view.mount /\ view'.seen = view.seen
    BY <1>1, <1>16 DEF TimeOut, Answered, View
  <2> QED BY <1>3, <1>16, <2>1 DEF TimeOut
<1>17. CASE UNCHANGED vars
  BY <1>3, <1>17 DEF vars
<1> QED
  BY <1>4, <1>5, <1>6, <1>7, <1>8, <1>9, <1>10, <1>11, <1>12, <1>13, <1>14, <1>15, <1>16, <1>17
     DEF Next, ServerStep, ClientStep

(* What the chat shows changes as ThreadFeed lets it.                      *)
LEMMA FeedStep ==
  ASSUME ChannelInv, ChannelInv', BeginningInv, BeginningInv', [Next]_vars
  PROVE  [Feed!Happens \/ Feed!Shows \/ Feed!Closes]_<<log, IF view.mount = 1 THEN view.seen ELSE {}>>
<1> DEFINE shows == IF view.mount = 1 THEN view.seen ELSE {}
<1> USE DEF Feed!Happens, Feed!Shows, Feed!Closes
<1>0. /\ view \in View /\ view.mount \in Nat /\ log \in Nat
      /\ down \in Seq(Frames)
  BY Types, Scalars DEF ChannelInv, View
<1>1. ASSUME UNCHANGED log, view'.mount = view.mount, view'.seen = view.seen
      PROVE  UNCHANGED <<log, shows>>
  BY <1>1
<1>2. CASE AppendEvent
  <2>1. log' = log + 1 /\ UNCHANGED view
    BY <1>2 DEF AppendEvent
  <2>2. Feed!Happens
    BY <2>1
  <2> QED BY <2>2
<1>3. CASE ServerStep \/ (\E i \in Ids : RefuseSubscribe(i)) \/ Open
  <2>1. UNCHANGED <<log, view>>
    BY <1>3 DEF ServerStep, Publish, ReadFrame, StartReplay, ReadPage, SendPage, RefuseSubscribe, Open
  <2> QED BY <1>1, <2>1
<1>4. CASE Receive
  <2>1. /\ UNCHANGED log /\ down # <<>>
    BY <1>4 DEF Receive
  <2>2. Head(down) = down[1] /\ 1 \in DOMAIN down /\ down[1] \in Frames
    BY <1>0, <2>1, Removed
  <2>3. CASE view'.seen = view.seen /\ view'.mount = view.mount
    BY <1>1, <2>1, <2>3
  <2>4. CASE /\ view.on /\ view'.on = view.on /\ view'.mount = view.mount
             /\ view'.seen = view.seen \cup (down[1].lo .. down[1].hi)
             /\ down[1].kind = "events"
    <3>1. CASE view.mount = 1
      <4>1. PICK n \in 0 .. log : view'.seen = 1 .. n
        BY <2>1, <2>4, <3>1 DEF BeginningInv, IsFirst
      <4>2. down[1].lo \in 1 .. log /\ down[1].lo <= down[1].hi /\ down[1].lo \in Nat
            /\ down[1].hi \in Nat
        BY <1>0, <2>2, <2>4 DEF ChannelInv, WireInv, FramesInv, IsEvents, Frames
      <4>3. down[1].lo \in 1 .. n
        BY <2>4, <4>1, <4>2
      <4>4. n \in 1 .. log
        BY <1>0, <4>1, <4>3
      <4>5. shows' = 1 .. n /\ shows \subseteq shows'
        BY <2>4, <3>1, <4>1
      <4>6. Feed!Shows
        BY <2>1, <4>4, <4>5
      <4> QED BY <4>6
    <3>2. CASE view.mount # 1
      BY <2>1, <2>4, <3>2
    <3> QED BY <3>1, <3>2
  <2>5. CASE ReceiveEvents(down[1]) /\ down[1].kind = "events"
    BY <1>0, <2>3, <2>4, <2>5 DEF ReceiveEvents, View
  <2>6. ASSUME NEW ok \in BOOLEAN, ReceiveReply(down[1], ok)
        PROVE  view'.seen = view.seen /\ view'.mount = view.mount
    BY <1>0, <2>6 DEF ReceiveReply, Answered, View
  <2> QED BY <1>4, <2>2, <2>3, <2>5, <2>6 DEF Receive
<1>5. CASE Mount
  <2>1. view'.mount = view.mount + 1 /\ view'.seen = {} /\ UNCHANGED log
    BY <1>5 DEF Mount
  <2>2. Feed!Closes
    BY <2>1
  <2> QED BY <2>2
<1>6. CASE Unmount
  <2>1. view'.mount = view.mount /\ view'.seen = {} /\ UNCHANGED log
    BY <1>0, <1>6 DEF Unmount, View
  <2>2. Feed!Closes
    BY <2>1
  <2> QED BY <2>2
<1>7. CASE Drop \/ TimeOut
  <2>1. view'.mount = view.mount /\ view'.seen = view.seen /\ UNCHANGED log
    BY <1>0, <1>7 DEF Drop, TimeOut, Answered, View
  <2> QED BY <1>1, <2>1
<1>8. CASE UNCHANGED vars
  BY <1>1, <1>8 DEF vars
<1> QED
  BY <1>2, <1>3, <1>4, <1>5, <1>6, <1>7, <1>8 DEF Next, ClientStep

(* The first chat of a thread shows a beginning of the log that only       *)
(* grows, whatever page (sessions-ws.ts), live event or reconnect          *)
(* (sessions-client.ts, onConnectionOpened) brings it: the live channel    *)
(* implements ThreadFeed, step by step.                                    *)
THEOREM FeedImplemented == Spec => ShowsABeginning
<1>1. Init => ChannelInv /\ BeginningInv
  <2>1. Init => view.mount = 0
    BY DEF Init
  <2> QED BY <2>1, ChannelInvInit DEF BeginningInv, IsFirst
<1>2. ChannelInv /\ [Next]_vars => ChannelInv'
  BY ChannelInvKept
<1>3. ChannelInv /\ ChannelInv' /\ BeginningInv /\ [Next]_vars => BeginningInv'
  BY BeginningKept
<1>4. Init => Feed!Init
  BY DEF Init, Feed!Init
<1>5. ChannelInv /\ ChannelInv' /\ BeginningInv /\ BeginningInv' /\ [Next]_vars =>
        [Feed!Happens \/ Feed!Shows \/ Feed!Closes]_<<log, IF view.mount = 1 THEN view.seen ELSE {}>>
  BY FeedStep
<1> QED
  BY <1>1, <1>2, <1>3, <1>4, <1>5, PTL DEF Spec, ShowsABeginning, Feed!Spec

-----------------------------------------------------------------------------
(* What is on its way stays so, and what continues it is on its way too.   *)
LEMMA CoveredMore ==
  ASSUME NEW seen, NEW s \in Seq(Frames), NEW t \in Seq(Frames), NEW a \in Nat, NEW b \in Nat,
         Covered(seen, s, a, b)
  PROVE  /\ Covered(seen, s \o t, a, b)
         /\ \A c \in Nat : \A d \in Nat :
              Continues(t, b, c) /\ d <= c => Covered(seen, s \o t, a, d)
<1> DEFINE u == s \o t
<1>1. /\ DOMAIN s = 1 .. Len(s) /\ Len(s) \in Nat /\ DOMAIN t = 1 .. Len(t) /\ Len(t) \in Nat
  BY LenProperties
<1>2. /\ u \in Seq(Frames) /\ Len(u) = Len(s) + Len(t)
      /\ \A k \in 1 .. Len(s) + Len(t) : u[k] = IF k <= Len(s) THEN s[k] ELSE t[k - Len(s)]
  BY ConcatProperties
<1>3. DOMAIN u = 1 .. Len(s) + Len(t)
  BY <1>2, LenProperties
<1> HIDE DEF u
<1>4. \A k \in DOMAIN s : k \in DOMAIN u /\ u[k] = s[k]
  BY <1>1, <1>2, <1>3
<1>5. ASSUME NEW k \in DOMAIN t PROVE Len(s) + k \in DOMAIN u /\ u[Len(s) + k] = t[k]
  <2>1. Len(s) + k - Len(s) = k /\ ~(Len(s) + k <= Len(s)) /\ Len(s) + k \in 1 .. Len(s) + Len(t)
    BY <1>1
  <2> QED BY <1>2, <1>3, <2>1
<1>6. Covered(seen, u, a, b)
  BY <1>4 DEF Covered, OnItsWay
<1>7. ASSUME NEW c \in Nat, NEW d \in Nat, Continues(t, b, c), d <= c,
             NEW n \in Seqs, a < n, n <= d
      PROVE  OnItsWay(seen, u, n)
  <2>1. CASE n <= b
    BY <1>6, <1>7, <2>1 DEF Covered
  <2>2. CASE b < n
    <3>1. PICK k \in DOMAIN t : t[k].kind = "events" /\ t[k].lo <= n /\ n <= t[k].hi
      BY <1>7, <2>2 DEF Continues
    <3> QED BY <1>5, <3>1 DEF OnItsWay
  <2> QED BY <2>1, <2>2
<1> QED BY <1>6, <1>7 DEF Covered, u

(* A frame of events that is received is shown.                            *)
LEMMA CoveredShown ==
  ASSUME NEW seen, NEW s \in Seq(Frames), s # <<>>, NEW t, t = Tail(s), NEW seen2,
         seen \subseteq seen2,
         s[1].kind = "events" => s[1].lo .. s[1].hi \subseteq seen2,
         NEW a, NEW b, Covered(seen, s, a, b)
  PROVE  Covered(seen2, t, a, b)
<1>1. /\ Len(s) \in Nat \ {0} /\ DOMAIN s = 1 .. Len(s) /\ DOMAIN t = 1 .. Len(s) - 1
      /\ \A k \in DOMAIN t : k + 1 \in DOMAIN s /\ t[k] = s[k + 1]
  BY Removed
<1>2. \A k \in DOMAIN s : s[k].lo \in Nat /\ s[k].hi \in Nat
  <2>1. \A k \in DOMAIN s : s[k] \in Frames
    BY <1>1, ElementOfSeq
  <2> QED BY <2>1 DEF Frames
<1>3. ASSUME NEW n \in Seqs, OnItsWay(seen, s, n) PROVE OnItsWay(seen2, t, n)
  <2>1. CASE n \in seen
    BY <2>1 DEF OnItsWay
  <2>2. CASE \E k \in DOMAIN s : s[k].kind = "events" /\ s[k].lo <= n /\ n <= s[k].hi
    <3>1. PICK k \in DOMAIN s : s[k].kind = "events" /\ s[k].lo <= n /\ n <= s[k].hi
      BY <2>2
    <3>2. CASE k = 1
      <4>1. n \in s[1].lo .. s[1].hi
        BY <1>2, <3>1, <3>2
      <4> QED BY <3>1, <3>2, <4>1 DEF OnItsWay
    <3>3. CASE k # 1
      <4>1. k - 1 \in DOMAIN t /\ (k - 1) + 1 = k
        BY <1>1, <3>3
      <4>2. t[k - 1] = s[(k - 1) + 1]
        BY <1>1, <4>1
      <4> QED BY <3>1, <4>1, <4>2 DEF OnItsWay
    <3> QED BY <3>2, <3>3
  <2> QED BY <1>3, <2>1, <2>2 DEF OnItsWay
<1> QED BY <1>3 DEF Covered

(* A step of another handler, or of the runtime: who listens goes on from  *)
(* what it has sent, or begins with what it was asked for.                 *)
GoesOnListening(t) ==
  \/ listener' = 0 /\ listener = 0
  \/ /\ listener' = listener /\ listener # 0
     /\ \/ Reaches(listener)' = Reaches(listener)
        \/ \E c \in Nat : Continues(t, Reaches(listener), c) /\ Reaches(listener)' <= c
  \/ /\ listener' # 0 /\ listener' # nextId
     /\ handlers[listener'].phase = "access" /\ Reaches(listener)' = handlers[listener'].last
Aside(t) ==
  /\ down' = down \o t /\ UNCHANGED <<up, nextId, view>>
  /\ \A k \in DOMAIN t : t[k].kind = "reply" => t[k].lo # nextId
  /\ \/ /\ handlers'[nextId].phase = handlers[nextId].phase
        /\ handlers'[nextId].last = handlers[nextId].last
        /\ handlers'[nextId].hi = handlers[nextId].hi
     \/ handlers'[nextId].phase = "idle"
  /\ \A j \in Ids : handlers'[j].phase = "access" =>
       handlers[j].phase = "access" /\ handlers'[j].last = handlers[j].last
  /\ GoesOnListening(t)

(* Such a step loses nothing of what the chat's own subscribe was sent.    *)
LEMMA AsideKeeps ==
  ASSUME TypeOK, TypeOK', CompleteInv, IsSame, NEW t \in Seq(Frames), Aside(t)
  PROVE  CompleteInv'
<1>1. /\ \A j \in Ids : handlers[j].last \in Nat /\ handlers[j].hi \in Nat
      /\ \A j \in Ids : handlers'[j].last \in Nat
      /\ down \in Seq(Frames) /\ Len(down) \in Nat /\ published \in Nat /\ published' \in Nat
      /\ listener \in Ids \cup {0} /\ listener' \in Ids \cup {0} /\ nextId \in Nat
  <2>1. \A j \in Ids : handlers'[j].last \in Nat
    <3>1. handlers' \in [Ids -> Handler]
      BY DEF TypeOK
    <3> QED BY <3>1 DEF Handler
  <2>2. published' \in 0 .. log' /\ listener' \in Ids \cup {0} /\ log' \in 0 .. MaxSeq
    BY DEF TypeOK
  <2>3. \A j \in Ids : handlers[j].last \in Nat /\ handlers[j].hi \in Nat
    <3>1. \A j \in Ids : handlers[j] \in Handler
      BY Types
    <3> QED BY <3>1 DEF Handler
  <2>4. published' \in Nat
    BY <2>2
  <2> QED BY <2>1, <2>2, <2>3, <2>4, Types, Scalars
<1>2. OwnInv /\ EndingInv /\ AnsweredInv /\ nextId \in Ids
  BY <1>1, Scalars DEF CompleteInv, OwnInv
<1>3. /\ down' = down \o t /\ UNCHANGED <<up, nextId, view>>
  BY DEF Aside
<1>4. \A a \in Nat : \A b \in Nat : Covered(view.seen, down, a, b) => Covered(view.seen, down', a, b)
  BY <1>1, <1>3, CoveredMore
<1>5. IsAnswered' => IsAnswered
  <2> SUFFICES ASSUME NEW k \in DOMAIN down', down'[k].kind = "reply", down'[k].lo = nextId
               PROVE  IsAnswered
    BY <1>3 DEF IsAnswered
  <2>1. CASE k \in DOMAIN down
    BY <1>3, <2>1, Extended DEF IsAnswered
  <2>2. CASE k \notin DOMAIN down
    BY <1>3, <2>2, Extended DEF Aside
  <2> QED BY <2>1, <2>2
<1>6. \/ /\ handlers'[nextId].phase = handlers[nextId].phase
         /\ handlers'[nextId].last = handlers[nextId].last
         /\ handlers'[nextId].hi = handlers[nextId].hi
      \/ handlers'[nextId].phase = "idle"
  BY DEF Aside
<1>7. ASSUME NEW a \in Nat, listener # 0 /\ listener # nextId => Covered(view.seen, down, a, Reaches(listener)),
             a = 0 /\ listener = nextId => Covered(view.seen, down, a, Reaches(listener)),
             \A j \in Ids : handlers[j].phase = "access" =>
               Covered(view.seen, down, a, handlers[j].last),
             listener' # 0, a = 0 \/ listener' # nextId
      PROVE  Covered(view.seen, down', a, Reaches(listener)')
  <2>1. CASE listener' = listener /\ listener # 0
             /\ \E c \in Nat : Continues(t, Reaches(listener), c) /\ Reaches(listener)' <= c
    <3>1. PICK c \in Nat : Continues(t, Reaches(listener), c) /\ Reaches(listener)' <= c
      BY <2>1
    <3>2. Covered(view.seen, down, a, Reaches(listener))
      BY <1>7, <2>1
    <3>3. Reaches(listener) \in Nat /\ Reaches(listener)' \in Nat
      BY <1>1, <2>1 DEF Reaches
    <3> HIDE DEF Reaches
    <3> QED BY <1>1, <1>3, <3>1, <3>2, <3>3, CoveredMore
  <2>3. CASE listener' = listener /\ listener # 0 /\ Reaches(listener)' = Reaches(listener)
    <3>1. Covered(view.seen, down, a, Reaches(listener))
      BY <1>7, <2>3
    <3>2. Reaches(listener) \in Nat
      BY <1>1, <2>3 DEF Reaches
    <3>3. Covered(view.seen, down', a, Reaches(listener))
      <4> HIDE DEF Reaches
      <4> QED BY <1>4, <3>1, <3>2
    <3> HIDE DEF Reaches
    <3> QED BY <2>3, <3>3
  <2>2. CASE /\ listener' # nextId /\ handlers[listener'].phase = "access"
             /\ Reaches(listener)' = handlers[listener'].last
    <3>1. listener' \in Ids
      BY <1>1, <1>7
    <3>2. Covered(view.seen, down, a, handlers[listener'].last)
      BY <1>7, <2>2, <3>1
    <3> QED BY <1>1, <1>4, <2>2, <3>1, <3>2
  <2> QED BY <1>7, <2>1, <2>2, <2>3 DEF Aside, GoesOnListening
<1>8. OwnInv'
  <2>1. listener # 0 => listener' # 0
    BY DEF Aside, GoesOnListening
  <2>2. handlers'[nextId].phase \in Replaying =>
          Covered(view.seen, down', 0, handlers'[nextId].last) /\ listener' # 0
    BY <1>1, <1>2, <1>4, <1>6, <2>1 DEF OwnInv, Replaying
  <2>3. Active(nextId)' => Active(nextId)
    BY <1>3, <1>6 DEF Active
  <2>4. handlers'[nextId].phase = "access" => handlers'[nextId].last = 0
    BY <1>2, <1>6 DEF OwnInv
  <2> QED BY <1>2, <1>3, <1>5, <2>2, <2>3, <2>4 DEF OwnInv
<1>9. EndingInv'
  <2> SUFFICES ASSUME handlers'[nextId].phase = "page",
                      handlers'[nextId].hi < handlers'[nextId].last + PageSize
               PROVE  /\ \A j \in Ids : handlers'[j].phase = "access" =>
                           handlers'[j].last <= handlers'[nextId].hi
                      /\ listener' # nextId =>
                           Covered(view.seen, down', handlers'[nextId].hi, Reaches(listener)')
    BY <1>3 DEF EndingInv
  <2> DEFINE hi == handlers[nextId].hi
  <2>1. /\ handlers[nextId].phase = "page" /\ hi < handlers[nextId].last + PageSize
        /\ handlers'[nextId].hi = hi /\ hi \in Nat
    BY <1>1, <1>2, <1>6
  <2>2. /\ \A j \in Ids : handlers[j].phase = "access" => handlers[j].last <= hi
        /\ listener # nextId => Covered(view.seen, down, hi, Reaches(listener))
        /\ listener # 0
    BY <1>2, <2>1 DEF EndingInv, OwnInv, Replaying
  <2> HIDE DEF hi
  <2>3. \A j \in Ids : handlers'[j].phase = "access" => handlers'[j].last <= hi
    BY <2>2 DEF Aside
  <2>4. \A j \in Ids : handlers[j].phase = "access" => Covered(view.seen, down, hi, handlers[j].last)
    BY SMTT(30), <1>1, <2>1, <2>2 DEF Covered
  <2>5. listener' # 0
    BY <2>2 DEF Aside, GoesOnListening
  <2>6. CASE hi # 0
    BY <1>7, <2>1, <2>2, <2>3, <2>4, <2>5, <2>6
  <2>7. CASE hi = 0
    <3>1. listener' # nextId /\ listener = nextId =>
            Covered(view.seen, down', 0, Reaches(listener)')
      <4> SUFFICES ASSUME listener' # nextId, listener = nextId
                   PROVE  Covered(view.seen, down', 0, Reaches(listener)')
        OBVIOUS
      <4>1. /\ handlers[listener'].phase = "access" /\ listener' \in Ids
            /\ Reaches(listener)' = handlers[listener'].last
        BY <1>1, <2>5 DEF Aside, GoesOnListening
      <4> QED BY <1>1, <1>4, <2>4, <2>7, <4>1
    <3>2. listener' # nextId /\ listener # nextId =>
            Covered(view.seen, down', 0, Reaches(listener)')
      BY <1>7, <2>2, <2>4, <2>5, <2>7
    <3> QED BY <2>1, <2>3, <2>7, <3>1, <3>2
  <2> QED BY <2>6, <2>7
<1>10. AnsweredInv'
  <2> SUFFICES ASSUME IsAnswered
               PROVE  /\ handlers'[nextId].phase \in {"idle", "live"}
                      /\ \A j \in Ids : handlers'[j].phase = "access" =>
                           Covered(view.seen, down', 0, handlers'[j].last)
                      /\ listener' # 0 => Covered(view.seen, down', 0, Reaches(listener)')
    BY <1>3, <1>5 DEF AnsweredInv
  <2>1. /\ handlers[nextId].phase \in {"idle", "live"}
        /\ \A j \in Ids : handlers[j].phase = "access" =>
             Covered(view.seen, down, 0, handlers[j].last)
        /\ listener # 0 => Covered(view.seen, down, 0, Reaches(listener))
    BY <1>2 DEF AnsweredInv
  <2>2. handlers'[nextId].phase \in {"idle", "live"}
    BY <1>6, <2>1
  <2>3. \A j \in Ids : handlers'[j].phase = "access" =>
          Covered(view.seen, down', 0, handlers'[j].last)
    BY <1>1, <1>4, <2>1 DEF Aside
  <2>4. listener' # 0 => Covered(view.seen, down', 0, Reaches(listener)')
    <3> SUFFICES ASSUME listener' # 0 PROVE Covered(view.seen, down', 0, Reaches(listener)')
      OBVIOUS
    <3>1. 0 \in Nat /\ (listener # 0 => Covered(view.seen, down, 0, Reaches(listener)))
      BY <2>1
    <3>2. listener = nextId => listener # 0
      BY <1>2, Scalars
    <3> HIDE DEF Reaches
    <3> QED BY <1>7, <2>1, <3>1, <3>2
  <2> QED BY <2>2, <2>3, <2>4
<1> QED BY <1>8, <1>9, <1>10 DEF CompleteInv

(* The subscribe of the chat is the last request read; once it has sent    *)
(* its last page, so much is on its way.                                   *)
LEMMA CompleteKept ==
  ASSUME ChannelInv, ChannelInv', CompleteInv, [Next]_vars
  PROVE  CompleteInv'
<1>0. TypeOK /\ TypeOK' /\ WireInv /\ ClientInv /\ ReplayInv /\ ReplayInv'
  BY DEF ChannelInv
<1>1. /\ handlers \in [Ids -> Handler] /\ \A j \in Ids : handlers[j] \in Handler
      /\ down \in Seq(Frames) /\ DOMAIN down = 1 .. Len(down) /\ Len(down) \in Nat
      /\ up \in Seq(Requests) /\ DOMAIN up = 1 .. Len(up) /\ Len(up) \in Nat
      /\ \A k \in DOMAIN down : down[k] \in Frames
  BY <1>0, Types
<1>2. /\ log \in Nat /\ published \in Nat /\ published <= log /\ log <= MaxSeq
      /\ view \in View /\ nextId \in Nat /\ listener \in Ids \cup {0} /\ 0 \notin Ids
      /\ nextId <= MaxMounts + MaxConns
  BY <1>0, Scalars
<1>3. \A j \in Ids : /\ handlers[j].last \in Nat /\ handlers[j].hi \in Nat
                     /\ handlers[j].from \in Nat /\ handlers[j].to \in Nat
  BY SMTT(30), <1>1 DEF Handler
<1>4. IsSame => nextId \in Ids /\ OwnInv /\ EndingInv /\ AnsweredInv
  BY <1>2 DEF CompleteInv, OwnInv
<1>5. /\ listener # 0 => listener \in Ids /\ handlers[listener].phase \in Replaying \cup {"live"}
      /\ \A j \in Ids : handlers[j].phase = "live" => listener = j
  BY <1>0, <1>2 DEF ReplayInv, ReplayOf
<1>6. \A j \in Ids : Reaches(j) \in Nat
  BY <1>2, <1>3 DEF Reaches
<1>e. /\ <<>> \in Seq(Frames) /\ down = down \o <<>> /\ \A c \in Nat : Continues(<<>>, c, c)
  BY <1>1, EmptySeq, ConcatEmptySeq DEF Continues
<1>7. ASSUME UNCHANGED <<published, handlers, listener, up, down, nextId>>,
             view'.on = view.on, view'.sameSocket = view.sameSocket, view'.seen = view.seen,
             view'.status = "ready" => view.status = "ready"
      PROVE  CompleteInv'
  <2>1. IsAnswered' => IsAnswered
    BY <1>7 DEF IsAnswered
  <2>2. IsSame' => IsSame
    BY <1>7 DEF IsSame
  <2>3. IsSame' => OwnInv'
    BY <1>4, <1>7, <2>1, <2>2 DEF OwnInv, Active
  <2>4. IsSame' => EndingInv'
    BY <1>4, <1>7, <2>2 DEF EndingInv, Reaches
  <2>5. IsSame' => AnsweredInv'
    BY <1>4, <1>7, <2>1, <2>2 DEF AnsweredInv, Reaches
  <2> QED BY <2>3, <2>4, <2>5 DEF CompleteInv
<1>8. CASE AppendEvent
  BY <1>7, <1>8 DEF AppendEvent
<1>9. CASE Publish
  <2> SUFFICES ASSUME IsSame PROVE CompleteInv'
    BY <1>9 DEF CompleteInv, Publish, IsSame
  <2>1. UNCHANGED <<up, listener, nextId, view>> /\ published' = published + 1
    BY <1>9 DEF Publish
  <2>2. \A j \in Ids : /\ handlers'[j].phase = handlers[j].phase
                       /\ handlers'[j].last = handlers[j].last /\ handlers'[j].hi = handlers[j].hi
    <3>1. ASSUME NEW i \in Ids, NEW g, g = [handlers[i] EXCEPT !.to = published + 1]
          PROVE  g.phase = handlers[i].phase /\ g.last = handlers[i].last /\ g.hi = handlers[i].hi
      BY <1>1, <3>1 DEF Handler
    <3>2. CASE UNCHANGED handlers
      BY <3>2
    <3>3. CASE /\ listener \in Ids
               /\ handlers' = [handlers EXCEPT ![listener] =
                                [handlers[listener] EXCEPT !.to = published + 1]]
      <4> DEFINE g == [handlers[listener] EXCEPT !.to = published + 1]
      <4>1. /\ g.phase = handlers[listener].phase /\ g.last = handlers[listener].last
            /\ g.hi = handlers[listener].hi
        BY <3>1, <3>3
      <4> HIDE DEF g
      <4>2. handlers'[listener] = g /\ \A j \in Ids : j # listener => handlers'[j] = handlers[j]
        BY <1>1, <3>3 DEF g
      <4> QED BY <4>1, <4>2
    <3> QED BY <1>0, <1>9, <3>2, <3>3, PublishStep
  <2>3. CASE listener # 0 /\ handlers[listener].phase = "live"
    <3>1. PICK t \in Seq(Frames) : /\ down' = down \o t
                                   /\ \A k \in DOMAIN t : t[k].kind = "events"
                                   /\ Continues(t, published, published + 1)
      BY <1>0, <1>9, <2>3, PublishStep
    <3>2. Reaches(listener) = published /\ Reaches(listener)' = published + 1
      BY <1>5, <2>1, <2>2, <2>3 DEF Reaches
    <3>3. GoesOnListening(t)
      <4>1. published + 1 \in Nat /\ Continues(t, Reaches(listener), published + 1)
            /\ Reaches(listener)' <= published + 1
        BY <1>2, <3>1, <3>2
      <4> QED BY <2>1, <2>3, <4>1 DEF GoesOnListening
    <3>4. Aside(t)
      BY <1>4, <2>1, <2>2, <3>1, <3>3 DEF Aside
    <3> QED BY <1>0, <3>4, AsideKeeps
  <2>4. CASE ~(listener # 0 /\ handlers[listener].phase = "live")
    <3>1. down' = down \o <<>>
      BY <1>0, <1>9, <1>e, <2>4, PublishStep
    <3>2. listener # 0 => Reaches(listener)' = Reaches(listener) /\ Reaches(listener) \in Nat
      BY <1>3, <1>5, <2>1, <2>2, <2>4 DEF Reaches
    <3>3. GoesOnListening(<<>>)
      <4> HIDE DEF Reaches
      <4> QED BY <1>e, <2>1, <3>2 DEF GoesOnListening
    <3>4. Aside(<<>>)
      BY <1>4, <2>1, <2>2, <3>1, <3>3 DEF Aside
    <3> QED BY <1>0, <1>e, <3>4, AsideKeeps
  <2> QED BY <2>3, <2>4
<1>10. CASE ReadFrame
  <2> SUFFICES ASSUME IsSame PROVE CompleteInv'
    BY <1>10 DEF CompleteInv, ReadFrame, IsSame
  <2>1. UNCHANGED <<log, published, down, nextId, view>>
    BY <1>10 DEF ReadFrame
  <2>2. /\ up # <<>> /\ Len(up') = Len(up) - 1 /\ DOMAIN up' = 1 .. Len(up) - 1 /\ 1 \in DOMAIN up
        /\ up' \in Seq(Requests)
        /\ \A k \in DOMAIN up' : k + 1 \in DOMAIN up /\ up'[k] = up[k + 1]
    BY <1>0, <1>10, ReadFrameStep
  <2>3. up[Len(up)] = Subscribe(nextId, 0) /\ ~IsAnswered /\ ~Active(nextId) /\ nextId # 0
    BY <1>4, <2>2 DEF OwnInv
  <2>4. ~(IsAnswered')
    BY <2>1, <2>3 DEF IsAnswered
  <2>5. CASE up' = <<>>
    <3>0. Len(up') = 0
      BY <2>5
    <3>1. Len(up) = 1
      <4>1. Len(up') = Len(up) - 1 /\ Len(up) \in Nat
        BY <1>1, <2>2
      <4> QED BY <3>0, <4>1
    <3>2. up[1].kind = "subscribe" /\ up[1].id = nextId /\ up[1].after = 0
      BY <2>3, <3>1 DEF Subscribe
    <3> DEFINE g == [Idle EXCEPT !.phase = "access", !.last = 0, !.hi = 0]
    <3>3. handlers' = [handlers EXCEPT ![nextId] = g]
      BY <1>0, <1>10, <3>2, ReadFrameStep
    <3>4. g.phase = "access" /\ g.last = 0
      BY DEF Idle
    <3> HIDE DEF g
    <3>5. handlers'[nextId] = g
      BY <1>1, <1>4, <3>3
    <3>6. OwnInv'
      BY <2>1, <2>3, <2>5, <3>4, <3>5 DEF OwnInv, Replaying
    <3>7. EndingInv' /\ AnsweredInv'
      BY <2>1, <2>4, <3>4, <3>5 DEF EndingInv, AnsweredInv
    <3> QED BY <3>6, <3>7 DEF CompleteInv
  <2>6. CASE up' # <<>>
    <3>1. /\ Len(up') \in DOMAIN up' /\ Len(up') + 1 = Len(up)
      BY <1>1, <2>2, <2>6, EmptySeq
    <3>2. up'[Len(up')] = Subscribe(nextId, 0)
      BY <2>2, <2>3, <3>1
    <3>3. handlers'[nextId].phase = "idle"
      <4>1. CASE up[1].kind = "subscribe"
        <5>1. up[1].id # nextId
          <6>1. up[Len(up)].kind = "subscribe" /\ up[Len(up)].id = nextId /\ Len(up) \in DOMAIN up
            BY <1>1, <2>2, <2>3 DEF Subscribe
          <6>2. Len(up) # 1
            BY <1>1, <2>2, <3>1
          <6> QED BY <1>0, <2>2, <4>1, <6>1, <6>2 DEF WireInv, RequestsInv
        <5>2. \E g : handlers' = [handlers EXCEPT ![up[1].id] = g]
          BY <1>0, <1>10, <4>1, ReadFrameStep
        <5>3. handlers'[nextId] = handlers[nextId]
          BY <1>1, <1>4, <5>1, <5>2
        <5> QED BY <2>3, <5>3 DEF Active
      <4>2. CASE up[1].kind = "unsubscribe"
        <5>1. handlers'[nextId] = handlers[nextId]
          BY <1>0, <1>4, <1>10, <2>3, <4>2, ReadFrameStep DEF Active
        <5> QED BY <2>3, <5>1 DEF Active
      <4> QED BY <1>0, <1>10, <4>1, <4>2, ReadFrameStep
    <3>4. OwnInv'
      BY <2>1, <2>3, <2>4, <3>2, <3>3 DEF OwnInv, Active, Replaying
    <3>5. EndingInv' /\ AnsweredInv'
      BY <2>1, <2>4, <3>3 DEF EndingInv, AnsweredInv
    <3> QED BY <3>4, <3>5 DEF CompleteInv
  <2> QED BY <2>5, <2>6
<1>11. ASSUME NEW i \in Ids, StartReplay(i) PROVE CompleteInv'
  <2> SUFFICES ASSUME IsSame PROVE CompleteInv'
    BY <1>11 DEF CompleteInv, StartReplay, IsSame
  <2>1. UNCHANGED <<log, published, down, up, nextId, view>> /\ listener' = i
    BY <1>11 DEF StartReplay
  <2>2. /\ handlers[i].phase = "access"
        /\ handlers'[i].phase = "query" /\ handlers'[i].last = handlers[i].last
        /\ \A j \in Ids \ {i} :
             handlers'[j] = handlers[j] \/ (handlers'[j].phase = "idle" /\ handlers[j].phase = "live")
    <3>1. /\ handlers[i].phase = "access"
          /\ handlers'[i] = [handlers[i] EXCEPT !.phase = "query", !.from = published,
                                                !.to = published]
          /\ \A j \in Ids \ {i} :
               handlers'[j] = handlers[j] \/ (handlers'[j] = Idle /\ handlers[j].phase = "live")
      BY <1>0, <1>11, StartReplayStep
    <3>2. handlers[i] \in Handler
      BY <1>1
    <3>3. handlers'[i].phase = "query" /\ handlers'[i].last = handlers[i].last
      BY <3>1, <3>2 DEF Handler
    <3>4. Idle.phase = "idle"
      BY DEF Idle
    <3> QED BY <3>1, <3>3, <3>4
  <2>3. CASE i = nextId
    <3>1. handlers[nextId].last = 0 /\ up = <<>> /\ ~IsAnswered
      BY <1>4, <2>2, <2>3 DEF OwnInv, AnsweredInv, Active
    <3>2. ~(IsAnswered')
      BY <2>1, <3>1 DEF IsAnswered
    <3>3. Covered(view.seen, down, 0, 0)
      BY DEF Covered
    <3>4. OwnInv'
      BY <1>2, <1>4, <2>1, <2>2, <2>3, <3>1, <3>2, <3>3 DEF OwnInv, Replaying
    <3>5. EndingInv' /\ AnsweredInv'
      BY <2>1, <2>2, <2>3, <3>2 DEF EndingInv, AnsweredInv
    <3> QED BY <3>4, <3>5 DEF CompleteInv
  <2>4. CASE i # nextId
    <3>1. Reaches(listener)' = handlers[listener'].last
      BY <2>1, <2>2 DEF Reaches
    <3>2. GoesOnListening(<<>>)
      <4> HIDE DEF Reaches
      <4> QED BY <1>2, <2>1, <2>2, <2>4, <3>1 DEF GoesOnListening
    <3>3. Aside(<<>>)
      BY <1>4, <1>e, <2>1, <2>2, <2>4, <3>2 DEF Aside
    <3> QED BY <1>0, <1>e, <3>3, AsideKeeps
  <2> QED BY <2>3, <2>4
<1>12. ASSUME NEW i \in Ids, ReadPage(i) PROVE CompleteInv'
  <2> SUFFICES ASSUME IsSame PROVE CompleteInv'
    BY <1>12 DEF CompleteInv, ReadPage, IsSame
  <2>1. UNCHANGED <<log, published, listener, down, up, nextId, view>>
    BY <1>12 DEF ReadPage
  <2>2. PICK n \in 0 .. MaxSeq :
          /\ handlers' = [handlers EXCEPT ![i] = [handlers[i] EXCEPT !.phase = "page", !.hi = n]]
          /\ n < handlers[i].last + PageSize => n = log
    BY <1>0, <1>12, ReadPageStep
  <2> DEFINE g == [handlers[i] EXCEPT !.phase = "page", !.hi = n]
  <2>3. /\ handlers[i].phase = "query" /\ g.phase = "page" /\ g.last = handlers[i].last
        /\ g.hi = n
    BY <1>1, <1>12 DEF ReadPage, Handler
  <2> HIDE DEF g
  <2>4. handlers'[i] = g /\ \A j \in Ids \ {i} : handlers'[j] = handlers[j]
    BY <1>1, <2>2 DEF g
  <2>5. \A j \in Ids : Reaches(j)' = Reaches(j)
    BY <2>1, <2>3, <2>4 DEF Reaches
  <2>6. CASE i = nextId
    <3>1. OwnInv'
      <4>1. Covered(view.seen, down, 0, handlers[nextId].last) /\ listener # 0 /\ up = <<>>
        BY <1>4, <2>3, <2>6 DEF OwnInv, Replaying, Active
      <4> QED BY <1>4, <2>1, <2>3, <2>4, <2>6, <4>1 DEF OwnInv
    <3>2. ~IsAnswered /\ ~(IsAnswered')
      <4>1. ~IsAnswered
        BY <1>4, <2>3, <2>6 DEF AnsweredInv
      <4> QED BY <2>1, <4>1 DEF IsAnswered
    <3>3. EndingInv'
      <4> SUFFICES ASSUME n < handlers[i].last + PageSize
                   PROVE  /\ \A j \in Ids : handlers'[j].phase = "access" => handlers'[j].last <= n
                          /\ listener # nextId => Covered(view.seen, down, n, Reaches(listener)')
        BY <2>1, <2>3, <2>4, <2>6 DEF EndingInv
      <4>1. n = log
        BY <2>2
      <4>2. \A j \in Ids : handlers'[j].phase = "access" => handlers'[j].last <= n
        <5>1. \A j \in Ids : handlers[j].last <= log
          BY <1>0 DEF ReplayInv, ReplayOf
        <5> QED BY <2>3, <2>4, <4>1, <5>1
      <4>3. listener # 0 /\ listener \in Ids
        BY <1>4, <1>5, <2>3, <2>6 DEF OwnInv, Replaying
      <4>4. Reaches(listener)' = Reaches(listener)
        BY <2>1, <2>5, <4>3
      <4>5. Reaches(listener) <= log
        BY <1>0, <1>2, <4>3 DEF Reaches, ReplayInv, ReplayOf
      <4>6. Covered(view.seen, down, n, Reaches(listener))
        BY <1>2, <1>6, <4>1, <4>3, <4>5 DEF Covered
      <4> HIDE DEF Reaches
      <4> QED BY <4>2, <4>4, <4>6
    <3> QED BY <3>1, <3>2, <3>3 DEF CompleteInv, AnsweredInv
  <2>7. CASE i # nextId
    <3>2. GoesOnListening(<<>>)
      <4>1. listener # 0 => Reaches(listener)' = Reaches(listener) /\ Reaches(listener) \in Nat
        BY <1>5, <1>6, <2>1, <2>5
      <4> HIDE DEF Reaches
      <4> QED BY <1>e, <2>1, <4>1 DEF GoesOnListening
    <3>3. Aside(<<>>)
      BY <1>4, <1>e, <2>1, <2>3, <2>4, <2>7, <3>2 DEF Aside
    <3> QED BY <1>0, <1>e, <3>3, AsideKeeps
  <2> QED BY <2>6, <2>7
<1>13. ASSUME NEW i \in Ids, SendPage(i) PROVE CompleteInv'
  <2> SUFFICES ASSUME IsSame PROVE CompleteInv'
    BY <1>13 DEF CompleteInv, SendPage, IsSame
  <2> DEFINE h == handlers[i]
             c == Later(h.hi, h.to)
  <2>1. UNCHANGED <<log, published, listener, up, nextId, view>> /\ h.phase = "page"
    BY <1>13 DEF SendPage
  <2>2. PICK t \in Seq(Frames) :
          /\ down' = down \o t
          /\ \/ /\ Continues(t, h.last, h.hi)
                /\ handlers' = [handlers EXCEPT ![i] = [h EXCEPT !.phase = "query", !.last = h.hi]]
                /\ \A k \in DOMAIN t : t[k].kind = "events"
             \/ /\ h.hi < h.last + PageSize /\ Continues(t, h.last, c)
                /\ handlers' = [handlers EXCEPT ![i] =
                     IF listener = i THEN [Idle EXCEPT !.phase = "live"] ELSE Idle]
                /\ \A k \in DOMAIN t : t[k].kind # "events" => t[k] = Reply(i, TRUE)
    BY <1>0, <1>13, SendPageStep
  <2>3. /\ h.hi \in Nat /\ h.last \in Nat /\ c \in Nat /\ h.hi <= c /\ h.last <= h.hi
        /\ listener = i => published <= c
    <3>1. listener = i => h.to = published
      BY <1>0, <2>1 DEF ReplayInv, ReplayOf, Replaying
    <3>2. h.last <= h.hi
      BY <1>0, <2>1 DEF ReplayInv, ReplayOf
    <3> QED BY <1>2, <1>3, <3>1, <3>2 DEF Later
  <2>4. \A k \in DOMAIN t : t[k].kind = "reply" => t[k].lo = i
    <3>1. \A ok \in BOOLEAN : Reply(i, ok).lo = i
      BY DEF Reply
    <3>2. Reply(i, TRUE).lo = i
      BY <3>1
    <3> DEFINE e == Reply(i, TRUE)
    <3>3. e.lo = i /\ \A k \in DOMAIN t : t[k].kind # "events" => t[k] = e
      BY <2>2, <3>2
    <3> HIDE DEF e
    <3> QED BY <3>3
  <2> HIDE DEF c
  <2>5. down' = down \o t /\ \A j \in Ids \ {i} : handlers'[j] = handlers[j]
    BY <1>1, <2>2
  <2>6. \/ /\ Continues(t, h.last, h.hi) /\ \A k \in DOMAIN t : t[k].kind = "events"
           /\ handlers'[i].phase = "query" /\ handlers'[i].last = h.hi
        \/ /\ h.hi < h.last + PageSize /\ Continues(t, h.last, c)
           /\ handlers'[i].phase = (IF listener = i THEN "live" ELSE "idle")
    <3>1. CASE /\ Continues(t, h.last, h.hi)
               /\ handlers' = [handlers EXCEPT ![i] = [h EXCEPT !.phase = "query", !.last = h.hi]]
               /\ \A k \in DOMAIN t : t[k].kind = "events"
      <4>1. [h EXCEPT !.phase = "query", !.last = h.hi].phase = "query"
            /\ [h EXCEPT !.phase = "query", !.last = h.hi].last = h.hi
        BY <1>1 DEF Handler
      <4>2. handlers'[i] = [h EXCEPT !.phase = "query", !.last = h.hi]
        BY <1>1, <3>1
      <4> QED BY <3>1, <4>1, <4>2
    <3>2. CASE /\ h.hi < h.last + PageSize /\ Continues(t, h.last, c)
               /\ handlers' = [handlers EXCEPT ![i] =
                     IF listener = i THEN [Idle EXCEPT !.phase = "live"] ELSE Idle]
      <4>1. handlers'[i].phase = (IF listener = i THEN "live" ELSE "idle")
        BY <1>1, <3>2 DEF Idle
      <4> QED BY <3>2, <4>1
    <3>3. \/ /\ Continues(t, h.last, h.hi)
             /\ handlers' = [handlers EXCEPT ![i] = [h EXCEPT !.phase = "query", !.last = h.hi]]
             /\ \A k \in DOMAIN t : t[k].kind = "events"
          \/ /\ h.hi < h.last + PageSize /\ Continues(t, h.last, c)
             /\ handlers' = [handlers EXCEPT ![i] =
                   IF listener = i THEN [Idle EXCEPT !.phase = "live"] ELSE Idle]
      <4> HIDE DEF h
      <4> QED BY <2>2
    <3> QED BY <3>1, <3>2, <3>3
  <2>7. CASE i # nextId
    <3>1. listener # i /\ listener # 0 => Reaches(listener)' = Reaches(listener)
      BY <1>5, <2>1, <2>5 DEF Reaches
    <3>2. listener = i => \E d \in Nat : Continues(t, Reaches(listener), d) /\ Reaches(listener)' <= d
      <4> SUFFICES ASSUME listener = i
                   PROVE  \E d \in Nat : Continues(t, h.last, d) /\ Reaches(i)' <= d
        BY <2>1 DEF Reaches
      <4>1. CASE /\ Continues(t, h.last, h.hi)
                 /\ handlers'[i].phase = "query" /\ handlers'[i].last = h.hi
        <5>1. Reaches(i)' = h.hi
          BY <4>1 DEF Reaches
        <5> QED BY <2>3, <4>1, <5>1
      <4>2. CASE Continues(t, h.last, c) /\ handlers'[i].phase = "live"
        <5>1. Reaches(i)' = published
          BY <2>1, <4>2 DEF Reaches
        <5> QED BY <2>3, <4>2, <5>1
      <4> QED BY <2>6, <4>1, <4>2
    <3>3. GoesOnListening(t)
      <4> HIDE DEF Reaches
      <4> QED BY <2>1, <3>1, <3>2 DEF GoesOnListening
    <3>4. \A j \in Ids : handlers'[j].phase = "access" =>
            handlers[j].phase = "access" /\ handlers'[j].last = handlers[j].last
      BY <2>5, <2>6
    <3>5. /\ handlers'[nextId].phase = handlers[nextId].phase
          /\ handlers'[nextId].last = handlers[nextId].last
          /\ handlers'[nextId].hi = handlers[nextId].hi
      BY <1>4, <2>5, <2>7
    <3>6. Aside(t)
      BY <2>1, <2>4, <2>5, <2>7, <3>3, <3>4, <3>5 DEF Aside
    <3> QED BY <1>0, <3>6, AsideKeeps
  <2>8. CASE i = nextId
    <3>1. /\ Covered(view.seen, down, 0, h.last) /\ listener # 0 /\ up = <<>> /\ nextId # 0
          /\ ~IsAnswered
      BY <1>4, <2>1, <2>8 DEF OwnInv, AnsweredInv, Replaying, Active
    <3>2. CASE /\ Continues(t, h.last, h.hi) /\ \A k \in DOMAIN t : t[k].kind = "events"
               /\ handlers'[i].phase = "query" /\ handlers'[i].last = h.hi
      <4>1. Covered(view.seen, down', 0, h.hi)
        <5>1. h.hi \in Nat /\ h.last \in Nat /\ h.hi <= h.hi /\ Continues(t, h.last, h.hi)
          BY <2>3, <3>2
        <5> HIDE DEF h
        <5>2. Covered(view.seen, down \o t, 0, h.hi)
          BY <1>1, <3>1, <5>1, CoveredMore
        <5> QED BY <2>5, <5>2
      <4>2. ~(IsAnswered')
        <5> SUFFICES ASSUME NEW k \in DOMAIN down', down'[k].kind = "reply", down'[k].lo = nextId
                     PROVE  FALSE
          BY <2>1, <3>1 DEF IsAnswered
        <5>1. CASE k \in DOMAIN down
          BY <1>0, <2>5, <3>1, <5>1, Extended DEF IsAnswered
        <5>2. CASE k \notin DOMAIN down
          BY <1>0, <2>5, <3>2, <5>2, Extended
        <5> QED BY <5>1, <5>2
      <4>3. OwnInv'
        BY <2>1, <2>8, <3>1, <3>2, <4>1 DEF OwnInv
      <4> QED BY <2>1, <2>8, <3>2, <4>2, <4>3 DEF CompleteInv, EndingInv, AnsweredInv
    <3>3. CASE /\ h.hi < h.last + PageSize /\ Continues(t, h.last, c)
               /\ handlers'[i].phase = (IF listener = i THEN "live" ELSE "idle")
      <4>1. \A d \in Nat : d <= c => Covered(view.seen, down', 0, d)
        BY <1>1, <2>3, <2>5, <3>1, <3>3, CoveredMore
      <4>2. /\ \A j \in Ids : handlers[j].phase = "access" => handlers[j].last <= h.hi
            /\ listener # nextId => Covered(view.seen, down, h.hi, Reaches(listener))
        BY <1>4, <2>1, <2>8, <3>3 DEF EndingInv
      <4>3. \A j \in Ids : handlers'[j].phase = "access" =>
              Covered(view.seen, down', 0, handlers'[j].last)
        <5> SUFFICES ASSUME NEW j \in Ids, handlers'[j].phase = "access"
                     PROVE  Covered(view.seen, down', 0, handlers'[j].last)
          OBVIOUS
        <5>1. j # i /\ handlers'[j] = handlers[j]
          BY <2>5, <3>3
        <5>2. handlers[j].last \in Nat /\ handlers[j].last <= c
          BY <1>3, <2>3, <4>2, <5>1
        <5> QED BY <4>1, <5>1, <5>2
      <4>4. Covered(view.seen, down', 0, Reaches(listener)')
        <5>1. CASE listener = i
          <6>1. Reaches(listener)' = published
            BY <2>1, <3>3, <5>1 DEF Reaches
          <6> HIDE DEF Reaches
          <6> QED BY <1>2, <2>3, <4>1, <5>1, <6>1
        <5>2. CASE listener # i
          <6>1. /\ Reaches(listener)' = Reaches(listener) /\ Reaches(listener) \in Nat
                /\ listener # nextId
            BY <1>5, <1>6, <2>1, <2>5, <2>8, <3>1, <5>2 DEF Reaches
          <6> HIDE DEF Reaches
          <6>2. Covered(view.seen, down', h.hi, Reaches(listener))
            BY <1>1, <2>3, <2>5, <4>2, <6>1, CoveredMore
          <6>3. Covered(view.seen, down', 0, h.hi)
            BY <2>3, <4>1
          <6>4. Covered(view.seen, down', 0, Reaches(listener))
            BY <2>3, <6>1, <6>2, <6>3 DEF Covered
          <6> QED BY <6>1, <6>4
        <5> QED BY <5>1, <5>2
      <4>5. handlers'[nextId].phase \in {"idle", "live"}
        BY <2>8, <3>3
      <4>6. OwnInv'
        BY <2>1, <3>1, <4>5 DEF OwnInv, Replaying
      <4>7. AnsweredInv'
        BY <2>1, <4>3, <4>4, <4>5 DEF AnsweredInv
      <4>8. EndingInv'
        BY <2>1, <4>5 DEF EndingInv
      <4> QED BY <4>6, <4>7, <4>8 DEF CompleteInv
    <3> QED BY <2>6, <3>2, <3>3
  <2> QED BY <2>7, <2>8
<1>14. ASSUME NEW i \in Ids, RefuseSubscribe(i) PROVE CompleteInv'
  <2> SUFFICES ASSUME IsSame PROVE CompleteInv'
    BY <1>14 DEF CompleteInv, RefuseSubscribe, IsSame
  <2>1. UNCHANGED <<log, published, listener, up, nextId, view>>
    BY <1>14 DEF RefuseSubscribe
  <2>2. /\ handlers[i].phase = "access" /\ handlers' = [handlers EXCEPT ![i] = Idle]
        /\ \E t \in Seq(Frames) : down' = down \o t /\ t = <<Reply(i, FALSE)>>
    BY <1>0, <1>14, RefuseStep
  <2> DEFINE e == Reply(i, FALSE)
  <2>3. e.kind = "error" /\ e \in Frames
    BY DEF Reply, Frames
  <2> HIDE DEF e
  <2>4. PICK t \in Seq(Frames) : down' = down \o t /\ t = <<e>>
    BY <2>2 DEF e
  <2>5. \A k \in DOMAIN t : t[k].kind = "error"
    BY <2>3, <2>4, One
  <2>6. /\ handlers'[i].phase = "idle" /\ handlers[i].phase = "access"
        /\ \A j \in Ids \ {i} : handlers'[j] = handlers[j]
    BY <1>1, <2>2 DEF Idle
  <2>7. listener # 0 => Reaches(listener)' = Reaches(listener)
    BY <1>5, <2>1, <2>6 DEF Reaches, Replaying
  <2>8. GoesOnListening(t)
    <3> HIDE DEF Reaches
    <3> QED BY <2>1, <2>7 DEF GoesOnListening
  <2>9. \A k \in DOMAIN t : t[k].kind = "reply" => t[k].lo # nextId
    BY <2>5
  <2>10. /\ \/ /\ handlers'[nextId].phase = handlers[nextId].phase
               /\ handlers'[nextId].last = handlers[nextId].last
               /\ handlers'[nextId].hi = handlers[nextId].hi
            \/ handlers'[nextId].phase = "idle"
         /\ \A j \in Ids : handlers'[j].phase = "access" =>
              handlers[j].phase = "access" /\ handlers'[j].last = handlers[j].last
    BY <1>4, <2>6
  <2>11. Aside(t)
    BY <2>1, <2>4, <2>8, <2>9, <2>10 DEF Aside
  <2> QED BY <1>0, <2>11, AsideKeeps
<1>15. CASE Receive
  <2>1. /\ UNCHANGED <<published, handlers, listener, up, nextId>>
        /\ down # <<>> /\ down' = Tail(down)
    BY <1>15 DEF Receive
  <2>2. /\ DOMAIN down' = 1 .. Len(down) - 1 /\ Len(down) \in Nat \ {0}
        /\ \A k \in DOMAIN down' : k + 1 \in DOMAIN down /\ down'[k] = down[k + 1]
        /\ Head(down) = down[1] /\ 1 \in DOMAIN down /\ down[1] \in Frames
    BY <1>1, <2>1, Removed
  <2>3. /\ view'.on = view.on /\ view'.sameSocket = view.sameSocket
        /\ view.seen \subseteq view'.seen
        /\ down[1].kind = "events" /\ view.on => down[1].lo .. down[1].hi \subseteq view'.seen
        /\ view'.status = "ready" => IsAnswered
    <3>1. CASE ReceiveEvents(down[1]) /\ down[1].kind = "events"
      BY <1>2, <3>1 DEF ReceiveEvents, View, IsAnswered
    <3>2. CASE ReceiveReply(down[1], TRUE) /\ down[1].kind = "reply"
      <4>1. CASE down[1].lo = awaited
        <5>1. awaited # 0
          BY <1>0, <2>2, <3>2, <4>1 DEF WireInv, FramesInv, IsEvents, IsOver
        <5>2. awaited = nextId
          BY <1>0, <5>1 DEF ClientInv
        <5>3. IsAnswered
          BY <2>2, <3>2, <4>1, <5>2 DEF IsAnswered
        <5> QED BY <1>2, <3>2, <5>3 DEF ReceiveReply, Answered, View
      <4>2. CASE down[1].lo # awaited
        BY <3>2, <4>2 DEF ReceiveReply, IsAnswered
      <4> QED BY <4>1, <4>2
    <3>3. CASE ReceiveReply(down[1], FALSE) /\ down[1].kind = "error"
      BY <1>2, <3>3 DEF ReceiveReply, Answered, View, IsAnswered
    <3> QED BY <1>15, <2>2, <3>1, <3>2, <3>3 DEF Receive
  <2> SUFFICES ASSUME IsSame PROVE CompleteInv'
    BY <2>3 DEF CompleteInv, IsSame
  <2>4. IsAnswered' => IsAnswered
    <3>1. ASSUME NEW k \in DOMAIN down', down'[k].kind = "reply", down'[k].lo = nextId
          PROVE  IsAnswered
      BY <2>2, <3>1 DEF IsAnswered
    <3>2. UNCHANGED nextId
      BY <2>1
    <3> QED BY <2>3, <3>1, <3>2 DEF IsAnswered
  <2>5. \A a, b : Covered(view.seen, down, a, b) => Covered(view'.seen, down', a, b)
    <3>1. down[1].kind = "events" => down[1].lo .. down[1].hi \subseteq view'.seen
      BY <2>3 DEF IsSame
    <3> QED BY <1>1, <2>1, <2>3, <3>1, CoveredShown
  <2>6. OwnInv'
    BY <1>4, <2>1, <2>4, <2>5 DEF OwnInv, Active
  <2>7. EndingInv'
    BY <1>4, <2>1, <2>5 DEF EndingInv, Reaches
  <2>8. AnsweredInv'
    <3>1. \A j \in Ids : Reaches(j)' = Reaches(j)
      BY <2>1 DEF Reaches
    <3>2. listener # 0 => Reaches(listener)' = Reaches(listener)
      BY <1>5, <2>1, <3>1
    <3> HIDE DEF Reaches
    <3> QED BY <1>4, <2>1, <2>4, <2>5, <3>2 DEF AnsweredInv
  <2> QED BY <2>6, <2>7, <2>8 DEF CompleteInv
<1>16. CASE Open
  <2>1. ~isOpen /\ UNCHANGED view
    BY <1>16 DEF Open
  <2>2. ~IsSame'
    BY <1>0, <2>1 DEF ClientInv, IsSame
  <2> QED BY <2>2 DEF CompleteInv
<1>17. CASE Mount
  <2> SUFFICES ASSUME IsSame' PROVE CompleteInv'
    BY DEF CompleteInv
  <2>1. /\ view'.sameSocket = isOpen /\ view'.status = "loading"
        /\ UNCHANGED <<published, handlers, listener, down>>
    BY <1>17 DEF Mount
  <2>2. isOpen
    BY <2>1 DEF IsSame
  <2>3. nextId' = nextId + 1 /\ up' = Append(up, Subscribe(nextId + 1, 0))
    BY <1>17, <2>2 DEF Mount
  <2>4. nextId + 1 \in Ids
    <3>1. nextId' \in 0 .. MaxMounts + MaxConns
      BY <1>0 DEF TypeOK
    <3> QED BY <1>2, <2>3, <3>1
  <2>5. handlers[nextId + 1].phase = "idle"
    <3>1. ~(nextId + 1 <= nextId)
      BY <1>2
    <3> QED BY <1>0, <2>4, <3>1 DEF WireInv, Active
  <2>6. ~(IsAnswered')
    <3> SUFFICES ASSUME NEW k \in DOMAIN down, down[k].kind = "reply", down[k].lo = nextId + 1
                 PROVE  FALSE
      BY <2>1, <2>3 DEF IsAnswered
    <3>1. down[k].lo \in 1 .. nextId
      BY <1>0 DEF WireInv, FramesInv, IsEvents, IsOver
    <3> QED BY <1>2, <3>1
  <2>7. up'[Len(up')] = Subscribe(nextId', 0)
    <3> DEFINE e == Subscribe(nextId + 1, 0)
    <3>1. e \in Requests
      BY <2>4 DEF Subscribe, Requests
    <3>2. up' = Append(up, e)
      BY <2>3
    <3> HIDE DEF e
    <3>3. Len(up') = Len(up) + 1 /\ up'[Len(up) + 1] = e
      BY <1>1, <3>1, <3>2, Appended
    <3> QED BY <2>3, <3>3 DEF e
  <2>8. OwnInv'
    BY <1>2, <2>1, <2>3, <2>5, <2>6, <2>7 DEF OwnInv, Active, Replaying
  <2>9. EndingInv' /\ AnsweredInv'
    BY <2>1, <2>3, <2>5, <2>6 DEF EndingInv, AnsweredInv
  <2> QED BY <2>8, <2>9 DEF CompleteInv
<1>18. CASE Unmount \/ Drop
  <2>1. ~view'.sameSocket
    BY <1>2, <1>18 DEF Unmount, Drop, View
  <2> QED BY <2>1 DEF CompleteInv, IsSame
<1>19. CASE TimeOut
  <2>1. /\ view'.on = view.on /\ view'.sameSocket = view.sameSocket /\ view'.seen = view.seen
        /\ view'.status = "error"
    BY <1>2, <1>19 DEF TimeOut, Answered, View
  <2> QED BY <1>7, <1>19, <2>1 DEF TimeOut
<1>20. CASE UNCHANGED vars
  BY <1>7, <1>20 DEF vars
<1> QED
  BY <1>8, <1>9, <1>10, <1>11, <1>12, <1>13, <1>14, <1>15, <1>16, <1>17, <1>18, <1>19, <1>20
     DEF Next, ServerStep, ClientStep

(* A quiet channel has nothing on its way.                                 *)
LEMMA QuietIsComplete ==
  ASSUME ChannelInv, BeginningInv, CompleteInv
  PROVE  LiveIsComplete
<1> SUFFICES ASSUME Quiet, view.on, listener # 0,
                    ~(view.mount > 1 /\ (~view.sameSocket \/ view.status # "ready"))
             PROVE  view.seen = 1 .. log
  BY DEF LiveIsComplete
<1>0. TypeOK /\ WireInv /\ ClientInv /\ ReplayInv
  BY DEF ChannelInv
<1>1. /\ log \in Nat /\ log <= MaxSeq /\ view \in View /\ view.mount \in Nat
      /\ listener \in Ids /\ published = log /\ down = <<>> /\ view.seen \subseteq Seqs
  BY <1>0, Scalars DEF View, Quiet
<1>2. handlers[listener].phase = "live"
  BY <1>0, <1>1 DEF ReplayInv, Quiet, Replaying
<1>3. view.seen \subseteq 1 .. log
  BY <1>0 DEF WireInv
<1>4. view.mount # 0
  BY <1>0 DEF ClientInv
<1>5. CASE view.mount = 1
  <2>1. PICK m \in 0 .. log : view.seen = 1 .. m
    BY <1>5 DEF BeginningInv, IsFirst
  <2>2. Sent(view.seen, down, published, Len(down))
    BY <1>1, <1>2, <1>5 DEF BeginningInv, IsFirst, Catching
  <2>3. log = 0 \/ log \in view.seen
    BY <1>1, <2>2 DEF Sent
  <2>4. m = log
    BY <1>1, <2>1, <2>3
  <2> QED BY <2>1, <2>4
<1>6. CASE view.mount > 1
  <2>1. IsSame /\ IsAnswered
    BY <1>1, <1>6 DEF IsSame, IsAnswered, View
  <2>2. Covered(view.seen, down, 0, log)
    BY <1>1, <1>2, <2>1 DEF CompleteInv, AnsweredInv, Reaches
  <2>3. ASSUME NEW n \in 1 .. log PROVE n \in view.seen
    BY <1>1, <2>2 DEF Covered, OnItsWay
  <2> QED BY <1>3, <2>3
<1> QED BY <1>1, <1>4, <1>5, <1>6

(* A chat with a live subscription and a quiet channel shows every event   *)
(* (handleSubscribe's replay, buffer and flush; onConnectionOpened's       *)
(* cursor): the first chat through any number of drops, a later loaded one *)
(* while its socket lives, whoever of its handlers listens.                *)
THEOREM LiveChatIsComplete == Spec => []LiveIsComplete
<1>1. Init => ChannelInv /\ BeginningInv /\ CompleteInv
  <2>1. Init => view.mount = 0 /\ view.on = FALSE
    BY DEF Init
  <2> QED BY <2>1, ChannelInvInit DEF BeginningInv, IsFirst, CompleteInv, IsSame
<1>2. ChannelInv /\ [Next]_vars => ChannelInv'
  BY ChannelInvKept
<1>3. ChannelInv /\ ChannelInv' /\ BeginningInv /\ [Next]_vars => BeginningInv'
  BY BeginningKept
<1>4. ChannelInv /\ ChannelInv' /\ CompleteInv /\ [Next]_vars => CompleteInv'
  BY CompleteKept
<1>5. ChannelInv /\ BeginningInv /\ CompleteInv => LiveIsComplete
  BY QuietIsComplete
<1> QED BY <1>1, <1>2, <1>3, <1>4, <1>5, PTL DEF Spec
=============================================================================
