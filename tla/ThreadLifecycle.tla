--------------------------- MODULE ThreadLifecycle ---------------------------
(***************************************************************************)
(* What a thread promises its users, with no locks, queues or processes:   *)
(* its state follows the table of domain/sessions.ts, one agent at a time  *)
(* serves it and only while it is running, and a message is taken by one   *)
(* agent.                                                                  *)
(***************************************************************************)
CONSTANTS Runs, Msgs
VARIABLES
  state,    \* the record's state
  serving,  \* the run whose agent starts or takes messages, if any
  stopped,  \* runs that no longer take messages, for good
  taken     \* the runs that took each message

vars == <<state, serving, stopped, taken>>

Init ==
  /\ state = "draft"
  /\ serving = {} /\ stopped = {}
  /\ taken = [m \in Msgs |-> {}]

(* Writing wakes a thread that is not served.                              *)
Wake ==
  /\ state \in {"draft", "suspended", "closed"} /\ serving = {}
  /\ state' = "running"
  /\ UNCHANGED <<serving, stopped, taken>>

Serve(r) ==
  /\ state = "running" /\ serving = {} /\ r \notin stopped
  /\ serving' = {r}
  /\ UNCHANGED <<state, stopped, taken>>

Take(m, r) ==
  /\ r \in serving /\ taken[m] = {}
  /\ taken' = [taken EXCEPT ![m] = {r}]
  /\ UNCHANGED <<state, serving, stopped>>

Stop(r) ==
  /\ r \in serving
  /\ serving' = {} /\ stopped' = stopped \union {r}
  /\ UNCHANGED <<state, taken>>

(* Nobody is suspended or closed away under a serving agent.               *)
Leave(from, to) ==
  /\ state \in from /\ serving = {}
  /\ state' = to
  /\ UNCHANGED <<serving, stopped, taken>>

Suspend == Leave({"running"}, "suspended")
Close   == Leave({"running", "suspended"}, "closed")
Archive == Leave({"closed"}, "archived")

(* Not in the table: a suspend that had read the record before the close   *)
(* writes after it.                                                        *)
LateSuspend == Leave({"closed"}, "suspended")

Next ==
  \/ Wake \/ Suspend \/ Close \/ Archive \/ LateSuspend
  \/ \E r \in Runs : Serve(r) \/ Stop(r) \/ \E m \in Msgs : Take(m, r)

Spec == Init /\ [][Next]_vars
=============================================================================
