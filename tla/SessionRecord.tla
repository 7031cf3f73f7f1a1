---------------------------- MODULE SessionRecord ----------------------------
(***************************************************************************)
(* The `state` column of a session record and the one rule every record    *)
(* store follows when it changes (domain/sessions.ts).                     *)
(***************************************************************************)

SessionStates == {"draft", "running", "suspended", "closed", "archived"}

(* A draft's only other exit is deletion, archived has none.               *)
AllowedTransitions ==
  [s \in SessionStates |->
     CASE s = "draft"     -> {"running"}
       [] s = "running"   -> {"suspended", "closed"}
       [] s = "suspended" -> {"running", "closed"}
       [] s = "closed"    -> {"running", "archived"}
       [] s = "archived"  -> {}]

isAllowedSessionTransition(from, to) ==
  from = to \/ to \in AllowedTransitions[from]

(* What suspendSession accepts.  It does not use the table: a suspended    *)
(* session may be suspended again, with another handoff.                   *)
SuspendableStates == {"running", "suspended"}
=============================================================================
