----------------------------- MODULE ThreadFeed -----------------------------
(***************************************************************************)
(* What a chat is promised of its thread's events, without sockets,       *)
(* cursors or pages: the events are numbered in the order they happen, and *)
(* what the chat shows is always a beginning of them that only grows,     *)
(* until it closes.                                                        *)
(***************************************************************************)
EXTENDS Naturals

VARIABLES happened, shown

Init == happened = 0 /\ shown = {}

Happens == happened' = happened + 1 /\ UNCHANGED shown

Shows == /\ \E n \in 1 .. happened : shown' = 1 .. n /\ shown \subseteq shown'
         /\ UNCHANGED happened

Closes == shown' = {} /\ UNCHANGED happened

Spec == Init /\ [][Happens \/ Shows \/ Closes]_<<happened, shown>>
=============================================================================
