------------------------------ MODULE Delivery ------------------------------
(***************************************************************************)
(* What the plugin promises the device's durable stream, without saying     *)
(* how: the daemon stores messages in order; the plugin decides them (runs  *)
(* a turn, or drops, skips or passes over the message) in that order; and   *)
(* the daemon's cumulative cursor only ever covers decided messages, so a   *)
(* message nobody decided is replayed and never lost.                       *)
(*                                                                         *)
(* Ingress implements this module (docs/design/2026-09-openclaw-ademu-1.md, *)
(* "ack" is cumulative, and monitor/ingress.ts's halt rule).                *)
(***************************************************************************)
EXTENDS Integers

VARIABLES
  stored,   \* number of messages the daemon has stored, numbered from 1
  decided,  \* the messages that have been decided
  cursor    \* the messages 1..cursor will never be replayed

dvars == <<stored, decided, cursor>>

Init == stored = 0 /\ decided = {} /\ cursor = 0

Store ==
  /\ stored' = stored + 1
  /\ UNCHANGED <<decided, cursor>>

\* Only the first message that is still open is decided.
Decide ==
  /\ \E s \in 1 .. stored :
       /\ 1 .. s - 1 \subseteq decided
       /\ decided' = decided \cup {s}
  /\ UNCHANGED <<stored, cursor>>

Acknowledge ==
  /\ cursor' > cursor
  /\ 1 .. cursor' \subseteq decided
  /\ UNCHANGED <<stored, decided>>

Next == Store \/ Decide \/ Acknowledge

Spec == Init /\ [][Next]_dvars
=============================================================================
