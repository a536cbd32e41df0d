--------------------------- MODULE GuestWatchdog ---------------------------
(***************************************************************************)
(* What the desktop window promises about its guest, with no thread, timer *)
(* or modal box in sight: QEMU is launched only by a start under way, one  *)
(* at a time; a start follows the user's press, or the exit of a watched   *)
(* guest the user still wants, and the latter spends one of a bounded      *)
(* number of automatic restarts that only a press gives back.              *)
(***************************************************************************)
EXTENDS Naturals

CONSTANT MaxRestarts   (* a natural number *)

VARIABLES
  phase,   (* "off", "starting", or "watched" by the window                *)
  guest,   (* a QEMU is running                                            *)
  left,    (* automatic restarts left                                      *)
  wanted,  (* the user's last word was Start                               *)
  asked    (* a press of Start waits for the user to choose a disk         *)

vars == <<phase, guest, left, wanted, asked>>

Init == phase = "off" /\ guest = FALSE /\ left = MaxRestarts /\ wanted = FALSE /\ asked = FALSE

(* Start or Stop: the budget is whole again.                               *)
Press ==
  /\ left' = MaxRestarts /\ wanted' \in {wanted, FALSE} /\ asked' \in BOOLEAN
  /\ UNCHANGED <<phase, guest>>

(* The user cancels, or confirms a forced stop.                            *)
Answer ==
  /\ asked' = FALSE /\ wanted' \in {wanted, FALSE}
  /\ UNCHANGED <<phase, guest, left>>

(* The press is taken at once, or once the disk is chosen.                 *)
Start ==
  /\ left' = MaxRestarts \/ (asked /\ left' = left)
  /\ phase' = "starting" /\ wanted' = TRUE /\ asked' = FALSE
  /\ UNCHANGED guest

Launch ==
  /\ phase = "starting" /\ ~guest /\ wanted
  /\ guest' = TRUE
  /\ UNCHANGED <<phase, left, wanted, asked>>

Exit == guest /\ guest' = FALSE /\ UNCHANGED <<phase, left, wanted, asked>>

Watch ==
  /\ phase = "starting" /\ phase' = "watched"
  /\ UNCHANGED <<guest, left, wanted, asked>>

(* A start ends unwatched: it failed, or nobody looked at its result.      *)
Abandon ==
  /\ phase = "starting" /\ phase' \in {"off", "watched"}
  /\ guest' \in {guest, FALSE}
  /\ UNCHANGED <<left, wanted, asked>>

Restart ==
  /\ phase = "watched" /\ ~guest /\ wanted /\ left > 0
  /\ phase' \in {"starting", "off"}           \* or the start is refused
  /\ left' = left - 1
  /\ UNCHANGED <<guest, wanted, asked>>

Lapse ==
  /\ phase = "watched" /\ ~guest /\ phase' = "off"
  /\ UNCHANGED <<guest, left, wanted, asked>>

Next == Press \/ Answer \/ Start \/ Launch \/ Exit \/ Watch \/ Abandon \/ Restart \/ Lapse

Spec == Init /\ [][Next]_vars
=============================================================================
