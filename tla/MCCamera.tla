------------------------------ MODULE MCCamera ------------------------------
(***************************************************************************)
(* The camera's way into the guest under TLC, and what the comments in     *)
(* camera.py say of it that the code does not keep.                        *)
(***************************************************************************)
EXTENDS CameraLink

(* camera.py:122-123, a link nobody answered: "Waiting is free: the host   *)
(* webcam is still off." (GuestLink.closed)                                *)
WaitingIsFree ==
  [][open /\ ~open' /\ ~confirmed /\ Running' => ~camera]_vars
=============================================================================
