----------------------------- MODULE MCDesktop -----------------------------
(***************************************************************************)
(* The desktop window under TLC, with the program's own bounds, and the    *)
(* stronger statements its documentation and messages make and the code    *)
(* does not keep.                                                          *)
(***************************************************************************)
EXTENDS DesktopLifecycle

(* desktop.py:811, "Wait for the current operation to finish before        *)
(* closing.": no start outlives the window that asked for it, so a closed  *)
(* window leaves no QEMU behind (closeEvent).                              *)
ClosedMeansNoGuest == window = "closed" => ~Live

(* README.md:67, a guest the host interrupts is restarted automatically:   *)
(* a guest nobody watches is not (poll, install_apk).                      *)
GuestAlwaysSupervised == ~Unsupervised

(* README.md:67 again, as what must follow every unexpected exit within    *)
(* the budget, whatever else is in flight (recover_guest).                 *)
CrashAlwaysRecovered == \A n \in 0..(MaxRestarts - 1) : Interrupted(n) ~> Settled(n)
=============================================================================
