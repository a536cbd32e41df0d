----------------------------- MODULE CameraLink -----------------------------
(***************************************************************************)
(* The webcam of the host on its way into the guest: the CameraStreamer    *)
(* and its GuestLink (androidbox/camera.py), the connection through the    *)
(* port QEMU forwards, and the guest's bridge that accepts one host at a   *)
(* time (guest/camera-bridge.py, serve_camera).                            *)
(*                                                                         *)
(* The streamer is a set of Qt callbacks: the socket's, three timers', the *)
(* webcam's and macOS's answer to the permission request.  Any of them may *)
(* come late.  QEMU takes every connection at once, so that a connection   *)
(* says nothing of the guest: only the bridge's greeting does.             *)
(***************************************************************************)
EXTENDS Naturals, Sequences

CONSTANT MaxReconnects   (* MAX_CAMERA_RECONNECTS *)

ASSUME ReconnectsAssumption == MaxReconnects \in Nat

VARIABLES
  owner,      (* the window's reference: "new", "held" or "dropped"        *)
  device,     (* _device is not None: waiting for permission or the bridge *)
  camera,     (* the webcam is on                                          *)
  asking,     (* macOS has not answered the permission request yet         *)
  attempts, confirmed, open,      (* GuestLink                             *)
  stable,     (* the link opened at least stable_seconds ago               *)
  pending,    (* _reconnect_pending                                        *)
  timers,     (* reconnects scheduled and not fired                        *)
  grace,      (* the _greeting_grace timer is active                       *)
  report,     (* the _wait_report timer is active                          *)
  socket,     (* "unconnected", "connecting" or "connected" (to QEMU)      *)
  inbox,      (* what the guest's side sent: chunks, then "fin"            *)
  buffer,     (* _greeting_buffer: "empty", "part", "greeting" or "other"  *)
  bridge,     (* the guest's bridge: "up" (listening), "down", or "gone"   *)
              (* with QEMU itself                                          *)
  greets,     (* it is of a release that greets                            *)
  far,        (* the connection beyond QEMU: "none", "dialling", "backlog" *)
              (* or "served"                                               *)
  stale,      (* the bridge is held by a connection the host has left      *)
  (* History, read by no action:                                           *)
  ended,      (* "no", or why the streamer ended                           *)
  spoke,      (* the bridge has sent something to this streamer            *)
  waited,     (* a greeting's grace ran out                                *)
  drops       (* greeted links dropped in a row, none of which lasted but  *)
              (* the first                                                 *)

link   == <<attempts, confirmed, open, stable>>
wire   == <<inbox, far, stale>>
guest  == <<bridge, greets, spoke>>
webcam == <<device, camera, ended>>
timing == <<pending, timers, grace, report>>
vars   == <<owner, asking, webcam, link, timing, socket, buffer, wire, guest, waited, drops>>

Chunks == {"greeting", "part", "rest", "other"}

TypeOK ==
  /\ owner \in {"new", "held", "dropped"}
  /\ device \in BOOLEAN /\ camera \in BOOLEAN /\ asking \in BOOLEAN
  /\ attempts \in 0..MaxReconnects
  /\ confirmed \in BOOLEAN /\ open \in BOOLEAN /\ stable \in BOOLEAN
  /\ pending \in BOOLEAN /\ timers \in Nat
  /\ grace \in BOOLEAN /\ report \in BOOLEAN
  /\ socket \in {"unconnected", "connecting", "connected"}
  /\ inbox \in Seq(Chunks \cup {"fin"})
  /\ buffer \in {"empty", "part", "greeting", "other"}
  /\ bridge \in {"up", "down", "gone"} /\ greets \in BOOLEAN
  /\ far \in {"none", "dialling", "backlog", "served"} /\ stale \in BOOLEAN
  /\ ended \in {"no", "stopped", "spent", "failed", "denied"}
  /\ spoke \in BOOLEAN /\ waited \in BOOLEAN /\ drops \in Nat

Init ==
  /\ owner = "new" /\ device = FALSE /\ camera = FALSE /\ asking = FALSE
  /\ attempts = 0 /\ confirmed = FALSE /\ open = FALSE /\ stable = FALSE
  /\ pending = FALSE /\ timers = 0 /\ grace = FALSE /\ report = FALSE
  /\ socket = "unconnected" /\ inbox = <<>> /\ buffer = "empty"
  /\ bridge \in {"up", "down"} /\ greets \in BOOLEAN
  /\ far = "none" /\ stale = FALSE
  /\ ended = "no" /\ spoke = FALSE /\ waited = FALSE /\ drops = 0

Running == camera \/ device

-----------------------------------------------------------------------------
(* Pieces of the callbacks.  Faulty variants, named for the fault, stand   *)
(* before the definition they replace.                                     *)

ResetLink == attempts' = 0 /\ confirmed' = FALSE /\ open' = FALSE /\ stable' = FALSE

ReconnectStillDue == UNCHANGED pending
ReconnectTaken    == pending' = FALSE

(* _open_connection from an unconnected socket; DialsFromRest shows it     *)
(* never finds another.                                                    *)
OpenConnection ==
  /\ ReconnectTaken
  /\ buffer' = "empty"
  /\ confirmed' = FALSE /\ open' = TRUE /\ stable' = FALSE
  /\ socket' = "connecting"

WatchGuest ==
  /\ device' = TRUE /\ report' = TRUE
  /\ attempts' = 0
  /\ OpenConnection
  /\ UNCHANGED <<camera, ended, timers, grace, wire, guest, waited, drops>>

(* socket.abort: the bridge finds out later that this host is gone.        *)
Abort ==
  /\ socket' = "unconnected" /\ inbox' = <<>> /\ far' = "none"
  /\ stale' = (stale \/ far \in {"backlog", "served"})

(* _release_camera, for good.  The abort's signal finds nothing running.   *)
Release(why) ==
  /\ device' = FALSE /\ camera' = FALSE
  /\ ended' = (IF ended = "no" THEN why ELSE ended)
  /\ Abort

ScheduleReconnect ==
  IF pending THEN UNCHANGED <<pending, timers>>
             ELSE pending' = TRUE /\ timers' = timers + 1

ReactsAlways    == TRUE
ReactsIfGreeted == Running /\ confirmed
CountsUngreeted == open

Reacts       == Running
CountsAsDrop == open /\ confirmed

OneTooMany(n) == n <= MaxReconnects + 1
BudgetLeft(n) == n <= MaxReconnects

(* _disconnected with link.closed, for a socket that has just come to      *)
(* rest.  Qt may report one drop as an error and as a close: the second    *)
(* report finds the link closed and the reconnect scheduled.  The history  *)
(* takes a drop for one by the greeting alone, whatever the link counts.   *)
Disconnected ==
  /\ socket' = "unconnected" /\ inbox' = <<>> /\ far' = "none"
  /\ UNCHANGED <<owner, asking, buffer, stale, guest, waited>>
  /\ IF ~Reacts
     THEN UNCHANGED <<webcam, link, timing, drops>>
     ELSE LET n == (IF stable THEN 0 ELSE attempts) + 1
          IN /\ grace' = FALSE
             /\ IF ~CountsAsDrop
                THEN /\ open' = FALSE
                     /\ UNCHANGED <<attempts, confirmed, stable, webcam, report, drops>>
                     /\ ScheduleReconnect
                ELSE /\ drops' = (IF ~confirmed THEN drops ELSE IF stable THEN 1 ELSE drops + 1)
                     /\ IF BudgetLeft(n)
                        THEN /\ attempts' = n /\ open' = FALSE
                             /\ UNCHANGED <<confirmed, stable, webcam, report>>
                             /\ ScheduleReconnect
                        ELSE /\ device' = FALSE /\ camera' = FALSE /\ ended' = "spent"
                             /\ report' = FALSE
                             /\ ResetLink
                             /\ UNCHANGED <<pending, timers>>

(* _bridge_answered with _begin_capture.                                   *)
Answered ==
  /\ grace' = FALSE /\ report' = FALSE
  /\ confirmed' = TRUE
  /\ camera' = TRUE /\ device' = FALSE
  /\ UNCHANGED <<ended, attempts, open, stable, pending, timers>>

-----------------------------------------------------------------------------
(* The window's calls, and macOS's answer.                                 *)

AskAndWatch == asking' = TRUE /\ WatchGuest
AskFirst ==
  /\ asking' = TRUE /\ device' = TRUE
  /\ UNCHANGED <<camera, ended, link, timing, socket, buffer, wire, guest, waited, drops>>

Start ==
  /\ owner = "new"
  /\ \/ owner' = "held" /\ WatchGuest /\ UNCHANGED asking
     \/ owner' = "held" /\ AskFirst
     \/ /\ owner' = "dropped" /\ ended' = "denied"   \* or no video input
        /\ UNCHANGED <<device, camera, asking, link, timing, socket, buffer, wire, guest,
                       waited, drops>>

WatchedBefore == TRUE
StillWatching == device

PermissionResult ==
  /\ asking
  /\ asking' = FALSE
  /\ UNCHANGED owner
  /\ \/ StillWatching /\ WatchGuest
     \/ /\ device' = FALSE
        /\ ended' = (IF ended = "no" THEN "denied" ELSE ended)
        /\ UNCHANGED <<camera, link, timing, socket, buffer, wire, guest, waited, drops>>

(* The window stops the streamer once the QEMU it streams to has exited.   *)
(* That the bridge is gone is its discipline (desktop.py: close_display    *)
(* runs only when the guest does not); CameraStreamer.stop asks nothing.   *)
Stop ==
  /\ owner = "held" /\ bridge = "gone"
  /\ owner' = "dropped"
  /\ Release("stopped")
  /\ grace' = FALSE /\ report' = FALSE
  /\ ResetLink
  /\ UNCHANGED <<asking, pending, timers, buffer, guest, waited, drops>>

CameraError ==
  /\ camera
  /\ Release("failed")
  /\ UNCHANGED <<owner, asking, link, timing, buffer, guest, waited, drops>>

-----------------------------------------------------------------------------
(* The socket and the timers.                                              *)

AssumeGreeting == Answered
AwaitGreeting  == grace' = TRUE /\ UNCHANGED <<webcam, link, pending, timers, report>>

(* QEMU takes the connection, whatever goes on inside the guest.           *)
Connected ==
  /\ socket = "connecting" /\ bridge # "gone"
  /\ socket' = "connected" /\ far' = "dialling"
  /\ AwaitGreeting
  /\ UNCHANGED <<owner, asking, buffer, inbox, stale, guest, waited, drops>>

Refused == socket = "connecting" /\ bridge = "gone" /\ Disconnected

(* A streamer that has ended leaves unread what precedes the close.        *)
PeerClosed ==
  /\ socket = "connected" /\ inbox # <<>>
  /\ IF Running THEN Head(inbox) = "fin" ELSE inbox[Len(inbox)] = "fin"
  /\ Disconnected

Extend(chunk) ==
  IF buffer = "part" THEN (IF chunk = "rest" THEN "greeting" ELSE "other")
  ELSE IF buffer = "empty" /\ chunk \in {"part", "greeting"} THEN chunk ELSE "other"

ReadGreeting ==
  /\ Running /\ socket = "connected"
  /\ inbox # <<>> /\ Head(inbox) # "fin"
  /\ inbox' = Tail(inbox)
  /\ buffer' = Extend(Head(inbox))
  /\ IF buffer' = "part" THEN UNCHANGED <<webcam, link, timing>> ELSE Answered
  /\ UNCHANGED <<owner, asking, socket, far, stale, guest, waited, drops>>

(* The grace outlasts stable_seconds.                                      *)
GreetingTimedOut ==
  /\ grace /\ stable
  /\ waited' = TRUE
  /\ IF Running THEN Answered
     ELSE grace' = FALSE /\ UNCHANGED <<webcam, link, pending, timers, report>>
  /\ UNCHANGED <<owner, asking, socket, buffer, wire, guest, drops>>

ReconnectFires ==
  /\ timers > 0
  /\ timers' = timers - 1
  /\ OpenConnection
  /\ UNCHANGED <<owner, asking, webcam, attempts, grace, report, wire, guest, waited, drops>>

Ages ==
  /\ open /\ ~stable
  /\ stable' = TRUE
  /\ UNCHANGED <<owner, asking, webcam, attempts, confirmed, open, timing, socket, buffer,
                 wire, guest, waited, drops>>

-----------------------------------------------------------------------------
(* The guest: QEMU completes the connection, or closes it, and the bridge  *)
(* serves one host after the other.                                        *)

HostFrame == UNCHANGED <<owner, asking, webcam, link, timing, socket, buffer, waited, drops>>

HangUp == far' = "none" /\ inbox' \in {Append(inbox, "fin"), <<"fin">>}

FarConnects ==
  /\ far = "dialling"
  /\ \/ bridge = "up" /\ far' = "backlog" /\ UNCHANGED inbox
     \/ bridge # "up" /\ HangUp
  /\ UNCHANGED <<stale, guest>> /\ HostFrame

(* serve_connection's greeting; what an older release sends is not known.  *)
BridgeAccepts ==
  /\ bridge = "up" /\ far = "backlog" /\ ~stale
  /\ far' = "served"
  /\ inbox' \in {inbox \o s : s \in IF greets THEN {<<"greeting">>, <<"part", "rest">>}
                                              ELSE {<<>>, <<"other">>}}
  /\ spoke' = (spoke \/ inbox' # inbox)
  /\ UNCHANGED <<stale, bridge, greets>> /\ HostFrame

BridgeDropsStale ==
  /\ stale
  /\ stale' = FALSE
  /\ UNCHANGED <<inbox, far, guest>> /\ HostFrame

(* A host silent for IDLE_TOLERANCE, which outlasts stable_seconds.        *)
BridgeHangsUp ==
  /\ far = "served" /\ stable
  /\ far' = "none" /\ inbox' = Append(inbox, "fin")
  /\ UNCHANGED <<stale, guest>> /\ HostFrame

BridgeFails ==
  /\ bridge = "up"
  /\ bridge' = "down" /\ stale' = FALSE
  /\ IF far \in {"backlog", "served"} THEN HangUp ELSE UNCHANGED <<far, inbox>>
  /\ UNCHANGED <<greets, spoke>> /\ HostFrame

QemuExits ==
  /\ bridge # "gone"
  /\ bridge' = "gone" /\ stale' = FALSE
  /\ IF far = "none" THEN UNCHANGED <<far, inbox>> ELSE HangUp
  /\ UNCHANGED <<greets, spoke>> /\ HostFrame

BridgeStarts ==
  /\ bridge = "down"
  /\ bridge' = "up"
  /\ UNCHANGED <<inbox, far, stale, greets, spoke>> /\ HostFrame

-----------------------------------------------------------------------------

Window  == Start \/ Stop
Sockets == Connected \/ Refused \/ PeerClosed \/ ReadGreeting
Guest   == FarConnects \/ BridgeAccepts \/ BridgeDropsStale

Next == Window \/ PermissionResult \/ CameraError \/ Sockets \/ GreetingTimedOut
          \/ ReconnectFires \/ Ages \/ Guest \/ BridgeHangsUp \/ BridgeFails \/ BridgeStarts
          \/ QemuExits

Spec == Init /\ [][Next]_vars

(* Qt delivers the socket's signals and the timers, and the guest's kernel *)
(* and bridge go on while they are up; a host that has ended is silent, so *)
(* the bridge drops it.  The user may never answer macOS.                  *)
FairSpec ==
  /\ Spec
  /\ WF_vars(Sockets) /\ WF_vars(ReconnectFires)
  /\ WF_vars(FarConnects) /\ WF_vars(BridgeAccepts) /\ WF_vars(BridgeDropsStale)
  /\ WF_vars(Ages) /\ WF_vars(ended # "no" /\ BridgeHangsUp)

-----------------------------------------------------------------------------
(* What must hold.                                                         *)

(* The webcam comes on only when the guest's bridge has spoken to this     *)
(* streamer, or after a greeting's whole grace (_connected,                *)
(* _read_greeting, _greeting_timed_out).                                   *)
WebcamHeard == camera => spoke \/ waited

(* A streamer that watches is never deaf: a connection is under way or up, *)
(* or a reconnect is scheduled (_disconnected, _schedule_reconnect).       *)
NeverDeaf == Running /\ ~asking => socket # "unconnected" \/ timers > 0

(* No dial throws a connection away: neither a late timer nor a late       *)
(* permission (_open_connection, _watch_guest).                            *)
DialsFromRest == [][socket = "connected" => socket' # "connecting"]_vars

(* The streamer gives up after the budget of greeted links that dropped,   *)
(* never sooner, and never goes on beyond it (GuestLink.closed).           *)
BudgetExact ==
  /\ ended = "spent" => drops > MaxReconnects
  /\ Running => drops <= MaxReconnects

(* Once stopped, spent, failed or denied, no late greeting, grace,         *)
(* permission or reconnect brings the webcam back (stop, _give_up,         *)
(* _camera_error, _camera_permission_result).                              *)
ReleasedForGood == ended # "no" => ~Running

(* A bridge that stays up at last is streamed to, however the guest        *)
(* booted, dropped and restarted before (_schedule_reconnect).             *)
BridgeStreams ==
  (greets /\ <>[](bridge = "up")) => ((device /\ ~asking) ~> (camera \/ ended # "no"))

(* A streamer that ended may still have a reconnect due, which dials       *)
(* again, but it dies out: no connection is left to the guest and none is  *)
(* tried (_open_connection, _disconnected, IDLE_TOLERANCE).                *)
EndsQuietly ==
  greets => (ended # "no" ~> [](socket = "unconnected" /\ timers = 0))
=============================================================================
