--------------------------- MODULE NativeContainer ---------------------------
(***************************************************************************)
(* Android in its LXC container on a Linux host.  One daemon (androidbox   *)
(* container start) starts and stops the container for the session it      *)
(* tracks; its D-Bus methods and the binder calls of its hardware service  *)
(* run one at a time on its main loop.  Around it, each in a process of    *)
(* its own: the session daemons of the users, app, prop and shell          *)
(* commands, init and upgrade, and root's container stop and restart,      *)
(* which act on the container without the daemon.  AndroidBox is           *)
(* initialized.                                                            *)
(*                                                                         *)
(* do_start is two steps, since its caller may give up waiting in between; *)
(* any other handler is one step with the outcomes it may leave.           *)
(***************************************************************************)
EXTENDS Naturals, FiniteSets

CONSTANTS
  Sessions,   (* the session processes, each of which starts once          *)
  Commands,   (* app and prop commands, and shells                         *)
  Shell,      (* the shell among them                                      *)
  None,
  MaxTrouble  (* bound: commands, runs of init, root's own actions,        *)
              (* failures, timeouts and deaths                             *)

ASSUME ContainerAssumption ==
  /\ None \notin Sessions /\ Shell \in Commands
  /\ MaxTrouble \in Nat

VARIABLES
  (* The host.                                                             *)
  lxc,        (* "STOPPED", "SPAWNED" (lxc-start is under way), "RUNNING", *)
              (* "FROZEN"                                                  *)
  net,        (* network_up                                                *)
  rootfs,     (* what is mounted: "none", "part" or "whole"                *)
  owner,      (* the session whose config_session the container has        *)
  (* The daemon.                                                           *)
  tracked,    (* args.session                                              *)
  starting,   (* the session do_start is waiting for the container for     *)
  asker,      (* who called that Start: the session or "root"              *)
  serving,    (* the hardware service answers Android                      *)
  (* The session processes.                                                *)
  sess,       (* "none", "calling", "running", "leaving" or "gone"         *)
  call,       (* the session's D-Bus call to the daemon, if any            *)
  told,       (* SIGUSR1 is pending                                        *)
  lingers,    (* a service thread missed its quit() and keeps the process  *)
  (* The commands, and init or upgrade.                                    *)
  cmd,        (* "idle", "unfreeze", "act" or "freeze"                     *)
  was,        (* the state a command saw                                   *)
  root,       (* "idle", "stop", "images", "start", "wait", or "remote":   *)
              (* the init that the download window asked the daemon for    *)
  back,       (* the session init is to restart                            *)
  trouble,
  (* History, read by no action:                                           *)
  stray,      (* a container may run that the daemon does not track, or    *)
              (* that root stopped while it was starting                   *)
  spoiled,    (* a stop failed, or a start outlived its caller, and the    *)
              (* daemon keeps the session                                  *)
  orphaned,   (* init did not restart the session it stopped, or a Stop    *)
              (* for one session stopped another's container               *)
  owed        (* a command saw the container frozen, and only commands     *)
              (* froze or unfroze it since                                 *)

host     == <<lxc, net, rootfs, owner>>
daemon   == <<tracked, starting, asker, serving>>
sessions == <<sess, call, told, lingers>>
cli      == <<cmd, was>>
rootProc == <<root, back>>
history  == <<stray, spoiled, orphaned>>
vars     == <<host, daemon, sessions, cli, rootProc, trouble, history, owed>>

TypeOK ==
  /\ lxc \in {"STOPPED", "SPAWNED", "RUNNING", "FROZEN"}
  /\ net \in BOOLEAN /\ rootfs \in {"none", "part", "whole"}
  /\ owner \in Sessions \cup {None}
  /\ tracked \in Sessions \cup {None} /\ starting \in Sessions \cup {None}
  /\ asker \in {"session", "root"} /\ (starting # None => tracked = None)
  /\ serving \in BOOLEAN
  /\ sess \in [Sessions -> {"none", "calling", "running", "leaving", "gone"}]
  /\ call \in [Sessions -> {"none", "start", "stop"}]
  /\ told \in [Sessions -> BOOLEAN] /\ lingers \in [Sessions -> BOOLEAN]
  /\ cmd \in [Commands -> {"idle", "unfreeze", "act", "freeze"}]
  /\ was \in [Commands -> {"RUNNING", "FROZEN"}]
  /\ root \in {"idle", "stop", "images", "start", "wait", "remote"}
  /\ back \in Sessions \cup {None}
  /\ trouble \in 0..MaxTrouble
  /\ stray \in BOOLEAN /\ spoiled \in BOOLEAN /\ orphaned \in BOOLEAN
  /\ owed \in BOOLEAN

Init ==
  /\ lxc = "STOPPED" /\ net = FALSE /\ rootfs = "none" /\ owner = None
  /\ tracked = None /\ starting = None /\ asker = "session"
  /\ serving = FALSE
  /\ sess = [s \in Sessions |-> "none"] /\ call = [s \in Sessions |-> "none"]
  /\ told = [s \in Sessions |-> FALSE] /\ lingers = [s \in Sessions |-> FALSE]
  /\ cmd = [c \in Commands |-> "idle"] /\ was = [c \in Commands |-> "RUNNING"]
  /\ root = "idle" /\ back = None /\ trouble = 0
  /\ stray = FALSE /\ spoiled = FALSE /\ orphaned = FALSE /\ owed = FALSE

Up      == lxc \in {"RUNNING", "FROZEN"}
Idle    == starting = None
Trouble == trouble < MaxTrouble /\ trouble' = trouble + 1
Calm    == UNCHANGED trouble

(* Any step but a command's ends what a command owes if it changes the     *)
(* container's state.                                                      *)
Disturbs == owed' = (owed /\ lxc' = lxc)

-----------------------------------------------------------------------------
(* What the handlers are made of.                                          *)

(* androidbox-net.sh: the bridge, its rules and dnsmasq.                   *)
NetworkStarts == net' = TRUE
NetworkStops  == net' = FALSE

(* The images, overlays and the session's properties, mounted one by one;  *)
(* a mount that fails leaves the ones before it, the first of which has    *)
(* unmounted what was there.  What is busy is not unmounted.               *)
MountRootfs  == rootfs' = "whole"
MountFails   == rootfs' \in {rootfs, "none", "part"}
UmountRootfs == rootfs' = "none"
UmountFails  == rootfs' \in {rootfs, "part"}

(* config_session, with the session's Wayland socket and data: read by the *)
(* next lxc-start only.                                                    *)
ConfigureFor(s) == owner' = (IF lxc = "STOPPED" THEN s ELSE owner)

(* lxc-start -F in the background, until the container runs: it may fail,  *)
(* or run only after wait_for_running has given up.                        *)
LxcStart ==
  /\ UNCHANGED owner
  /\ \/ lxc' = "RUNNING" /\ Calm /\ UNCHANGED stray
     \/ lxc' \in {"SPAWNED", "STOPPED"} /\ Trouble
          /\ stray' = (stray \/ lxc' = "SPAWNED")

(* The container is down, the network and the mounts are gone.  What is    *)
(* not visible to lxc-info yet is not killed.                              *)
TakeDown ==
  /\ lxc' \in (IF lxc = "SPAWNED" THEN {"STOPPED", "SPAWNED"} ELSE {"STOPPED"})
  /\ NetworkStops /\ UmountRootfs

(* lxc-stop fails, or some unmount does.                                   *)
TakeDownFails ==
  \/ Up /\ UNCHANGED <<lxc, net, rootfs>>
  \/ rootfs # "none" /\ lxc' = (IF Up THEN "STOPPED" ELSE lxc)
       /\ NetworkStops /\ UmountFails

(* The hardware service answers Android from its start to its stop.        *)
HardwareStarts == serving' = TRUE
HardwareStops  == serving' = FALSE

Tell(quit) == told' = [s \in Sessions |-> told[s] \/ (quit /\ s = tracked /\ sess[s] # "gone")]

(* container_manager.stop in the daemon.  An exception is swallowed and    *)
(* leaves the session tracked.  Before it, faulty variants.                *)
StopKeepingSession(quit) ==
  /\ HardwareStops /\ TakeDown /\ Tell(quit)
  /\ Calm /\ UNCHANGED <<owner, tracked, spoiled, stray>>

StopWithoutTelling(quit) ==
  /\ HardwareStops /\ TakeDown /\ Tell(FALSE) /\ tracked' = None
  /\ Calm /\ UNCHANGED <<owner, spoiled, stray>>

StopContainer(quit) ==
  /\ HardwareStops /\ UNCHANGED owner
  /\ \/ TakeDown /\ Tell(quit) /\ tracked' = None /\ Calm /\ UNCHANGED spoiled
          /\ stray' = (lxc' = "SPAWNED")
     \/ TakeDownFails /\ Trouble /\ spoiled' = TRUE /\ UNCHANGED <<tracked, told, stray>>

Freeze   == lxc' = IF lxc = "RUNNING" THEN "FROZEN" ELSE lxc
Unfreeze == lxc' = IF lxc = "FROZEN" THEN "RUNNING" ELSE lxc

-----------------------------------------------------------------------------
(* DbusContainerManager.Start.  Its caller is the session itself, or init  *)
(* or upgrade with the session it stopped.                                 *)

Takes(s, who) ==
  /\ Idle
  /\ \/ who = "session" /\ call[s] = "start" /\ call' = [call EXCEPT ![s] = "none"]
     \/ who = "root" /\ root = "start" /\ back = s /\ UNCHANGED call

(* The reply, if the caller still waits for it.                            *)
Reply(s, who, ok) ==
  /\ root' = (IF who = "root" THEN "idle" ELSE root)
  /\ back' = (IF who = "root" THEN None ELSE back)
  /\ sess' = IF who = "session" /\ sess[s] = "calling"
             THEN [sess EXCEPT ![s] = IF ok THEN "running" ELSE "gone"] ELSE sess
  /\ orphaned' = (orphaned \/ (who = "root" /\ ~ok))
  /\ UNCHANGED lingers

(* do_start's checks.  A caller that has left the bus has no uid.          *)
TrackingOrNot == TRUE
NotTracking   == tracked = None
MayStart(s, who) == NotTracking /\ (who = "session" => sess[s] = "calling")

StartRefused(s, who) ==
  /\ Takes(s, who) /\ ~MayStart(s, who)
  /\ Reply(s, who, FALSE)
  /\ UNCHANGED <<host, daemon, told, cli, trouble, stray, spoiled>> /\ Disturbs

(* The network, the session's LXC configuration, the root file system and  *)
(* lxc-start.  What fails on the way is not undone.                        *)
StartBegins(s, who) ==
  /\ Takes(s, who) /\ MayStart(s, who)
  /\ root' = (IF who = "root" THEN "wait" ELSE root)
  /\ NetworkStarts /\ ConfigureFor(s) /\ MountRootfs
  /\ lxc' = (IF lxc = "STOPPED" THEN "SPAWNED" ELSE lxc)
  /\ starting' = s /\ asker' = who
  /\ UNCHANGED <<tracked, serving, sess, told, lingers, cli, back, trouble, history>>
  /\ Disturbs

(* binder's modules or nodes cannot be had; or the network cannot be set   *)
(* up, which takes itself down again.                                      *)
DriversFail == UNCHANGED <<net, rootfs, owner>>

StartFails(s, who) ==
  /\ Takes(s, who) /\ MayStart(s, who) /\ Trouble
  /\ \/ DriversFail
     \/ NetworkStarts /\ UNCHANGED <<rootfs, owner>>      \* no Wayland socket
     \/ NetworkStarts /\ ConfigureFor(s) /\ (MountFails \/ MountRootfs)
  /\ Reply(s, who, FALSE)
  /\ UNCHANGED <<lxc, daemon, told, cli, stray, spoiled>> /\ Disturbs

(* The container runs: the session is tracked last.                        *)
StartEnds ==
  /\ ~Idle /\ lxc = "RUNNING"
  /\ HardwareStarts /\ tracked' = starting /\ starting' = None /\ asker' = "session"
  /\ Reply(starting, asker, TRUE)
  /\ spoiled' = (spoiled \/ told[starting]
                         \/ (sess'[starting] # "running" /\ call[starting] # "stop"))
  /\ UNCHANGED <<host, call, told, cli, trouble, stray>> /\ Disturbs

(* Ten tries without a running container.                                  *)
StartGivesUp ==
  /\ ~Idle /\ lxc # "RUNNING"
  /\ \/ lxc = "SPAWNED" /\ Trouble /\ stray' = TRUE
     \/ lxc # "SPAWNED" /\ Calm /\ stray' = (stray \/ Up)
  /\ starting' = None /\ asker' = "session" /\ Reply(starting, asker, FALSE)
  /\ UNCHANGED <<host, tracked, serving, call, told, cli, spoiled>>
  /\ Disturbs

-----------------------------------------------------------------------------
(* The daemon's other handlers.                                            *)

(* Stop(False), which a session sends when it ends; whose container runs   *)
(* is not looked at.                                                       *)
StopForSession(s) ==
  /\ Idle /\ call[s] = "stop" /\ call' = [call EXCEPT ![s] = "none"]
  /\ StopContainer(FALSE) /\ orphaned' = (orphaned \/ tracked \notin {s, None})
  /\ UNCHANGED <<starting, asker, sess, lingers, cli, rootProc>> /\ Disturbs

(* session stop where no session is on the bus, and a suspend that stops:  *)
(* Stop(True).                                                             *)
StopAndTell ==
  /\ Idle /\ StopContainer(TRUE)
  /\ UNCHANGED <<starting, asker, sess, call, lingers, cli, rootProc, orphaned>> /\ Disturbs

(* SIGTERM or SIGINT: stop, whatever comes of it, kill the worker of a      *)
(* remote init and quit.  D-Bus starts a fresh daemon for the next call.   *)
Terminate ==
  /\ Idle /\ Trouble /\ tracked' = None /\ HardwareStops
  /\ \/ TakeDown /\ Tell(TRUE) /\ stray' = (lxc' = "SPAWNED") /\ UNCHANGED orphaned
     \/ TakeDownFails /\ UNCHANGED told /\ stray' = (lxc' # "STOPPED")
          /\ orphaned' = (orphaned \/ tracked # None)
  /\ root' = (IF root = "remote" THEN "idle" ELSE root)
  /\ UNCHANGED <<owner, starting, asker, sess, call, lingers, cli, back, spoiled>>
  /\ Disturbs

(* Android's calls to the hardware service.                                *)
Android == Idle /\ lxc = "RUNNING" /\ serving
Others  == <<starting, asker, sess, call, lingers, cli, rootProc, orphaned>>

Suspend ==
  /\ Android /\ Freeze
  /\ UNCHANGED <<net, rootfs, owner, tracked, serving, told, trouble, stray, spoiled, Others>>
  /\ Disturbs

Reboot ==
  /\ Android
  /\ \/ LxcStart
     \/ Trouble /\ UNCHANGED <<lxc, owner, stray>>
  /\ UNCHANGED <<net, rootfs, tracked, serving, told, spoiled, Others>> /\ Disturbs

(* Images replaced under a stopped container, then mounted; it stays down  *)
(* when a step fails.                                                      *)
UpgradeUnmounted ==
  /\ Android /\ rootfs' = "none" /\ LxcStart
  /\ UNCHANGED <<net, tracked, serving, told, spoiled, Others>> /\ Disturbs

UpgradeFails ==
  /\ Trouble /\ UNCHANGED <<owner, stray>>
  /\ \/ lxc' = "STOPPED" /\ (MountRootfs \/ MountFails)
     \/ UNCHANGED <<lxc, rootfs>>

UpgradeAndroid ==
  /\ Android
  /\ (MountRootfs /\ LxcStart) \/ UpgradeFails
  /\ UNCHANGED <<net, tracked, serving, told, spoiled, Others>> /\ Disturbs

(* Android is seen to halt within 30 seconds, or the request is dropped.   *)
ShutdownRequest ==
  /\ Android
  /\ \/ LxcStart /\ UNCHANGED <<net, rootfs, tracked, serving, told, spoiled>>
     \/ HardwareStops /\ lxc' = "STOPPED" /\ NetworkStops /\ UmountRootfs
          /\ tracked' = None /\ Tell(TRUE) /\ Calm
          /\ UNCHANGED <<owner, stray, spoiled>>
     \/ HardwareStops /\ lxc' = "STOPPED" /\ NetworkStops /\ UmountFails
          /\ Trouble /\ spoiled' = TRUE /\ UNCHANGED <<owner, tracked, told, stray>>
  /\ UNCHANGED Others /\ Disturbs

-----------------------------------------------------------------------------
(* The session processes (session_manager).                                *)

SessionOnly == /\ UNCHANGED <<host, daemon, cli, rootProc, history>> /\ Disturbs

SessionStart(s) ==
  /\ sess[s] = "none"
  /\ sess' = [sess EXCEPT ![s] = "calling"] /\ call' = [call EXCEPT ![s] = "start"]
  /\ UNCHANGED <<told, lingers, trouble>> /\ SessionOnly

(* The call times out, or the session is killed: the process is gone, and  *)
(* what it sent is not.                                                    *)
SessionDies(s) ==
  /\ sess[s] \in {"calling", "running", "leaving"} /\ Trouble
  /\ sess' = [sess EXCEPT ![s] = "gone"] /\ lingers' = [lingers EXCEPT ![s] = FALSE]
  /\ told' = [told EXCEPT ![s] = FALSE]
  /\ spoiled' = (spoiled \/ (s = tracked /\ call[s] # "stop"))
  /\ UNCHANGED <<host, daemon, call, cli, rootProc, stray, orphaned>> /\ Disturbs

(* The threads of the user monitor, the clipboard and the notifications    *)
(* serve in their loops until `stopping` is set and quit() is called; one  *)
(* that has looked at stopping and whose loop does not run yet misses it.  *)
ServicesQuit(s)     == lingers' = [lingers EXCEPT ![s] = FALSE] /\ Calm
ServiceMissesQuit(s) == lingers' = [lingers EXCEPT ![s] = TRUE] /\ Trouble
ThreadsEnded(s)     == ~lingers[s]

DoStop(s) ==
  /\ sess' = [sess EXCEPT ![s] = "leaving"]
  /\ ServicesQuit(s) \/ ServiceMissesQuit(s)

(* SIGHUP, SIGINT, SIGTERM, the bus is lost, or `session stop`, which a    *)
(* service loop that missed its quit() still answers.                      *)
SessionStop(s) ==
  /\ sess[s] = "running" \/ (sess[s] = "leaving" /\ call[s] = "none" /\ ~ThreadsEnded(s))
  /\ DoStop(s) /\ call' = [call EXCEPT ![s] = "stop"]
  /\ UNCHANGED told /\ SessionOnly

(* SIGUSR1.                                                                *)
SessionTold(s) ==
  /\ sess[s] = "running" /\ told[s]
  /\ DoStop(s) /\ told' = [told EXCEPT ![s] = FALSE]
  /\ UNCHANGED call /\ SessionOnly

(* The process ends when its call is answered and its threads have ended.  *)
SessionGone(s) ==
  /\ sess[s] = "leaving" /\ call[s] = "none" /\ ThreadsEnded(s)
  /\ sess' = [sess EXCEPT ![s] = "gone"] /\ told' = [told EXCEPT ![s] = FALSE]
  /\ UNCHANGED <<call, lingers, trouble>> /\ SessionOnly

-----------------------------------------------------------------------------
(* app install, remove and list, prop get and set; root's shell.           *)

CommandOnly == UNCHANGED <<net, rootfs, owner, daemon, sessions, rootProc, history>>
Unsettled   == UNCHANGED <<host, daemon, sessions, rootProc, history>>
OnTheBus    == \E s \in Sessions : sess[s] = "running"

(* What a command reads of the session, if the daemon tracks one.          *)
GetSession == Idle /\ tracked # None

CommandLooks(c) ==
  /\ cmd[c] = "idle" /\ Up
  /\ c = Shell \/ (OnTheBus /\ GetSession)
  /\ was' = [was EXCEPT ![c] = lxc]
  /\ cmd' = [cmd EXCEPT ![c] = IF lxc = "FROZEN" THEN "unfreeze" ELSE "act"]
  /\ owed' = (owed \/ lxc = "FROZEN")
  /\ Trouble /\ Unsettled

CommandUnfreezes(c) ==
  /\ cmd[c] = "unfreeze" /\ (c = Shell \/ Idle)
  /\ Unfreeze /\ cmd' = [cmd EXCEPT ![c] = "act"]
  /\ UNCHANGED <<was, trouble, owed>> /\ CommandOnly

CommandActsAndLeaves(c) ==
  /\ cmd[c] = "act" /\ cmd' = [cmd EXCEPT ![c] = "idle"]
  /\ UNCHANGED <<was, trouble, owed>> /\ Unsettled

(* Android answers or its service is waited for in vain: the command goes  *)
(* on all the same.                                                        *)
Answered(c) ==
  /\ cmd' = [cmd EXCEPT ![c] = IF was[c] = "FROZEN" THEN "freeze" ELSE "idle"]
  /\ UNCHANGED <<trouble, owed>>

CommandFails(c) == cmd' = [cmd EXCEPT ![c] = "idle"] /\ Trouble /\ owed' = FALSE

CommandActs(c) ==
  /\ cmd[c] = "act"
  /\ Answered(c) \/ CommandFails(c)
  /\ was' = (IF cmd'[c] = "idle" THEN [was EXCEPT ![c] = "RUNNING"] ELSE was) /\ Unsettled

CommandFreezes(c) ==
  /\ cmd[c] = "freeze" /\ (c = Shell \/ Idle)
  /\ Freeze /\ cmd' = [cmd EXCEPT ![c] = "idle"] /\ was' = [was EXCEPT ![c] = "RUNNING"]
  /\ UNCHANGED <<trouble, owed>> /\ CommandOnly

(* app launch and intent, and the full screen: unfrozen for good.          *)
Launch ==
  /\ Idle /\ OnTheBus /\ Unfreeze
  /\ UNCHANGED <<cli, trouble>> /\ CommandOnly /\ Disturbs

-----------------------------------------------------------------------------
(* init and upgrade, root's own commands, and the container.               *)

InitBegins ==
  /\ root = "idle" /\ Idle /\ Trouble
  /\ back' = (IF lxc = "STOPPED" THEN None ELSE tracked)
  /\ root' = IF lxc = "STOPPED" THEN "images" ELSE "stop"
  /\ UNCHANGED <<host, daemon, sessions, cli, history>> /\ Disturbs

InitStops ==
  /\ root = "stop" /\ Idle /\ root' = "images"
  /\ StopContainer(FALSE) /\ orphaned' = (orphaned \/ tracked \notin {back, None})
  /\ UNCHANGED <<starting, asker, sess, call, lingers, cli, back>> /\ Disturbs

(* The daemon does not answer in time, so init or upgrade stops the        *)
(* container itself, as RootStops does.  It was the Stop that timed out,   *)
(* which the daemon still does (InitStops), or GetSession did: then there  *)
(* is no session to restart.                                               *)
InitStopsAlone ==
  /\ root = "stop" /\ Trouble /\ (TakeDown \/ TakeDownFails) /\ stray' = (stray \/ ~Idle)
  /\ \/ UNCHANGED <<root, back, orphaned>>
     \/ root' = "images" /\ back' = None /\ orphaned' = (orphaned \/ back # None)
  /\ UNCHANGED <<owner, daemon, sessions, cli, spoiled>> /\ Disturbs

(* The images are fetched and the container is configured anew, or that    *)
(* fails, and nobody restarts the session.                                 *)
InstallFails == /\ root' = "idle" /\ back' = None /\ Trouble
                /\ orphaned' = (orphaned \/ back # None)

(* The configuration is rewritten; config_session only comes to exist.     *)
SetLxcConfig == UNCHANGED owner

(* init and upgrade restart what they stopped; without a session, Start's  *)
(* first line raises.                                                      *)
RestartWhatRan == /\ root' = (IF back # None THEN "start" ELSE "idle") /\ Calm
                  /\ UNCHANGED <<back, orphaned>>

InitInstalls ==
  /\ root = "images" /\ (RestartWhatRan \/ InstallFails) /\ SetLxcConfig
  /\ UNCHANGED <<lxc, net, rootfs, daemon, sessions, cli, stray, spoiled>> /\ Disturbs

(* The download window's Init: the worker that still runs is killed, and   *)
(* one process more installs the images.  Its own stop of a container that *)
(* is not down raises for want of a session, and it is interrupted.        *)
RemoteInit ==
  /\ root \in {"idle", "remote"} /\ Idle /\ Trouble
  /\ root' = (IF lxc = "STOPPED" THEN "remote" ELSE "idle")
  /\ SetLxcConfig
  /\ UNCHANGED <<lxc, net, rootfs, daemon, sessions, cli, back, history>> /\ Disturbs

(* Finished, interrupted, or killed by Cancel.                             *)
RemoteEnds ==
  /\ root = "remote" /\ root' = "idle"
  /\ UNCHANGED <<host, daemon, sessions, cli, back, trouble, history>> /\ Disturbs

(* container stop in a process of its own, whose args hold no session and  *)
(* whose hardware service never ran.                                       *)
RootStops ==
  /\ Trouble /\ (TakeDown \/ TakeDownFails) /\ stray' = (stray \/ ~Idle)
  /\ UNCHANGED <<owner, daemon, sessions, cli, rootProc, spoiled, orphaned>> /\ Disturbs

RootRestarts ==
  /\ lxc = "RUNNING" /\ LxcStart
  /\ UNCHANGED <<net, rootfs, daemon, sessions, cli, rootProc, spoiled, orphaned>> /\ Disturbs

RootFreezes ==
  /\ Up /\ Trouble /\ (Freeze \/ Unfreeze)
  /\ UNCHANGED <<net, rootfs, owner, daemon, sessions, cli, rootProc, history>>
  /\ Disturbs

(* The container comes up, if its root file system is there.               *)
LxcRuns ==
  /\ lxc = "SPAWNED" /\ lxc' = IF rootfs = "whole" THEN "RUNNING" ELSE "STOPPED"
  /\ UNCHANGED <<net, rootfs, owner, daemon, sessions, cli, rootProc, trouble, history>>
  /\ Disturbs

(* Android ends by itself, or fails to come up; LXC does not respawn it.   *)
AndroidExits ==
  /\ lxc \in {"SPAWNED", "RUNNING"} /\ lxc' = "STOPPED" /\ Trouble
  /\ UNCHANGED <<net, rootfs, owner, daemon, sessions, cli, rootProc, history>>
  /\ Disturbs

-----------------------------------------------------------------------------
Handlers ==
  \/ \E s \in Sessions, who \in {"session", "root"} :
       StartRefused(s, who) \/ StartBegins(s, who) \/ StartFails(s, who)
  \/ StartEnds \/ StartGivesUp
  \/ \E s \in Sessions : StopForSession(s)

Next ==
  \/ Handlers \/ StopAndTell \/ Terminate
  \/ Suspend \/ Reboot \/ UpgradeAndroid \/ ShutdownRequest
  \/ \E s \in Sessions : \/ SessionStart(s) \/ SessionDies(s)
                         \/ SessionStop(s) \/ SessionTold(s) \/ SessionGone(s)
  \/ \E c \in Commands : \/ CommandLooks(c) \/ CommandUnfreezes(c) \/ CommandActs(c)
                         \/ CommandFreezes(c)
  \/ Launch
  \/ InitBegins \/ InitStops \/ InitStopsAlone \/ InitInstalls \/ RemoteInit \/ RemoteEnds
  \/ RootStops \/ RootRestarts \/ RootFreezes
  \/ LxcRuns \/ AndroidExits

Spec == Init /\ [][Next]_vars

(* The daemon's loop answers every call, and threads and sessions go on.   *)
FairSpec ==
  /\ Spec
  /\ WF_vars(Handlers) /\ WF_vars(LxcRuns)
  /\ \A s \in Sessions : /\ SF_vars(StopForSession(s))
                         /\ WF_vars(SessionTold(s)) /\ WF_vars(SessionGone(s))

-----------------------------------------------------------------------------
(* While the daemon tracks a session, the container that runs is that      *)
(* session's, started with its Wayland socket and data, on a mounted root  *)
(* and with its network up, through reboots, upgrades, another session's   *)
(* attempts and root's own commands; only a container that outlived its    *)
(* start is not (do_start, stop, hardware_manager).                        *)
AndroidIsTheSessions ==
  (tracked # None /\ Up /\ ~stray) => rootfs = "whole" /\ net /\ owner = tracked

(* Commands that found Android frozen leave it frozen when the last of     *)
(* them is done, whatever their order, unless something else touched the   *)
(* container or a command failed (app_manager.py, prop.py, lxc.shell).     *)
LeftFrozen == (owed /\ \A c \in Commands : cmd[c] = "idle") => lxc = "FROZEN"

(* A session that runs is the one the daemon tracks, or has been told to   *)
(* end, or waits for init to restart its container: other sessions'        *)
(* attempts, Android's reboots and upgrades, and root's commands do not    *)
(* take its container away unnoticed.  What does is an init that does not  *)
(* restart it and another session's Stop (orphaned), and what keeps a dead *)
(* session tracked (spoiled).                                              *)
RunningSessionHasAndroid ==
  \A s \in Sessions : sess[s] = "running" /\ ~orphaned /\ ~spoiled
                        => tracked = s \/ told[s] \/ (back = s /\ root # "idle")

(* A session told to end, or ending by itself, ends and is not tracked for *)
(* ever, which would refuse every later session, unless a stop failed, a   *)
(* start outlived its caller or a service thread missed its quit()         *)
(* (session_manager.do_stop, container_manager.stop).                      *)
ContainerGivenUp ==
  \A s \in Sessions :
    (told[s] /\ sess[s] = "running") \/ sess[s] = "leaving"
      ~> (sess[s] = "gone" /\ tracked # s) \/ spoiled \/ lingers[s]
=============================================================================
