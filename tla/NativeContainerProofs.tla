------------------------- MODULE NativeContainerProofs -------------------------
(***************************************************************************)
(* What NativeContainer's run checks on a small instance, proved for any   *)
(* number of sessions and commands and any amount of trouble.              *)
(*                                                                         *)
(* Each of the three invariants says what holds when nothing is under way: *)
(* Owed, Held and Known say what holds in between, while a command has the *)
(* container unfrozen, a Start waits for the container, or init has a      *)
(* session to restart.                                                     *)
(***************************************************************************)
EXTENDS NativeContainer, TLAPS

(* A container that is owed to be frozen is frozen, or a command that saw  *)
(* it frozen is not done with it.                                          *)
Owed ==
  /\ \A c \in Commands : cmd[c] \in {"unfreeze", "freeze"} => was[c] = "FROZEN"
  /\ owed => /\ Up
             /\ \/ lxc = "FROZEN"
                \/ \E c \in Commands : cmd[c] # "idle" /\ was[c] = "FROZEN"

(* Whose container it is, from the start of lxc-start on.                  *)
Belongs(s) == s # None /\ lxc # "STOPPED" => rootfs = "whole" /\ net /\ owner = s

Held ==
  ~stray => /\ Belongs(tracked) /\ Belongs(starting)
            /\ tracked # None => lxc # "SPAWNED"
            /\ tracked = None /\ starting = None => lxc = "STOPPED"

(* Who knows of a session that runs.                                       *)
Known ==
  /\ \A s \in Sessions : call[s] = "stop" => sess[s] \in {"leaving", "gone"}
  /\ asker = "root" => root = "wait" /\ back = starting
  /\ root \in {"idle", "remote"} => back = None
  /\ root = "wait" => asker = "root"
  /\ starting = None => asker = "session"
  /\ RunningSessionHasAndroid

-----------------------------------------------------------------------------
(* LeftFrozen.                                                             *)

CommandsTyped ==
  /\ cmd \in [Commands -> {"idle", "unfreeze", "act", "freeze"}]
  /\ was \in [Commands -> {"RUNNING", "FROZEN"}]

(* What a step that is no command's may do to what a command owes.         *)
Quiet == UNCHANGED <<cmd, was>> /\ (owed' => owed /\ lxc' = lxc)

CommandStep(c) ==
  CommandLooks(c) \/ CommandUnfreezes(c) \/ CommandActs(c) \/ CommandFreezes(c)

(* Any step but a command's is quiet.                                      *)
LEMMA OnlyCommandsOwe ==
  ASSUME [Next]_vars, \A c \in Commands : ~CommandStep(c)
  PROVE  Quiet
PROOF
  <1> USE DEF Quiet, cli, host, Disturbs
  <1>1. ASSUME NEW s \in Sessions, NEW who \in {"session", "root"}, StartRefused(s, who)
       PROVE  Quiet
    BY <1>1 DEF StartRefused
  <1>2. ASSUME NEW s \in Sessions, NEW who \in {"session", "root"}, StartBegins(s, who)
       PROVE  Quiet
    BY <1>2 DEF StartBegins
  <1>3. ASSUME NEW s \in Sessions, NEW who \in {"session", "root"}, StartFails(s, who)
       PROVE  Quiet
    BY <1>3 DEF StartFails
  <1>4. CASE StartEnds
    BY <1>4 DEF StartEnds
  <1>5. CASE StartGivesUp
    BY <1>5 DEF StartGivesUp
  <1>6. ASSUME NEW s \in Sessions, StopForSession(s) PROVE Quiet
    BY <1>6 DEF StopForSession
  <1>7. CASE StopAndTell
    BY <1>7 DEF StopAndTell
  <1>8. CASE Terminate
    BY <1>8 DEF Terminate
  <1>9. CASE Suspend
    BY <1>9 DEF Suspend, Others
  <1>10. CASE Reboot
    BY <1>10 DEF Reboot, Others
  <1>11. CASE UpgradeAndroid
    BY <1>11 DEF UpgradeAndroid, Others
  <1>12. CASE ShutdownRequest
    BY <1>12 DEF ShutdownRequest, Others
  <1>13. ASSUME NEW s \in Sessions, SessionStart(s) PROVE Quiet
    BY <1>13 DEF SessionStart, SessionOnly
  <1>14. ASSUME NEW s \in Sessions, SessionDies(s) PROVE Quiet
    BY <1>14 DEF SessionDies
  <1>15. ASSUME NEW s \in Sessions, SessionStop(s) PROVE Quiet
    BY <1>15 DEF SessionStop, SessionOnly
  <1>16. ASSUME NEW s \in Sessions, SessionTold(s) PROVE Quiet
    BY <1>16 DEF SessionTold, SessionOnly
  <1>17. ASSUME NEW s \in Sessions, SessionGone(s) PROVE Quiet
    BY <1>17 DEF SessionGone, SessionOnly
  <1>18. CASE Launch
    BY <1>18 DEF Launch
  <1>19. CASE InitBegins
    BY <1>19 DEF InitBegins
  <1>20. CASE InitStops
    BY <1>20 DEF InitStops
  <1>21. CASE InitInstalls
    BY <1>21 DEF InitInstalls
  <1>22. CASE RemoteInit
    BY <1>22 DEF RemoteInit
  <1>23. CASE RemoteEnds
    BY <1>23 DEF RemoteEnds
  <1>24. CASE RootStops
    BY <1>24 DEF RootStops
  <1>25. CASE RootRestarts
    BY <1>25 DEF RootRestarts
  <1>26. CASE RootFreezes
    BY <1>26 DEF RootFreezes
  <1>27. CASE LxcRuns
    BY <1>27 DEF LxcRuns
  <1>28. CASE AndroidExits
    BY <1>28 DEF AndroidExits
  <1>29. CASE UNCHANGED vars
    BY <1>29 DEF vars
  <1>30. CASE InitStopsAlone
    BY <1>30 DEF InitStopsAlone
  <1> QED
    BY <1>1, <1>2, <1>3, <1>4, <1>5, <1>6, <1>7, <1>8, <1>9, <1>10, <1>11, <1>12,
       <1>13, <1>14, <1>15, <1>16, <1>17, <1>18, <1>19, <1>20, <1>21, <1>22, <1>23, <1>24,
       <1>25, <1>26, <1>27, <1>28, <1>29, <1>30 DEF Next, Handlers, CommandStep

(* A command that unfreezes what it found frozen owes it until it freezes. *)
LEMMA OwedStays == CommandsTyped /\ Owed /\ [Next]_vars => (CommandsTyped /\ Owed)'
PROOF
  <1> SUFFICES ASSUME CommandsTyped, Owed, [Next]_vars PROVE (CommandsTyped /\ Owed)'
    OBVIOUS
  <1> USE DEF CommandsTyped, Owed, Up, cli, host
  <1>1. ASSUME NEW c \in Commands, CommandLooks(c) PROVE (CommandsTyped /\ Owed)'
    BY <1>1 DEF CommandLooks, Unsettled
  <1>2. ASSUME NEW c \in Commands, CommandUnfreezes(c) PROVE (CommandsTyped /\ Owed)'
    BY <1>2 DEF CommandUnfreezes, Unfreeze
  <1>3. ASSUME NEW c \in Commands, CommandActs(c) PROVE (CommandsTyped /\ Owed)'
    BY <1>3 DEF CommandActs, Unsettled, Answered, CommandFails
  <1>4. ASSUME NEW c \in Commands, CommandFreezes(c) PROVE (CommandsTyped /\ Owed)'
    BY <1>4 DEF CommandFreezes, Freeze
  <1>5. CASE Quiet
    BY <1>5 DEF Quiet
  <1> QED
    BY <1>1, <1>2, <1>3, <1>4, <1>5, OnlyCommandsOwe DEF CommandStep

(* Whatever the order in which commands unfreeze and freeze the container  *)
(* they found frozen, the last one leaves it frozen.                       *)
THEOREM AlwaysLeftFrozen == Spec => []LeftFrozen
PROOF
  <1>1. Init => CommandsTyped /\ Owed
    BY DEF Init, CommandsTyped, Owed
  <1>2. CommandsTyped /\ Owed => LeftFrozen
    BY DEF Owed, LeftFrozen
  <1> QED
    BY <1>1, <1>2, OwedStays, PTL DEF Spec

-----------------------------------------------------------------------------
(* AndroidIsTheSessions.                                                   *)

HostTyped ==
  /\ lxc \in {"STOPPED", "SPAWNED", "RUNNING", "FROZEN"}
  /\ tracked \in Sessions \cup {None} /\ starting \in Sessions \cup {None}
  /\ starting # None => tracked = None

(* lxc-start leaves the configuration, and a container still to come is    *)
(* known to stray.                                                         *)
LEMMA LxcStarts ==
  ASSUME LxcStart
  PROVE  /\ owner' = owner /\ lxc' \in {"STOPPED", "SPAWNED", "RUNNING"}
         /\ ~stray' => ~stray /\ lxc' # "SPAWNED"
PROOF
  <1>1. CASE lxc' = "RUNNING" /\ UNCHANGED stray
    BY <1>1 DEF LxcStart
  <1>2. CASE lxc' \in {"SPAWNED", "STOPPED"} /\ stray' = (stray \/ lxc' = "SPAWNED")
    BY <1>2 DEF LxcStart
  <1> QED
    BY <1>1, <1>2 DEF LxcStart

(* A daemon at rest that stops a container has stopped it, or has left it  *)
(* as it was, and its session tracked.                                     *)
LEMMA Stopped ==
  ASSUME HostTyped, Held, Idle, NEW quit, StopContainer(quit)
  PROVE  /\ owner' = owner /\ lxc' \in {"STOPPED", "SPAWNED", "RUNNING", "FROZEN"}
         /\ tracked' \in {tracked, None}
         /\ ~stray' => \/ lxc' = "STOPPED"
                       \/ ~stray /\ UNCHANGED <<tracked, lxc, net, rootfs>>
PROOF
  <1>0. owner' = owner
    BY DEF StopContainer
  <1>1. CASE TakeDown /\ tracked' = None /\ stray' = (lxc' = "SPAWNED")
    BY <1>0, <1>1 DEF TakeDown
  <1>2. CASE TakeDownFails /\ UNCHANGED <<tracked, stray>>
    BY <1>0, <1>2 DEF TakeDownFails, HostTyped, Held, Belongs, Idle, Up
  <1> QED
    BY <1>1, <1>2 DEF StopContainer

(* A container is taken over, taken down, or known to stray.               *)
LEMMA HeldStays == HostTyped /\ Held /\ [Next]_vars => (HostTyped /\ Held)'
PROOF
  <1> SUFFICES ASSUME HostTyped, Held, [Next]_vars PROVE (HostTyped /\ Held)'
    OBVIOUS
  <1> USE DEF HostTyped, Held, Belongs, host, daemon, sessions, cli, rootProc, history
  <1>1. ASSUME NEW s \in Sessions, NEW who \in {"session", "root"}, StartRefused(s, who)
       PROVE  (HostTyped /\ Held)'
    BY <1>1 DEF StartRefused, Takes, Reply, MayStart, NotTracking
  <1>2. ASSUME NEW s \in Sessions, NEW who \in {"session", "root"}, StartBegins(s, who)
       PROVE  (HostTyped /\ Held)'
    <2>1. net'
      BY <1>2, Zenon DEF StartBegins, NetworkStarts
    <2>2. starting = None /\ tracked = None /\ stray' = stray
      BY <1>2 DEF StartBegins, Takes, Idle, MayStart, NotTracking
    <2>3. tracked' = tracked /\ starting' = s /\ rootfs' = "whole"
      BY <1>2 DEF StartBegins, MountRootfs
    <2>4. ~stray => lxc' = "SPAWNED" /\ owner' = s
      BY <1>2, <2>2 DEF StartBegins, ConfigureFor
    <2>5. lxc' \in {"SPAWNED", lxc}
      BY <1>2 DEF StartBegins
    <2> QED
      BY <2>1, <2>2, <2>3, <2>4, <2>5, ContainerAssumption
  <1>3. ASSUME NEW s \in Sessions, NEW who \in {"session", "root"}, StartFails(s, who)
       PROVE  (HostTyped /\ Held)'
    <2>1. starting = None /\ tracked = None
      BY <1>3 DEF StartFails, Takes, Idle, MayStart, NotTracking
    <2>2. UNCHANGED <<lxc, tracked, starting, stray>>
      BY <1>3 DEF StartFails
    <2> QED
      BY <2>1, <2>2
  <1>4. CASE StartEnds
    BY <1>4 DEF StartEnds, Idle, HardwareStarts, Reply
  <1>5. CASE StartGivesUp
    BY <1>5 DEF StartGivesUp, Idle, Reply, Up
  <1>6. ASSUME NEW s \in Sessions, StopForSession(s) PROVE (HostTyped /\ Held)'
    BY <1>6, Stopped DEF StopForSession, Idle
  <1>7. CASE StopAndTell
    BY <1>7, Stopped DEF StopAndTell, Idle
  <1>8. CASE Terminate
    BY <1>8 DEF Terminate, TakeDown, TakeDownFails, Tell, HardwareStops, NetworkStops,
           UmountRootfs, UmountFails, Up, Idle
  <1>9. CASE Suspend
    BY <1>9 DEF Suspend, Android, Others, Freeze, Idle
  <1>10. CASE Reboot
    BY <1>10, LxcStarts DEF Reboot, Android, Others, Idle
  <1>11. CASE UpgradeAndroid
    BY <1>11, LxcStarts DEF UpgradeAndroid, Android, Others, Idle, UpgradeFails, MountRootfs
  <1>12. CASE ShutdownRequest
    <2>1. CASE LxcStart /\ UNCHANGED <<net, rootfs, tracked>>
      BY <1>12, <2>1, LxcStarts DEF ShutdownRequest, Android, Others, Idle
    <2>2. CASE lxc' = "STOPPED" /\ tracked' \in {tracked, None}
      BY <1>12, <2>2 DEF ShutdownRequest, Android, Others, Idle
    <2> QED
      BY <1>12, <2>1, <2>2 DEF ShutdownRequest
  <1>13. ASSUME NEW s \in Sessions, SessionStart(s) PROVE (HostTyped /\ Held)'
    BY <1>13 DEF SessionStart, SessionOnly
  <1>14. ASSUME NEW s \in Sessions, SessionDies(s) PROVE (HostTyped /\ Held)'
    BY <1>14 DEF SessionDies
  <1>15. ASSUME NEW s \in Sessions, SessionStop(s) PROVE (HostTyped /\ Held)'
    BY <1>15 DEF SessionStop, SessionOnly, DoStop, ServicesQuit, ServiceMissesQuit,
           ThreadsEnded
  <1>16. ASSUME NEW s \in Sessions, SessionTold(s) PROVE (HostTyped /\ Held)'
    BY <1>16 DEF SessionTold, SessionOnly, DoStop, ServicesQuit, ServiceMissesQuit
  <1>17. ASSUME NEW s \in Sessions, SessionGone(s) PROVE (HostTyped /\ Held)'
    BY <1>17 DEF SessionGone, SessionOnly, ThreadsEnded
  <1>18. ASSUME NEW c \in Commands, CommandLooks(c) PROVE (HostTyped /\ Held)'
    BY <1>18 DEF CommandLooks, Unsettled, Up
  <1>19. ASSUME NEW c \in Commands, CommandUnfreezes(c) PROVE (HostTyped /\ Held)'
    BY <1>19 DEF CommandUnfreezes, CommandOnly, Unfreeze, Idle
  <1>20. ASSUME NEW c \in Commands, CommandActs(c) PROVE (HostTyped /\ Held)'
    BY <1>20 DEF CommandActs, Unsettled, Answered, CommandFails
  <1>21. ASSUME NEW c \in Commands, CommandFreezes(c) PROVE (HostTyped /\ Held)'
    BY <1>21 DEF CommandFreezes, CommandOnly, Freeze, Idle
  <1>22. CASE Launch
    BY <1>22 DEF Launch, CommandOnly, Unfreeze, Idle
  <1>23. CASE InitBegins
    BY <1>23 DEF InitBegins, Idle
  <1>24. CASE InitStops
    BY <1>24, Stopped DEF InitStops, Idle
  <1>25. CASE InitInstalls
    BY <1>25 DEF InitInstalls, RestartWhatRan, InstallFails, SetLxcConfig
  <1>26. CASE RemoteInit
    BY <1>26 DEF RemoteInit, SetLxcConfig, Idle
  <1>27. CASE RemoteEnds
    BY <1>27 DEF RemoteEnds
  <1>28. CASE RootStops
    <2>1. ~stray' => ~stray /\ Idle
      BY <1>28, Zenon DEF RootStops
    <2>2. UNCHANGED <<owner, tracked, starting>>
      BY <1>28 DEF RootStops
    <2>3. CASE TakeDown
      BY <2>1, <2>2, <2>3 DEF TakeDown, Idle
    <2>4. CASE TakeDownFails
      BY <2>1, <2>2, <2>4 DEF TakeDownFails, Idle, Up
    <2> QED
      BY <1>28, <2>3, <2>4 DEF RootStops
  <1>29. CASE RootRestarts
    BY <1>29, LxcStarts DEF RootRestarts
  <1>30. CASE RootFreezes
    BY <1>30 DEF RootFreezes, Freeze, Unfreeze, Up
  <1>31. CASE LxcRuns
    BY <1>31 DEF LxcRuns
  <1>32. CASE AndroidExits
    BY <1>32 DEF AndroidExits
  <1>33. CASE UNCHANGED vars
    BY <1>33 DEF vars
  <1>34. CASE InitStopsAlone
    <2>1. ~stray' => ~stray /\ Idle
      BY <1>34, Zenon DEF InitStopsAlone
    <2>2. UNCHANGED <<owner, tracked, starting>>
      BY <1>34 DEF InitStopsAlone
    <2>3. CASE TakeDown
      BY <2>1, <2>2, <2>3 DEF TakeDown, Idle
    <2>4. CASE TakeDownFails
      BY <2>1, <2>2, <2>4 DEF TakeDownFails, Idle, Up
    <2> QED
      BY <1>34, <2>3, <2>4 DEF InitStopsAlone
  <1> QED
    BY <1>1, <1>2, <1>3, <1>4, <1>5, <1>6, <1>7, <1>8, <1>9, <1>10, <1>11, <1>12,
       <1>13, <1>14, <1>15, <1>16, <1>17, <1>18, <1>19, <1>20, <1>21, <1>22, <1>23, <1>24,
       <1>25, <1>26, <1>27, <1>28, <1>29, <1>30, <1>31, <1>32, <1>33, <1>34
       DEF Next, Handlers

(* While the daemon tracks a session, a container that runs is that        *)
(* session's, with its root and its network, unless it strayed.            *)
THEOREM AndroidAlwaysTheSessions == Spec => []AndroidIsTheSessions
PROOF
  <1>1. Init => HostTyped /\ Held
    BY DEF Init, HostTyped, Held, Belongs
  <1>2. HostTyped /\ Held => AndroidIsTheSessions
    BY DEF HostTyped, Held, Belongs, AndroidIsTheSessions, Up
  <1> QED
    BY <1>1, <1>2, HeldStays, PTL DEF Spec

-----------------------------------------------------------------------------
(* RunningSessionHasAndroid.                                               *)

SessionsTyped ==
  /\ sess \in [Sessions -> {"none", "calling", "running", "leaving", "gone"}]
  /\ call \in [Sessions -> {"none", "start", "stop"}] /\ DOMAIN told = Sessions
  /\ tracked \in Sessions \cup {None} /\ starting \in Sessions \cup {None}
  /\ asker \in {"session", "root"} /\ back \in Sessions \cup {None}
  /\ starting # None => tracked = None

(* Nobody who was told to end is forgotten, and the tracked session is     *)
(* told unless it is gone.                                                 *)
LEMMA Told ==
  ASSUME NEW quit \in BOOLEAN, Tell(quit)
  PROVE  /\ DOMAIN told' = Sessions
         /\ \A s \in Sessions : told[s] => told'[s]
         /\ quit => \A s \in Sessions : s = tracked /\ sess[s] # "gone" => told'[s]
  BY DEF Tell

(* A stop that went well leaves no session tracked; any other is known.    *)
LEMMA StopIsKnown ==
  ASSUME SessionsTyped, NEW quit \in BOOLEAN, StopContainer(quit)
  PROVE  /\ DOMAIN told' = Sessions /\ tracked' \in {tracked, None}
         /\ ~spoiled' => /\ ~spoiled /\ tracked' = None
                         /\ \A s \in Sessions : told[s] => told'[s]
                         /\ quit => \A s \in Sessions :
                                      s = tracked /\ sess[s] # "gone" => told'[s]
PROOF
  <1>1. CASE Tell(quit) /\ tracked' = None /\ UNCHANGED spoiled
    BY <1>1, Told
  <1>2. CASE spoiled' = TRUE /\ UNCHANGED <<tracked, told>>
    BY <1>2 DEF SessionsTyped
  <1> QED
    BY <1>1, <1>2 DEF StopContainer

(* A Start that is refused lets no session run, and an init that is        *)
(* refused has orphaned the session it stopped.                            *)
LEMMA Refused ==
  ASSUME SessionsTyped, NEW s \in Sessions, NEW who \in {"session", "root"},
         Reply(s, who, FALSE)
  PROVE  /\ sess' \in [Sessions -> {"none", "calling", "running", "leaving", "gone"}]
         /\ \A t \in Sessions : /\ sess'[t] = "running" => sess[t] = "running"
                                /\ sess[t] \in {"leaving", "gone"} => sess'[t] = sess[t]
         /\ who = "root" => root' = "idle" /\ back' = None
         /\ who = "session" => UNCHANGED <<root, back>>
         /\ ~orphaned' => ~orphaned /\ who = "session"
PROOF
  <1>1. ~orphaned' => ~orphaned /\ who # "root"
    BY Zenon DEF Reply
  <1> QED
    BY <1>1 DEF Reply, SessionsTyped

(* One that is granted lets no other session run.                          *)
LEMMA Granted ==
  ASSUME SessionsTyped, NEW s \in Sessions, NEW who \in {"session", "root"},
         Reply(s, who, TRUE)
  PROVE  /\ sess' \in [Sessions -> {"none", "calling", "running", "leaving", "gone"}]
         /\ \A t \in Sessions : /\ sess'[t] = "running" => sess[t] = "running" \/ t = s
                                /\ sess[t] \in {"leaving", "gone"} => sess'[t] = sess[t]
         /\ who = "root" => root' = "idle" /\ back' = None
         /\ who = "session" => UNCHANGED <<root, back>>
         /\ ~orphaned' => ~orphaned
PROOF
  <1>1. ~orphaned' => ~orphaned
    BY Zenon DEF Reply
  <1> QED
    BY <1>1 DEF Reply, SessionsTyped

(* A daemon at rest takes a Start from a session, or from init.            *)
LEMMA Taken ==
  ASSUME SessionsTyped, Known, NEW s \in Sessions, NEW who \in {"session", "root"},
         Takes(s, who)
  PROVE  /\ starting = None /\ asker = "session"
         /\ call' \in [Sessions -> {"none", "start", "stop"}]
         /\ \A t \in Sessions : call'[t] = "stop" => call[t] = "stop"
         /\ who = "root" => root = "start" /\ back = s
  BY DEF Takes, Idle, Known, SessionsTyped

(* Who takes a running session's container away is known.                  *)
LEMMA KnownStays == SessionsTyped /\ Known /\ [Next]_vars => (SessionsTyped /\ Known)'
PROOF
  <1> SUFFICES ASSUME SessionsTyped, Known, [Next]_vars PROVE (SessionsTyped /\ Known)'
    OBVIOUS
  <1> USE DEF SessionsTyped, Known, RunningSessionHasAndroid, host, daemon, sessions,
           cli, rootProc, history
  <1>1. ASSUME NEW s \in Sessions, NEW who \in {"session", "root"}, StartRefused(s, who)
       PROVE  (SessionsTyped /\ Known)'
    <2>1. Takes(s, who) /\ Reply(s, who, FALSE)
      BY <1>1 DEF StartRefused
    <2>2. UNCHANGED <<tracked, starting, asker, told, spoiled>>
      BY <1>1 DEF StartRefused
    <2>3. starting = None /\ asker = "session"
      BY <2>1, Taken
    <2>4. /\ call' \in [Sessions -> {"none", "start", "stop"}]
          /\ \A t \in Sessions : call'[t] = "stop" => call[t] = "stop"
      BY <2>1, Taken
    <2>5. CASE who = "session"
      BY <2>1, <2>2, <2>3, <2>4, <2>5, Refused
    <2>6. CASE who = "root"
      BY <2>1, <2>2, <2>3, <2>4, <2>6, Refused
    <2> QED
      BY <2>5, <2>6
  <1>2. ASSUME NEW s \in Sessions, NEW who \in {"session", "root"}, StartBegins(s, who)
       PROVE  (SessionsTyped /\ Known)'
    <2>0. tracked = None
      BY <1>2 DEF StartBegins, MayStart, NotTracking
    <2>1. Takes(s, who) /\ UNCHANGED <<tracked, sess, told, back, orphaned, spoiled>>
      BY <1>2 DEF StartBegins
    <2>2. starting' = s /\ asker' = who /\ root' = (IF who = "root" THEN "wait" ELSE root)
      BY <1>2 DEF StartBegins
    <2> QED
      BY <2>0, <2>1, <2>2, Taken, ContainerAssumption
  <1>3. ASSUME NEW s \in Sessions, NEW who \in {"session", "root"}, StartFails(s, who)
       PROVE  (SessionsTyped /\ Known)'
    <2>1. Takes(s, who) /\ Reply(s, who, FALSE)
      BY <1>3 DEF StartFails
    <2>2. UNCHANGED <<tracked, starting, asker, told, spoiled>>
      BY <1>3 DEF StartFails
    <2>3. starting = None /\ asker = "session"
      BY <2>1, Taken
    <2>4. /\ call' \in [Sessions -> {"none", "start", "stop"}]
          /\ \A t \in Sessions : call'[t] = "stop" => call[t] = "stop"
      BY <2>1, Taken
    <2>5. CASE who = "session"
      BY <2>1, <2>2, <2>3, <2>4, <2>5, Refused
    <2>6. CASE who = "root"
      BY <2>1, <2>2, <2>3, <2>4, <2>6, Refused
    <2> QED
      BY <2>5, <2>6
  <1>4. CASE StartEnds
    <2>1. /\ starting \in Sessions /\ Reply(starting, asker, TRUE)
          /\ tracked' = starting /\ starting' = None /\ asker' = "session"
      BY <1>4 DEF StartEnds, Idle
    <2>2. UNCHANGED <<call, told>>
      BY <1>4 DEF StartEnds
    <2>3. ~spoiled' => ~spoiled
      BY <1>4, Zenon DEF StartEnds
    <2>4. /\ sess' \in [Sessions -> {"none", "calling", "running", "leaving", "gone"}]
          /\ \A t \in Sessions :
               /\ sess'[t] = "running" => sess[t] = "running" \/ t = starting
               /\ sess[t] \in {"leaving", "gone"} => sess'[t] = sess[t]
          /\ asker = "root" => root' = "idle" /\ back' = None
          /\ asker = "session" => UNCHANGED <<root, back>>
      BY <2>1, Granted
    <2>5. SessionsTyped'
      BY <2>1, <2>2, <2>4
    <2>6. ASSUME NEW t \in Sessions, sess'[t] = "running", ~orphaned', ~spoiled'
          PROVE  tracked' = t \/ told'[t] \/ (back' = t /\ root' # "idle")
      <3>1. tracked' = t \/ sess[t] = "running"
        BY <2>1, <2>4, <2>6
      <3>2. ~orphaned /\ ~spoiled
        BY <2>1, <2>3, <2>6, Granted
      <3>3. tracked = None
        BY <2>1, ContainerAssumption
      <3> QED
        BY <2>1, <2>2, <2>4, <3>1, <3>2, <3>3, ContainerAssumption
    <2> QED
      BY <2>1, <2>2, <2>4, <2>5, <2>6
  <1>5. CASE StartGivesUp
    <2>1. /\ starting \in Sessions /\ Reply(starting, asker, FALSE)
          /\ starting' = None /\ asker' = "session"
      BY <1>5 DEF StartGivesUp, Idle
    <2>2. UNCHANGED <<tracked, call, told, spoiled>>
      BY <1>5 DEF StartGivesUp
    <2>3. CASE asker = "session"
      BY <2>1, <2>2, <2>3, Refused, ContainerAssumption
    <2>4. CASE asker = "root"
      BY <2>1, <2>2, <2>4, Refused, ContainerAssumption
    <2> QED
      BY <2>3, <2>4
  <1>6. ASSUME NEW s \in Sessions, StopForSession(s) PROVE (SessionsTyped /\ Known)'
    BY <1>6, StopIsKnown DEF StopForSession, Idle
  <1>7. CASE StopAndTell
    BY <1>7, StopIsKnown DEF StopAndTell, Idle
  <1>8. CASE Terminate
    <2>1. /\ tracked' = None /\ UNCHANGED <<starting, asker, sess, call, back, spoiled>>
          /\ root' = (IF root = "remote" THEN "idle" ELSE root)
      BY <1>8 DEF Terminate
    <2>2. CASE Tell(TRUE) /\ UNCHANGED orphaned
      BY <2>1, <2>2, Told
    <2>3. CASE (orphaned' = (orphaned \/ tracked # None)) /\ UNCHANGED told
      <3>1. ~orphaned' => ~orphaned /\ tracked = None
        BY <2>3, Zenon
      <3> QED
        BY <2>1, <2>3, <3>1
    <2> QED
      BY <1>8, <2>2, <2>3 DEF Terminate
  <1>9. CASE Suspend
    BY <1>9 DEF Suspend, Android, Others, Idle
  <1>10. CASE Reboot
    BY <1>10 DEF Reboot, Android, Others, Idle
  <1>11. CASE UpgradeAndroid
    BY <1>11 DEF UpgradeAndroid, Android, Others, Idle
  <1>12. CASE ShutdownRequest
    <2>1. UNCHANGED <<starting, asker, sess, call, root, back, orphaned>>
      BY <1>12 DEF ShutdownRequest, Others
    <2>2. CASE UNCHANGED <<tracked, told, spoiled>>
      BY <2>1, <2>2
    <2>3. CASE tracked' = None /\ Tell(TRUE) /\ UNCHANGED spoiled
      BY <2>1, <2>3, Told
    <2>4. CASE spoiled' = TRUE /\ UNCHANGED <<tracked, told>>
      BY <2>1, <2>4
    <2> QED
      BY <1>12, <2>2, <2>3, <2>4 DEF ShutdownRequest
  <1>13. ASSUME NEW s \in Sessions, SessionStart(s) PROVE (SessionsTyped /\ Known)'
    BY <1>13 DEF SessionStart, SessionOnly
  <1>14. ASSUME NEW s \in Sessions, SessionDies(s) PROVE (SessionsTyped /\ Known)'
    BY <1>14 DEF SessionDies
  <1>15. ASSUME NEW s \in Sessions, SessionStop(s) PROVE (SessionsTyped /\ Known)'
    BY <1>15 DEF SessionStop, SessionOnly, DoStop
  <1>16. ASSUME NEW s \in Sessions, SessionTold(s) PROVE (SessionsTyped /\ Known)'
    BY <1>16 DEF SessionTold, SessionOnly, DoStop
  <1>17. ASSUME NEW s \in Sessions, SessionGone(s) PROVE (SessionsTyped /\ Known)'
    BY <1>17 DEF SessionGone, SessionOnly
  <1>18. ASSUME NEW c \in Commands, CommandLooks(c) PROVE (SessionsTyped /\ Known)'
    BY <1>18 DEF CommandLooks, Unsettled
  <1>19. ASSUME NEW c \in Commands, CommandUnfreezes(c) PROVE (SessionsTyped /\ Known)'
    BY <1>19 DEF CommandUnfreezes, CommandOnly, Idle
  <1>20. ASSUME NEW c \in Commands, CommandActs(c) PROVE (SessionsTyped /\ Known)'
    BY <1>20 DEF CommandActs, Unsettled, Answered, CommandFails
  <1>21. ASSUME NEW c \in Commands, CommandFreezes(c) PROVE (SessionsTyped /\ Known)'
    BY <1>21 DEF CommandFreezes, CommandOnly, Idle
  <1>22. CASE Launch
    BY <1>22 DEF Launch, CommandOnly, Idle
  <1>23. CASE InitBegins
    BY <1>23 DEF InitBegins, Idle
  <1>24. CASE InitStops
    BY <1>24, StopIsKnown DEF InitStops, Idle
  <1>25. CASE InitInstalls
    <2>1. root = "images" /\ UNCHANGED <<sess, call, told, tracked, starting, asker,
       spoiled>>
      BY <1>25 DEF InitInstalls
    <2>2. CASE RestartWhatRan
      BY <2>1, <2>2, ContainerAssumption DEF RestartWhatRan
    <2>3. CASE InstallFails
      <3>1. (~orphaned' => ~orphaned /\ back = None) /\ root' = "idle" /\ back' = None
        BY <2>3, Zenon DEF InstallFails
      <3> QED
        BY <2>1, <3>1, ContainerAssumption
    <2> QED
      BY <1>25, <2>2, <2>3 DEF InitInstalls
  <1>26. CASE RemoteInit
    BY <1>26, ContainerAssumption DEF RemoteInit, Idle
  <1>27. CASE RemoteEnds
    BY <1>27, ContainerAssumption DEF RemoteEnds
  <1>28. CASE RootStops
    BY <1>28 DEF RootStops, Idle
  <1>29. CASE RootRestarts
    BY <1>29 DEF RootRestarts
  <1>30. CASE RootFreezes
    BY <1>30 DEF RootFreezes
  <1>31. CASE LxcRuns
    BY <1>31 DEF LxcRuns
  <1>32. CASE AndroidExits
    BY <1>32 DEF AndroidExits
  <1>33. CASE UNCHANGED vars
    BY <1>33 DEF vars
  <1>34. CASE InitStopsAlone
    <2>1. root = "stop" /\ UNCHANGED <<sess, call, told, tracked, starting, asker, spoiled>>
      BY <1>34 DEF InitStopsAlone
    <2>2. CASE UNCHANGED <<root, back, orphaned>>
      BY <2>1, <2>2
    <2>3. CASE root' = "images" /\ back' = None /\ orphaned' = (orphaned \/ back # None)
      <3>1. (~orphaned' => ~orphaned /\ back = None) /\ root' = "images" /\ back' = None
        BY <2>3, Zenon
      <3> QED
        BY <2>1, <3>1, ContainerAssumption
    <2> QED
      BY <1>34, <2>2, <2>3, Zenon DEF InitStopsAlone
  <1> QED
    BY <1>1, <1>2, <1>3, <1>4, <1>5, <1>6, <1>7, <1>8, <1>9, <1>10, <1>11, <1>12,
       <1>13, <1>14, <1>15, <1>16, <1>17, <1>18, <1>19, <1>20, <1>21, <1>22, <1>23, <1>24,
       <1>25, <1>26, <1>27, <1>28, <1>29, <1>30, <1>31, <1>32, <1>33, <1>34
       DEF Next, Handlers

(* No other session, no reboot and none of root's commands takes a running *)
(* session's container away unnoticed.                                     *)
THEOREM RunningSessionsKnown == Spec => []RunningSessionHasAndroid
PROOF
  <1>1. Init => SessionsTyped /\ Known
    BY DEF Init, SessionsTyped, Known, RunningSessionHasAndroid
  <1>2. Known => RunningSessionHasAndroid
    BY DEF Known
  <1> QED
    BY <1>1, <1>2, KnownStays, PTL DEF Spec

-----------------------------------------------------------------------------
(* TypeOK, of which the invariants above hold the rest.                    *)

Flags == /\ net \in BOOLEAN /\ serving \in BOOLEAN /\ stray \in BOOLEAN
         /\ spoiled \in BOOLEAN /\ orphaned \in BOOLEAN /\ owed \in BOOLEAN

Kinds ==
  /\ rootfs \in {"none", "part", "whole"} /\ owner \in Sessions \cup {None}
  /\ told \in [Sessions -> BOOLEAN] /\ lingers \in [Sessions -> BOOLEAN]
  /\ root \in {"idle", "stop", "images", "start", "wait", "remote"}
  /\ trouble \in 0..MaxTrouble

(* What happened is a yes or a no.                                         *)
LEMMA FlagsStay == Flags /\ [Next]_vars => Flags'
PROOF
  <1> SUFFICES ASSUME Flags, [Next]_vars PROVE Flags'
    OBVIOUS
  <1> USE DEF Flags, Disturbs, host, daemon, sessions, cli, rootProc, history
  <1>1. ASSUME NEW s \in Sessions, NEW who \in {"session", "root"}, StartRefused(s, who)
       PROVE  Flags'
    BY <1>1, Zenon DEF StartRefused, Takes, Reply
  <1>2. ASSUME NEW s \in Sessions, NEW who \in {"session", "root"}, StartBegins(s, who)
       PROVE  Flags'
    BY <1>2, Zenon DEF StartBegins, NetworkStarts, ConfigureFor, MountRootfs, Takes
  <1>3. ASSUME NEW s \in Sessions, NEW who \in {"session", "root"}, StartFails(s, who)
       PROVE  Flags'
    BY <1>3, Zenon DEF StartFails, DriversFail, NetworkStarts, ConfigureFor, MountRootfs,
       MountFails, Reply, Takes
  <1>4. CASE StartEnds
    BY <1>4, Zenon DEF StartEnds, HardwareStarts, Reply
  <1>5. CASE StartGivesUp
    BY <1>5, Zenon DEF StartGivesUp, Reply
  <1>6. ASSUME NEW s \in Sessions, StopForSession(s) PROVE Flags'
    BY <1>6, Zenon DEF StopForSession, StopContainer, TakeDown, TakeDownFails,
       HardwareStops, NetworkStops
  <1>7. CASE StopAndTell
    BY <1>7, Zenon DEF StopAndTell, StopContainer, TakeDown, TakeDownFails, HardwareStops,
       NetworkStops
  <1>8. CASE Terminate
    BY <1>8, Zenon DEF Terminate, TakeDown, TakeDownFails, HardwareStops, NetworkStops
  <1>9. CASE Suspend
    BY <1>9, Zenon DEF Suspend, Others
  <1>10. CASE Reboot
    BY <1>10, Zenon DEF Reboot, Others, LxcStart
  <1>11. CASE UpgradeAndroid
    BY <1>11, Zenon DEF UpgradeAndroid, UpgradeFails, MountRootfs, MountFails, Others,
       LxcStart
  <1>12. CASE ShutdownRequest
    BY <1>12, Zenon DEF ShutdownRequest, HardwareStops, NetworkStops, UmountRootfs,
       UmountFails, Others, LxcStart
  <1>13. ASSUME NEW s \in Sessions, SessionStart(s) PROVE Flags'
    BY <1>13, Zenon DEF SessionStart, SessionOnly
  <1>14. ASSUME NEW s \in Sessions, SessionDies(s) PROVE Flags'
    BY <1>14, Zenon DEF SessionDies
  <1>15. ASSUME NEW s \in Sessions, SessionStop(s) PROVE Flags'
    BY <1>15, Zenon DEF SessionStop, SessionOnly, DoStop, ServicesQuit, ServiceMissesQuit
  <1>16. ASSUME NEW s \in Sessions, SessionTold(s) PROVE Flags'
    BY <1>16, Zenon DEF SessionTold, SessionOnly, DoStop, ServicesQuit, ServiceMissesQuit
  <1>17. ASSUME NEW s \in Sessions, SessionGone(s) PROVE Flags'
    BY <1>17, Zenon DEF SessionGone, SessionOnly
  <1>18. ASSUME NEW c \in Commands, CommandLooks(c) PROVE Flags'
    BY <1>18, Zenon DEF CommandLooks, Unsettled
  <1>19. ASSUME NEW c \in Commands, CommandUnfreezes(c) PROVE Flags'
    BY <1>19, Zenon DEF CommandUnfreezes, CommandOnly
  <1>20. ASSUME NEW c \in Commands, CommandActs(c) PROVE Flags'
    BY <1>20, Zenon DEF CommandActs, Unsettled, Answered, CommandFails
  <1>21. ASSUME NEW c \in Commands, CommandFreezes(c) PROVE Flags'
    BY <1>21, Zenon DEF CommandFreezes, CommandOnly
  <1>22. CASE Launch
    BY <1>22, Zenon DEF Launch, CommandOnly
  <1>23. CASE InitBegins
    BY <1>23, Zenon DEF InitBegins
  <1>24. CASE InitStops
    BY <1>24, Zenon DEF InitStops, StopContainer, TakeDown, TakeDownFails, HardwareStops,
       NetworkStops
  <1>25. CASE InitInstalls
    BY <1>25, Zenon DEF InitInstalls, RestartWhatRan, InstallFails, SetLxcConfig
  <1>26. CASE RemoteInit
    BY <1>26, Zenon DEF RemoteInit, SetLxcConfig
  <1>27. CASE RemoteEnds
    BY <1>27, Zenon DEF RemoteEnds
  <1>28. CASE RootStops
    BY <1>28, Zenon DEF RootStops, TakeDown, TakeDownFails, NetworkStops
  <1>29. CASE RootRestarts
    BY <1>29, Zenon DEF RootRestarts, LxcStart
  <1>30. CASE RootFreezes
    BY <1>30, Zenon DEF RootFreezes
  <1>31. CASE LxcRuns
    BY <1>31, Zenon DEF LxcRuns
  <1>32. CASE AndroidExits
    BY <1>32, Zenon DEF AndroidExits
  <1>33. CASE UNCHANGED vars
    BY <1>33 DEF vars
  <1>34. CASE InitStopsAlone
    BY <1>34, Zenon DEF InitStopsAlone, TakeDown, TakeDownFails, NetworkStops
  <1> QED BY <1>1, <1>2, <1>3, <1>4, <1>5, <1>6, <1>7, <1>8, <1>9, <1>10, <1>11, <1>12,
       <1>13, <1>14, <1>15, <1>16, <1>17, <1>18, <1>19, <1>20, <1>21, <1>22, <1>23, <1>24,
       <1>25, <1>26, <1>27, <1>28, <1>29, <1>30, <1>31, <1>32, <1>33, <1>34
       DEF Next, Handlers

(* Telling keeps a signal pending or not for every session.                *)
LEMMA TellTyped == \A quit \in BOOLEAN : Tell(quit) => told' \in [Sessions -> BOOLEAN]
  BY DEF Tell

(* What a stop or a take-down does to the mounts.                          *)
LEMMA DownTyped ==
  ASSUME Kinds, TakeDown \/ TakeDownFails
  PROVE  rootfs' \in {"none", "part", "whole"}
  BY DEF Kinds, TakeDown, TakeDownFails, UmountRootfs, UmountFails

LEMMA StopTyped ==
  ASSUME Kinds, NEW quit \in BOOLEAN, StopContainer(quit)
  PROVE  /\ rootfs' \in {"none", "part", "whole"} /\ owner' = owner
         /\ told' \in [Sessions -> BOOLEAN]
         /\ Calm \/ Trouble
  BY DownTyped, TellTyped DEF StopContainer, Kinds

LEMMA KindsStay == Kinds /\ [Next]_vars => Kinds'
PROOF
  <1> SUFFICES ASSUME Kinds, [Next]_vars PROVE Kinds'
    OBVIOUS
  <1>t. Trouble \/ Calm => trouble' \in 0..MaxTrouble
    BY ContainerAssumption DEF Kinds, Trouble, Calm
  <1> USE DEF Kinds, host, daemon, sessions, cli, rootProc, history
  <1>1. ASSUME NEW s \in Sessions, NEW who \in {"session", "root"}, StartRefused(s, who)
       PROVE  Kinds'
    BY <1>1, <1>t DEF StartRefused, Takes, Reply
  <1>2. ASSUME NEW s \in Sessions, NEW who \in {"session", "root"}, StartBegins(s, who)
       PROVE  Kinds'
    BY <1>2, <1>t DEF StartBegins, ConfigureFor, MountRootfs, Takes
  <1>3. ASSUME NEW s \in Sessions, NEW who \in {"session", "root"}, StartFails(s, who)
       PROVE  Kinds'
    BY <1>3, <1>t DEF StartFails, DriversFail, ConfigureFor, MountRootfs, MountFails, Reply,
       Takes
  <1>4. CASE StartEnds
    BY <1>4, <1>t DEF StartEnds, Reply
  <1>5. CASE StartGivesUp
    BY <1>5, <1>t DEF StartGivesUp, Reply
  <1>6. ASSUME NEW s \in Sessions, StopForSession(s) PROVE Kinds'
    BY <1>6, <1>t, StopTyped DEF StopForSession
  <1>7. CASE StopAndTell
    BY <1>7, <1>t, StopTyped DEF StopAndTell
  <1>8. CASE Terminate
    BY <1>8, <1>t, DownTyped, TellTyped DEF Terminate
  <1>9. CASE Suspend
    BY <1>9, <1>t DEF Suspend, Others
  <1>10. CASE Reboot
    BY <1>10, <1>t DEF Reboot, Others, LxcStart
  <1>11. CASE UpgradeAndroid
    BY <1>11, <1>t DEF UpgradeAndroid, UpgradeFails, MountRootfs, MountFails, Others,
       LxcStart
  <1>12. CASE ShutdownRequest
    BY <1>12, <1>t, TellTyped DEF ShutdownRequest, UmountRootfs, UmountFails, Others,
       LxcStart
  <1>13. ASSUME NEW s \in Sessions, SessionStart(s) PROVE Kinds'
    BY <1>13, <1>t DEF SessionStart, SessionOnly
  <1>14. ASSUME NEW s \in Sessions, SessionDies(s) PROVE Kinds'
    BY <1>14, <1>t DEF SessionDies
  <1>15. ASSUME NEW s \in Sessions, SessionStop(s) PROVE Kinds'
    BY <1>15, <1>t DEF SessionStop, SessionOnly, DoStop, ServicesQuit, ServiceMissesQuit
  <1>16. ASSUME NEW s \in Sessions, SessionTold(s) PROVE Kinds'
    BY <1>16, <1>t DEF SessionTold, SessionOnly, DoStop, ServicesQuit, ServiceMissesQuit
  <1>17. ASSUME NEW s \in Sessions, SessionGone(s) PROVE Kinds'
    BY <1>17, <1>t DEF SessionGone, SessionOnly
  <1>18. ASSUME NEW c \in Commands, CommandLooks(c) PROVE Kinds'
    BY <1>18, <1>t DEF CommandLooks, Unsettled
  <1>19. ASSUME NEW c \in Commands, CommandUnfreezes(c) PROVE Kinds'
    BY <1>19, <1>t DEF CommandUnfreezes, CommandOnly
  <1>20. ASSUME NEW c \in Commands, CommandActs(c) PROVE Kinds'
    BY <1>20, <1>t DEF CommandActs, Unsettled, Answered, CommandFails
  <1>21. ASSUME NEW c \in Commands, CommandFreezes(c) PROVE Kinds'
    BY <1>21, <1>t DEF CommandFreezes, CommandOnly
  <1>22. CASE Launch
    BY <1>22, <1>t DEF Launch, CommandOnly
  <1>23. CASE InitBegins
    BY <1>23, <1>t DEF InitBegins
  <1>24. CASE InitStops
    BY <1>24, <1>t, StopTyped DEF InitStops
  <1>25. CASE InitInstalls
    BY <1>25, <1>t DEF InitInstalls, RestartWhatRan, InstallFails, SetLxcConfig
  <1>26. CASE RemoteInit
    BY <1>26, <1>t DEF RemoteInit, SetLxcConfig
  <1>27. CASE RemoteEnds
    BY <1>27, <1>t DEF RemoteEnds
  <1>28. CASE RootStops
    BY <1>28, <1>t, DownTyped DEF RootStops
  <1>29. CASE RootRestarts
    BY <1>29, <1>t DEF RootRestarts, LxcStart
  <1>30. CASE RootFreezes
    BY <1>30, <1>t DEF RootFreezes
  <1>31. CASE LxcRuns
    BY <1>31, <1>t DEF LxcRuns
  <1>32. CASE AndroidExits
    BY <1>32, <1>t DEF AndroidExits
  <1>33. CASE UNCHANGED vars
    BY <1>33 DEF vars
  <1>34. CASE InitStopsAlone
    BY <1>34, <1>t, DownTyped DEF InitStopsAlone
  <1> QED BY <1>1, <1>2, <1>3, <1>4, <1>5, <1>6, <1>7, <1>8, <1>9, <1>10, <1>11, <1>12,
       <1>13, <1>14, <1>15, <1>16, <1>17, <1>18, <1>19, <1>20, <1>21, <1>22, <1>23, <1>24,
       <1>25, <1>26, <1>27, <1>28, <1>29, <1>30, <1>31, <1>32, <1>33, <1>34
       DEF Next, Handlers

(* Every variable keeps its type, for any number of sessions and commands  *)
(* and any bound on trouble (all handlers).                                *)
THEOREM NativeTypeCorrect == Spec => []TypeOK
PROOF
  <1>1. Init => CommandsTyped /\ HostTyped /\ Held /\ SessionsTyped /\ Known
    BY DEF Init, CommandsTyped, HostTyped, Held, Belongs, SessionsTyped, Known,
       RunningSessionHasAndroid
  <1>2. Init => Flags
    BY Zenon DEF Init, Flags
  <1>3. Init => Owed /\ Kinds
    BY ContainerAssumption DEF Init, Owed, Kinds
  <1>4. /\ CommandsTyped /\ HostTyped /\ SessionsTyped /\ Flags /\ Kinds
        => TypeOK
    BY DEF CommandsTyped, HostTyped, SessionsTyped, Flags, Kinds, TypeOK
  <1> QED BY <1>1, <1>2, <1>3, <1>4, OwedStays, HeldStays, KnownStays, FlagsStay, KindsStay,
             PTL DEF Spec

-----------------------------------------------------------------------------
(* The session the daemon tracks, which keeps every other from starting,   *)
(* runs and has not been told to end, or has sent the Stop that gives the  *)
(* container up; unless a stop failed, or a start or a death left a dead   *)
(* session behind (do_start, session_manager.do_stop).                     *)
TrackedAnswers ==
  \A s \in Sessions :
    tracked = s /\ ~spoiled => (sess[s] = "running" /\ ~told[s]) \/ call[s] = "stop"

(* A step that leaves alone the session tracked, or none.                  *)
LEMMA TrackedKept ==
  ASSUME TrackedAnswers, ~spoiled' => ~spoiled, tracked' \in {tracked, None},
         \A s \in Sessions :
           tracked = s /\ tracked' = s =>
             /\ sess[s] = "running" => sess'[s] = "running"
             /\ call[s] = "stop" => call'[s] = "stop"
             /\ ~told[s] => ~told'[s]
  PROVE  TrackedAnswers'
  BY ContainerAssumption DEF TrackedAnswers

(* What a Start's caller loses is its call and not the container.          *)
LEMMA TrackedRefused ==
  ASSUME SessionsTyped, TrackedAnswers, NEW s \in Sessions, NEW who \in {"session", "root"},
         Reply(s, who, FALSE), UNCHANGED <<tracked, told, spoiled>>,
         UNCHANGED call \/ (call[s] = "start" /\ call' = [call EXCEPT ![s] = "none"])
  PROVE  TrackedAnswers'
PROOF
  <1>1. \A t \in Sessions : sess[t] = "running" => sess'[t] = "running"
    BY DEF Reply, SessionsTyped
  <1>2. \A t \in Sessions : call[t] = "stop" => call'[t] = "stop"
    BY DEF SessionsTyped
  <1> QED BY <1>1, <1>2, TrackedKept

LEMMA TrackedStop ==
  ASSUME SessionsTyped, TrackedAnswers, NEW quit \in BOOLEAN, StopContainer(quit)
  PROVE  TrackedAnswers'
  BY StopIsKnown, ContainerAssumption DEF TrackedAnswers

(* Every step leaves the tracked session running or stopping.              *)
LEMMA TrackedStays ==
  SessionsTyped /\ Known /\ TrackedAnswers /\ [Next]_vars => TrackedAnswers'
PROOF
  <1> SUFFICES ASSUME SessionsTyped, Known, TrackedAnswers, [Next]_vars PROVE TrackedAnswers'
    OBVIOUS
  <1> USE DEF host, daemon, sessions, cli, rootProc, history
  <1>1. ASSUME NEW s \in Sessions, NEW who \in {"session", "root"},
               StartRefused(s, who) \/ StartFails(s, who)
        PROVE  TrackedAnswers'
    <2>1. Reply(s, who, FALSE) /\ Takes(s, who) /\ UNCHANGED <<tracked, told, spoiled>>
      BY <1>1 DEF StartRefused, StartFails
    <2> QED BY <2>1, TrackedRefused DEF Takes
  <1>2. ASSUME NEW s \in Sessions, NEW who \in {"session", "root"}, StartBegins(s, who)
        PROVE  TrackedAnswers'
    <2>1. tracked' = None
      BY <1>2 DEF StartBegins, MayStart, NotTracking
    <2> QED BY <2>1, ContainerAssumption DEF TrackedAnswers
  <1>3. CASE StartEnds
    <2>1. /\ tracked' = starting /\ UNCHANGED <<call, told>>
          /\ spoiled' = (spoiled \/ told[starting]
                           \/ (sess'[starting] # "running" /\ call[starting] # "stop"))
      BY <1>3 DEF StartEnds
    <2>2. ~spoiled' =>
            /\ ~told[starting]
            /\ ~(sess'[starting] # "running" /\ call[starting] # "stop")
      BY <2>1, Zenon
    <2> QED BY <2>1, <2>2 DEF TrackedAnswers
  <1>4. CASE StartGivesUp
    <2>1. starting \in Sessions /\ tracked' = tracked /\ tracked = None
      BY <1>4 DEF StartGivesUp, Idle, SessionsTyped
    <2> QED BY <2>1, ContainerAssumption DEF TrackedAnswers
  <1>5. CASE StopAndTell \/ InitStops \/ \E s \in Sessions : StopForSession(s)
    BY <1>5, TrackedStop DEF StopAndTell, InitStops, StopForSession
  <1>6. CASE Terminate
    BY <1>6, ContainerAssumption DEF Terminate, TrackedAnswers
  <1>7. CASE ShutdownRequest
    <2>1. CASE tracked' = None
      BY <2>1, ContainerAssumption DEF TrackedAnswers
    <2>2. CASE spoiled' = TRUE
      BY <2>2 DEF TrackedAnswers
    <2>3. CASE UNCHANGED <<tracked, told, spoiled>>
      BY <1>7, <2>3 DEF ShutdownRequest, Others, TrackedAnswers
    <2> QED BY <1>7, <2>1, <2>2, <2>3 DEF ShutdownRequest
  <1>8. CASE Suspend \/ Reboot \/ UpgradeAndroid
    BY <1>8 DEF Suspend, Reboot, UpgradeAndroid, Others, TrackedAnswers
  <1>9. ASSUME NEW s \in Sessions, SessionDies(s) PROVE TrackedAnswers'
    <2>1. /\ spoiled' = (spoiled \/ (s = tracked /\ call[s] # "stop"))
          /\ sess' = [sess EXCEPT ![s] = "gone"] /\ told' = [told EXCEPT ![s] = FALSE]
          /\ UNCHANGED <<tracked, call>>
      BY <1>9 DEF SessionDies
    <2>2. ~spoiled' => ~spoiled /\ ~(s = tracked /\ call[s] # "stop")
      BY <2>1, Zenon
    <2> QED BY <2>1, <2>2 DEF TrackedAnswers, SessionsTyped
  <1>10. ASSUME NEW s \in Sessions,
                SessionStart(s) \/ SessionStop(s) \/ SessionTold(s) \/ SessionGone(s)
         PROVE  TrackedAnswers'
    BY <1>10 DEF SessionStart, SessionStop, SessionTold, SessionGone, SessionOnly, DoStop,
       TrackedAnswers, SessionsTyped, Known
  <1>11. ASSUME NEW c \in Commands,
                CommandLooks(c) \/ CommandUnfreezes(c) \/ CommandActs(c) \/ CommandFreezes(c)
         PROVE  TrackedAnswers'
    BY <1>11 DEF CommandLooks, CommandUnfreezes, CommandActs, CommandFreezes, Unsettled,
       CommandOnly, TrackedAnswers
  <1>12. CASE Launch \/ InitBegins \/ InitInstalls \/ RemoteInit \/ RemoteEnds
    BY <1>12 DEF Launch, CommandOnly, InitBegins, InitInstalls, RemoteInit, RemoteEnds,
       TrackedAnswers
  <1>13. CASE InitStopsAlone \/ RootStops \/ RootRestarts \/ RootFreezes \/ LxcRuns
                \/ AndroidExits
    BY <1>13 DEF InitStopsAlone, RootStops, RootRestarts, RootFreezes, LxcRuns, AndroidExits,
       TrackedAnswers
  <1>14. CASE UNCHANGED vars
    BY <1>14 DEF vars, TrackedAnswers
  <1> QED BY <1>1, <1>2, <1>3, <1>4, <1>5, <1>6, <1>7, <1>8, <1>9, <1>10, <1>11, <1>12,
             <1>13, <1>14 DEF Next, Handlers

(* The safety half of ContainerGivenUp: no dead or departing session is    *)
(* tracked without a Stop of its own on its way.                           *)
THEOREM TrackedSessionsAnswer == Spec => []TrackedAnswers
PROOF
  <1>1. Init => SessionsTyped /\ Known /\ TrackedAnswers
    BY ContainerAssumption
       DEF Init, SessionsTyped, Known, RunningSessionHasAndroid, TrackedAnswers
  <1> QED BY <1>1, KnownStays, TrackedStays, PTL DEF Spec
=============================================================================
