-------------------------- MODULE DesktopLifecycle --------------------------
(***************************************************************************)
(* The desktop window of AndroidBox (androidbox/desktop.py, MainWindow)    *)
(* with the virtual machine it owns (androidbox/runtime.py,                *)
(* VirtualMachine).  Three actors interleave:                              *)
(*                                                                         *)
(*   - the Qt thread: buttons, modal questions that run a nested event     *)
(*     loop, the 250 ms timer that calls poll, and closeEvent;             *)
(*   - the single worker of the ThreadPoolExecutor, which runs the start,  *)
(*     stop, install, upload and prepare jobs;                             *)
(*   - QEMU, which may exit by itself at any moment.                       *)
(*                                                                         *)
(* A modal box opened by a button leaves the timer running, so poll runs   *)
(* under it.  A modal box opened by poll itself stops further polls: Qt    *)
(* does not fire a timer again inside its own timeout handler.             *)
(***************************************************************************)
EXTENDS Naturals, Sequences

CONSTANTS
  MaxRestarts,   (* MAX_GUEST_RESTARTS                                     *)
  MaxAttempts    (* the most launches start_attempts() asks of one start   *)

ASSUME RestartsAssumption == MaxRestarts \in Nat
ASSUME AttemptsAssumption == MaxAttempts \in Nat \ {0}

VARIABLES
  window,     (* "open", then the phases of closeEvent, then "closed"      *)
  dialog,     (* the modal box a button's handler waits in, or "none"      *)
  poll,       (* where poll is: "idle", "exit" (about to look for an       *)
              (* exited guest), "update" (about to call update_actions),   *)
              (* or waiting in its own modal box                           *)
  enabled,    (* the buttons update_actions last enabled                   *)
  future,     (* self.future: "none", "pending", "ok" or "error"           *)
  operation,  (* self.operation, the kind of the job self.future refers to *)
  queue,      (* the jobs submitted to the pool and not finished; the head *)
              (* is the one the worker runs                                *)
  wpc,        (* where the worker is inside a start job                    *)
  attempts,   (* launches the running start job may still make             *)
  proc,       (* vm.process: "none", "live", "clean" (exited with 0) or    *)
              (* "failed" (any other exit code)                            *)
  was_running, shutdown_requested, restarts,
  server,     (* self.server is not None                                   *)
  camera,     (* self.camera is not None                                   *)
  disk,       (* config.disk names a guest disk                            *)
  managed,    (* the managed guest disk exists                             *)
  native,     (* the Linux-native session launched here is alive           *)
  (* History, read by no action:                                           *)
  auto,       (* automatic restarts since the user last pressed Start/Stop *)
  wanted,     (* the user's last word was Start, not Stop                  *)
  orphan,     (* a live QEMU was dropped by a second launch                *)
  leaked,     (* an open display server was replaced without being closed  *)
  overwritten,(* a submission replaced a future nobody had looked at       *)
  hasty       (* a button of the idle window was pressed on a watched      *)
              (* guest, whose exit poll had not handled yet                *)

poolVars    == <<queue, future, operation, overwritten>>
outside     == <<wpc, attempts, proc, orphan>>           \* the worker and QEMU
displayVars == <<server, leaked, camera>>
hostVars    == <<disk, managed, native>>
watchVars   == <<was_running, shutdown_requested, restarts, auto, wanted, hasty>>
behind      == <<poolVars, outside, displayVars, hostVars, watchVars>>
vars        == <<window, dialog, poll, enabled, behind>>

Jobs      == {"start", "shutdown", "terminate", "install", "upload", "prepare"}
Transfers == {"install", "upload"}
Exits     == {"clean", "failed"}
Buttons   == {"start", "stop", "install", "settings", "native", "prepare"}

TypeOK ==
  /\ window \in {"open", "terminate", "wait", "release", "drain", "closed"}
  /\ dialog \in {"none", "notice", "startFile", "stopQuestion", "installFile",
                 "localImage", "settings", "closeQuestion"}
  /\ poll \in {"idle", "exit", "update", "alert", "notice", "startFile"}
  /\ enabled \subseteq Buttons
  /\ future \in {"none", "pending", "ok", "error"}
  /\ operation \in Jobs \cup {"none"}
  /\ queue \in Seq(Jobs)
  /\ wpc \in {"idle", "launch", "survive", "connect"}
  /\ attempts \in 0..MaxAttempts
  /\ proc \in {"none", "live"} \cup Exits
  /\ restarts \in 0..MaxRestarts
  /\ auto \in Nat
  /\ was_running \in BOOLEAN /\ shutdown_requested \in BOOLEAN
  /\ server \in BOOLEAN /\ camera \in BOOLEAN
  /\ disk \in BOOLEAN /\ managed \in BOOLEAN /\ native \in BOOLEAN
  /\ wanted \in BOOLEAN /\ orphan \in BOOLEAN /\ leaked \in BOOLEAN
  /\ overwritten \in BOOLEAN /\ hasty \in BOOLEAN

Init ==
  /\ window = "open" /\ dialog = "none" /\ poll = "idle"
  /\ disk \in BOOLEAN /\ managed \in BOOLEAN
  /\ enabled = {"start", "settings", "native"}
                 \cup (IF disk \/ managed THEN {} ELSE {"prepare"})
  /\ future = "none" /\ operation = "none" /\ queue = <<>>
  /\ wpc = "idle" /\ attempts = 0
  /\ proc = "none"
  /\ was_running = FALSE /\ shutdown_requested = FALSE /\ restarts = 0
  /\ server = FALSE /\ camera = FALSE /\ native = FALSE
  /\ auto = 0 /\ wanted = FALSE
  /\ orphan = FALSE /\ leaked = FALSE /\ overwritten = FALSE /\ hasty = FALSE

-----------------------------------------------------------------------------
(* Helpers shared by the handlers.                                         *)

Live == proc = "live"                                  \* vm.running
Busy == future # "none"                                \* self.future is not None
Done == future \in {"ok", "error"}                     \* self.future.done()

(* The Qt thread is in its outermost loop / in the nested loop of box d.   *)
Interactive  == window = "open" /\ poll = "idle" /\ dialog = "none"
Answering(d) == window = "open" /\ poll = "idle" /\ dialog = d

(* Faulty variants, named for the fault, stand before the definition they  *)
(* replace; no action uses them.                                           *)
SettingsAlways(idle, up) == idle
NativeAnyTime(idle, up)  == ~up

SettingsAllowed(idle, up) == idle /\ ~up
NativeAllowed(idle, up)   == idle /\ ~up

(* update_actions, evaluated on the state the handler leaves behind.       *)
UpdateActions ==
  LET idle == future' = "none"
      up   == proc' = "live"
  IN enabled' =
       {b \in {"start"}    : idle /\ ~up /\ ~native'} \cup
       {b \in {"native"}   : NativeAllowed(idle, up) /\ ~native'} \cup
       {b \in {"settings"} : SettingsAllowed(idle, up)} \cup
       {b \in {"stop"}     : idle /\ up} \cup
       {b \in {"install"}  : idle /\ up /\ ~shutdown_requested'} \cup
       {b \in {"prepare"}  : idle /\ ~disk' /\ ~managed'}

(* pool.submit, the result kept in self.future whatever was there before.  *)
Submit(job) ==
  /\ queue' = Append(queue, job)
  /\ operation' = job
  /\ future' = "pending"
  /\ overwritten' = (overwritten \/ Busy)

(* start_vm past its checks: a display server, then the start job.         *)
BeginStart ==
  /\ server' = TRUE
  /\ shutdown_requested' = FALSE
  /\ Submit("start")

-----------------------------------------------------------------------------
(* Buttons and modal boxes.                                                *)

(* start_vm from the Start button: a missing disk is asked for first; an   *)
(* invalid configuration or a failing DisplayServer ends in a warning.     *)
StartFromUi ==
  /\ dialog' = "none"
  /\ BeginStart
  /\ leaked' = (leaked \/ server)
  /\ wanted' = TRUE
  /\ UpdateActions

StartNotBegun ==
  UNCHANGED <<poolVars, server, leaked, shutdown_requested, wanted, enabled>>

(* update_actions may have run between an exit and the poll that handles   *)
(* it, and freed the buttons of the idle window too soon.                  *)
NoteHaste == hasty' = (hasty \/ (was_running /\ ~Live))

ClickStart ==
  /\ Interactive /\ "start" \in enabled
  /\ restarts' = 0 /\ auto' = 0 /\ NoteHaste
  /\ UNCHANGED <<window, poll, outside, camera, hostVars, was_running>>
  /\ \/ disk /\ StartFromUi
     \/ /\ dialog' = (IF disk THEN "notice" ELSE "startFile")
        /\ StartNotBegun

AnswerStartFile ==
  /\ Answering("startFile")
  /\ UNCHANGED <<window, poll, outside, camera, managed, native, was_running, restarts,
                 auto, hasty>>
  /\ \/ disk' = TRUE /\ StartFromUi
     \/ /\ \/ dialog' = "none" /\ UNCHANGED disk           \* cancelled
           \/ dialog' = "notice" /\ disk' \in {disk, TRUE} \* not usable
        /\ StartNotBegun

(* stop_vm: the first press asks the guest to power down, the next ones    *)
(* offer to kill it.                                                       *)
RequestStop(job) ==
  /\ Submit(job)
  /\ shutdown_requested' = TRUE
  /\ wanted' = FALSE

ClickStop ==
  /\ Interactive /\ "stop" \in enabled
  /\ restarts' = 0 /\ auto' = 0
  /\ UNCHANGED <<window, poll, outside, displayVars, hostVars, was_running, hasty>>
  /\ \/ /\ shutdown_requested
        /\ dialog' = "stopQuestion"
        /\ UNCHANGED <<poolVars, shutdown_requested, wanted, enabled>>
     \/ /\ ~shutdown_requested
        /\ RequestStop("shutdown")
        /\ UNCHANGED dialog
        /\ UpdateActions

AnswerStop ==
  /\ Answering("stopQuestion")
  /\ dialog' = "none"
  /\ UNCHANGED <<window, poll, outside, displayVars, hostVars, was_running, restarts, auto,
                 hasty>>
  /\ \/ UNCHANGED <<poolVars, shutdown_requested, wanted, enabled>>
     \/ RequestStop("terminate") /\ UpdateActions

(* A handler that changes nothing but the box on screen.                   *)
ShowBox(box) == dialog' = box /\ UNCHANGED <<window, poll, enabled, behind>>

ClickInstall    == Interactive /\ "install" \in enabled  /\ ShowBox("installFile")
ClickLocalImage == Interactive /\ "prepare" \in enabled  /\ ShowBox("localImage")
DismissNotice   == Answering("notice") /\ ShowBox("none")

(* The handler submits its job: neither install_apk after its file dialog  *)
(* nor use_local_image looks at self.future again.                         *)
SubmitFromUi(job) ==
  /\ dialog' = "none"
  /\ Submit(job)
  /\ UNCHANGED <<window, poll, outside, displayVars, hostVars, watchVars>>
  /\ UpdateActions

AnswerInstall ==
  /\ Answering("installFile")
  /\ \/ ShowBox("none") \/ ShowBox("notice")          \* cancelled, or no adb
     \/ SubmitFromUi("install")

AnswerLocalImage ==
  /\ Answering("localImage")
  /\ ShowBox("none") \/ SubmitFromUi("prepare")

ClickPrepare ==
  /\ Interactive /\ "prepare" \in enabled
  /\ SubmitFromUi("prepare")

ClickSettings ==
  /\ Interactive /\ "settings" \in enabled
  /\ dialog' = "settings" /\ NoteHaste
  /\ UNCHANGED <<window, poll, enabled, poolVars, outside, displayVars, hostVars,
                 was_running, shutdown_requested, restarts, auto, wanted>>

(* upload_files: dropped files are refused without a guest or beside       *)
(* another operation.                                                      *)
DropFiles ==
  /\ Interactive
  /\ \/ ShowBox("notice")                            \* refused, or no adb
     \/ Live /\ ~Busy /\ SubmitFromUi("upload")

AnswerSettings ==
  /\ Answering("settings")
  /\ \/ dialog' = "none" /\ disk' \in BOOLEAN       \* accepted and saved
     \/ dialog' \in {"none", "notice"} /\ UNCHANGED disk
  /\ UNCHANGED <<window, poll, enabled, poolVars, outside, displayVars, managed, native,
                 watchVars>>

LaunchNative ==
  /\ Interactive /\ "native" \in enabled
  /\ \/ /\ native' = TRUE /\ NoteHaste
        /\ UNCHANGED <<window, dialog, poll, poolVars, outside, displayVars, disk, managed,
                       was_running, shutdown_requested, restarts, auto, wanted>>
        /\ UpdateActions
     \/ ShowBox("notice")                            \* not installed, no Wayland

-----------------------------------------------------------------------------
(* poll, the 250 ms timer.  It looks at the future, at the guest, and then *)
(* updates the buttons: three steps, since QEMU can exit between them and  *)
(* modal boxes can stand there.                                            *)

CloseDisplayServerKept == camera' = FALSE /\ UNCHANGED server
CloseDisplayCameraKept == server' = FALSE /\ UNCHANGED camera

CloseDisplay == server' = FALSE /\ camera' = FALSE

(* A finished future is consumed.  Only a started guest is watched from    *)
(* then on; a server that is gone fails the handler after that, like a     *)
(* failed start.                                                           *)
PollFuture ==
  /\ window = "open" /\ poll = "idle" /\ Done
  /\ future' = "none"
  /\ poll' = (IF future = "error" \/ (operation = "start" /\ ~server) THEN "alert" ELSE "exit")
  /\ \/ /\ operation = "start" /\ future = "ok" /\ server
        /\ was_running' = TRUE
        /\ camera' \in (IF camera \/ ~Live THEN {camera} ELSE BOOLEAN)
        /\ UNCHANGED <<server, disk>>
     \/ /\ operation = "start" /\ ~(future = "ok" /\ server)
        /\ was_running' = (was_running \/ future = "ok")
        /\ CloseDisplay
        /\ UNCHANGED disk
     \/ /\ operation # "start"
        /\ disk' = (disk \/ (operation = "prepare" /\ future = "ok"))
        /\ UNCHANGED <<was_running, server, camera>>
  /\ UNCHANGED <<window, dialog, enabled, operation, queue, overwritten, outside, leaked,
                 managed, native, shutdown_requested, restarts, auto, wanted, hasty>>

(* A prepared disk whose settings cannot be saved is reported, not used.   *)
PollPrepareUnsaved ==
  /\ window = "open" /\ poll = "idle"
  /\ future = "ok" /\ operation = "prepare"
  /\ future' = "none" /\ poll' = "alert"
  /\ UNCHANGED <<window, dialog, enabled, operation, queue, overwritten, outside,
                 displayVars, hostVars, watchVars>>

DismissAlert ==
  /\ window = "open" /\ poll = "alert"
  /\ poll' = "exit"
  /\ UNCHANGED <<window, dialog, enabled, behind>>

UnexpectedEvenIfStopped == proc = "failed"
BudgetSpentOffByOne     == restarts > MaxRestarts
BudgetSpentEarly        == restarts + 1 >= MaxRestarts
CountRestartForgetting  == restarts' = 0 /\ auto' = auto + 1
CountRestartFree        == restarts' = restarts /\ auto' = auto + 1

(* The exit of a watched guest that recover_guest answers.                 *)
Unexpected  == proc = "failed" /\ ~shutdown_requested
BudgetSpent == restarts >= MaxRestarts

(* recover_guest has set recovering, so start_vm keeps the count.          *)
CountRestart == restarts' = restarts + 1 /\ auto' = auto + 1

(* recover_guest closes the display and starts the guest like the button,  *)
(* asking for a disk when Settings took it away before this poll.          *)
RecoverGuest ==
  \/ /\ Busy \/ BudgetSpent
     /\ poll' = "idle"
     /\ CloseDisplay
     /\ UNCHANGED <<poolVars, shutdown_requested, restarts, auto>>
     /\ UpdateActions
  \/ /\ ~Busy /\ ~BudgetSpent
     /\ CountRestart
     /\ \/ /\ disk
           /\ poll' = "idle"
           /\ camera' = FALSE
           /\ BeginStart
           /\ UpdateActions
        \/ /\ poll' = (IF disk THEN "notice" ELSE "startFile")  \* the start is refused
           /\ CloseDisplay
           /\ UNCHANGED <<poolVars, shutdown_requested, enabled>>

AnswerRecoverFile ==
  /\ window = "open" /\ poll = "startFile"
  /\ UNCHANGED <<window, dialog, outside, leaked, camera, managed, native, was_running,
                 restarts, auto, wanted, hasty>>
  /\ \/ disk' = TRUE /\ poll' = "update" /\ BeginStart /\ UpdateActions
     \/ /\ \/ poll' = "update" /\ UNCHANGED disk
           \/ poll' = "notice" /\ disk' \in {disk, TRUE}
        /\ UNCHANGED <<poolVars, server, shutdown_requested, enabled>>

AtExitCheck == window = "open" /\ (poll = "exit" \/ (poll = "idle" /\ ~Done))

PollExit ==
  /\ AtExitCheck /\ was_running /\ ~Live
  /\ was_running' = FALSE
  /\ UNCHANGED <<window, dialog, outside, leaked, hostVars, wanted, hasty>>
  /\ \/ Unexpected /\ RecoverGuest
     \/ /\ ~Unexpected
        /\ poll' = "idle"
        /\ CloseDisplay
        /\ UNCHANGED <<poolVars, shutdown_requested, restarts, auto>>
        /\ UpdateActions

PollNoExit ==
  /\ AtExitCheck /\ ~(was_running /\ ~Live)
  /\ poll' = "update"
  /\ UNCHANGED <<window, dialog, enabled, behind>>

(* The end of poll, with no exit handled or after start_vm's warning.      *)
PollEnd ==
  /\ window = "open" /\ poll \in {"update", "notice"}
  /\ poll' = "idle"
  /\ UNCHANGED <<window, dialog, behind>>
  /\ UpdateActions

-----------------------------------------------------------------------------
(* closeEvent.                                                             *)

CloseWindow ==
  /\ Interactive
  /\ window' = (IF Busy \/ Live THEN "open" ELSE "terminate")
  /\ dialog' = (IF Busy THEN "notice" ELSE IF Live THEN "closeQuestion" ELSE "none")
  /\ UNCHANGED <<poll, enabled, behind>>

AnswerClose ==
  /\ Answering("closeQuestion")
  /\ dialog' = "none"
  /\ window' \in {"open", "terminate"}
  /\ UNCHANGED <<poll, enabled, behind>>

TerminateNotWaiting == UNCHANGED proc

(* vm.terminate: a running QEMU is signalled and reaped, killed if it must *)
(* be; it may still have exited by itself first.                           *)
Terminate == IF Live THEN proc' \in Exits ELSE UNCHANGED proc

ClosingFrame ==
  UNCHANGED <<dialog, poll, enabled, poolVars, wpc, attempts, orphan, leaked, hostVars,
              watchVars>>

(* vm.terminate on the Qt thread reads self.process twice: to signal it,   *)
(* and again to wait for it, with the worker free to replace it between.   *)
CloseSignal ==
  /\ window = "terminate"
  /\ window' = (IF Live THEN "wait" ELSE "release")
  /\ Terminate
  /\ UNCHANGED <<server, camera>> /\ ClosingFrame

CloseWait ==
  /\ window = "wait"
  /\ window' = "release"
  /\ Terminate
  /\ UNCHANGED <<server, camera>> /\ ClosingFrame

CloseRelease ==
  /\ window = "release"
  /\ window' = "drain"
  /\ CloseDisplay
  /\ UNCHANGED proc /\ ClosingFrame

FutureConsumed == future = "none"
WorkerJoined   == queue = <<>>

(* pool.shutdown(wait=True) lets the queued jobs run to their end.         *)
CloseDrained ==
  /\ window = "drain" /\ WorkerJoined
  /\ window' = "closed"
  /\ UNCHANGED <<proc, server, camera>> /\ ClosingFrame

-----------------------------------------------------------------------------
(* The worker thread.                                                      *)

UiFrame ==
  UNCHANGED <<window, dialog, poll, enabled, displayVars, disk, native, watchVars>>

DeliverNothing(outcome) == future

(* The head job's result reaches self.future only when that is still the   *)
(* future of this job: the last one submitted.                             *)
Deliver(outcome) == IF Len(queue) = 1 THEN outcome ELSE future

Finish(outcome) ==
  /\ queue' = Tail(queue)
  /\ wpc' = "idle"
  /\ future' = Deliver(outcome)
  /\ UNCHANGED <<operation, overwritten, attempts>>

Working(jobs) == queue # <<>> /\ Head(queue) \in jobs

(* vm.shutdown asks the guest over QMP, which fails when QEMU has just     *)
(* gone; the guest itself decides whether to power down.                   *)
WorkerShutdown ==
  /\ Working({"shutdown"})
  /\ Finish("ok") \/ Finish("error")
  /\ UNCHANGED <<proc, orphan, managed>> /\ UiFrame

WorkerTerminate ==
  /\ Working({"terminate"})
  /\ Terminate
  /\ Finish("ok")
  /\ UNCHANGED <<orphan, managed>> /\ UiFrame

WorkerTransfer ==
  /\ Working(Transfers)
  /\ Finish("ok") \/ Finish("error")
  /\ UNCHANGED <<proc, orphan, managed>> /\ UiFrame

(* guestdisk.prepare; it may also fail after the disk was created.         *)
WorkerPrepare ==
  /\ Working({"prepare"})
  /\ \/ Finish("ok") /\ managed' = TRUE
     \/ Finish("error") /\ managed' \in {managed, TRUE}
  /\ UNCHANGED <<proc, orphan>> /\ UiFrame

(* start(): probe, then vm.start up to its first launch.                   *)
WorkerStart ==
  /\ Working({"start"}) /\ wpc = "idle"
  /\ \/ /\ ~Live
        /\ wpc' = "launch" /\ attempts' \in 1..MaxAttempts
        /\ UNCHANGED poolVars
     \/ Finish("error")                  \* already running, no probe, no port
  /\ UNCHANGED <<proc, orphan, managed>> /\ UiFrame

(* popen replaces self.process, or fails and leaves it.                    *)
WorkerLaunch ==
  /\ wpc = "launch"
  /\ \/ /\ proc' = "live" /\ orphan' = (orphan \/ Live)
        /\ wpc' = "survive"
        /\ UNCHANGED <<poolVars, attempts>>
     \/ Finish("error") /\ UNCHANGED <<proc, orphan>>
  /\ UNCHANGED managed /\ UiFrame

(* survives_startup: alive for two seconds, or the next attempt, with less *)
(* sound, takes over from a QEMU that is gone.                             *)
WorkerSurvived ==
  /\ wpc = "survive" /\ Live
  /\ wpc' = "connect"
  /\ UNCHANGED <<poolVars, attempts, proc, orphan, managed>> /\ UiFrame

StartupTimedOut == TRUE
StartupFailed   == ~Live

WorkerRetry ==
  /\ wpc = "survive" /\ StartupFailed
  /\ \/ /\ attempts > 1
        /\ wpc' = "launch" /\ attempts' = attempts - 1
        /\ UNCHANGED poolVars
     \/ attempts = 1 /\ Finish("error")
  /\ UNCHANGED <<proc, orphan, managed>> /\ UiFrame

(* The connect_display loop: QMP accepts the password of a live guest, or  *)
(* the guest exits or the sixty tries run out and the job kills QEMU.      *)
WorkerConnected ==
  /\ wpc = "connect" /\ Live
  /\ Finish("ok")
  /\ UNCHANGED <<proc, orphan, managed>> /\ UiFrame

WorkerGaveUp ==
  /\ wpc = "connect"
  /\ Terminate
  /\ Finish("error")
  /\ UNCHANGED <<orphan, managed>> /\ UiFrame

-----------------------------------------------------------------------------
(* The environment: QEMU exits, the native session ends.                   *)

GuestExit ==
  /\ Live
  /\ proc' \in Exits
  /\ UNCHANGED <<poolVars, wpc, attempts, orphan, managed>> /\ UiFrame

NativeExit ==
  /\ native
  /\ native' = FALSE
  /\ UNCHANGED <<window, dialog, poll, enabled, poolVars, outside, displayVars, disk,
                 managed, watchVars>>

(* The window is closed: the program has ended, and only QEMU or a native  *)
(* session it left behind may still act.                                   *)
Closed == window = "closed" /\ UNCHANGED vars

-----------------------------------------------------------------------------

User == ClickStart \/ AnswerStartFile \/ ClickStop \/ AnswerStop \/ ClickInstall
          \/ AnswerInstall \/ ClickPrepare \/ ClickLocalImage \/ AnswerLocalImage
          \/ DropFiles \/ ClickSettings \/ AnswerSettings \/ LaunchNative
          \/ CloseWindow \/ AnswerClose \/ DismissNotice
          \/ AnswerRecoverFile

Poll == PollFuture \/ PollPrepareUnsaved \/ PollExit \/ PollNoExit \/ PollEnd

Close == CloseSignal \/ CloseWait \/ CloseRelease \/ CloseDrained

Worker == WorkerShutdown \/ WorkerTerminate \/ WorkerTransfer \/ WorkerPrepare
            \/ WorkerStart \/ WorkerLaunch \/ WorkerSurvived \/ WorkerRetry
            \/ WorkerConnected \/ WorkerGaveUp

Environment == GuestExit \/ NativeExit

Next == User \/ Poll \/ DismissAlert \/ Close \/ Worker \/ Environment \/ Closed

Spec == Init /\ [][Next]_vars

(* The timer fires, the worker runs, closeEvent does not stop half-way and *)
(* the user reads the box poll shows.  Nothing is assumed of what else the *)
(* user does, nor of QEMU.                                                 *)
FairSpec ==
  /\ Spec
  /\ WF_vars(Poll) /\ WF_vars(Worker) /\ WF_vars(Close) /\ WF_vars(DismissAlert)

-----------------------------------------------------------------------------
(* What must hold.                                                         *)

(* vm.start never replaces a QEMU that is still running: no guest disk is  *)
(* ever handed to two emulators by one window.                             *)
SingleGuest == ~orphan

(* Whatever exits, retries and presses happen, the guest is restarted      *)
(* automatically at most MAX_GUEST_RESTARTS times between two presses of   *)
(* Start or Stop (recover_guest, start_vm, stop_vm).                       *)
RestartBudget == auto <= MaxRestarts

(* No QEMU is launched after the user's Stop until the user presses Start, *)
(* whatever recovery, retry or queued job is under way.                    *)
NoUnwantedLaunch == [][proc # "live" /\ proc' = "live" => wanted]_vars

(* Every display server start_vm opens is closed, unless an operation was  *)
(* overwritten or a press came before poll's (poll, close_display,         *)
(* start_vm).                                                              *)
NoServerLeak == leaked => overwritten \/ hasty

(* At rest, a running guest is one poll watches: otherwise neither its     *)
(* screen nor its crash would ever be handled.                             *)
Unsupervised == window = "open" /\ poll = "idle" /\ future = "none" /\ Live /\ ~was_running

GuestSupervised == Unsupervised => overwritten

(* The configured disk cannot be taken away under a watched guest, so an   *)
(* automatic restart stops to ask for a file only after a hasty press      *)
(* (settings, update_actions, start_vm).                                   *)
WatchedGuestHasDisk == was_running /\ ~disk => hasty

(* The guest's screen is served while it is watched, save after a hasty    *)
(* press, and the host webcam is held only for a watched guest (poll,      *)
(* close_display, start_camera).                                           *)
DisplayFollowsGuest ==
  window = "open" => (was_running => server \/ hasty) /\ (camera => was_running)

(* The native session and QEMU never run side by side, nor is a start of   *)
(* one under way beside the other, save after a hasty press                *)
(* (update_actions).                                                       *)
NoNativeBesideGuest ==
  native => hasty \/ (~Live /\ \A i \in DOMAIN queue : queue[i] # "start")

(* A guest that failed unasked, with restarts left, is owed a restart.     *)
Interrupted(n) ==
  window = "open" /\ was_running /\ proc = "failed" /\ ~shutdown_requested /\ restarts = n

(* The debt is settled by a restart counted or under way, by the user      *)
(* taking over, or by the window closing.                                  *)
Settled(n) == restarts # n \/ (operation = "start" /\ Busy) \/ shutdown_requested
                \/ window # "open"

(* Another operation was in flight, so recover_guest returned early.       *)
OtherInFlight == Busy /\ operation # "start"

(* Every unexpected exit within the budget is answered by a restart, save  *)
(* when another operation is in flight (poll, recover_guest).              *)
CrashRecovered ==
  \A n \in 0..(MaxRestarts - 1) : Interrupted(n) ~> (Settled(n) \/ OtherInFlight)

(* Every submitted operation is eventually handled and the buttons freed.  *)
OperationsEnd == Busy ~> (~Busy \/ window # "open")

(* closeEvent cannot hang on the worker it waits for.                      *)
CloseCompletes == window = "terminate" ~> window = "closed"

(* The window keeps the watchdog's promise: QEMU is launched only by a     *)
(* start under way, one at a time, and each automatic restart follows the  *)
(* exit of a watched guest the user wants and spends the budget: once the  *)
(* file question that may hold it up is answered.                          *)
Phase ==
  IF (\E i \in DOMAIN queue : queue[i] = "start") \/ (operation = "start" /\ Done)
  THEN "starting"
  ELSE IF was_running \/ poll = "startFile" THEN "watched" ELSE "off"

RestartsLeft == MaxRestarts - restarts + (IF poll = "startFile" THEN 1 ELSE 0)

Watchdog == INSTANCE GuestWatchdog
              WITH phase <- Phase, guest <- Live, left <- RestartsLeft,
                   asked <- dialog = "startFile"

ImplementsWatchdog == Watchdog!Spec
=============================================================================
