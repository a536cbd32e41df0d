# AndroidBox in TLA+

AndroidBox runs Android in two ways: a desktop client that starts an Android
guest in QEMU and shows its screen, and, on Linux, a native back end that runs
Android in an LXC container. This directory holds TLA+ modules that model the
parts of both that are hard to test, TLC configurations that check them, and
proofs that TLAPS checks. Paths below are relative to the repository root.

- [Inventory](#inventory): the components, their state and what must hold
- [Modules](#modules): what is modelled, and how it corresponds to the code
- [Runs](#runs): what TLC checks, the bounds, the fairness
- [Proofs](#proofs): what holds for every value of the constants
- [Findings](#findings): where code and documentation disagree
- [Not modelled](#not-modelled) and [Plan](#plan)

## Inventory

| Component | State | Operations | Talks to |
|---|---|---|---|
| Desktop window, `androidbox/desktop.py` | `future`, `operation`, `was_running`, `shutdown_requested`, `restarts`, `recovering`, `server`, `camera`, the enabled buttons, the open modal box | start, stop, install, upload, prepare, settings, native session; `poll` every 250 ms; `closeEvent` | one-thread pool, virtual machine, display server, camera streamer |
| Virtual machine, `androidbox/runtime.py` | `process`, ports, log | `start` (several attempts), `shutdown` (QMP), `terminate` | QEMU, QMP socket |
| Camera streamer, `androidbox/camera.py` | `GuestLink` (handshake), socket, timers, webcam, permission | connect, greeting, time-out, capture, reconnect, stop | guest bridge over a forwarded port, macOS permission |
| Camera bridge, `guest/camera-bridge.py` | `Latest` frame, `FrameQueue`, encoder process | accept, read frames, encode, preview clients | streamer, v4l2 device |
| Guest disk, `androidbox/guestdisk.py`, `imagesstore.py`, `bundled.py` | base image, overlay, partial downloads on disk | download with mirrors and resume, copy, overlay, repair | mirrors, file system |
| First boot, `androidbox/seed.py`, `guest/provision.sh` | seed image, provisioning markers | write seed, provision step by step | guest start-up |
| ADB, `androidbox/adb.py` | none | connect, install, upload a batch | adb |
| Display, power, `display.py`, `power.py` | HTTP server, inhibition handle | open, close, acquire, release | host |
| Container manager, `tools/actions/container_manager.py` | `args.session`, LXC state, drivers, mounts | start, stop, restart, freeze, unfreeze over D-bus; signals; binder shutdown | session manager, lxc, binder services |
| Session manager, `tools/actions/session_manager.py` | session record, D-bus name, services | start, stop, container's disconnect | container manager |
| Binder services, `tools/services/*` | thread, loop, `stopping` | start, stop, add the service again when its manager restarts | container over binder |
| Initialiser, upgrader, app manager, properties | images, ini file | sequential commands | all of the above |
| Network portal, ADB forward, packaging, self-tests | none | stateless | host, build |

Behaviours that make them hard:

- *Desktop window.* Three actors share the state: the Qt thread, the worker and
  QEMU. A modal box opened by a button runs a nested event loop in which `poll`
  goes on, so a handler's test may be stale when its box is answered. A crashed
  guest is restarted by the same `start_vm` the button calls. Correct means: one
  emulator per window, restarts within the budget and never after a Stop, no
  display server or webcam left open, a crash answered, operations that end, a
  window that closes.
- *Camera.* A handshake with time-outs and reconnects, where a late callback
  may belong to a connection or a streamer that has been given up. Correct
  means: the webcam is open only for a guest that greeted, and is released on
  every way out.
- *Camera bridge.* A reader, an encoder thread and preview threads over a bounded
  queue and a shared event. Correct means: bounded memory, the newest frame wins,
  a published picture is looked at by some client, the encoder's restarts end.
- *Guest disk.* Downloads that resume and change mirrors, upgrades, and a crash
  of the program between any two writes. Correct means: an overlay stands on one
  whole image that never changes, the seed is the release's, the bundled images
  are not lost.
- *First boot.* A script of many steps that a power cut may end anywhere, that
  reboots itself and that a later release runs again. Correct means: a marker
  stands for a completed provisioning, and one is reached in the end.
- *Native back end.* D-Bus calls, signals and binder requests on one loop, and
  processes that act on the same container without it. Correct means: the
  container that runs is the tracked session's, commands leave it as they found
  it, no session loses it unnoticed, and a session that ends is given up.

## Modules

| Module | Models |
|---|---|
| `GuestWatchdog` | what the desktop window promises of its guest, abstractly |
| `DesktopLifecycle` | the desktop window with the virtual machine it owns |
| `MCDesktop` | the model for TLC and the documented statements the code does not keep |
| `DesktopLifecycleProofs` | theorems about `DesktopLifecycle`: types, single guest, budget, wanted launches |
| `DesktopSafetyProofs` | theorems about it: servers, supervision, disk, screen, native session, crashes |
| `DesktopWatchdogProofs` | that it implements `GuestWatchdog` |
| `CameraLink` | the camera streamer, its connection and the guest's bridge |
| `MCCamera` | the model for TLC and the documented statement the code does not keep |
| `CameraLinkProofs` | theorems about `CameraLink` |
| `CameraBridge` | the guest's camera bridge: frame queue, encoder, previews |
| `CameraBridgeProofs` | theorems about `CameraBridge` |
| `GuestDisk` | the files of a guest on the host: image, overlay, seed, bundled images, settings |
| `GuestDiskProofs` | theorems about `GuestDisk` |
| `FirstBoot` | the guest's first boot: the seed's script, `provision.sh`, the choice of images |
| `FirstBootProofs` | theorems about `FirstBoot` |
| `NativeContainer` | the LXC container with its daemon, sessions, commands and root's actions |
| `NativeContainerProofs` | theorems about `NativeContainer` |

The last four modules need no MC module: their cfg files give the constants and
name the properties directly. In each module the faulty variants that the mutants
use are named for their fault and stand before the definition they replace.

### DesktopLifecycle

State. `future`, `operation`, `was_running`, `shutdown_requested`, `restarts`,
`server` and `camera` are the attributes of `MainWindow` of those names (`server`
and `camera` as "is not None"); `proc` is `vm.process`, none, live or exited with
a code that is zero ("clean") or not ("failed"). `queue` holds the jobs of the
thread pool and `wpc`, `attempts` where the worker is inside a start. `dialog` is
the modal box a button's handler waits in and `poll` where the timer's handler
is: two variables, because a box opened by a button leaves the timer running,
while Qt does not fire a timer inside its own handler, so a box opened by `poll`
suspends further polls. `window` follows `closeEvent`. `enabled` is what
`update_actions` last computed: a button may be stale, and is modelled so.
`disk` and `managed` say whether the settings name a disk and whether the
managed one exists. `auto`, `wanted`, `orphan`, `leaked`, `overwritten` and `hasty`
record history for the properties; no guard reads them.

Actions. Each slot is one action, split where the code lets another actor in: at
a modal box (`ClickStop`, `AnswerStop`), between the three parts of `poll`
(`PollFuture`; `PollExit` or `PollNoExit`; `PollEnd`), between the two reads of
`self.process` in `vm.terminate` when the Qt thread calls it (`CloseSignal`,
`CloseWait`), and in the start job at every point where it looks at QEMU
(`WorkerStart`, `WorkerLaunch`, `WorkerSurvived` or `WorkerRetry`,
`WorkerConnected` or `WorkerGaveUp`). The jobs `shutdown` and `terminate` are both
`operation = "stop"` in the code; nothing distinguishes them once they end.
QEMU exits at any moment (`GuestExit`).

Abstractions. Messages, texts and the log are left out. What a start reads from
disk, from the probe or from the network may succeed or fail in either way. The
file chosen in a box is not told apart from another. A job other than start is
one step, since it reads no state that another actor changes, except
`terminate`, whose step is the reaping of the process.

### GuestWatchdog

The promise with no thread, timer or box: a phase ("off", "starting", "watched"),
a guest that runs or not, restarts left, the user's last word. A guest is launched
only while starting, one at a time, only when wanted; a watched guest that has
exited is restarted only while restarts are left, and each one is paid for.
`DesktopLifecycle` implements it under the mapping `Watchdog`: the phase is
"starting" while a start is queued, running or waiting to be consumed, and
"watched" while `was_running`; restarts left are `MaxRestarts - restarts`. While
the recovery waits in the file box, its counted restart has not happened yet, and
the mapping gives it back.

### CameraLink

State. `attempts`, `confirmed` and `open` are the fields of `GuestLink`; its
`_opened_at` is reduced to `stable`, whether the link opened at least
`stable_seconds` ago. `device`, `camera`, `pending` (`_reconnect_pending`), `grace`,
`report` and `buffer` are the attributes of `CameraStreamer`, `timers` the
single-shot reconnects not fired yet: they are not cancelled by `stop`, and so a
variable of their own. `owner` is the window's reference. `socket` is the end QEMU
accepts; `far` is the rest of the way to the guest, `inbox` what came back along
it, and `bridge` whether the guest's bridge listens, is down (the guest boots, or
restarts it) or is gone with QEMU. `stale` says that the bridge is held by a
connection the host has already left: it serves one host at a time. `ended`,
`spoke`, `waited` and `drops` record history.

Actions. One per callback: the window's `Start` and `Stop`, macOS's answer
(`PermissionResult`), the webcam's `CameraError`, the socket's `Connected`,
`Refused`, `PeerClosed` and `ReadGreeting`, and the timers' `GreetingTimedOut` and
`ReconnectFires`. `Ages` is time: the grace and the bridge's idle tolerance both
outlast `stable_seconds`, hence their guards. The guest's side is `FarConnects`
(QEMU completes a connection it took long ago, or closes it), `BridgeAccepts` (the
greeting, in one or two segments), `BridgeHangsUp` (an idle host),
`BridgeDropsStale`, `BridgeFails`, `BridgeStarts` and `QemuExits`.

Abstractions. Frames are left out, and with them the pacing of captures and the
test that `_write_frame` repeats; so are the one-shot query of the number of
guest cameras, the status texts, and the size of the greeting beyond a prefix,
the whole and something else. Qt may report one drop as an error and as a close:
the second report finds the link closed and a reconnect pending, and is no step.
The branch of `_open_connection` that aborts a socket in use is not written,
since no dial finds one: `DialsFromRest` checks exactly this. The window stops a
streamer only after the QEMU it streams to has exited, as `desktop.py` does.

### CameraBridge

State. One program counter per thread: `net` for the network thread
(`serve_camera`, `serve_connection`), `enc` for `Encoder.run`, `client[c]` for the
thread of each browser. `queue` is `FrameQueue`, `latest` and `arrived` are the data
and the event of `Latest`, `ffmpeg` the encoder's process, `busy` whether the encoder
had a frame within `IDLE_FALLBACK`, `still` whether the pattern could be captured.
`taken` is the last frame the encoder took and `unseen` records a published picture
no stream has looked at.

Actions. A step is what no other thread can interrupt: `FrameQueue.offer` is
`Put`, `DropOldest` and `PutAgain`, three calls of `queue.Queue` between which the
encoder may take; `Latest.publish` is the data, then the event; `Latest.take` is
waking, clearing, looking. `Restart` may find that ffmpeg does not start, and the
encoder's thread then ends. ffmpeg exits at any moment, a limited number of times.

Abstractions. A frame is a number, what one `recv` returned: JPEG pictures and
their borders in the byte stream are data. What happens between one host and the
next is in `CameraLink`. The single answers of the preview server (`/`,
`/snapshot.jpg`) change nothing and are left out. The pattern's rate is left out:
the pattern is due whenever the host is quiet and the queue empty.

### GuestDisk

State. `temp`, `base`, `overlay`, `seed`, `package`, `partial`, `images` and `settings`
are files on the host, and survive `Crash`; `pc`, `config`, `expected`, `mirror`,
`attempt`, `expand` belong to the program and do not. A file's content is the
sequence of its chunks, each named by the edition of the image it comes from, so
that a download resumed from a mirror that has moved on is told from a whole
image. `edition` is what each mirror serves, `release` the one installed.

Actions. `Prepare` to `PollPrepared` are `guestdisk.prepare` in order: the manifest
of the first mirror that answers, the local file (`UseLocal`, `Copy`) or the
download (`Respond`, `Receive`, `RequestFails`, `Accept`, `Mismatch`), the overlay in
two writes, the seed in two writes, the settings. `Materialize`, `Extract` and
`UnlinkPackage` expand the bundled images when the command line is built. `Open` is
the window, which loads the settings and ensures the seed; `StartGuest` is the
start, with what `build_command` demands; `Upgrade` is the installer's.

Abstractions. Digests are compared as contents; sizes, progress, paths and the
bytes of the qcow2 header are left out. A file written in place has a state in
which it is cut short, at its first write; a rename is one step. An overlay cut
short is "part" wherever it was cut, be it empty; `CommandBuilds` asks of it what
`VMConfig.validate` asks, that it be a file, and a guest may be started on it. `Crash`
is the program closed or killed: what it had written or renamed is there. A host
that loses its power is not modelled, since nothing is ever synced and what was
written could be lost in any order (guestdisk.py:178, bundled.py:73). That one
preparation runs at a time is the desktop window's, and modelled there.

### FirstBoot

State. The variables are grouped as the code finds them: the files under
`/var/lib/androidbox` (`markers`, `inProgress`, `rebooted`), the kernel, the archives
and image files, what is installed, and `pc`, where the boot is. `userdata` is the
release whose script cloud-init wrote; it differs from the attached `seed` until
the next boot. `online` may change at any time.

Actions. One per step a power cut cannot split: `FindBinder` with its four ways
out, `TouchAndReboot`, `Unpack`, `Apt`, `LookForImages`, each `unzip` in two writes,
`Migrate` in three, `MakeInstall`, `AndroidInit` with the four outcomes of
`setup_config`, `Enable`, `Mark`, `Unmark`. `PowerCut` comes anywhere, since QEMU is
killed with its window. `Unpack`, `MakeInstall` and `Enable` may also fail (`Fault`: no
seed attached, an archive that does not unpack, a command that ends `provision.sh`
under `set -e`), and `Apt` and `AndroidInit` fail without the network; a script that
fails ends with `.provisioning` removed.

Abstractions. The text of the cloud-init files, the packages and the unit files are
left out. An image is none, part or whole. `install_preinstalled_images` is called
before `||`, so that bash ignores `set -e` inside it: its failing commands go on.
What a step wrote in the guest's file system is there after a power cut.

### NativeContainer

State. `lxc` is the container as `lxc-info` reports it, with "SPAWNED" for an
`lxc-start` under way; `net` and `rootfs` the host's network and mounts; `owner` the
session whose configuration the container has. `tracked` is `args.session`,
`starting` and `asker` the Start the daemon is inside, `serving` whether the hardware
service answers. Each session process has a state, a D-Bus call, a pending
SIGUSR1 and a service thread that lingers; each command what it saw and what it
still has to do; `root` and `back` are init or upgrade and the session to restart.

Actions. The daemon's loop is single-threaded: its methods (`StartBegins`, ...,
`StopForSession`, `StopAndTell`), its signals (`Terminate`) and the binder requests
(`Suspend`, `Reboot`, `UpgradeAndroid`, `ShutdownRequest`) exclude each other, and each is one step
with the outcomes it may leave, except Start, whose caller may go away while it
waits (`StartBegins`; `StartEnds` or `StartGivesUp`). The sessions, the commands
(look, thaw, act, freeze again), init and upgrade, the download window's worker,
and root's own `container stop`, `restart`, `freeze` and `unfreeze` interleave with it.
When the daemon does not answer init or upgrade, they stop the container in their
own process (`InitStopsAlone`): the Stop that timed out is still done by the daemon
afterwards, and a session that `GetSession` did not give is not restarted. An upgrade
whose Stop failed also signals the session and forgets it; that is `StopAndTell`,
followed by the failing outcome of `InitInstalls`.

Abstractions. A failed mount or unmount leaves the mounts before it; a failed
lxc-stop leaves everything. The spin of `freeze` and `unfreeze` is one step. `Trouble`
counts what the user, root and failures do, and bounds them; no property mentions
it. What the binder services carry is left out: of the session's services only
the life of their threads is modelled (`ServicesQuit`, `ServiceMissesQuit`).

## Runs

| Run | Specification | Bounds | Checks | Result |
|---|---|---|---|---|
| `desktop` | `Spec` | 5 restarts, 3 attempts | type, eight safety properties, refinement of `GuestWatchdog` | holds, 1,064,490 states |
| `desktop_live` | `FairSpec` | 1 restart, 2 attempts | `CrashRecovered`, `OperationsEnd`, `CloseCompletes` | holds, 257,784 states |
| `desktop_close` | `Spec` | 2, 2 | `ClosedMeansNoGuest` | violated, finding 1 |
| `desktop_recovery` | `FairSpec` | 2, 2 | `CrashAlwaysRecovered` | violated, finding 2 |
| `desktop_lost` | `Spec` | 2, 2 | `GuestAlwaysSupervised` | violated, finding 3 |
| `camera` | `FairSpec` | 5 reconnects | type, four invariants, `DialsFromRest`, `BridgeStreams`, `EndsQuietly` | holds, 3,848 states |
| `camera_waiting` | `Spec` | 5 | `WaitingIsFree` | violated, finding 4 |
| `camera_bridge` | `FairSpec` | queue of 2, 2 browsers, 3 frames, 1 exit of ffmpeg | type, `QueueKeepsNewest`, `NetworkNeverWaits`, `PreviewWakes`, `PatternReturns` | holds, 226,629 states |
| `guest_disk` | `Spec` | 2 mirrors, 2 attempts, 2 chunks, 2 editions, 2 releases | type, `GuestReadsImage`, `ImageStays`, `SeedFollowsRelease`, `ImagesKept` | holds, 581,152 states |
| `first_boot` | `FairSpec` | 2 releases, 2 faults | type, `MarkedMeansProvisioned`, `NoRebootLoop`, `Provisioned` | holds, 65,036 states |
| `first_boot_images` | `Spec` | 2, 2 | `FallsBackToChannels` | violated, finding 5 |
| `native` | `FairSpec` | 2 sessions, a command, a shell, 2 troubles | type, `AndroidIsTheSessions`, `LeftFrozen`, `RunningSessionHasAndroid`, `ContainerGivenUp` | holds, 73,231 states |

The run `desktop` has the program's own bounds: `MAX_GUEST_RESTARTS` is 5 and
`start_attempts` yields at most three settings. Nothing else is bounded: the
state space is finite as it is, since the counter of automatic restarts is reset
by every press and the queue holds at most the jobs the overwritten futures let
in. The liveness run needs one restart that is granted and one that is refused,
and one retry of a launch, which its bounds allow.

What the properties of `desktop` say: `SingleGuest`, a launch never replaces a live
QEMU; `RestartBudget`, at most that many automatic restarts between two presses;
`NoUnwantedLaunch`, none after a Stop; `NoServerLeak`, a display server is never
replaced without being closed; `GuestSupervised`, at rest a running guest is a
watched one; `DisplayFollowsGuest`, a watched guest has a display and the webcam is
held for no other; `WatchedGuestHasDisk`, a restart finds the disk it had;
`NoNativeBesideGuest`, QEMU and the native session exclude each other.

Two history variables name the exceptions. `overwritten`: a handler submitted a
job over a future nobody had consumed (finding 3). `hasty`: QEMU exited in the
instant between `poll`'s test (desktop.py:742) and `update_actions`
(desktop.py:754), the buttons of the idle window were freed 250 ms early, and one
was pressed before the next `poll`. TLC shows that nothing else breaks these
properties.

Fairness. `Poll`: a `QTimer` fires for as long as its event loop runs. `Worker`:
every job has a deadline of its own (two seconds of survival, sixty tries of QMP,
time-outs on every adb call and on the downloads' sockets), so it ends. `Close`:
`closeEvent` does not return half-way. `DismissAlert`: the box in which `poll`
reports a failure is modal and suspends it until it is read, so nothing can be
promised of a user who never reads it. Weak fairness is enough for each, and
nothing is assumed of what else the user does nor of QEMU, which may run for ever
or exit.

`CrashRecovered` is a leads-to for each value of the counter: a watched guest that
failed unasked with restarts left is followed by a counted restart or a start in
flight, unless the user took over, the window closed, or another operation was in
flight when `recover_guest` looked. That last exception is finding 2.

The run `camera` also has the program's own bound, `MAX_CAMERA_RECONNECTS`, and
nothing else is bounded: at most one connection is open, one more may be stale,
and the guest's bridge may fail and come back without end. Deadlock is not
checked because the system really stops: a streamer that has ended, with its last
reconnect spent and QEMU gone, has nothing left to do. It checks that the webcam
comes on only for a guest that was heard, or after a whole grace (`WebcamHeard`);
that a running streamer always has a connection or a reconnect due (`NeverDeaf`);
that the budget is spent by exactly the drops it is meant for (`BudgetExact`); that
nothing late brings an ended streamer back (`ReleasedForGood`); that no dial cuts a
connection (`DialsFromRest`); and that a bridge which stays up at last gets the
webcam (`BridgeStreams`), while an ended streamer, which may still dial once, ends up
with no connection (`EndsQuietly`).

Its fairness: Qt delivers the signals of a socket and the timers; QEMU, the
guest's kernel and the bridge's accept loop go on while they are up; the bridge
drops a host silent for `IDLE_TOLERANCE`, which only an ended host surely is; time
passes. Weak fairness is enough for each. Nothing is assumed of the user, of
macOS's answer, of the guest's failures or of the webcam.

`camera_bridge` has a queue of two frames (the bridge's `FRAME_QUEUE` is eight, and the
theorems hold for any capacity) and one more frame than fits, so that an offer drops while the encoder takes, and two browsers, so that
one may clear the event the other waits for; one exit of ffmpeg lets a frame be
lost and a restart happen between any two steps. It checks that the queue keeps the
order and the newest frame, and, as liveness, that the network thread gets through
every offer though the encoder be stalled or dead, that a published picture is
looked at by some stream, and that the test pattern returns. Fairness: threads run
when they can, `IDLE_FALLBACK` runs out, a browser reads or goes. Nothing is assumed
of hosts, of ffmpeg's exits, nor of a write into ffmpeg, which may block for ever
as long as no application reads the camera; `PatternReturns` alone assumes, in its
own statement, that such a write goes on. Deadlock is not checked: a bridge that is
closed, its encoder done and its browsers waiting, has nothing left to do.

`guest_disk` has the smallest bounds in which the cases happen: two mirrors that
may disagree on the edition, two chunks to be cut between and mixed, two attempts,
two releases. `GuestReadsImage` says that an overlay stands only on an image of one
edition, whole, that a guest on a whole overlay reads it in its true format, even if
an old release had called it raw, and that it has the bundled images; of an overlay
that was cut short it says nothing, for the code does not look; `ImageStays`
that the image never changes under it; `SeedFollowsRelease` that a program at rest
has its own release's seed beside the disk; `ImagesKept` that the bundled images
are never lost. No fairness, no liveness: whether a preparation succeeds is the
network's choice.

`first_boot` has two releases, so that a guest is upgraded half-way, and two faults
(power cuts or failing commands), one to leave a trace and one to meet it. `MarkedMeansProvisioned` and `NoRebootLoop`
are its invariants. `Provisioned` is conditional: a guest that is online throughout,
or at last if extra modules exist for its first kernel, is provisioned for its seed,
provided a directory of images is filled by a whole bundle; outside these conditions
the code may really be stuck, as its comment says. Fairness: the script goes on,
and a guest that is off, or has failed, is started again some day.

`native` has two sessions, so that one may take the other's place, and any two
troubles: commands, runs of init, root's actions, failures, time-outs and deaths.
Three history variables name the exceptions: `stray`, a container may run that
outlived its start; `spoiled`, a stop failed or a start outlived its caller, and the
daemon keeps a session that is dead; `orphaned`, init did not restart what it
stopped, or one session's Stop took another's container, which `Stop` does not
look at. TLC shows that nothing else breaks `AndroidIsTheSessions` and
`RunningSessionHasAndroid`. `ContainerGivenUp` is liveness, under fairness of the
daemon's loop, of `lxc-start` and of the sessions' own signals and exits; a
session's Stop, which a series of Starts by others could disable again and again,
needs strong fairness: the loop answers D-Bus calls in the order they came.

## Proofs

Every invariant and every action property that a passing run checks is also a
theorem, and so is the refinement; liveness stays with TLC. Each theorem holds for
every value of the constants that the modules' named assumptions allow, and rests
on nothing else.

### The desktop window

For every `MaxRestarts` in Nat and every `MaxAttempts` in Nat without 0:

| Module | Theorem | Statement |
|---|---|---|
| `DesktopLifecycleProofs` | `TypeCorrect` | `Spec => []TypeOK` |
| | `NeverTwoGuests` | `Spec => []SingleGuest` |
| | `BudgetKept` | `Spec => []RestartBudget` |
| | `LaunchesAreWanted` | `Spec => NoUnwantedLaunch` |
| `DesktopSafetyProofs` | `ServersClosed` | `Spec => []NoServerLeak` |
| | `RunningGuestWatched` | `Spec => []GuestSupervised` |
| | `DiskStaysConfigured` | `Spec => []WatchedGuestHasDisk` |
| | `ScreenAndCameraFollow` | `Spec => []DisplayFollowsGuest` |
| | `NativeExcludesGuest` | `Spec => []NoNativeBesideGuest` |
| | `CrashesAwaitAnswer` | `Spec => DebtsStand` |
| | `OperationsAreHeld` | `Spec => []OperationHeld` |
| `DesktopWatchdogProofs` | `WindowImplementsWatchdog` | `Spec => ImplementsWatchdog` |

None of the properties is inductive by itself. The argument goes in layers, each
assuming the ones before it.

1. `TypeInv` adds to `TypeOK` that the worker is inside a start job only when the head
   of the queue is one, with attempts left.
2. `CoreInv` adds that the worker is about to launch only when no QEMU is alive
   (`SoleLaunch`), which is what keeps `SingleGuest`, and that the program's counter
   is the true number of automatic restarts (`Counted`), which turns the guard of
   `recover_guest` into `RestartBudget`.
3. `IntentInv` follows the user's last word through every place that can hold a
   launch back: a queued or running start (`PoolInv`), an enabled button
   (`ButtonsInv`), the question of a forced stop and the file box (`StopAsked`,
   `FileAsked`), a display server opened for a start (`StartWanted`), and a watched
   guest that nobody asked to stop (`WatchWanted`). A launch then finds `wanted`.
4. `CareInv` says who answers for what the window has opened. A display server, and a
   running QEMU, belong to a watched guest or to a start whose result `poll` will
   see (`ServerOwned`, `GuestOwned`); that only fails once a future is overwritten,
   and `LastJob` and `OneJob` say what `self.future` then stands for. The buttons that
   start, reconfigure or go native are enabled only while no QEMU runs
   (`OfferedIdle`, `StartOffered`), so that behind the boxes they open nothing runs
   either (`BoxAlone`) although `poll` goes on beneath them: from that follow
   `FreshStart`, `DiskKept`, `ScreenServed` and `NativeAlone`. `BoxAlone` and these four
   except a *hasty* press: one made between QEMU's exit and the `poll` that handles
   it, when the buttons already say "idle". `FileBox` and `CameraHeld` say what a
   recovery waiting for a file, and the webcam, stand for.

The refinement takes each step of the window to a step of the watchdog, or to a
stutter. `PhaseAs` reads the mapped phase off the window's state, `SubmitPhase` and
`FinishPhase` say what a submission and the end of a job do to it, and
`UnseenStutters` disposes of everything the watchdog cannot see. A start that has
ended stays "starting" until `poll` looks at it, which needs `LastJob`; a recovery
that has to ask for a disk file is still "watched" with its restart given back, which
needs `FileBox`; and a launch is the watchdog's because the worker only launches for
a start that is wanted (`IntentInv`) with no QEMU alive (`SoleLaunch`).

`DebtsStand` is the safety half of `CrashRecovered`: a crash within the budget stays
visible to `poll` whatever else happens, until it is answered, so that only the
timer and the alert are left to fairness. `OperationHeld` is that of `OperationsEnd`:
the future that keeps the buttons disabled is always that of a job still in the
pool, or has its result.

### The other components

`CameraLinkProofs`, for every `MaxReconnects` in Nat:

| Theorem | Statement |
|---|---|
| `LinkTyped` | `Spec => []TypeOK` |
| `WebcamWaits` | `Spec => []WebcamHeard` |
| `AlwaysListening` | `Spec => []NeverDeaf` |
| `BudgetIsExact` | `Spec => []BudgetExact` |
| `NeverRevived` | `Spec => []ReleasedForGood` |
| `DialsAreFree` | `Spec => DialsFromRest` |
| `EndedDialsNoMore` | `Spec => DiesOut` |

One invariant, `LinkInv`, serves all seven, because the properties need each other.
It joins them with: a streamer not started yet has nothing under way
(`FreshInv`), one that waits for macOS has dialled nobody (`AskInv`), at most one
reconnect is scheduled and `_reconnect_pending` says so (`TimerInv`), and only while
the socket is at rest (`RestInv`), which is what makes `DialsFromRest` hold; a guest
whose bytes are in the inbox has spoken (`HeardInv`); the link counts what the
history counts (`CountInv`), which turns the guard of `GuestLink.closed` into
`BudgetExact`; the window lets go only of an ended streamer (`OwnedInv`); and a grace
runs only on a connection (`GraceInv`). The proof takes the callbacks' common
parts (`_disconnected`, `_bridge_answered`, `_watch_guest`, `_release_camera`) as lemmas
of their own. `DiesOut` is the safety half of `EndsQuietly`: a streamer that has ended
schedules nothing, and dials at most once more, in place of the reconnect that
`TimerInv` says was the only one due.

`CameraBridgeProofs`, for every capacity, every set of browsers and any number of
frames and exits:

| Theorem | Statement |
|---|---|
| `TypeCorrect` | `Spec => []TypeOK` |
| `QueueAlwaysKeepsNewest` | `Spec => []QueueKeepsNewest` |
| `NoWakeUpLost` | `Spec => []WakeKept` |

`QueueInv` has two parts: `Ordered`, the queue is strictly increasing between the
last frame taken and the newest received; and `Offering`, what is known inside an
offer: the frame offered is newer than all of the queue, and after `DropOldest` there
is room, whether or not the encoder took meanwhile. The latter is why the second
put of `FrameQueue.offer` never meets a full queue: there is one producer.
`WakeKept` is the safety half of `PreviewWakes`, and inductive: a picture not looked
at has its event set, or a publisher about to set it, or a stream that cleared the
event and is about to look. It rests on the order of `Latest.publish` (data, then
event) and of `Latest.take` (clear, then look); the mutant of the run
`camera_bridge` that looks before it clears breaks it.

`GuestDiskProofs`, for any mirrors, attempts, chunks, editions and releases:

| Theorem | Statement |
|---|---|
| `TypeCorrect` | `Spec => []TypeOK` |
| `GuestAlwaysReadsImage` | `Spec => []GuestReadsImage` |
| `ImageAlwaysStays` | `Spec => ImageStays` |
| `SeedAlwaysFollowsRelease` | `Spec => []SeedFollowsRelease` |
| `ImagesAlwaysKept` | `Spec => []ImagesKept` |

What makes an overlay sound is what the preparation knew a step before, so `Inv`
says it for each place: there is no overlay while an image is looked for (`Fresh`),
a copy is of one edition as far as it is (`Copied`), the image is whole from the
check on (`Sound`); what `build_command` saw and `start_vm` repaired stays as it is
while a guest runs (`GuestRuns`); the
package is there until its disk is (`Expanding`); the settings name the managed disk
only where there is one (`NamesADisk`). `ImageStays` follows from `Fresh`: the steps
that write the image are steps of a preparation that found no overlay.

`FirstBootProofs`, for any number of releases and faults:

| Theorem | Statement |
|---|---|
| `TypeCorrect` | `Spec => []TypeOK` |
| `MarkedAlwaysProvisioned` | `Spec => []MarkedMeansProvisioned` |
| `NeverRebootsAgain` | `Spec => []NoRebootLoop` |

A marker is left many steps after what it stands for: `Reached` says what each step
of the script already knows, `OwnScript` that a running guest has the attached seed's
script, `NoLaterMarker` that no marker is of a release to come, so that what is
installed next is never older than what a marker stands for. `RebootNoted` ties the
reboots to the file `.kernel-reboot`, which is written before them.

`NativeContainerProofs`, for any sessions, commands and amount of trouble:

| Theorem | Statement |
|---|---|
| `NativeTypeCorrect` | `Spec => []TypeOK` |
| `AlwaysLeftFrozen` | `Spec => []LeftFrozen` |
| `AndroidAlwaysTheSessions` | `Spec => []AndroidIsTheSessions` |
| `RunningSessionsKnown` | `Spec => []RunningSessionHasAndroid` |
| `TrackedSessionsAnswer` | `Spec => []TrackedAnswers` |

Each has an invariant that says what holds in between: `Owed`, a container owed to
be frozen is frozen or some command that saw it so is not done; `Held`, the container,
the network and the mounts belong to the session tracked or being started; `Known`,
what init holds back and what a session that stops has sent. `NativeTypeCorrect` puts
together the types those proofs already carry with `Flags` and `Kinds`.
`TrackedAnswers` is the safety half of `ContainerGivenUp`: the session that is tracked,
and so keeps every other from starting, runs and was not told to end, or its own
Stop is on the way, outside the exceptions that `spoiled` names; it needs `Known`, for
a call to stop is sent only by a session that is leaving.

### What is not proved

Liveness stays with TLC, on the instances of the runs: `CrashRecovered`,
`OperationsEnd`, `CloseCompletes`, `BridgeStreams`, `EndsQuietly`, `NetworkNeverWaits`,
`PreviewWakes`, `PatternReturns`, `Provisioned`, `ContainerGivenUp`. Their proofs need
ENABLED for the fairness conditions, which TLAPS does not handle. Five of them have
their safety half proved above: `DebtsStand`, `OperationHeld`, `DiesOut`, `WakeKept` and
`TrackedAnswers`. These are stated in the proof modules and no run lists them; TLC
found them (`OperationHeld` as two conjuncts it follows from), like the inductive invariants of
the desktop window, true on the instances above before they were proved.

## Findings

1. *A guest survives its window* (`desktop_close`, desktop.py:815). `closeEvent`
   tests `self.future` before it asks its question. If the guest crashes while
   the question is open, `poll` runs beneath it and submits a restart; on Yes,
   `vm.terminate` finds a dead process, and `pool.shutdown(wait=True)` waits for
   the start, which launches QEMU. The window closes and QEMU runs on.
2. *A crash during an install is not recovered* (`desktop_recovery`, desktop.py:794).
   `recover_guest` gives way to any operation in flight, and `poll` has already
   forgotten the guest: README_EN.md promises the restart without that exception.
3. *An install swallows a restart* (`desktop_lost`, desktop.py:667). The file
   dialog of `install_apk` is open, the guest crashes and is restarted beneath
   it, and the chosen file's job overwrites the start's future: the guest runs
   with no display and nobody watches it.
4. *Waiting is not free once the webcam is on* (`camera_waiting`, camera.py:121).
   `GuestLink.closed` does not count a link that nobody answered: "Waiting is free:
   the host webcam is still off." After a first greeting it is on, no drop turns it
   off, and a redial forgets the confirmation: with the bridge gone the streamer
   redials every 1.5 s, spends no budget and holds the webcam for as long as QEMU
   runs.
5. *A missing image is not replaced from the channels* (`first_boot_images`,
   initializer.py:62). `provision.sh` promises that whatever cannot be unpacked
   falls back to the downloads of `androidbox init`. It makes the directory of
   images before it unpacks into it, and `setup_config` asks `os.stat` for an image
   that `os.path.isfile` did not find there: it raises, on this boot and every later
   one, before the warning "ignoring..." and the download. And an image cut short
   by a power cut has its final name, and is taken for whole.

What the model shows, and no document contradicts: a partial base image stays, and
is refused, until the user deletes it (guestdisk.py:217); an overlay that a crash of
`write_overlay` left cut short or empty counts as a prepared disk, and a guest may be
started on it (guestdisk.py:265, runtime.py:79, 271); a
complete temporary download whose digest was never compared makes the client ask
for an empty range, which a mirror that honours ranges refuses each time
(guestdisk.py:169); a Start that outlives its
caller leaves a dead session tracked (session_manager.py:98); a kernel search made
offline is not repeated (seed.py:243). `PROJECT.json` lists them as hazards.

## Not modelled

Texts, the log view, icons and fullscreen; the arguments of the QEMU command line;
the pictures inside frames and the content of binder transactions; static files of
the display server; the texts of the LXC and cloud-init configurations; the
network portal; packaging and self-test scripts; vendored libraries; a power loss of the host.
`PROJECT.json` gives the reason for each component. Sleep inhibition is one call to
the host on each side of the window's life.

## Plan

In this order, the most important behaviour first.

| Step | Module | Abstract specification or reference | Properties | Bounds |
|---|---|---|---|---|
| 1, done | `DesktopLifecycle` | `GuestWatchdog` | above | above |
| 2, done | `CameraLink` | none: its invariants are the promise | above | above |
| 3, done | `CameraBridge` | none: its invariants are the promise | above | above |
| 4, done | `GuestDisk` | none | above | above |
| 5, done | `NativeContainer` (with the life of the service threads) | none | above | above |
| 6, done | `FirstBoot` | none | above | above |
| 7 | `AdbTransfer` | every file of a batch is tried | a failure does not stop the batch | three files |
| 8 | `Policy`: attempts, accelerator, architecture, ports | reference definitions | agreement over bounded inputs | all inputs |

Theorems to come: those of `AdbTransfer` and `Policy`; the steps of `FirstBoot` that
never take back what a later release installed, as the safety half of `Provisioned`.
