------------------------ MODULE DesktopSafetyProofs ------------------------
(***************************************************************************)
(* Proofs that the window looks after what it starts: its display servers, *)
(* its guest, its disk and the native session beside it.                   *)
(***************************************************************************)
EXTENDS DesktopLifecycleProofs

(* A start has been submitted and its result not yet looked at; the window *)
(* is bound to a guest: it watches one, starts one or is about to.         *)
StartInFlight == Busy /\ operation = "start"
Bound         == was_running \/ StartInFlight \/ poll = "startFile"

(* self.operation names the last job submitted, and until a future is      *)
(* overwritten there is no other.                                          *)
LastJob == queue # <<>> => queue[Len(queue)] = operation
OneJob  == Len(queue) <= 1 \/ overwritten

(* An open server, and a running guest, belong to a watched guest or to a  *)
(* start whose result poll will look at.                                   *)
ServerOwned == server => overwritten \/ was_running \/ StartInFlight
GuestOwned  ==
  Live => \/ overwritten \/ was_running
          \/ StartInFlight /\ (future = "ok" \/ wpc # "idle")

(* Start, Settings and the native session are offered while no QEMU runs,  *)
(* Start only without a native session.                                    *)
OfferedIdle == enabled \cap {"start", "settings", "native"} # {} => ~Live
StartOffered == "start" \in enabled => ~native

(* What follows holds unless a hasty press was made: behind the two boxes  *)
(* that lead to a start or to another disk nothing runs, ...               *)
BoxAlone ==
  /\ dialog \in {"startFile", "settings"} => hasty \/ (~Bound /\ ~Busy /\ ~Live)
  /\ dialog = "startFile" => hasty \/ ~native

(* ... a guest is not started while one is watched, it has its disk and    *)
(* its server, and no native session stands beside it.                     *)
FreshStart   == StartInFlight => hasty \/ ~was_running
DiskKept     == was_running \/ StartInFlight => disk \/ hasty
ScreenServed == window = "open" => (was_running \/ StartInFlight => server \/ hasty)
NativeAlone  == native => hasty \/ (~Live /\ ~HasStart(queue) /\ ~Bound)

(* A recovery that waits for a disk file has nothing left of its guest,    *)
(* and the webcam is held for a watched guest only.                        *)
FileBox    == poll = "startFile" => ~Live /\ ~was_running /\ ~server
CameraHeld == camera => was_running

CareInv ==
  /\ LastJob /\ OneJob
  /\ ServerOwned /\ GuestOwned /\ NoServerLeak
  /\ OfferedIdle /\ StartOffered /\ BoxAlone
  /\ FreshStart /\ DiskKept /\ ScreenServed /\ NativeAlone
  /\ FileBox /\ CameraHeld

(* What is already proved of every reachable state.                        *)
BaseInv == TypeInv /\ SoleLaunch /\ IntentInv

-----------------------------------------------------------------------------
(* update_actions offers a start, the settings and the native session only *)
(* while no guest runs.                                                    *)
LEMMA UpdateOffers == ASSUME UpdateActions PROVE OfferedIdle' /\ StartOffered'
  BY DEF UpdateActions, OfferedIdle, StartOffered, SettingsAllowed, NativeAllowed, Live

(* With no operation in flight the queue is empty and the worker idle; a   *)
(* button that is enabled says so.                                         *)
LEMMA IdlePool ==
  ASSUME BaseInv
  PROVE  /\ ~Busy => queue = <<>> /\ wpc = "idle" /\ ~HasStart(queue) /\ Len(queue) = 0
         /\ Done => queue = <<>> /\ wpc = "idle" /\ ~HasStart(queue)
         /\ \A b : b \in enabled => ~Busy
         /\ queue # <<>> => future = "pending" /\ Busy
         /\ future = "pending" => queue # <<>>
PROOF
  <1>1. \A b : b \in enabled => ~Busy
    BY IdleWindow DEF BaseInv
  <1>2. ~Busy => queue = <<>> /\ wpc = "idle" /\ ~HasStart(queue)
    BY IdleWindow DEF BaseInv, IntentInv, PoolInv, Busy, TypeInv, WorkerInv
  <1>3. queue # <<>> <=> future = "pending"
    BY DEF BaseInv, IntentInv, PoolInv
  <1>4. queue = <<>> => wpc = "idle" /\ ~HasStart(queue)
    <2>1. DOMAIN <<>> = {}
      OBVIOUS
    <2> QED BY <2>1 DEF HasStart, BaseInv, TypeInv, WorkerInv
  <1> QED BY <1>1, <1>2, <1>3, <1>4, EmptySeq DEF Busy, Done

(* A submission puts its job last, alone unless it overwrites a future.    *)
LEMMA SubmitLast ==
  ASSUME BaseInv, NEW job \in Jobs, Submit(job)
  PROVE  /\ LastJob' /\ OneJob'
         /\ operation' = job /\ future' = "pending" /\ Busy'
         /\ overwritten => overwritten'
         /\ Busy => overwritten'
         /\ HasStart(queue') <=> HasStart(queue) \/ job = "start"
PROOF
  <1>1. queue \in Seq(Jobs) /\ queue' = Append(queue, job) /\ queue' # <<>>
    BY SubmitType DEF BaseInv, TypeInv, TypeOK, Submit
  <1>2. Len(queue') = Len(queue) + 1 /\ queue'[Len(queue')] = job
    BY <1>1
  <1>3. operation' = job /\ future' = "pending" /\ Busy'
    BY DEF Submit, Busy
  <1>4. (overwritten => overwritten') /\ (Busy => overwritten')
    BY Zenon DEF Submit
  <1>5. OneJob'
    BY <1>2, <1>4, IdlePool DEF OneJob
  <1>6. HasStart(queue') <=> HasStart(queue) \/ job = "start"
    <2>1. /\ \A i \in DOMAIN queue : i \in DOMAIN queue' /\ queue'[i] = queue[i]
          /\ Len(queue') \in DOMAIN queue'
          /\ \A i \in DOMAIN queue' : i \in DOMAIN queue \/ i = Len(queue')
      BY <1>1
    <2> QED BY <1>2, <2>1 DEF HasStart
  <1> QED BY <1>2, <1>3, <1>4, <1>5, <1>6 DEF LastJob

(* A job at the head that ends leaves the last one last.                   *)
LEMMA FinishLast ==
  ASSUME BaseInv, LastJob, OneJob, queue # <<>>, NEW outcome \in {"ok", "error"},
         Finish(outcome)
  PROVE  /\ LastJob' /\ OneJob'
         /\ Busy /\ Busy' /\ UNCHANGED <<operation, overwritten>> /\ wpc' = "idle"
         /\ HasStart(queue') => HasStart(queue)
         /\ HasStart(queue) => HasStart(queue') \/ Head(queue) = "start"
         /\ Len(queue) = 1 => Head(queue) = operation /\ future' = outcome /\ queue' = <<>>
         /\ Len(queue) # 1 => future' = future /\ queue' # <<>>
PROOF
  <1>1. queue \in Seq(Jobs) /\ queue' = Tail(queue) /\ Head(queue) = queue[1]
    BY DEF BaseInv, TypeInv, TypeOK, Finish
  <1>2. /\ Tail(queue) \in Seq(Jobs) /\ Len(Tail(queue)) = Len(queue) - 1
        /\ \A i \in 1..Len(Tail(queue)) : Tail(queue)[i] = queue[i + 1]
        /\ Len(queue) \in Nat \ {0}
    BY <1>1, HeadTailProperties, EmptySeq
  <1>3. Len(queue) # 1 <=> Tail(queue) # <<>>
    <2>1. Tail(queue) = <<>> => Len(Tail(queue)) = 0
      BY EmptySeq
    <2>2. Tail(queue) # <<>> => Len(Tail(queue)) \in Nat \ {0}
      BY <1>2, EmptySeq
    <2> QED BY <1>2, <2>1, <2>2
  <1>4. /\ PoolInv' /\ Busy /\ Busy'
        /\ HasStart(queue') => HasStart(queue)
    BY FinishPool DEF BaseInv, IntentInv, Busy
  <1>5. UNCHANGED <<operation, overwritten>> /\ wpc' = "idle"
    BY DEF Finish
  <1>6. LastJob'
    BY <1>1, <1>2, <1>3, <1>5 DEF LastJob
  <1>7. OneJob'
    BY <1>1, <1>2, <1>5 DEF OneJob
  <1>8. HasStart(queue) => HasStart(queue') \/ Head(queue) = "start"
    <2> SUFFICES ASSUME NEW i \in DOMAIN queue, queue[i] = "start", i # 1
                 PROVE  HasStart(queue')
      BY <1>1 DEF HasStart
    <2>1. i - 1 \in 1..Len(Tail(queue)) /\ Tail(queue)[i - 1] = "start"
      BY <1>1, <1>2, LenProperties
    <2> QED BY <1>1, <1>2, <2>1, LenProperties DEF HasStart
  <1>9. /\ Len(queue) = 1 => Head(queue) = operation /\ future' = outcome /\ queue' = <<>>
        /\ Len(queue) # 1 => future' = future /\ queue' # <<>>
    BY <1>1, <1>3 DEF LastJob, Finish, Deliver
  <1> QED BY <1>4, <1>5, <1>6, <1>7, <1>8, <1>9

-----------------------------------------------------------------------------
(* Steps that start nothing and free no button: the pool, the watch and    *)
(* the disk stay, QEMU and the native session may end.                     *)
LEMMA CareFrame ==
  ASSUME CareInv,
         UNCHANGED <<queue, future, operation, overwritten, leaked, was_running, hasty>>,
         Live' => Live /\ (wpc # "idle" => wpc' # "idle"),
         disk => disk', native' => native,
         enabled' \subseteq enabled,
         dialog' \in {"startFile", "settings"} => dialog' = dialog,
         poll' = "startFile" => poll = "startFile",
         server' => server, camera' => camera,
         window' = "open" => window = "open" /\ UNCHANGED server
  PROVE  CareInv'
PROOF
  <1>1. LastJob' /\ OneJob' /\ ServerOwned' /\ GuestOwned' /\ NoServerLeak'
    BY DEF CareInv, LastJob, OneJob, ServerOwned, GuestOwned, NoServerLeak, StartInFlight, Busy
  <1>2. OfferedIdle' /\ StartOffered' /\ BoxAlone'
    BY DEF CareInv, OfferedIdle, StartOffered, BoxAlone, Bound, StartInFlight, Busy
  <1>3. FreshStart' /\ DiskKept' /\ ScreenServed' /\ NativeAlone'
    BY DEF CareInv, FreshStart, DiskKept, ScreenServed, NativeAlone, Bound, StartInFlight,
       Busy, HasStart
  <1>4. FileBox' /\ CameraHeld'
    BY DEF CareInv, FileBox, CameraHeld
  <1> QED BY <1>1, <1>2, <1>3, <1>4 DEF CareInv

(* An operation that is not a start is submitted.                          *)
LEMMA CareSubmit ==
  ASSUME BaseInv, CareInv, NEW job \in Jobs, job # "start", Submit(job), UpdateActions,
         UNCHANGED <<window, poll, proc, wpc, was_running, hasty, server, camera, leaked,
                     disk, native>>,
         dialog' \notin {"startFile", "settings"}
  PROVE  CareInv'
PROOF
  <1>1. /\ LastJob' /\ OneJob'
        /\ operation' = job /\ future' = "pending" /\ Busy'
        /\ overwritten => overwritten'
        /\ Busy => overwritten'
        /\ HasStart(queue') <=> HasStart(queue) \/ job = "start"
    BY SubmitLast
  <1>2. OfferedIdle' /\ StartOffered'
    BY UpdateOffers
  <1>3. ServerOwned' /\ GuestOwned' /\ NoServerLeak' /\ BoxAlone'
    BY <1>1 DEF CareInv, ServerOwned, GuestOwned, NoServerLeak, BoxAlone, StartInFlight, Live
  <1>4. FreshStart' /\ DiskKept' /\ ScreenServed' /\ NativeAlone'
    BY <1>1 DEF CareInv, FreshStart, DiskKept, ScreenServed, NativeAlone, Bound,
       StartInFlight, Live
  <1>5. FileBox' /\ CameraHeld'
    BY DEF CareInv, FileBox, CameraHeld, Live
  <1> QED BY <1>1, <1>2, <1>3, <1>4, <1>5 DEF CareInv

(* A start begins, on a disk and, unless a press was hasty, with no guest  *)
(* watched, no native session, no other box on screen and no server open.  *)
LEMMA CareStart ==
  ASSUME BaseInv, CareInv, BeginStart, UpdateActions,
         UNCHANGED <<window, proc, wpc, native>>,
         hasty => hasty',
         disk', poll' # "startFile",
         Live => UNCHANGED was_running,
         was_running' \/ native \/ dialog' \in {"startFile", "settings"} => hasty',
         leaked' => leaked \/ overwritten \/ hasty',
         camera' => was_running'
  PROVE  CareInv'
PROOF
  <1>1. /\ LastJob' /\ OneJob'
        /\ operation' = "start" /\ future' = "pending" /\ Busy'
        /\ overwritten => overwritten'
        /\ Busy => overwritten'
    BY SubmitLast DEF BeginStart, Jobs
  <1>2. StartInFlight' /\ server'
    BY <1>1 DEF StartInFlight, BeginStart
  <1>3. OfferedIdle' /\ StartOffered'
    BY UpdateOffers
  <1>4. ServerOwned' /\ NoServerLeak'
    BY <1>1, <1>2 DEF CareInv, ServerOwned, NoServerLeak
  <1>5. GuestOwned'
    <2> SUFFICES ASSUME Live', ~overwritten', ~was_running'
                 PROVE  FALSE
      BY DEF GuestOwned
    <2> QED BY <1>1 DEF CareInv, GuestOwned, StartInFlight, Live
  <1>6. BoxAlone' /\ FreshStart' /\ DiskKept' /\ ScreenServed' /\ NativeAlone'
    BY <1>1, <1>2 DEF CareInv, BoxAlone, FreshStart, DiskKept, ScreenServed, NativeAlone
  <1>7. FileBox' /\ CameraHeld'
    BY DEF FileBox, CameraHeld
  <1> QED BY <1>1, <1>3, <1>4, <1>5, <1>6, <1>7 DEF CareInv

(* The worker ends its job; a start that ends well leaves its guest alive, *)
(* one that fails leaves none of its own.                                  *)
LEMMA CareFinish ==
  ASSUME BaseInv, CareInv, queue # <<>>, NEW outcome \in {"ok", "error"},
         Finish(outcome), UiFrame,
         Live' => Live /\ (wpc # "idle" => outcome = "ok")
  PROVE  CareInv'
PROOF
  <1>1. /\ LastJob' /\ OneJob'
        /\ Busy /\ Busy' /\ UNCHANGED <<operation, overwritten>>
        /\ HasStart(queue') => HasStart(queue)
        /\ Len(queue) = 1 => future' = outcome
    BY FinishLast DEF CareInv
  <1>2. future = "pending"
    BY IdlePool
  <1>3. Len(queue) = 1 \/ overwritten
    <2>1. Len(queue) \in Nat /\ Len(queue) # 0
      BY EmptySeq DEF BaseInv, TypeInv, TypeOK
    <2>2. Len(queue) <= 1 \/ overwritten
      BY DEF CareInv, OneJob
    <2>3. Len(queue) <= 1 => Len(queue) = 1
      BY <2>1
    <2> QED BY <2>2, <2>3
  <1>4. UNCHANGED <<window, dialog, poll, enabled, server, leaked, camera, disk, native,
                    was_running, hasty>>
    BY DEF UiFrame, displayVars, watchVars
  <1>5. ServerOwned' /\ GuestOwned' /\ NoServerLeak'
    BY <1>1, <1>2, <1>3, <1>4 DEF CareInv, ServerOwned, GuestOwned, NoServerLeak, StartInFlight
  <1>6. OfferedIdle' /\ StartOffered' /\ BoxAlone'
    BY <1>1, <1>4 DEF CareInv, OfferedIdle, StartOffered, BoxAlone, Bound, StartInFlight
  <1>7. FreshStart' /\ DiskKept' /\ ScreenServed' /\ NativeAlone'
    BY <1>1, <1>4 DEF CareInv, FreshStart, DiskKept, ScreenServed, NativeAlone, Bound,
       StartInFlight
  <1>8. FileBox' /\ CameraHeld'
    BY <1>4 DEF CareInv, FileBox, CameraHeld
  <1> QED BY <1>1, <1>5, <1>6, <1>7, <1>8 DEF CareInv

-----------------------------------------------------------------------------
LEMMA CareInvStep == BaseInv /\ CareInv /\ [Next]_vars => CareInv'
PROOF
  <1> SUFFICES ASSUME BaseInv, CareInv, [Next]_vars
               PROVE  CareInv'
    OBVIOUS
  <1> USE DEF poolVars, outside, displayVars, hostVars, watchVars, behind
  <1>a. ASSUME NEW box \in {"none", "notice", "installFile", "localImage"}, ShowBox(box)
        PROVE  CareInv'
    BY <1>a, CareFrame DEF ShowBox, Live
  <1>b. ASSUME NEW job \in Transfers \cup {"prepare"}, SubmitFromUi(job)
        PROVE  CareInv'
    BY <1>b, CareSubmit DEF SubmitFromUi, Transfers, Jobs
  <1>c. /\ \A b : b \in enabled => ~Busy
        /\ ~Busy => queue = <<>> /\ wpc = "idle" /\ ~HasStart(queue)
        /\ "start" \in enabled => ~Live /\ ~native
        /\ "settings" \in enabled \/ "native" \in enabled => ~Live
    BY IdlePool DEF CareInv, OfferedIdle, StartOffered
  <1>d. NoteHaste => (hasty => hasty') /\ (was_running /\ ~Live => hasty')
    BY Zenon DEF NoteHaste
  <1>e. StartFromUi =>
          /\ leaked' => leaked \/ server
          /\ BeginStart /\ UpdateActions /\ dialog' = "none"
    BY Zenon DEF StartFromUi
  <1>f. server /\ ~Busy => overwritten \/ was_running
    BY DEF CareInv, ServerOwned, StartInFlight
  <1>1. CASE ClickStart
    <2>1. /\ ~Busy /\ ~Live /\ ~native /\ queue = <<>>
          /\ (hasty => hasty') /\ (was_running => hasty')
          /\ poll = "idle" /\ UNCHANGED <<window, poll, outside, camera, hostVars, was_running>>
      BY <1>1, <1>c, <1>d DEF ClickStart, Interactive
    <2>2. CASE disk /\ StartFromUi
      <3>1. /\ leaked' => leaked \/ overwritten \/ hasty'
            /\ camera' => was_running'
        BY <2>1, <2>2, <1>e, <1>f DEF CareInv, CameraHeld
      <3> QED BY <2>1, <2>2, <3>1, <1>e, CareStart
    <2>3. CASE StartNotBegun /\ dialog' \in {"notice", "startFile"}
      <3>1. /\ LastJob' /\ OneJob' /\ ServerOwned' /\ GuestOwned' /\ NoServerLeak'
            /\ OfferedIdle' /\ StartOffered'
        BY <1>1, <2>1, <2>3 DEF ClickStart, StartNotBegun, CareInv, LastJob, OneJob, ServerOwned,
           GuestOwned, NoServerLeak, OfferedIdle, StartOffered, StartInFlight, Busy, Live
      <3>2. /\ BoxAlone' /\ FreshStart' /\ DiskKept' /\ ScreenServed' /\ NativeAlone'
            /\ FileBox' /\ CameraHeld'
        BY <1>1, <2>1, <2>3 DEF ClickStart, StartNotBegun, CareInv, BoxAlone, FreshStart,
           DiskKept, ScreenServed, NativeAlone, FileBox, CameraHeld, Bound, StartInFlight,
           Busy, Live, HasStart
      <3> QED BY <3>1, <3>2 DEF CareInv
    <2> QED BY <1>1, <2>2, <2>3 DEF ClickStart
  <1>2. CASE AnswerStartFile
    <2>1. /\ hasty \/ (~was_running /\ ~Busy /\ ~Live)
          /\ hasty \/ ~native
          /\ poll = "idle" /\ dialog = "startFile"
          /\ UNCHANGED <<window, poll, outside, camera, managed, native, was_running, hasty>>
      BY <1>2 DEF AnswerStartFile, Answering, CareInv, BoxAlone, Bound
    <2>2. CASE disk' = TRUE /\ StartFromUi
      <3>1. /\ leaked' => leaked \/ overwritten \/ hasty'
            /\ camera' => was_running'
        BY <2>1, <2>2, <1>e, <1>f DEF CareInv, CameraHeld
      <3> QED BY <2>1, <2>2, <3>1, <1>e, CareStart
    <2>3. CASE StartNotBegun /\ dialog' \in {"none", "notice"} /\ (disk => disk')
      BY <1>2, <2>1, <2>3, CareFrame DEF AnswerStartFile, StartNotBegun, Live
    <2>4. UNCHANGED disk \/ disk' \in {disk, TRUE} => (disk => disk')
      BY Zenon
    <2> QED BY <1>2, <2>2, <2>3, <2>4 DEF AnswerStartFile
  <1>3. CASE ClickStop
    <2>1. CASE shutdown_requested
      BY <1>3, <2>1, CareFrame DEF ClickStop, Live
    <2>2. CASE ~shutdown_requested
      BY <1>3, <2>2, CareSubmit DEF ClickStop, RequestStop, Jobs, Interactive
    <2> QED BY <2>1, <2>2
  <1>4. CASE AnswerStop
    <2>1. CASE UNCHANGED <<poolVars, shutdown_requested, wanted, enabled>>
      BY <1>4, <2>1, CareFrame DEF AnswerStop, Live
    <2>2. CASE RequestStop("terminate") /\ UpdateActions
      BY <1>4, <2>2, CareSubmit DEF AnswerStop, RequestStop, Jobs
    <2> QED BY <1>4, <2>1, <2>2 DEF AnswerStop
  <1>5. CASE ClickInstall \/ ClickLocalImage \/ DismissNotice
    BY <1>5, <1>a DEF ClickInstall, ClickLocalImage, DismissNotice
  <1>6. CASE AnswerInstall \/ AnswerLocalImage \/ ClickPrepare \/ DropFiles
    BY <1>6, <1>a, <1>b DEF AnswerInstall, AnswerLocalImage, ClickPrepare, DropFiles, Transfers
  <1>7. CASE ClickSettings
    <2>1. /\ ~Busy /\ ~Live /\ poll = "idle" /\ dialog' = "settings"
          /\ (hasty => hasty') /\ (was_running => hasty')
          /\ UNCHANGED <<window, poll, enabled, poolVars, outside, displayVars, hostVars,
                         was_running>>
      BY <1>7, <1>c, <1>d DEF ClickSettings, Interactive
    <2>2. /\ LastJob' /\ OneJob' /\ ServerOwned' /\ GuestOwned' /\ NoServerLeak'
          /\ OfferedIdle' /\ StartOffered'
      BY <2>1 DEF CareInv, LastJob, OneJob, ServerOwned, GuestOwned, NoServerLeak,
         OfferedIdle, StartOffered, StartInFlight, Busy, Live
    <2>3. /\ BoxAlone' /\ FreshStart' /\ DiskKept' /\ ScreenServed' /\ NativeAlone'
          /\ FileBox' /\ CameraHeld'
      BY <2>1 DEF CareInv, BoxAlone, FreshStart, DiskKept, ScreenServed, NativeAlone, FileBox,
         CameraHeld, Bound, StartInFlight, Busy, Live, HasStart
    <2> QED BY <2>2, <2>3 DEF CareInv
  <1>8. CASE AnswerSettings
    <2>1. /\ hasty \/ (~was_running /\ ~Busy)
          /\ dialog' \in {"none", "notice"}
          /\ UNCHANGED <<window, poll, enabled, poolVars, outside, displayVars, managed,
                         native, watchVars>>
      BY <1>8 DEF AnswerSettings, Answering, CareInv, BoxAlone, Bound
    <2>2. CASE UNCHANGED disk
      BY <2>1, <2>2, CareFrame DEF Live
    <2>3. CASE hasty \/ (~was_running /\ ~Busy)
      <3>1. DiskKept'
        BY <2>1, <2>3 DEF DiskKept, StartInFlight, Busy
      <3>2. /\ LastJob' /\ OneJob' /\ ServerOwned' /\ GuestOwned' /\ NoServerLeak'
            /\ OfferedIdle' /\ StartOffered' /\ BoxAlone'
        BY <2>1 DEF CareInv, LastJob, OneJob, ServerOwned, GuestOwned, NoServerLeak,
           OfferedIdle, StartOffered, BoxAlone, StartInFlight, Busy, Live
      <3>3. FreshStart' /\ ScreenServed' /\ NativeAlone' /\ FileBox' /\ CameraHeld'
        BY <2>1 DEF CareInv, FreshStart, ScreenServed, NativeAlone, FileBox, CameraHeld, Bound,
           StartInFlight, Busy, Live, HasStart
      <3> QED BY <3>1, <3>2, <3>3 DEF CareInv
    <2> QED BY <2>1, <2>3
  <1>9. CASE LaunchNative
    <2>1. CASE /\ native' = TRUE /\ NoteHaste /\ UpdateActions
               /\ UNCHANGED <<window, dialog, poll, poolVars, outside, displayVars, disk,
                              managed, was_running>>
      <3>1. /\ ~Busy /\ ~Live /\ poll = "idle" /\ dialog = "none" /\ ~HasStart(queue)
            /\ (hasty => hasty') /\ (was_running => hasty')
        BY <1>9, <2>1, <1>c, <1>d DEF LaunchNative, Interactive
      <3>2. OfferedIdle' /\ StartOffered'
        BY <2>1, UpdateOffers
      <3>3. LastJob' /\ OneJob' /\ ServerOwned' /\ GuestOwned' /\ NoServerLeak' /\ BoxAlone'
        BY <2>1, <3>1 DEF CareInv, LastJob, OneJob, ServerOwned, GuestOwned, NoServerLeak,
           BoxAlone, StartInFlight, Busy, Live
      <3>4. /\ FreshStart' /\ DiskKept' /\ ScreenServed' /\ NativeAlone' /\ FileBox'
            /\ CameraHeld'
        BY <2>1, <3>1 DEF CareInv, FreshStart, DiskKept, ScreenServed, NativeAlone, FileBox,
           CameraHeld, Bound, StartInFlight, Busy, Live, HasStart
      <3> QED BY <3>2, <3>3, <3>4 DEF CareInv
    <2> QED BY <1>9, <2>1, <1>a DEF LaunchNative
  <1>10. CASE CloseWindow \/ AnswerClose
    BY <1>10, CareFrame DEF CloseWindow, AnswerClose, Interactive, Answering, Live
  <1>11. CASE AnswerRecoverFile
    <2>1. /\ ~Live /\ ~was_running /\ ~Busy /\ (dialog \in {"startFile", "settings"} => hasty)
          /\ (native => hasty) /\ ~camera
          /\ UNCHANGED <<window, dialog, outside, leaked, camera, native, was_running, hasty>>
      BY <1>11 DEF AnswerRecoverFile, CareInv, FileBox, BoxAlone, NativeAlone, Bound, CameraHeld,
         BaseInv, IntentInv, FileAsked
    <2>2. CASE disk' = TRUE /\ poll' = "update" /\ BeginStart /\ UpdateActions
      BY <2>1, <2>2, CareStart
    <2>3. CASE /\ poll' \in {"update", "notice"} /\ (disk => disk')
               /\ UNCHANGED <<poolVars, server, shutdown_requested, enabled>>
      BY <2>1, <2>3, CareFrame DEF Live
    <2>4. UNCHANGED disk \/ disk' \in {disk, TRUE} => (disk => disk')
      BY Zenon
    <2> QED BY <1>11, <2>2, <2>3, <2>4 DEF AnswerRecoverFile
  <1>12. CASE PollFuture \/ PollPrepareUnsaved
    <2>1. /\ Done /\ future \in {"ok", "error"}
          /\ queue = <<>> /\ wpc = "idle" /\ ~HasStart(queue)
      BY <1>12, IdlePool DEF PollFuture, PollPrepareUnsaved, Done
    <2>2. /\ ~Busy' /\ ~StartInFlight' /\ poll' \in {"alert", "exit"}
          /\ window = "open" /\ Busy
          /\ UNCHANGED <<window, dialog, enabled, operation, queue, overwritten, outside,
                         leaked, managed, native, hasty>>
      BY <1>12, <2>1 DEF PollFuture, PollPrepareUnsaved, Busy, StartInFlight
    <2>a. disk => disk'
      <3>1. UNCHANGED disk \/ disk' = (disk \/ (operation = "prepare" /\ future = "ok"))
        BY <1>12 DEF PollFuture, PollPrepareUnsaved
      <3> QED BY <3>1, Zenon
    <2>b. /\ was_running => was_running'
          /\ was_running' => was_running \/ StartInFlight
      <3>1. CASE UNCHANGED was_running
        BY <3>1
      <3>2. CASE operation = "start" /\ was_running' = TRUE
        BY <2>2, <3>2 DEF StartInFlight
      <3>3. CASE operation = "start" /\ was_running' = (was_running \/ future = "ok")
        BY <2>2, <3>3, Zenon DEF StartInFlight
      <3> QED BY <1>12, <3>1, <3>2, <3>3 DEF PollFuture, PollPrepareUnsaved
    <2>3. /\ was_running => was_running'
          /\ was_running' => was_running \/ StartInFlight
          /\ disk => disk'
          /\ server' => server
          /\ camera' => was_running'
      <3>1. server' => server
        BY <1>12 DEF PollFuture, PollPrepareUnsaved, CloseDisplay
      <3>2. camera' => was_running'
        BY <1>12, <2>b DEF PollFuture, PollPrepareUnsaved, CloseDisplay, CareInv, CameraHeld
      <3> QED BY <2>a, <2>b, <3>1, <3>2
    <2>4. Live /\ ~overwritten => was_running'
      BY <1>12, <2>1, <2>3 DEF PollFuture, PollPrepareUnsaved, CareInv, GuestOwned, StartInFlight
    <2>5. server' /\ ~overwritten => was_running'
      BY <1>12, <2>2, <2>3 DEF PollFuture, PollPrepareUnsaved, CareInv, ServerOwned,
         StartInFlight, CloseDisplay
    <2>6. was_running' => server' \/ hasty
      BY <1>12, <2>2, <2>3 DEF PollFuture, PollPrepareUnsaved, CareInv, ScreenServed, FreshStart,
         StartInFlight, CloseDisplay
    <2>7. LastJob' /\ OneJob' /\ ServerOwned' /\ GuestOwned' /\ NoServerLeak'
      BY <2>2, <2>4, <2>5 DEF CareInv, LastJob, OneJob, ServerOwned, GuestOwned, NoServerLeak,
         Live
    <2>8. OfferedIdle' /\ StartOffered' /\ BoxAlone'
      BY <2>2, <2>3 DEF CareInv, OfferedIdle, StartOffered, BoxAlone, Bound, Live
    <2>9. /\ FreshStart' /\ DiskKept' /\ ScreenServed' /\ NativeAlone'
          /\ FileBox' /\ CameraHeld'
      <3>1. FreshStart' /\ FileBox' /\ CameraHeld'
        BY <2>2, <2>3 DEF FreshStart, FileBox, CameraHeld
      <3>2. DiskKept'
        BY <2>2, <2>3 DEF CareInv, DiskKept
      <3>3. ScreenServed'
        BY <2>2, <2>6 DEF ScreenServed
      <3>4. NativeAlone'
        BY <2>2, <2>3 DEF CareInv, NativeAlone, Bound, Live, HasStart
      <3> QED BY <3>1, <3>2, <3>3, <3>4
    <2> QED BY <2>7, <2>8, <2>9 DEF CareInv
  <1>13. CASE PollExit
    <2>1. /\ was_running /\ ~Live /\ ~was_running' /\ window = "open"
          /\ poll # "startFile"
          /\ UNCHANGED <<window, dialog, outside, leaked, hostVars, wanted, hasty>>
      BY <1>13 DEF PollExit, AtExitCheck
    <2>2. /\ dialog \in {"startFile", "settings"} => hasty
          /\ native => hasty
          /\ StartInFlight => hasty
      BY <2>1 DEF CareInv, BoxAlone, NativeAlone, FreshStart, Bound
    <2>3. CASE /\ poll' \in {"idle", "notice", "startFile"} /\ CloseDisplay
               /\ UNCHANGED <<queue, future, operation, overwritten>>
               /\ UpdateActions \/ UNCHANGED enabled
               /\ poll' = "startFile" => ~Busy
      <3>1. ~server' /\ ~camera' /\ ~Live'
        BY <2>1, <2>3 DEF CloseDisplay, Live
      <3>2. OfferedIdle' /\ StartOffered'
        BY <2>1, <2>3, UpdateOffers DEF CareInv, OfferedIdle, StartOffered, Live
      <3>3. LastJob' /\ OneJob' /\ ServerOwned' /\ GuestOwned' /\ NoServerLeak' /\ BoxAlone'
        BY <2>1, <2>2, <2>3, <3>1 DEF CareInv, LastJob, OneJob, ServerOwned, GuestOwned,
           NoServerLeak, BoxAlone
      <3>4. /\ FreshStart' /\ DiskKept' /\ ScreenServed' /\ NativeAlone'
            /\ FileBox' /\ CameraHeld'
        BY <2>1, <2>2, <2>3, <3>1 DEF CareInv, FreshStart, DiskKept, ScreenServed, NativeAlone,
           FileBox, CameraHeld, Bound, StartInFlight, Busy, HasStart
      <3> QED BY <3>2, <3>3, <3>4 DEF CareInv
    <2>4. CASE disk /\ poll' = "idle" /\ camera' = FALSE /\ BeginStart /\ UpdateActions
      BY <2>1, <2>2, <2>4, CareStart
    <2> QED BY <1>13, <2>3, <2>4 DEF PollExit, RecoverGuest
  <1>14. CASE PollNoExit \/ DismissAlert
    BY <1>14, CareFrame DEF PollNoExit, DismissAlert, Live
  <1>15. CASE PollEnd
    <2>1. OfferedIdle' /\ StartOffered'
      BY <1>15, UpdateOffers DEF PollEnd
    <2>2. poll' = "idle" /\ UNCHANGED <<window, dialog, behind>>
      BY <1>15 DEF PollEnd
    <2>3. LastJob' /\ OneJob' /\ ServerOwned' /\ GuestOwned' /\ NoServerLeak' /\ BoxAlone'
      BY <2>2 DEF CareInv, LastJob, OneJob, ServerOwned, GuestOwned, NoServerLeak, BoxAlone,
         Bound, StartInFlight, Busy, Live
    <2>4. /\ FreshStart' /\ DiskKept' /\ ScreenServed' /\ NativeAlone'
          /\ FileBox' /\ CameraHeld'
      BY <2>2 DEF CareInv, FreshStart, DiskKept, ScreenServed, NativeAlone, FileBox, CameraHeld,
         Bound, StartInFlight, Busy, Live, HasStart
    <2> QED BY <2>1, <2>3, <2>4 DEF CareInv
  <1>16. CASE Close
    BY <1>16, CareFrame DEF Close, CloseSignal, CloseWait, CloseRelease, CloseDrained,
       ClosingFrame, CloseDisplay, Terminate, Live, Exits
  <1>17. CASE WorkerShutdown \/ WorkerTerminate \/ WorkerTransfer \/ WorkerPrepare
    <2>1. queue # <<>> /\ wpc = "idle"
      BY <1>17 DEF WorkerShutdown, WorkerTerminate, WorkerTransfer, WorkerPrepare, Working,
         Transfers, BaseInv, TypeInv, WorkerInv
    <2>2. UiFrame /\ (Live' => Live) /\ (Finish("ok") \/ Finish("error"))
      BY <1>17 DEF WorkerShutdown, WorkerTerminate, WorkerTransfer, WorkerPrepare, Terminate,
         Live, Exits
    <2> QED BY <2>1, <2>2, CareFinish
  <1>18. CASE WorkerStart \/ WorkerSurvived \/ WorkerRetry \/ WorkerConnected \/ WorkerGaveUp
    <2>1. UiFrame /\ queue # <<>>
      BY <1>18 DEF WorkerStart, WorkerSurvived, WorkerRetry, WorkerConnected, WorkerGaveUp,
         Working, BaseInv, TypeInv, WorkerInv
    <2>2. CASE /\ Finish("ok") \/ (Finish("error") /\ (wpc = "idle" \/ ~Live'))
               /\ Live' => Live
      BY <2>1, <2>2, CareFinish
    <2>3. CASE UNCHANGED <<poolVars, proc>> /\ wpc' # "idle"
      BY <2>1, <2>3, CareFrame DEF UiFrame, Live
    <2> QED BY <1>18, <2>2, <2>3 DEF WorkerStart, WorkerSurvived, WorkerRetry, WorkerConnected,
               WorkerGaveUp, Terminate, StartupFailed, Live, Exits
  <1>19. CASE WorkerLaunch
    <2>1. queue # <<>> /\ Head(queue) = "start" /\ ~Live /\ UiFrame
      BY <1>19 DEF WorkerLaunch, BaseInv, TypeInv, WorkerInv, SoleLaunch
    <2>2. CASE Finish("error") /\ UNCHANGED proc
      BY <2>1, <2>2, CareFinish DEF Live
    <2>3. CASE proc' = "live" /\ wpc' = "survive" /\ UNCHANGED poolVars
      <3>1. Busy /\ enabled = {} /\ enabled' = {} /\ poll # "startFile"
        BY <2>1, IdlePool DEF UiFrame, BaseInv, IntentInv, ButtonsInv, FileAsked
      <3>2. HasStart(queue) /\ (overwritten \/ operation = "start")
        <4>1. /\ queue \in Seq(Jobs) /\ Len(queue) \in Nat /\ Len(queue) # 0
              /\ Head(queue) = queue[1] /\ 1 \in DOMAIN queue
          BY <2>1, EmptySeq DEF BaseInv, TypeInv, TypeOK
        <4>2. Len(queue) <= 1 => queue[Len(queue)] = "start"
          BY <2>1, <4>1
        <4> QED BY <2>1, <4>1, <4>2 DEF HasStart, CareInv, OneJob, LastJob
      <3>3. UNCHANGED <<window, dialog, poll, server, leaked, camera, disk, native,
                        was_running, hasty>>
        BY <2>1 DEF UiFrame
      <3>4. /\ LastJob' /\ OneJob' /\ ServerOwned' /\ GuestOwned' /\ NoServerLeak'
            /\ OfferedIdle' /\ StartOffered'
        BY <2>3, <3>1, <3>2, <3>3 DEF CareInv, LastJob, OneJob, ServerOwned, GuestOwned,
           NoServerLeak, OfferedIdle, StartOffered, StartInFlight, Busy
      <3>5. /\ BoxAlone' /\ FreshStart' /\ DiskKept' /\ ScreenServed' /\ NativeAlone'
            /\ FileBox' /\ CameraHeld'
        BY <2>3, <3>1, <3>2, <3>3 DEF CareInv, BoxAlone, FreshStart, DiskKept, ScreenServed,
           NativeAlone, FileBox, CameraHeld, StartInFlight, Busy
      <3> QED BY <3>4, <3>5 DEF CareInv
    <2> QED BY <1>19, <2>2, <2>3 DEF WorkerLaunch
  <1>20. CASE GuestExit \/ NativeExit \/ Closed \/ UNCHANGED vars
    BY <1>20, CareFrame DEF GuestExit, NativeExit, Closed, UiFrame, vars, Live, Exits
  <1> QED BY <1>1, <1>2, <1>3, <1>4, <1>5, <1>6, <1>7, <1>8, <1>9, <1>10, <1>11, <1>12,
             <1>13, <1>14, <1>15, <1>16, <1>17, <1>18, <1>19, <1>20
          DEF Next, User, Poll, Worker, Environment

LEMMA CareInvInit == Init => CareInv
PROOF
  <1> SUFFICES ASSUME Init PROVE CareInv
    OBVIOUS
  <1>1. ~Busy /\ ~Live /\ ~was_running /\ ~server /\ ~camera /\ ~native /\ ~leaked
        /\ dialog = "none" /\ poll = "idle" /\ Len(queue) = 0 /\ queue = <<>>
    BY EmptySeq DEF Init, Busy, Live
  <1> QED BY <1>1 DEF CareInv, LastJob, OneJob, ServerOwned, GuestOwned, NoServerLeak,
             OfferedIdle, StartOffered, BoxAlone, FreshStart, DiskKept, ScreenServed,
             NativeAlone, FileBox, CameraHeld, StartInFlight

LEMMA CareCorrect == Spec => [](BaseInv /\ CareInv)
PROOF
  <1>1. Init => CoreInv /\ IntentInv /\ CareInv
    BY CoreInvInit, IntentInvInit, CareInvInit
  <1>2. CoreInv /\ IntentInv /\ CareInv /\ [Next]_vars => (CoreInv /\ IntentInv /\ CareInv)'
    BY CoreInvStep, IntentInvStep, CareInvStep DEF CoreInv, BaseInv
  <1>3. CoreInv /\ IntentInv => BaseInv
    BY DEF CoreInv, BaseInv
  <1> QED BY <1>1, <1>2, <1>3, PTL DEF Spec

-----------------------------------------------------------------------------
(* Every display server start_vm opens is closed before another takes its  *)
(* place, unless an operation was overwritten or a press was hasty.        *)
THEOREM ServersClosed == Spec => []NoServerLeak
PROOF
  <1>1. CareInv => NoServerLeak
    BY DEF CareInv
  <1> QED BY <1>1, CareCorrect, PTL

(* No guest runs at rest without a poll to watch it, unless the future of  *)
(* its start was overwritten.                                              *)
THEOREM RunningGuestWatched == Spec => []GuestSupervised
PROOF
  <1>1. CareInv => GuestSupervised
    BY DEF CareInv, GuestOwned, GuestSupervised, Unsupervised, StartInFlight, Busy
  <1> QED BY <1>1, CareCorrect, PTL

(* A watched guest keeps the disk it was started from, so that an          *)
(* automatic restart asks for no file, save after a hasty press.           *)
THEOREM DiskStaysConfigured == Spec => []WatchedGuestHasDisk
PROOF
  <1>1. CareInv => WatchedGuestHasDisk
    BY DEF CareInv, DiskKept, WatchedGuestHasDisk
  <1> QED BY <1>1, CareCorrect, PTL

(* The screen of a watched guest is served and the webcam is held for no   *)
(* other.                                                                  *)
THEOREM ScreenAndCameraFollow == Spec => []DisplayFollowsGuest
PROOF
  <1>1. CareInv => DisplayFollowsGuest
    BY DEF CareInv, ScreenServed, CameraHeld, DisplayFollowsGuest
  <1> QED BY <1>1, CareCorrect, PTL

(* The native session and QEMU exclude each other, starts under way        *)
(* included, save after a hasty press.                                     *)
THEOREM NativeExcludesGuest == Spec => []NoNativeBesideGuest
PROOF
  <1>1. CareInv => NoNativeBesideGuest
    BY DEF CareInv, NativeAlone, NoNativeBesideGuest, HasStart
  <1> QED BY <1>1, CareCorrect, PTL

-----------------------------------------------------------------------------
(* A crash within the budget is not forgotten: until a restart is counted  *)
(* or under way, the user takes over, the window closes or another         *)
(* operation is in flight, every step of every actor leaves it standing    *)
(* for poll to find (poll, recover_guest).                                 *)
DebtsStand ==
  [][\A n \in 0..(MaxRestarts - 1) :
       Interrupted(n) => (Interrupted(n) \/ Settled(n) \/ OtherInFlight)']_vars

(* A step of the worker is one of an operation in flight, which it leaves  *)
(* in flight until poll has seen its result.                               *)
LEMMA WorkerBusy == ASSUME BaseInv, Worker PROVE Busy'
PROOF
  <1>1. queue # <<>>
    BY DEF Worker, WorkerShutdown, WorkerTerminate, WorkerTransfer, WorkerPrepare, WorkerStart,
       WorkerLaunch, WorkerSurvived, WorkerRetry, WorkerConnected, WorkerGaveUp, Working,
       BaseInv, TypeInv, WorkerInv
  <1>2. future = "pending"
    BY <1>1, IdlePool
  <1>3. \A outcome \in {"ok", "error"} : Finish(outcome) => future' # "none"
    BY <1>2 DEF Finish, Deliver
  <1>4. future' = future \/ Finish("ok") \/ Finish("error")
    BY DEF Worker, WorkerShutdown, WorkerTerminate, WorkerTransfer, WorkerPrepare, WorkerStart,
       WorkerLaunch, WorkerSurvived, WorkerRetry, WorkerConnected, WorkerGaveUp, poolVars
  <1> QED BY <1>2, <1>3, <1>4 DEF Busy

LEMMA DebtStep ==
  ASSUME BaseInv, [Next]_vars, NEW n \in 0..(MaxRestarts - 1), Interrupted(n)
  PROVE  (Interrupted(n) \/ Settled(n) \/ OtherInFlight)'
PROOF
  <1> SUFFICES ASSUME restarts' = n, ~shutdown_requested', window' = "open", ~Busy'
               PROVE  was_running' /\ proc' = "failed"
    BY DEF Interrupted, Settled, OtherInFlight, Busy
  <1>1. /\ window = "open" /\ was_running /\ proc = "failed" /\ ~Live
        /\ ~shutdown_requested /\ restarts = n /\ n \in Int /\ n < MaxRestarts
    BY RestartsAssumption DEF Interrupted, Live
  <1> USE DEF outside, watchVars, displayVars, hostVars, poolVars, behind
  <1>2. CASE User
    BY <1>1, <1>2 DEF User, ClickStart, AnswerStartFile, ClickStop, AnswerStop, ClickInstall,
       AnswerInstall, ClickPrepare, ClickLocalImage, AnswerLocalImage, DropFiles,
       ClickSettings, AnswerSettings, LaunchNative, CloseWindow, AnswerClose, DismissNotice,
       AnswerRecoverFile, ShowBox, SubmitFromUi
  <1>3. CASE PollExit
    <2>1. Unexpected /\ RecoverGuest
      BY <1>1, <1>3 DEF PollExit, Unexpected
    <2>2. CASE (Busy \/ BudgetSpent) /\ UNCHANGED poolVars
      BY <1>1, <2>2, RestartsAssumption DEF BudgetSpent, Busy
    <2>3. CASE CountRestart
      BY <1>1, <2>3 DEF CountRestart
    <2> QED BY <2>1, <2>2, <2>3 DEF RecoverGuest
  <1>4. CASE PollFuture \/ PollPrepareUnsaved \/ PollNoExit \/ PollEnd \/ DismissAlert
    BY <1>1, <1>4 DEF PollFuture, PollPrepareUnsaved, PollNoExit, PollEnd, DismissAlert
  <1>5. CASE Close
    BY <1>1, <1>5 DEF Close, CloseSignal, CloseWait, CloseRelease, CloseDrained
  <1>6. CASE Worker
    BY <1>6, WorkerBusy
  <1>7. CASE Environment
    BY <1>1, <1>7 DEF Environment, GuestExit, NativeExit
  <1>8. CASE UNCHANGED vars
    BY <1>1, <1>8 DEF vars
  <1> QED BY <1>2, <1>3, <1>4, <1>5, <1>6, <1>7, <1>8 DEF Next, Poll, Closed

(* The safety half of CrashRecovered, for every budget: what is left to    *)
(* fairness is only that the timer fires and its alert is read.            *)
THEOREM CrashesAwaitAnswer == Spec => DebtsStand
PROOF
  <1>1. BaseInv /\ [Next]_vars =>
          [\A n \in 0..(MaxRestarts - 1) :
             Interrupted(n) => (Interrupted(n) \/ Settled(n) \/ OtherInFlight)']_vars
    BY DebtStep
  <1> QED BY <1>1, CareCorrect, PTL DEF Spec, DebtsStand

-----------------------------------------------------------------------------
(* An operation in flight has a result for poll to see, or its own job is  *)
(* the last in the pool: the future that keeps the buttons disabled is     *)
(* never one that no worker will complete, overwritten or not (submit,     *)
(* poll).                                                                  *)
OperationHeld == Busy => Done \/ (queue # <<>> /\ queue[Len(queue)] = operation)

(* The safety half of OperationsEnd.                                       *)
THEOREM OperationsAreHeld == Spec => []OperationHeld
PROOF
  <1>1. BaseInv /\ CareInv => OperationHeld
    <2> SUFFICES ASSUME BaseInv, CareInv, Busy, ~Done
                 PROVE  queue # <<>> /\ queue[Len(queue)] = operation
      BY DEF OperationHeld
    <2>1. future = "pending"
      BY DEF Busy, Done, BaseInv, TypeInv, TypeOK
    <2> QED BY <2>1, IdlePool DEF CareInv, LastJob
  <1> QED BY <1>1, CareCorrect, PTL
=============================================================================
