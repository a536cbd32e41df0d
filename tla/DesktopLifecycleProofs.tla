----------------------- MODULE DesktopLifecycleProofs -----------------------
(***************************************************************************)
(* Proofs about the desktop window, for every restart budget and every     *)
(* number of launch attempts.                                              *)
(***************************************************************************)
EXTENDS DesktopLifecycle, SequenceTheorems, TLAPS

(* The worker is inside a start only while that start heads the queue.     *)
WorkerInv == wpc # "idle" => queue # <<>> /\ Head(queue) = "start"

TypeInv == TypeOK /\ WorkerInv

(* Appending to a job queue keeps its jobs and its head.                   *)
LEMMA QueueAppend ==
  ASSUME NEW q \in Seq(Jobs), NEW j \in Jobs
  PROVE  /\ Append(q, j) \in Seq(Jobs)
         /\ Append(q, j) # <<>>
         /\ q # <<>> => Head(Append(q, j)) = Head(q)
PROOF
  <1>1. Append(q, j) \in Seq(Jobs)
    OBVIOUS
  <1>2. Len(Append(q, j)) = Len(q) + 1 /\ Len(q) \in Nat
    OBVIOUS
  <1>3. Append(q, j) # <<>>
    BY <1>1, <1>2
  <1>4. q # <<>> => Head(Append(q, j)) = Head(q)
    BY <1>1, <1>2, <1>3
  <1> QED BY <1>1, <1>3, <1>4

(* Dropping the head of a job queue.                                       *)
LEMMA QueueTail ==
  ASSUME NEW q \in Seq(Jobs), q # <<>>
  PROVE  Tail(q) \in Seq(Jobs) /\ Head(q) \in Jobs /\ Len(q) \in Nat
  BY HeadTailProperties, EmptySeq

(* update_actions frees no button while an operation is in flight.         *)
LEMMA UpdateActionsEffect ==
  ASSUME UpdateActions
  PROVE  /\ enabled' \subseteq Buttons
         /\ future' # "none" => enabled' = {}
  BY DEF UpdateActions, Buttons, SettingsAllowed, NativeAllowed

(* Submitting a known job keeps the pool well formed.                      *)
LEMMA SubmitType ==
  ASSUME TypeInv, NEW job \in Jobs, Submit(job)
  PROVE  /\ queue' \in Seq(Jobs) /\ queue' # <<>>
         /\ operation' = job /\ future' = "pending"
         /\ overwritten' \in BOOLEAN
         /\ wpc # "idle" => Head(queue') = "start"
  BY QueueAppend DEF TypeInv, TypeOK, WorkerInv, Submit, Busy

(* So does finishing the job at the head.                                  *)
LEMMA FinishType ==
  ASSUME TypeInv, queue # <<>>, NEW outcome \in {"ok", "error"}, Finish(outcome)
  PROVE  /\ queue' \in Seq(Jobs) /\ wpc' = "idle"
         /\ future' \in {"none", "pending", "ok", "error"}
         /\ UNCHANGED <<operation, overwritten, attempts>>
  BY QueueTail DEF TypeInv, TypeOK, Finish, Deliver

(* The flags that handlers clear stay Booleans.                            *)
LEMMA FlagTypes ==
  /\ CloseDisplay => server' \in BOOLEAN /\ camera' \in BOOLEAN
  /\ BeginStart => shutdown_requested' \in BOOLEAN
  /\ \A job : RequestStop(job) => wanted' \in BOOLEAN
  /\ camera' = FALSE => camera' \in BOOLEAN
  /\ PollExit => was_running' \in BOOLEAN
  /\ NativeExit => native' \in BOOLEAN
  BY Zenon DEF CloseDisplay, BeginStart, RequestStop, PollExit, NativeExit

(* Every step keeps the types and the worker's place in the queue.         *)
LEMMA TypeInvStep == TypeInv /\ [Next]_vars => TypeInv'
PROOF
  <1> SUFFICES ASSUME TypeInv, [Next]_vars
               PROVE  TypeInv'
    OBVIOUS
  <1>a. ASSUME NEW job \in Jobs, Submit(job)
        PROVE  /\ queue' \in Seq(Jobs) /\ queue' # <<>>
               /\ operation' = job /\ future' = "pending"
               /\ overwritten' \in BOOLEAN
               /\ wpc # "idle" => Head(queue') = "start"
    BY <1>a, SubmitType
  <1>b. UpdateActions => enabled' \subseteq Buttons
    BY UpdateActionsEffect
  <1>c. ASSUME NEW outcome \in {"ok", "error"}, queue # <<>>, Finish(outcome)
        PROVE  /\ queue' \in Seq(Jobs) /\ wpc' = "idle"
               /\ future' \in {"none", "pending", "ok", "error"}
               /\ UNCHANGED <<operation, overwritten, attempts>>
    BY <1>c, FinishType
  <1>d. StartFromUi =>
          /\ queue' \in Seq(Jobs) /\ queue' # <<>> /\ operation' = "start"
          /\ future' = "pending" /\ overwritten' \in BOOLEAN
          /\ wpc # "idle" => Head(queue') = "start"
          /\ shutdown_requested' \in BOOLEAN /\ server' \in BOOLEAN
          /\ leaked' \in BOOLEAN /\ wanted' \in BOOLEAN
          /\ enabled' \subseteq Buttons /\ dialog' = "none"
    BY <1>a, <1>b, FlagTypes DEF StartFromUi, BeginStart, Jobs
  <1> USE DEF TypeInv, TypeOK, WorkerInv, poolVars, outside, displayVars, hostVars,
              watchVars, behind, Jobs, Transfers, Exits
  <1>1. CASE ClickStart
    <2>1. restarts' \in 0..MaxRestarts /\ auto' \in Nat /\ hasty' \in BOOLEAN
      BY <1>1, RestartsAssumption DEF ClickStart, NoteHaste
    <2>2. CASE StartFromUi
      BY <1>1, <2>1, <1>d, <2>2 DEF ClickStart
    <2>3. CASE StartNotBegun /\ dialog' = (IF disk THEN "notice" ELSE "startFile")
      BY <1>1, <2>1, <2>3 DEF ClickStart, StartNotBegun
    <2> QED BY <1>1, <2>2, <2>3 DEF ClickStart
  <1>2. CASE AnswerStartFile
    <2>1. CASE disk' = TRUE /\ StartFromUi
      BY <1>2, <2>1, <1>d DEF AnswerStartFile
    <2>2. CASE StartNotBegun
      <3>1. disk' \in BOOLEAN /\ dialog' \in {"none", "notice"}
        BY <1>2, <2>2 DEF AnswerStartFile, StartFromUi
      <3>2. QED BY <1>2, <2>2, <3>1 DEF AnswerStartFile, StartNotBegun
    <2> QED BY <1>2, <2>1, <2>2 DEF AnswerStartFile
  <1>3. CASE ClickStop
    <2>1. restarts' \in 0..MaxRestarts /\ auto' \in Nat
      BY <1>3, RestartsAssumption DEF ClickStop
    <2>2. CASE shutdown_requested
      BY <1>3, <2>1, <2>2 DEF ClickStop
    <2>3. CASE ~shutdown_requested
      <3>1. RequestStop("shutdown") /\ UpdateActions /\ UNCHANGED dialog
        BY <1>3, <2>3 DEF ClickStop
      <3>2. Submit("shutdown") /\ shutdown_requested' \in BOOLEAN /\ wanted' \in BOOLEAN
        BY <3>1, FlagTypes DEF RequestStop
      <3>3. QED BY <1>3, <2>1, <3>1, <3>2, <1>a, <1>b DEF ClickStop
    <2> QED BY <2>2, <2>3
  <1>4. CASE AnswerStop
    <2>1. CASE UNCHANGED <<poolVars, shutdown_requested, wanted, enabled>>
      BY <1>4, <2>1 DEF AnswerStop
    <2>2. CASE RequestStop("terminate") /\ UpdateActions
      <3>1. Submit("terminate") /\ shutdown_requested' \in BOOLEAN /\ wanted' \in BOOLEAN
        BY <2>2, FlagTypes DEF RequestStop
      <3>2. QED BY <1>4, <2>2, <3>1, <1>a, <1>b DEF AnswerStop
    <2> QED BY <1>4, <2>1, <2>2 DEF AnswerStop
  <1>5. CASE ClickInstall
    BY <1>5 DEF ClickInstall, ShowBox
  <1>6. CASE AnswerInstall
    BY <1>6, <1>a, <1>b DEF AnswerInstall, SubmitFromUi,
       ShowBox
  <1>7. CASE ClickPrepare
    BY <1>7, <1>a, <1>b DEF ClickPrepare, SubmitFromUi,
       ShowBox
  <1>8. CASE ClickLocalImage
    BY <1>8 DEF ClickLocalImage, ShowBox
  <1>9. CASE AnswerLocalImage
    BY <1>9, <1>a, <1>b DEF AnswerLocalImage, SubmitFromUi,
       ShowBox
  <1>10. CASE DropFiles
    BY <1>10, <1>a, <1>b DEF DropFiles, SubmitFromUi, ShowBox,
       Live
  <1>11. CASE ClickSettings
    BY <1>11 DEF ClickSettings, NoteHaste
  <1>12. CASE AnswerSettings
    BY <1>12 DEF AnswerSettings
  <1>13. CASE LaunchNative
    <2>1. CASE /\ native' = TRUE /\ NoteHaste /\ UpdateActions
               /\ UNCHANGED <<window, dialog, poll, poolVars, outside, displayVars, disk,
                              managed, was_running, shutdown_requested, restarts, auto,
                              wanted>>
      <3>1. native' \in BOOLEAN /\ hasty' \in BOOLEAN /\ enabled' \subseteq Buttons
        BY <2>1, <1>b DEF NoteHaste
      <3>2. QED BY <2>1, <3>1
    <2>2. CASE ShowBox("notice")
      BY <2>2 DEF ShowBox
    <2> QED BY <1>13, <2>1, <2>2 DEF LaunchNative
  <1>14. CASE CloseWindow
    BY <1>14 DEF CloseWindow
  <1>15. CASE AnswerClose
    BY <1>15 DEF AnswerClose
  <1>16. CASE DismissNotice
    BY <1>16 DEF DismissNotice, ShowBox
  <1>17. CASE AnswerRecoverFile
    <2>1. CASE disk' = TRUE /\ poll' = "update" /\ BeginStart /\ UpdateActions
      <3>1. /\ Submit("start") /\ server' \in BOOLEAN /\ shutdown_requested' \in BOOLEAN
            /\ disk' \in BOOLEAN
        BY <2>1, FlagTypes DEF BeginStart
      <3>2. QED BY <1>17, <2>1, <3>1, <1>a, <1>b DEF AnswerRecoverFile
    <2>2. CASE UNCHANGED <<poolVars, server, shutdown_requested, enabled>>
      <3>1. disk' \in BOOLEAN /\ poll' \in {"update", "notice"}
        BY <1>17 DEF AnswerRecoverFile
      <3>2. QED BY <1>17, <2>2, <3>1 DEF AnswerRecoverFile
    <2> QED BY <1>17, <2>1, <2>2 DEF AnswerRecoverFile
  <1>18. CASE PollFuture
    <2>1. disk' \in BOOLEAN /\ was_running' \in BOOLEAN
      BY <1>18 DEF PollFuture
    <2>2. server' \in BOOLEAN /\ camera' \in BOOLEAN
      BY <1>18, FlagTypes DEF PollFuture
    <2>3. poll' \in {"alert", "exit"} /\ future' = "none"
      BY <1>18 DEF PollFuture
    <2> QED BY <1>18, <2>1, <2>2, <2>3 DEF PollFuture
  <1>19. CASE PollPrepareUnsaved
    BY <1>19 DEF PollPrepareUnsaved
  <1>20. CASE PollExit
    <2>1. was_running' \in BOOLEAN
      BY <1>20, FlagTypes
    <2>2. CASE CloseDisplay /\ poll' = "idle" /\ UpdateActions
                 /\ UNCHANGED <<poolVars, shutdown_requested, restarts, auto>>
      BY <1>20, <2>1, <2>2, <1>b, FlagTypes DEF PollExit
    <2>3. CASE Unexpected /\ ~Busy /\ ~BudgetSpent /\ RecoverGuest
      <3>1. restarts' \in 0..MaxRestarts /\ auto' \in Nat
        BY <2>3, RestartsAssumption DEF RecoverGuest, CountRestart, BudgetSpent
      <3>2. CASE poll' = "idle" /\ camera' = FALSE /\ BeginStart /\ UpdateActions
        <4>1. /\ Submit("start") /\ server' \in BOOLEAN /\ shutdown_requested' \in BOOLEAN
              /\ camera' \in BOOLEAN
          BY <3>2, FlagTypes DEF BeginStart
        <4>2. QED BY <1>20, <2>1, <3>1, <3>2, <4>1, <1>a, <1>b DEF PollExit
      <3>3. CASE /\ poll' \in {"notice", "startFile"} /\ CloseDisplay
                 /\ UNCHANGED <<poolVars, shutdown_requested, enabled>>
        BY <1>20, <2>1, <3>1, <3>3, FlagTypes DEF PollExit
      <3> QED BY <2>3, <3>2, <3>3 DEF RecoverGuest
    <2> QED BY <1>20, <2>2, <2>3 DEF PollExit, RecoverGuest
  <1>21. CASE PollNoExit
    BY <1>21 DEF PollNoExit
  <1>22. CASE PollEnd
    BY <1>22, <1>b DEF PollEnd
  <1>23. CASE DismissAlert
    BY <1>23 DEF DismissAlert
  <1>24. CASE CloseSignal
    BY <1>24 DEF CloseSignal, ClosingFrame, Terminate, Live
  <1>25. CASE CloseWait
    BY <1>25 DEF CloseWait, ClosingFrame, Terminate, Live
  <1>26. CASE CloseRelease
    BY <1>26, FlagTypes DEF CloseRelease, ClosingFrame, CloseDisplay
  <1>27. CASE CloseDrained
    BY <1>27 DEF CloseDrained, ClosingFrame
  <1>28. CASE WorkerShutdown
    BY <1>28, <1>c, AttemptsAssumption DEF WorkerShutdown, Working, UiFrame,
       Live
  <1>29. CASE WorkerTerminate
    BY <1>29, <1>c DEF WorkerTerminate, Working, UiFrame, Terminate, Live
  <1>30. CASE WorkerTransfer
    BY <1>30, <1>c, AttemptsAssumption DEF WorkerTransfer, Working, UiFrame,
       Live
  <1>31. CASE WorkerPrepare
    <2>1. managed' \in BOOLEAN /\ queue # <<>> /\ (Finish("ok") \/ Finish("error"))
      BY <1>31 DEF WorkerPrepare, Working
    <2> QED BY <1>31, <2>1, <1>c DEF WorkerPrepare, UiFrame
  <1>32. CASE WorkerStart
    BY <1>32, <1>c, AttemptsAssumption DEF WorkerStart, Working, UiFrame
  <1>33. CASE WorkerLaunch
    <2>1. CASE wpc' = "survive" /\ UNCHANGED <<poolVars, attempts>>
      <3>1. proc' \in {"none", "live"} \cup Exits /\ orphan' \in BOOLEAN
        BY <1>33 DEF WorkerLaunch
      <3>2. QED BY <1>33, <2>1, <3>1 DEF WorkerLaunch, UiFrame
    <2>2. CASE Finish("error") /\ UNCHANGED <<proc, orphan>>
      BY <1>33, <2>2, <1>c DEF WorkerLaunch, UiFrame
    <2> QED BY <1>33, <2>1, <2>2 DEF WorkerLaunch
  <1>34. CASE WorkerSurvived
    BY <1>34, <1>c, AttemptsAssumption DEF WorkerSurvived, UiFrame, Live
  <1>35. CASE WorkerRetry
    BY <1>35, <1>c, AttemptsAssumption DEF WorkerRetry, UiFrame
  <1>36. CASE WorkerConnected
    BY <1>36, <1>c, AttemptsAssumption DEF WorkerConnected, UiFrame, Live
  <1>37. CASE WorkerGaveUp
    BY <1>37, <1>c DEF WorkerGaveUp, UiFrame, Terminate, Live
  <1>38. CASE GuestExit
    BY <1>38 DEF GuestExit, UiFrame, Live
  <1>39. CASE NativeExit
    BY <1>39, FlagTypes DEF NativeExit
  <1>40. CASE Closed
    BY <1>40 DEF Closed, vars
  <1>41. CASE UNCHANGED vars
    BY <1>41 DEF vars
  <1> QED
    BY <1>1, <1>2, <1>3, <1>4, <1>5, <1>6, <1>7, <1>8, <1>9, <1>10, <1>11,
       <1>12, <1>13, <1>14, <1>15, <1>16, <1>17, <1>18, <1>19, <1>20, <1>21,
       <1>22, <1>23, <1>24, <1>25, <1>26, <1>27, <1>28, <1>29, <1>30, <1>31,
       <1>32, <1>33, <1>34, <1>35, <1>36, <1>37, <1>38, <1>39, <1>40, <1>41
       DEF Next, User, Poll, Close, Worker, Environment

LEMMA TypeInvInit == Init => TypeInv
PROOF
  <1>1. ASSUME Init PROVE TypeInv
    <2>1. /\ was_running \in BOOLEAN /\ shutdown_requested \in BOOLEAN
          /\ server \in BOOLEAN /\ camera \in BOOLEAN /\ native \in BOOLEAN
          /\ wanted \in BOOLEAN /\ orphan \in BOOLEAN /\ leaked \in BOOLEAN
          /\ overwritten \in BOOLEAN /\ hasty \in BOOLEAN
      BY <1>1, Zenon DEF Init
    <2>2. /\ queue \in Seq(Jobs) /\ attempts \in 0..MaxAttempts
          /\ restarts \in 0..MaxRestarts /\ auto \in Nat /\ enabled \subseteq Buttons
      BY <1>1, RestartsAssumption, AttemptsAssumption, EmptySeq DEF Init, Buttons
    <2> QED BY <1>1, <2>1, <2>2 DEF Init, TypeInv, TypeOK, WorkerInv
  <1> QED BY <1>1

(* Every variable keeps its type, for every bound (all handlers).          *)
THEOREM TypeCorrect == Spec => []TypeOK
PROOF
  <1>1. TypeInv => TypeOK
    BY DEF TypeInv
  <1> QED BY <1>1, TypeInvInit, TypeInvStep, PTL DEF Spec

-----------------------------------------------------------------------------
(* One guest, and a bounded number of automatic restarts.                  *)

(* A launch is attempted only while no QEMU runs, and the automatic        *)
(* restarts are what the window counts.                                    *)
SoleLaunch == wpc = "launch" => ~Live
Counted    == auto = restarts

CoreInv == TypeInv /\ SoleLaunch /\ SingleGuest /\ Counted

(* Nothing but the worker's own steps starts QEMU or moves to a launch.    *)
LEMMA OutsideStep ==
  ASSUME TypeInv, User \/ Poll \/ DismissAlert \/ Close \/ Environment \/ Closed
  PROVE  UNCHANGED <<wpc, orphan>> /\ (proc' = "live" => Live)
PROOF
  <1> USE DEF poolVars, outside, displayVars, hostVars, watchVars, behind
  <1>1. CASE User
    BY <1>1 DEF User, ClickStart, AnswerStartFile, ClickStop, AnswerStop,
       ClickInstall, AnswerInstall, ClickPrepare, ClickLocalImage, AnswerLocalImage,
       DropFiles, ClickSettings, AnswerSettings, LaunchNative, CloseWindow, AnswerClose,
       DismissNotice, AnswerRecoverFile, ShowBox, SubmitFromUi, Live
  <1>2. CASE Poll \/ DismissAlert
    BY <1>2 DEF Poll, PollFuture, PollPrepareUnsaved, PollExit, PollNoExit, PollEnd,
       DismissAlert, Live
  <1>3. CASE Close
    BY <1>3 DEF Close, CloseSignal, CloseWait, CloseRelease, CloseDrained, ClosingFrame,
       Terminate, Live, Exits
  <1>4. CASE Environment \/ Closed
    BY <1>4 DEF Environment, GuestExit, NativeExit, Closed, UiFrame, Live, Exits, vars
  <1> QED BY <1>1, <1>2, <1>3, <1>4

LEMMA CoreInvStep == CoreInv /\ [Next]_vars => CoreInv'
PROOF
  <1> SUFFICES ASSUME CoreInv, [Next]_vars
               PROVE  SoleLaunch' /\ SingleGuest' /\ Counted'
    BY TypeInvStep DEF CoreInv
  <1> USE DEF SoleLaunch, SingleGuest, Counted, poolVars, outside, displayVars, hostVars,
              watchVars, behind
  <1>1. CASE User \/ Poll \/ DismissAlert \/ Close \/ Environment \/ Closed
    <2>1. SoleLaunch' /\ SingleGuest'
      BY <1>1, OutsideStep DEF CoreInv, Live
    <2>2. Counted'
      <3> USE DEF CoreInv
      <3>1. CASE User
        BY <3>1 DEF User, ClickStart, AnswerStartFile, ClickStop, AnswerStop,
           ClickInstall, AnswerInstall, ClickPrepare, ClickLocalImage,
           AnswerLocalImage, DropFiles, ClickSettings, AnswerSettings, LaunchNative,
           CloseWindow, AnswerClose, DismissNotice, AnswerRecoverFile, ShowBox,
           SubmitFromUi
      <3>2. CASE Poll \/ DismissAlert
        <4>1. CASE PollExit
          BY <4>1, RestartsAssumption DEF PollExit, RecoverGuest, CountRestart, TypeInv, TypeOK
        <4> QED BY <3>2, <4>1 DEF Poll, PollFuture, PollPrepareUnsaved, PollNoExit,
                   PollEnd, DismissAlert
      <3>3. CASE Close \/ Environment \/ Closed
        BY <3>3 DEF Close, CloseSignal, CloseWait, CloseRelease, CloseDrained,
           ClosingFrame, Environment, GuestExit, NativeExit, Closed, UiFrame, vars
      <3> QED BY <1>1, <3>1, <3>2, <3>3
    <2> QED BY <2>1, <2>2
  <1>2. CASE Worker
    <2>1. Counted'
      BY <1>2 DEF Worker, WorkerShutdown, WorkerTerminate, WorkerTransfer, WorkerPrepare,
         WorkerStart, WorkerLaunch, WorkerSurvived, WorkerRetry, WorkerConnected,
         WorkerGaveUp, UiFrame, CoreInv
    <2>2. SoleLaunch' /\ SingleGuest'
      <3> USE DEF CoreInv, Live, Finish
      <3>1. CASE WorkerLaunch
        <4>1. wpc' # "launch"
          BY <3>1 DEF WorkerLaunch
        <4>2. orphan' = orphan \/ orphan' = (orphan \/ proc = "live")
          BY <3>1, Zenon DEF WorkerLaunch
        <4>3. ~orphan /\ proc # "live"
          BY <3>1 DEF WorkerLaunch
        <4>4. ~orphan'
          BY <4>2, <4>3, Zenon
        <4> QED BY <4>1, <4>4
      <3>2. CASE WorkerStart \/ WorkerSurvived \/ WorkerRetry \/ WorkerConnected
        BY <3>2 DEF WorkerStart, WorkerSurvived, WorkerRetry, WorkerConnected, StartupFailed
      <3>3. CASE \/ WorkerShutdown \/ WorkerTerminate \/ WorkerTransfer
                 \/ WorkerPrepare \/ WorkerGaveUp
        <4>1. wpc' = "idle" /\ UNCHANGED orphan
          BY <3>3, Zenon DEF WorkerShutdown, WorkerTerminate, WorkerTransfer,
             WorkerPrepare, WorkerGaveUp
        <4> QED BY <4>1
      <3> QED BY <1>2, <3>1, <3>2, <3>3 DEF Worker
    <2> QED BY <2>1, <2>2
  <1>3. CASE UNCHANGED vars
    BY <1>3 DEF vars, CoreInv, Live
  <1> QED BY <1>1, <1>2, <1>3 DEF Next

LEMMA CoreInvInit == Init => CoreInv
  BY TypeInvInit DEF Init, CoreInv, SoleLaunch, SingleGuest, Counted

LEMMA CoreCorrect == Spec => []CoreInv
  BY CoreInvInit, CoreInvStep, PTL DEF Spec

(* No two QEMU are ever alive for one window: vm.start is refused while    *)
(* one runs, and a retry follows only the end of the launch before it.     *)
THEOREM NeverTwoGuests == Spec => []SingleGuest
PROOF
  <1>1. CoreInv => SingleGuest
    BY DEF CoreInv
  <1> QED BY <1>1, CoreCorrect, PTL

(* The automatic restarts between two presses never exceed the budget,     *)
(* whatever MAX_GUEST_RESTARTS is.                                         *)
THEOREM BudgetKept == Spec => []RestartBudget
PROOF
  <1>1. CoreInv => RestartBudget
    BY RestartsAssumption DEF CoreInv, Counted, RestartBudget, TypeInv, TypeOK
  <1> QED BY <1>1, CoreCorrect, PTL

-----------------------------------------------------------------------------
(* QEMU is launched only for a user who wants it.                          *)

HasStart(q) == \E i \in DOMAIN q : q[i] = "start"

(* self.future is pending exactly while the pool has work, and no button   *)
(* is enabled then; the two questions that may lead to a stop or a start   *)
(* are asked with no work in flight.                                       *)
PoolInv    == future = "pending" <=> queue # <<>>
ButtonsInv == Busy => enabled = {}
StopAsked  == dialog = "stopQuestion" => shutdown_requested /\ ~Busy
FileAsked  == poll = "startFile" => ~shutdown_requested /\ ~Busy

(* A start in the pool is wanted, and so is a guest that is watched, about *)
(* to be watched or about to be recovered, until a stop is requested.      *)
StartWanted == HasStart(queue) => wanted
WatchWanted ==
  /\ ~shutdown_requested
  /\ was_running \/ (Busy /\ operation = "start") \/ poll = "startFile"
  => wanted

IntentInv == PoolInv /\ ButtonsInv /\ StopAsked /\ FileAsked /\ StartWanted /\ WatchWanted

(* What a submission and the end of a job do to the pool.                  *)
LEMMA SubmitPool ==
  ASSUME TypeInv, NEW job \in Jobs, Submit(job)
  PROVE  /\ queue' # <<>> /\ future' = "pending" /\ operation' = job
         /\ HasStart(queue') => HasStart(queue) \/ job = "start"
PROOF
  <1>1. queue' # <<>> /\ future' = "pending" /\ operation' = job
    BY SubmitType
  <1>2. queue \in Seq(Jobs) /\ queue' = Append(queue, job)
    BY DEF TypeInv, TypeOK, Submit
  <1>3. \A i \in DOMAIN queue' :
          (i \in DOMAIN queue /\ queue'[i] = queue[i]) \/ queue'[i] = job
    BY <1>2
  <1> QED BY <1>1, <1>3 DEF HasStart

LEMMA FinishPool ==
  ASSUME TypeInv, PoolInv, queue # <<>>, NEW outcome \in {"ok", "error"}, Finish(outcome)
  PROVE  /\ PoolInv' /\ Busy /\ future' # "none" /\ UNCHANGED operation
         /\ HasStart(queue') => HasStart(queue)
PROOF
  <1>1. queue \in Seq(Jobs) /\ queue' = Tail(queue) /\ UNCHANGED operation
    BY DEF TypeInv, TypeOK, Finish
  <1>2. /\ Tail(queue) \in Seq(Jobs) /\ Len(Tail(queue)) = Len(queue) - 1
        /\ \A i \in 1..Len(Tail(queue)) : Tail(queue)[i] = queue[i + 1]
        /\ Len(queue) \in Nat \ {0}
    BY <1>1, HeadTailProperties, EmptySeq
  <1>3. Tail(queue) = <<>> <=> Len(queue) = 1
    <2>1. Tail(queue) = <<>> => Len(Tail(queue)) = 0
      BY EmptySeq
    <2>2. Tail(queue) # <<>> => Len(Tail(queue)) \in Nat \ {0}
      BY <1>2, EmptySeq
    <2> QED BY <1>2, <2>1, <2>2
  <1>4. PoolInv' /\ Busy /\ future' # "none"
    BY <1>1, <1>3 DEF PoolInv, Finish, Deliver, Busy
  <1>5. HasStart(queue') => HasStart(queue)
    BY <1>1, <1>2, LenProperties DEF HasStart
  <1> QED BY <1>1, <1>4, <1>5

(* Handlers that touch neither the pool nor the user's word.               *)
LEMMA IntentFrame ==
  ASSUME IntentInv, UNCHANGED <<queue, future, operation, was_running, shutdown_requested>>,
         wanted' = wanted, ~Busy \/ enabled' = enabled \/ enabled' = {},
         dialog' = "stopQuestion" => shutdown_requested /\ ~Busy,
         poll' = "startFile" => poll = "startFile"
  PROVE  IntentInv'
  BY DEF IntentInv, PoolInv, ButtonsInv, StopAsked, FileAsked, StartWanted, WatchWanted,
         HasStart, Busy

(* A job submitted where it is allowed: a start for a user who wants it.   *)
LEMMA IntentSubmit ==
  ASSUME TypeInv, IntentInv, NEW job \in Jobs, Submit(job), UpdateActions,
         dialog' # "stopQuestion", poll' # "startFile",
         HasStart(queue) \/ job = "start" => wanted',
         ~shutdown_requested' /\ (was_running' \/ job = "start") => wanted'
  PROVE  IntentInv'
PROOF
  <1>1. /\ queue' # <<>> /\ future' = "pending" /\ operation' = job
        /\ HasStart(queue') => HasStart(queue) \/ job = "start"
    BY SubmitPool
  <1>2. enabled' = {}
    BY <1>1, UpdateActionsEffect
  <1> QED BY <1>1, <1>2 DEF IntentInv, PoolInv, ButtonsInv, StopAsked, FileAsked,
             StartWanted, WatchWanted, HasStart, Busy

(* The end of the worker's job.                                            *)
LEMMA IntentFinish ==
  ASSUME TypeInv, IntentInv, queue # <<>>, NEW outcome \in {"ok", "error"},
         Finish(outcome), UiFrame
  PROVE  IntentInv'
PROOF
  <1>1. /\ PoolInv' /\ Busy /\ future' # "none" /\ UNCHANGED operation
        /\ HasStart(queue') => HasStart(queue)
    BY FinishPool DEF IntentInv
  <1> QED BY <1>1 DEF IntentInv, ButtonsInv, StopAsked, FileAsked, StartWanted,
             WatchWanted, Busy, UiFrame, watchVars

(* With no operation in flight no start is queued; that is so whenever a   *)
(* button is enabled.                                                      *)
LEMMA IdleWindow ==
  ASSUME TypeInv, IntentInv
  PROVE  /\ ~Busy => ~HasStart(queue)
         /\ \A b : b \in enabled => ~Busy
PROOF
  <1>1. ~Busy => queue = <<>>
    BY DEF IntentInv, PoolInv, Busy
  <1>2. DOMAIN <<>> = {}
    OBVIOUS
  <1> QED BY <1>1, <1>2 DEF HasStart, IntentInv, ButtonsInv

LEMMA IntentInvStep == TypeInv /\ IntentInv /\ [Next]_vars => IntentInv'
PROOF
  <1> SUFFICES ASSUME TypeInv, IntentInv, [Next]_vars
               PROVE  IntentInv'
    OBVIOUS
  <1> USE DEF poolVars, outside, displayVars, hostVars, watchVars, behind
  <1>a. UpdateActions => (future' # "none" => enabled' = {})
    BY UpdateActionsEffect
  <1>1. CASE ClickStart
    <2>1. CASE StartFromUi
      BY <1>1, <2>1, IntentSubmit DEF ClickStart, StartFromUi, BeginStart, Jobs, Interactive
    <2>2. CASE StartNotBegun /\ dialog' = (IF disk THEN "notice" ELSE "startFile")
      BY <1>1, <2>2, IntentFrame DEF ClickStart, StartNotBegun, Interactive
    <2> QED BY <1>1, <2>1, <2>2 DEF ClickStart
  <1>2. CASE AnswerStartFile
    <2>1. CASE StartFromUi
      BY <1>2, <2>1, IntentSubmit DEF AnswerStartFile, StartFromUi, BeginStart, Jobs, Answering
    <2>2. CASE StartNotBegun /\ dialog' \in {"none", "notice"}
      BY <1>2, <2>2, IntentFrame DEF AnswerStartFile, StartNotBegun, Answering
    <2> QED BY <1>2, <2>1, <2>2 DEF AnswerStartFile
  <1>3. CASE ClickStop
    <2>1. ~Busy /\ ~HasStart(queue)
      BY <1>3, IdleWindow DEF ClickStop
    <2>2. CASE shutdown_requested
      BY <1>3, <2>1, <2>2, IntentFrame DEF ClickStop, Interactive
    <2>3. CASE ~shutdown_requested
      BY <1>3, <2>1, <2>3, IntentSubmit DEF ClickStop, RequestStop, Jobs, Interactive
    <2> QED BY <2>2, <2>3
  <1>4. CASE AnswerStop
    <2>1. ~Busy /\ ~HasStart(queue)
      BY <1>4, IdleWindow DEF AnswerStop, Answering, IntentInv, StopAsked
    <2>2. CASE UNCHANGED <<poolVars, shutdown_requested, wanted, enabled>>
      BY <1>4, <2>2, IntentFrame DEF AnswerStop, Answering
    <2>3. CASE RequestStop("terminate") /\ UpdateActions
      BY <1>4, <2>1, <2>3, IntentSubmit DEF AnswerStop, RequestStop, Jobs, Answering
    <2> QED BY <1>4, <2>2, <2>3 DEF AnswerStop
  <1>5. ASSUME NEW box \in {"none", "notice", "installFile", "localImage", "settings"},
               ShowBox(box)
        PROVE  IntentInv'
    BY <1>5, IntentFrame DEF ShowBox
  <1>6. ASSUME NEW job \in Transfers \cup {"prepare"}, SubmitFromUi(job), poll = "idle"
        PROVE  IntentInv'
    BY <1>6, IntentSubmit DEF SubmitFromUi, Transfers, Jobs, IntentInv, StartWanted, WatchWanted
  <1>7. CASE ClickInstall \/ ClickLocalImage \/ DismissNotice
    BY <1>5, <1>7 DEF ClickInstall, ClickLocalImage, DismissNotice
  <1>8. CASE AnswerInstall \/ AnswerLocalImage \/ ClickPrepare \/ DropFiles
    BY <1>5, <1>6, <1>8 DEF AnswerInstall, AnswerLocalImage, ClickPrepare, DropFiles,
       Interactive, Answering, Transfers
  <1>9. CASE ClickSettings \/ AnswerSettings
    BY <1>9, IntentFrame DEF ClickSettings, AnswerSettings, Interactive, Answering
  <1>10. CASE LaunchNative
    BY <1>5, <1>10, IdleWindow, IntentFrame DEF LaunchNative, Interactive
  <1>11. CASE CloseWindow \/ AnswerClose
    BY <1>11, IntentFrame DEF CloseWindow, AnswerClose, Interactive, Answering
  <1>12. CASE AnswerRecoverFile
    <2>1. wanted /\ ~shutdown_requested /\ dialog # "stopQuestion"
      BY <1>12 DEF AnswerRecoverFile, IntentInv, FileAsked, WatchWanted, StopAsked
    <2>2. CASE poll' = "update" /\ BeginStart /\ UpdateActions
      BY <1>12, <2>1, <2>2, IntentSubmit DEF AnswerRecoverFile, BeginStart, Jobs
    <2>3. CASE /\ poll' \in {"update", "notice"}
               /\ UNCHANGED <<poolVars, server, shutdown_requested, enabled>>
      BY <1>12, <2>1, <2>3, IntentFrame DEF AnswerRecoverFile
    <2> QED BY <1>12, <2>2, <2>3 DEF AnswerRecoverFile
  <1>13. CASE PollFuture \/ PollPrepareUnsaved
    <2>1. /\ Done /\ future' = "none" /\ poll' \in {"alert", "exit"}
          /\ UNCHANGED <<dialog, queue, shutdown_requested, wanted>>
          /\ was_running' => was_running \/ operation = "start"
      BY <1>13 DEF PollFuture, PollPrepareUnsaved, Done
    <2> QED BY <2>1 DEF Done, Busy, IntentInv, PoolInv, ButtonsInv, StopAsked, FileAsked,
               StartWanted, WatchWanted, HasStart
  <1>14. CASE PollExit
    <2>1. CASE /\ poll' = "idle" /\ UpdateActions
               /\ UNCHANGED <<poolVars, shutdown_requested, restarts, auto>>
      BY <1>14, <2>1, <1>a DEF PollExit, IntentInv, PoolInv, ButtonsInv, StopAsked,
         FileAsked, StartWanted, WatchWanted, HasStart, Busy
    <2>2. CASE Unexpected /\ ~Busy /\ RecoverGuest
      <3>1. /\ wanted /\ wanted' /\ ~shutdown_requested /\ ~was_running'
            /\ dialog # "stopQuestion" /\ dialog' # "stopQuestion"
        BY <1>14, <2>2 DEF PollExit, Unexpected, IntentInv, WatchWanted, StopAsked
      <3>2. CASE poll' = "idle" /\ BeginStart /\ UpdateActions
        BY <3>1, <3>2, IntentSubmit DEF BeginStart, Jobs
      <3>3. CASE poll' \in {"notice", "startFile"}
                 /\ UNCHANGED <<poolVars, shutdown_requested, enabled>>
        BY <2>2, <3>1, <3>3 DEF IntentInv, PoolInv, ButtonsInv, StopAsked, FileAsked,
           StartWanted, WatchWanted, HasStart, Busy
      <3>4. CASE poll' = "idle" /\ UNCHANGED <<poolVars, shutdown_requested, restarts, auto>>
                 /\ UpdateActions
        BY <2>1, <3>4
      <3> QED BY <2>2, <3>2, <3>3, <3>4 DEF RecoverGuest
    <2> QED BY <1>14, <2>1, <2>2 DEF PollExit, RecoverGuest
  <1>15. CASE PollNoExit \/ DismissAlert
    BY <1>15, IntentFrame DEF PollNoExit, DismissAlert, IntentInv, StopAsked, Busy
  <1>16. CASE PollEnd
    BY <1>16, <1>a, IntentFrame DEF PollEnd, IntentInv, StopAsked, Busy
  <1>17. CASE Close
    BY <1>17, IntentFrame DEF Close, CloseSignal, CloseWait, CloseRelease, CloseDrained,
       ClosingFrame, IntentInv, StopAsked, Busy
  <1>18. CASE WorkerShutdown \/ WorkerTerminate \/ WorkerTransfer \/ WorkerPrepare
    BY <1>18, IntentFinish DEF WorkerShutdown, WorkerTerminate, WorkerTransfer,
       WorkerPrepare, Working
  <1>19. CASE WorkerStart \/ WorkerLaunch \/ WorkerSurvived \/ WorkerRetry
                \/ WorkerConnected \/ WorkerGaveUp
    <2>1. UiFrame /\ queue # <<>>
      BY <1>19 DEF WorkerStart, WorkerLaunch, WorkerSurvived, WorkerRetry,
         WorkerConnected, WorkerGaveUp, Working, TypeInv, WorkerInv
    <2>2. CASE Finish("ok") \/ Finish("error")
      BY <2>1, <2>2, IntentFinish
    <2>3. CASE UNCHANGED poolVars
      BY <2>1, <2>3, IntentFrame DEF UiFrame, IntentInv, StopAsked, Busy
    <2> QED BY <1>19, <2>2, <2>3 DEF WorkerStart, WorkerLaunch, WorkerSurvived,
               WorkerRetry, WorkerConnected, WorkerGaveUp
  <1>20. CASE GuestExit \/ NativeExit \/ Closed \/ UNCHANGED vars
    BY <1>20, IntentFrame DEF GuestExit, NativeExit, Closed, UiFrame, vars, IntentInv,
       StopAsked, Busy
  <1> QED BY <1>1, <1>2, <1>3, <1>4, <1>7, <1>8, <1>9, <1>10, <1>11, <1>12, <1>13,
             <1>14, <1>15, <1>16, <1>17, <1>18, <1>19, <1>20
          DEF Next, User, Poll, Worker, Environment

LEMMA IntentInvInit == Init => IntentInv
  BY DEF Init, IntentInv, PoolInv, ButtonsInv, StopAsked, FileAsked, StartWanted,
     WatchWanted, HasStart, Busy

(* No QEMU is launched after Stop until the user presses Start.            *)
THEOREM LaunchesAreWanted == Spec => NoUnwantedLaunch
PROOF
  <1>1. TypeInv /\ IntentInv /\ [Next]_vars => [proc # "live" /\ proc' = "live" => wanted]_vars
    <2> SUFFICES ASSUME TypeInv, IntentInv, Next, proc # "live", proc' = "live"
                 PROVE  wanted
      OBVIOUS
    <2>1. CASE WorkerLaunch
      <3>1. queue \in Seq(Jobs) /\ queue # <<>> /\ Head(queue) = "start"
        BY <2>1 DEF WorkerLaunch, TypeInv, TypeOK, WorkerInv
      <3>2. 1 \in DOMAIN queue /\ queue[1] = "start"
        BY <3>1, EmptySeq, LenProperties
      <3> QED BY <3>2 DEF HasStart, IntentInv, StartWanted
    <2>2. CASE User \/ Poll \/ DismissAlert \/ Close \/ Environment \/ Closed
      BY <2>2, OutsideStep DEF Live
    <2>3. CASE /\ Worker /\ ~WorkerLaunch
      BY <2>3 DEF Worker, WorkerShutdown, WorkerTerminate, WorkerTransfer, WorkerPrepare,
         WorkerStart, WorkerSurvived, WorkerRetry, WorkerConnected, WorkerGaveUp,
         Terminate, Live, Exits
    <2> QED BY <2>1, <2>2, <2>3 DEF Next
  <1> QED BY <1>1, TypeInvInit, TypeInvStep, IntentInvInit, IntentInvStep, PTL
             DEF Spec, NoUnwantedLaunch
=============================================================================
