----------------------- MODULE DesktopWatchdogProofs -----------------------
(***************************************************************************)
(* The desktop window implements the guest watchdog: every step of a       *)
(* button, a box, the timer, the worker or QEMU is one of the watchdog's   *)
(* steps or changes nothing it sees.                                       *)
(***************************************************************************)
EXTENDS DesktopSafetyProofs

ImplInv == BaseInv /\ CareInv

(* The watchdog's "starting": a start in the pool, or one that ended and   *)
(* whose result poll has not looked at.                                    *)
Starting == HasStart(queue) \/ (operation = "start" /\ Done)
Watched  == was_running \/ poll = "startFile"

LEMMA PhaseAs ==
  /\ Starting => Phase = "starting"
  /\ ~Starting /\ Watched => Phase = "watched"
  /\ ~Starting /\ ~Watched => Phase = "off"
  BY DEF Phase, Starting, Watched, HasStart

LEMMA PhaseAsNext ==
  /\ Starting' => Phase' = "starting"
  /\ (~Starting /\ Watched)' => Phase' = "watched"
  /\ (~Starting /\ ~Watched)' => Phase' = "off"
  BY DEF Phase, Starting, Watched, HasStart

(* The budget the watchdog sees, with and without a file question.         *)
LEMMA LeftAs ==
  ASSUME TypeInv
  PROVE  /\ RestartsLeft = MaxRestarts - restarts + (IF poll = "startFile" THEN 1 ELSE 0)
         /\ restarts \in 0..MaxRestarts /\ MaxRestarts \in Nat
  BY RestartsAssumption DEF RestartsLeft, TypeInv, TypeOK

(* What the watchdog does not see leaves its state alone.                  *)
Unseen == UNCHANGED <<Phase, Live, RestartsLeft, wanted, dialog = "startFile">>

LEMMA UnseenStutters == Unseen => UNCHANGED Watchdog!vars
  BY DEF Unseen, Watchdog!vars

LEMMA PhaseKept ==
  ASSUME UNCHANGED <<queue, future, operation, was_running>>,
         poll' = "startFile" <=> poll = "startFile"
  PROVE  Phase' = Phase /\ (UNCHANGED restarts => RestartsLeft' = RestartsLeft)
  BY DEF Phase, RestartsLeft, Done

(* The window's presses that submit no start find none under way.          *)
LEMMA IdlePhase == ASSUME ImplInv, ~Busy PROVE ~Starting
  BY IdlePool DEF ImplInv, Starting, Busy, Done

(* Submitting a start begins one; submitting anything else begins none,    *)
(* and drops at most the result of one.                                    *)
LEMMA SubmitPhase ==
  ASSUME ImplInv, NEW job \in Jobs, Submit(job)
  PROVE  /\ job = "start" => Phase' = "starting"
         /\ job # "start" /\ UNCHANGED <<was_running, poll>> =>
              \/ Phase' = Phase
              \/ Phase = "starting" /\ Phase' \in {"off", "watched"}
         /\ job # "start" /\ UNCHANGED <<was_running, poll>> /\ ~Busy => Phase' = Phase
PROOF
  <1>1. /\ operation' = job /\ future' = "pending"
        /\ HasStart(queue') <=> HasStart(queue) \/ job = "start"
    BY SubmitLast DEF ImplInv
  <1>2. Starting' <=> HasStart(queue) \/ job = "start"
    BY <1>1 DEF Starting, Done
  <1>3. UNCHANGED <<was_running, poll>> => (Watched' <=> Watched)
    BY DEF Watched
  <1>4. ~Busy => ~Starting
    BY IdlePhase
  <1>5. HasStart(queue) => Starting
    BY DEF Starting
  <1> QED BY <1>2, <1>3, <1>4, <1>5, PhaseAs, PhaseAsNext

(* The end of a job ends a start only when it was one, and then leaves the *)
(* start starting, until poll looks at it, or abandons it.                 *)
LEMMA FinishPhase ==
  ASSUME ImplInv, queue # <<>>, NEW outcome \in {"ok", "error"}, Finish(outcome), UiFrame
  PROVE  /\ Head(queue) # "start" => Phase' = Phase
         /\ \/ Phase' = Phase
            \/ Phase = "starting" /\ Phase' \in {"off", "watched"}
PROOF
  <1>1. /\ UNCHANGED operation
        /\ HasStart(queue') => HasStart(queue)
        /\ HasStart(queue) => HasStart(queue') \/ Head(queue) = "start"
        /\ Len(queue) = 1 => Head(queue) = operation /\ future' = outcome /\ queue' = <<>>
        /\ Len(queue) # 1 => future' = future /\ queue' # <<>>
    BY FinishLast DEF ImplInv, CareInv
  <1>2. future = "pending" /\ (Starting <=> HasStart(queue))
    BY IdlePool DEF ImplInv, Starting, Done
  <1>3. Head(queue) = "start" => HasStart(queue)
    <2>1. queue \in Seq(Jobs) /\ 1 \in DOMAIN queue /\ Head(queue) = queue[1]
      BY EmptySeq, LenProperties DEF ImplInv, BaseInv, TypeInv, TypeOK
    <2> QED BY <2>1 DEF HasStart
  <1>4. UNCHANGED <<was_running, poll>>
    BY DEF UiFrame, watchVars
  <1>5. Watched' <=> Watched
    BY <1>4 DEF Watched
  <1>6. CASE Len(queue) = 1
    <2>1. ~HasStart(queue')
      <3>1. DOMAIN <<>> = {}
        OBVIOUS
      <3> QED BY <1>1, <1>6, <3>1 DEF HasStart
    <2>2. Starting' <=> Starting
      BY <1>1, <1>2, <1>3, <1>6, <2>1 DEF Starting, Done
    <2> QED BY <1>5, <2>2, PhaseAs, PhaseAsNext
  <1>7. CASE Len(queue) # 1
    <2>1. Starting' <=> HasStart(queue')
      BY <1>1, <1>2, <1>7 DEF Starting, Done
    <2> QED BY <1>1, <1>2, <1>5, <2>1, PhaseAs, PhaseAsNext
  <1> QED BY <1>6, <1>7

-----------------------------------------------------------------------------
(* Every step is the watchdog's or unseen by it.                           *)
LEMMA StepImplements ==
  ImplInv /\ [Next]_vars => [Watchdog!Next]_(Watchdog!vars)
PROOF
  <1> SUFFICES ASSUME ImplInv, [Next]_vars
               PROVE  Watchdog!Next \/ UNCHANGED Watchdog!vars
    OBVIOUS
  <1> USE DEF poolVars, outside, displayVars, hostVars, watchVars, behind
  <1>a. Unseen => UNCHANGED Watchdog!vars
    BY UnseenStutters
  <1>b. ASSUME NEW box \in {"none", "notice", "installFile", "localImage"}, ShowBox(box),
               dialog # "startFile"
        PROVE  Unseen
    BY <1>b, PhaseKept DEF ShowBox, Unseen, Live
  <1>c. ASSUME NEW job \in Transfers \cup {"prepare"}, SubmitFromUi(job),
               dialog # "startFile"
        PROVE  Unseen \/ Watchdog!Abandon
    <2>1. /\ Phase' = Phase \/ (Phase = "starting" /\ Phase' \in {"off", "watched"})
          /\ RestartsLeft' = RestartsLeft /\ Live' = Live /\ wanted' = wanted
          /\ (dialog = "startFile")' = (dialog = "startFile")
      BY <1>c, SubmitPhase DEF SubmitFromUi, Transfers, Jobs, RestartsLeft, Live
    <2> QED BY <2>1 DEF Unseen, Watchdog!Abandon
  <1>d. StartFromUi => Phase' = "starting" /\ wanted' = TRUE /\ dialog' = "none"
    BY SubmitPhase DEF StartFromUi, BeginStart, Jobs
  <1>e. /\ RestartsLeft = MaxRestarts - restarts + (IF poll = "startFile" THEN 1 ELSE 0)
        /\ restarts \in 0..MaxRestarts /\ MaxRestarts \in Nat
    BY LeftAs DEF ImplInv, BaseInv
  <1>f. restarts' = 0 /\ poll' # "startFile" => RestartsLeft' = MaxRestarts
    BY <1>e DEF RestartsLeft
  <1>1. CASE ClickStart
    <2>1. RestartsLeft' = MaxRestarts /\ Live' = Live /\ dialog = "none"
      BY <1>1, <1>f DEF ClickStart, Interactive, Live
    <2>2. CASE StartFromUi
      <3>1. Watchdog!Start
        BY <2>1, <2>2, <1>d DEF Watchdog!Start
      <3> QED BY <3>1 DEF Watchdog!Next
    <2>3. CASE StartNotBegun
      <3>1. Phase' = Phase /\ wanted' = wanted
        BY <1>1, <2>3, PhaseKept DEF ClickStart, StartNotBegun
      <3>2. Watchdog!Press
        BY <2>1, <3>1 DEF Watchdog!Press
      <3> QED BY <3>2 DEF Watchdog!Next
    <2> QED BY <1>1, <2>2, <2>3 DEF ClickStart
  <1>2. CASE AnswerStartFile
    <2>1. RestartsLeft' = RestartsLeft /\ Live' = Live /\ dialog = "startFile"
      BY <1>2 DEF AnswerStartFile, Answering, RestartsLeft, Live
    <2>2. CASE StartFromUi
      <3>1. Watchdog!Start
        BY <2>1, <2>2, <1>d DEF Watchdog!Start
      <3> QED BY <3>1 DEF Watchdog!Next
    <2>3. CASE StartNotBegun /\ dialog' \in {"none", "notice"}
      <3>1. Phase' = Phase /\ wanted' = wanted
        BY <1>2, <2>3, PhaseKept DEF AnswerStartFile, StartNotBegun
      <3>2. Watchdog!Answer
        BY <2>1, <2>3, <3>1 DEF Watchdog!Answer
      <3> QED BY <3>2 DEF Watchdog!Next
    <2> QED BY <1>2, <2>2, <2>3 DEF AnswerStartFile
  <1>3. CASE ClickStop
    <2>1. RestartsLeft' = MaxRestarts /\ Live' = Live /\ ~Busy
      BY <1>3, <1>f, IdlePool DEF ClickStop, Interactive, Live, ImplInv
    <2>2. Phase' = Phase /\ wanted' \in {wanted, FALSE}
      <3>1. CASE UNCHANGED <<poolVars, shutdown_requested, wanted, enabled>>
        BY <1>3, <3>1, PhaseKept DEF ClickStop
      <3>2. CASE RequestStop("shutdown")
        BY <1>3, <2>1, <3>2, SubmitPhase DEF ClickStop, RequestStop, Jobs
      <3> QED BY <1>3, <3>1, <3>2 DEF ClickStop
    <2>3. Watchdog!Press
      BY <2>1, <2>2 DEF Watchdog!Press
    <2> QED BY <2>3 DEF Watchdog!Next
  <1>4. CASE AnswerStop
    <2>1. RestartsLeft' = RestartsLeft /\ Live' = Live /\ ~Busy /\ dialog' = "none"
      BY <1>4 DEF AnswerStop, Answering, RestartsLeft, Live, ImplInv, BaseInv, IntentInv,
         StopAsked
    <2>2. Phase' = Phase /\ wanted' \in {wanted, FALSE}
      <3>1. CASE UNCHANGED <<poolVars, shutdown_requested, wanted, enabled>>
        BY <1>4, <3>1, PhaseKept DEF AnswerStop
      <3>2. CASE RequestStop("terminate")
        BY <1>4, <2>1, <3>2, SubmitPhase DEF AnswerStop, RequestStop, Jobs
      <3> QED BY <1>4, <3>1, <3>2 DEF AnswerStop
    <2>3. Watchdog!Answer
      BY <2>1, <2>2 DEF Watchdog!Answer
    <2> QED BY <2>3 DEF Watchdog!Next
  <1>5. CASE ClickInstall \/ ClickLocalImage \/ DismissNotice
    <2>1. Unseen
      BY <1>5, <1>b DEF ClickInstall, ClickLocalImage, DismissNotice, Interactive, Answering
    <2> QED BY <2>1, <1>a
  <1>6. CASE AnswerInstall \/ AnswerLocalImage \/ ClickPrepare \/ DropFiles
    <2>1. Unseen \/ Watchdog!Abandon
      BY <1>6, <1>b, <1>c DEF AnswerInstall, AnswerLocalImage, ClickPrepare, DropFiles,
         Interactive, Answering, Transfers
    <2> QED BY <2>1, <1>a DEF Watchdog!Next
  <1>7. CASE ClickSettings \/ AnswerSettings \/ LaunchNative \/ CloseWindow \/ AnswerClose
    <2>1. /\ UNCHANGED <<poolVars, proc, was_running, restarts, wanted, poll>>
          /\ dialog # "startFile" /\ dialog' # "startFile"
      BY <1>7 DEF ClickSettings, AnswerSettings, LaunchNative, CloseWindow, AnswerClose,
         Interactive, Answering, ShowBox
    <2>2. Unseen
      BY <2>1, PhaseKept DEF Unseen, Live
    <2> QED BY <2>2, <1>a
  <1>8. CASE AnswerRecoverFile
    <2>1. /\ poll = "startFile" /\ poll' # "startFile" /\ UNCHANGED <<dialog, restarts, wanted>>
          /\ ~Live /\ ~was_running /\ ~was_running' /\ ~Busy /\ Live' = Live
          /\ wanted
      BY <1>8 DEF AnswerRecoverFile, ImplInv, CareInv, FileBox, BaseInv, IntentInv, FileAsked,
         WatchWanted, Live
    <2>2. Phase = "watched"
      BY <2>1, IdlePhase, PhaseAs DEF Watched
    <2>3. RestartsLeft' = RestartsLeft - 1 /\ RestartsLeft > 0
      BY <2>1, <1>e DEF RestartsLeft
    <2>4. Phase' \in {"starting", "off"}
      <3>1. CASE BeginStart
        BY <3>1, SubmitPhase DEF BeginStart, Jobs
      <3>2. CASE UNCHANGED poolVars
        BY <2>1, <3>2, IdlePhase, PhaseAsNext DEF Watched, Starting, Done, HasStart
      <3> QED BY <1>8, <3>1, <3>2 DEF AnswerRecoverFile
    <2>5. Watchdog!Restart
      BY <2>1, <2>2, <2>3, <2>4 DEF Watchdog!Restart
    <2> QED BY <2>5 DEF Watchdog!Next
  <1>9. CASE PollFuture \/ PollPrepareUnsaved
    <2>1. /\ poll # "startFile" /\ poll' # "startFile" /\ Done /\ ~Done'
          /\ UNCHANGED <<dialog, restarts, wanted, proc, queue, operation>>
      BY <1>9 DEF PollFuture, PollPrepareUnsaved, Done
    <2>2. RestartsLeft' = RestartsLeft /\ Live' = Live
      BY <2>1 DEF RestartsLeft, Live
    <2>3. ~Starting' /\ (Starting <=> operation = "start")
      BY <2>1, IdlePool DEF Starting, HasStart, ImplInv
    <2>4. CASE operation = "start"
      <3>1. Phase = "starting" /\ Phase' \in {"off", "watched"}
        BY <2>3, <2>4, PhaseAs, PhaseAsNext
      <3>2. Watchdog!Abandon
        BY <2>1, <2>2, <3>1 DEF Watchdog!Abandon
      <3> QED BY <3>2 DEF Watchdog!Next
    <2>5. CASE operation # "start"
      <3>1. UNCHANGED was_running
        BY <1>9, <2>5 DEF PollFuture, PollPrepareUnsaved
      <3>2. Phase' = Phase
        BY <2>1, <2>3, <2>5, <3>1, PhaseAs, PhaseAsNext DEF Watched
      <3>3. Unseen
        BY <2>1, <2>2, <3>2 DEF Unseen
      <3> QED BY <3>3, <1>a
    <2> QED BY <2>4, <2>5
  <1>10. CASE PollExit
    <2>1. /\ was_running /\ ~Live /\ ~was_running' /\ poll # "startFile"
          /\ UNCHANGED <<dialog, proc, wanted>> /\ Live' = Live
      BY <1>10 DEF PollExit, AtExitCheck, Live
    <2>2. ~Starting => Phase = "watched"
      BY <2>1, PhaseAs DEF Watched
    <2>3. CASE poll' = "idle" /\ UNCHANGED <<poolVars, restarts>>
      <3>1. RestartsLeft' = RestartsLeft /\ (Starting' <=> Starting)
        BY <2>1, <2>3 DEF RestartsLeft, Starting, HasStart, Done
      <3>2. CASE Starting
        <4>1. Phase' = Phase
          BY <3>1, <3>2, PhaseAs, PhaseAsNext
        <4>2. Unseen
          BY <2>1, <3>1, <4>1 DEF Unseen
        <4> QED BY <4>2, <1>a
      <3>3. CASE ~Starting
        <4>1. Phase' = "off"
          BY <2>1, <2>3, <3>1, <3>3, PhaseAsNext DEF Watched
        <4>2. Watchdog!Lapse
          BY <2>1, <2>2, <3>1, <3>3, <4>1 DEF Watchdog!Lapse
        <4> QED BY <4>2 DEF Watchdog!Next
      <3> QED BY <3>2, <3>3
    <2>4. CASE ~Busy /\ ~BudgetSpent /\ Unexpected /\ RecoverGuest
      <3>1. wanted /\ ~Starting /\ Phase = "watched" /\ restarts' = restarts + 1
        BY <2>1, <2>2, <2>4, IdlePhase DEF Unexpected, RecoverGuest, CountRestart, ImplInv,
           BaseInv, IntentInv, WatchWanted
      <3>2. RestartsLeft > 0
        BY <2>1, <2>4, <1>e DEF BudgetSpent
      <3>3. poll' # "startFile" => RestartsLeft' = RestartsLeft - 1
        BY <2>1, <3>1, <1>e DEF RestartsLeft
      <3>4. poll' = "startFile" => RestartsLeft' = RestartsLeft
        BY <2>1, <3>1, <1>e DEF RestartsLeft
      <3>5. CASE poll' = "idle" /\ BeginStart
        <4>1. Phase' = "starting"
          BY <3>5, SubmitPhase DEF BeginStart, Jobs
        <4>2. Watchdog!Restart
          BY <2>1, <3>1, <3>2, <3>3, <3>5, <4>1 DEF Watchdog!Restart
        <4> QED BY <4>2 DEF Watchdog!Next
      <3>6. CASE poll' \in {"notice", "startFile"} /\ UNCHANGED poolVars
        <4>1. ~Starting'
          BY <3>1, <3>6 DEF Starting, HasStart, Done
        <4>2. CASE poll' = "notice"
          <5>1. Phase' = "off"
            BY <2>1, <4>1, <4>2, PhaseAsNext DEF Watched
          <5>2. Watchdog!Restart
            BY <2>1, <3>1, <3>2, <3>3, <4>2, <5>1 DEF Watchdog!Restart
          <5> QED BY <5>2 DEF Watchdog!Next
        <4>3. CASE poll' = "startFile"
          <5>1. Phase' = "watched"
            BY <4>1, <4>3, PhaseAsNext DEF Watched
          <5>2. Unseen
            BY <2>1, <3>1, <3>4, <4>3, <5>1 DEF Unseen
          <5> QED BY <5>2, <1>a
        <4> QED BY <3>6, <4>2, <4>3
      <3>7. CASE poll' = "idle" /\ UNCHANGED <<poolVars, restarts>>
        BY <2>3, <3>7
      <3> QED BY <2>4, <3>5, <3>6, <3>7 DEF RecoverGuest
    <2> QED BY <1>10, <2>3, <2>4 DEF PollExit, RecoverGuest
  <1>11. CASE PollNoExit \/ PollEnd \/ DismissAlert
    <2>1. /\ UNCHANGED <<poolVars, proc, was_running, restarts, wanted, dialog>>
          /\ poll # "startFile" /\ poll' # "startFile"
      BY <1>11 DEF PollNoExit, PollEnd, DismissAlert, AtExitCheck
    <2>2. Unseen
      BY <2>1, PhaseKept DEF Unseen, Live
    <2> QED BY <2>2, <1>a
  <1>12. CASE Close \/ Environment
    <2>1. /\ UNCHANGED <<poolVars, was_running, restarts, wanted, poll, dialog>>
          /\ Live' => Live
      BY <1>12 DEF Close, CloseSignal, CloseWait, CloseRelease, CloseDrained, ClosingFrame,
         Terminate, Environment, GuestExit, NativeExit, UiFrame, Live, Exits
    <2>2. UNCHANGED <<Phase, RestartsLeft, wanted, dialog = "startFile">>
      BY <2>1, PhaseKept
    <2>3. CASE Live' = Live
      BY <2>2, <2>3, <1>a DEF Unseen
    <2>4. CASE Live /\ ~Live'
      <3>1. Watchdog!Exit
        BY <2>2, <2>4 DEF Watchdog!Exit, Live
      <3> QED BY <3>1 DEF Watchdog!Next
    <2> QED BY <2>1, <2>3, <2>4 DEF Live
  <1>13. CASE WorkerLaunch
    <2>1. /\ queue # <<>> /\ Head(queue) = "start" /\ ~Live /\ UiFrame
      BY <1>13 DEF WorkerLaunch, ImplInv, BaseInv, TypeInv, WorkerInv, SoleLaunch
    <2>2. HasStart(queue)
      <3>1. queue \in Seq(Jobs) /\ 1 \in DOMAIN queue /\ Head(queue) = queue[1]
        BY <2>1, EmptySeq, LenProperties DEF ImplInv, BaseInv, TypeInv, TypeOK
      <3> QED BY <2>1, <3>1 DEF HasStart
    <2>3. Phase = "starting" /\ wanted
      BY <2>2, PhaseAs DEF Starting, ImplInv, BaseInv, IntentInv, StartWanted
    <2>4. UNCHANGED <<RestartsLeft, wanted, dialog = "startFile">>
      BY <2>1 DEF UiFrame, RestartsLeft
    <2>5. CASE proc' = "live" /\ UNCHANGED poolVars
      <3>1. Phase' = Phase
        BY <2>1, <2>5, PhaseKept DEF UiFrame
      <3>2. Watchdog!Launch
        BY <2>1, <2>3, <2>4, <2>5, <3>1 DEF Watchdog!Launch, Live
      <3> QED BY <3>2 DEF Watchdog!Next
    <2>6. CASE Finish("error") /\ UNCHANGED proc
      <3>1. \/ Phase' = Phase
            \/ Phase = "starting" /\ Phase' \in {"off", "watched"}
        BY <2>1, <2>6, FinishPhase
      <3>2. Live' = Live
        BY <2>6 DEF Live
      <3>3. Unseen \/ Watchdog!Abandon
        BY <2>4, <3>1, <3>2 DEF Unseen, Watchdog!Abandon
      <3> QED BY <3>3, <1>a DEF Watchdog!Next
    <2> QED BY <1>13, <2>5, <2>6 DEF WorkerLaunch
  <1>14. CASE Worker /\ ~WorkerLaunch
    <2>1. UiFrame /\ (Live' => Live) /\ queue # <<>>
      BY <1>14 DEF Worker, WorkerShutdown, WorkerTerminate, WorkerTransfer, WorkerPrepare,
         WorkerStart, WorkerSurvived, WorkerRetry, WorkerConnected, WorkerGaveUp, Working,
         Terminate, Live, Exits, ImplInv, BaseInv, TypeInv, WorkerInv
    <2>2. UNCHANGED <<RestartsLeft, wanted, dialog = "startFile">>
      BY <2>1 DEF UiFrame, RestartsLeft
    <2>3. \/ UNCHANGED poolVars /\ Live' = Live
          \/ Finish("ok") \/ Finish("error")
      BY <1>14 DEF Worker, WorkerShutdown, WorkerTerminate, WorkerTransfer, WorkerPrepare,
         WorkerStart, WorkerSurvived, WorkerRetry, WorkerConnected, WorkerGaveUp, Live
    <2>4. \/ Phase' = Phase
          \/ Phase = "starting" /\ Phase' \in {"off", "watched"}
      <3>1. CASE UNCHANGED poolVars
        BY <2>1, <3>1, PhaseKept DEF UiFrame
      <3>2. CASE Finish("ok") \/ Finish("error")
        BY <2>1, <3>2, FinishPhase
      <3> QED BY <2>3, <3>1, <3>2
    <2>5. CASE Live' = Live
      <3>1. Unseen \/ Watchdog!Abandon
        BY <2>2, <2>4, <2>5 DEF Unseen, Watchdog!Abandon
      <3> QED BY <3>1, <1>a DEF Watchdog!Next
    <2>6. CASE Live /\ ~Live'
      <3>1. Watchdog!Exit \/ Watchdog!Abandon
        BY <2>2, <2>4, <2>6 DEF Watchdog!Exit, Watchdog!Abandon, Live
      <3> QED BY <3>1 DEF Watchdog!Next
    <2> QED BY <2>1, <2>5, <2>6 DEF Live
  <1>15. CASE Closed \/ UNCHANGED vars
    <2>1. Unseen
      BY <1>15, PhaseKept DEF Closed, vars, Unseen, Live
    <2> QED BY <2>1, <1>a
  <1> QED BY <1>1, <1>2, <1>3, <1>4, <1>5, <1>6, <1>7, <1>8, <1>9, <1>10, <1>11, <1>12,
             <1>13, <1>14, <1>15 DEF Next, User, Poll

LEMMA InitImplements == Init => Watchdog!Init
  BY RestartsAssumption DEF Init, Watchdog!Init, Phase, RestartsLeft, Live, Done

(* The window keeps the watchdog's promise for every budget and every      *)
(* number of launch attempts: QEMU is launched only by a wanted start, one *)
(* at a time, and each automatic restart follows the exit of a watched     *)
(* guest and spends the budget (start_vm, poll, recover_guest, vm.start).  *)
THEOREM WindowImplementsWatchdog == Spec => ImplementsWatchdog
PROOF
  <1>1. ImplInv /\ [Next]_vars => [Watchdog!Next]_(Watchdog!vars)
    BY StepImplements
  <1>2. BaseInv /\ CareInv => ImplInv
    BY DEF ImplInv
  <1> QED BY <1>1, <1>2, InitImplements, CareCorrect, PTL
          DEF Spec, ImplementsWatchdog, Watchdog!Spec
=============================================================================
