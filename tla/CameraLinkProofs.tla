-------------------------- MODULE CameraLinkProofs --------------------------
(***************************************************************************)
(* Proofs about the camera's link, for every reconnect budget.             *)
(***************************************************************************)
EXTENDS CameraLink, SequenceTheorems, TLAPS

(* Before start, and while macOS is asked, nothing has been dialled.       *)
Untouched ==
  /\ ~camera /\ socket = "unconnected" /\ timers = 0 /\ ~pending
  /\ ~grace /\ attempts = 0 /\ drops = 0

FreshInv  == owner = "new" => Untouched /\ ~device /\ ~asking /\ ended = "no"
AskInv    == asking => ~camera /\ (device => Untouched)

(* The flag stands for the one reconnect scheduled, and a streamer at rest *)
(* is the only one that has it.                                            *)
TimerInv == timers = (IF pending THEN 1 ELSE 0)
RestInv  == timers > 0 => socket = "unconnected"

(* What the guest has sent, short of a close, it has sent by speaking.     *)
HeardInv == spoke \/ inbox \in Seq({"fin"})

(* GuestLink counts what the history counts, while the streamer runs.      *)
CountInv == Running => drops = attempts

(* The window lets go only of a streamer that has ended.                   *)
OwnedInv == owner = "dropped" => ended # "no"

(* While the streamer runs, only a connection that is up awaits greeting.  *)
GraceInv == Running /\ grace => socket = "connected"

LinkInv ==
  /\ TypeOK /\ FreshInv /\ AskInv /\ TimerInv /\ RestInv
  /\ HeardInv /\ CountInv /\ OwnedInv /\ GraceInv
  /\ WebcamHeard /\ NeverDeaf /\ BudgetExact /\ ReleasedForGood

-----------------------------------------------------------------------------
(* Steps of the guest.                                                     *)

(* Appending to what the guest has sent.                                   *)
LEMMA InboxAppend ==
  ASSUME NEW S, NEW q \in Seq(S), "fin" \in S
  PROVE  Append(q, "fin") \in Seq(S) /\ <<"fin">> \in Seq(S)
  OBVIOUS

(* Sequences of one and of two elements.                                   *)
LEMMA ShortSeq ==
  ASSUME NEW S, NEW a \in S, NEW b \in S
  PROVE  <<a>> \in Seq(S) /\ <<a, b>> \in Seq(S)
  OBVIOUS

(* A close adds no word of the guest's.                                    *)
LEMMA HangUpKeeps ==
  ASSUME TypeOK, HeardInv, HangUp
  PROVE  /\ inbox' \in Seq(Chunks \cup {"fin"}) /\ far' = "none"
         /\ spoke \/ inbox' \in Seq({"fin"})
  <1>1. inbox' \in Seq(Chunks \cup {"fin"})
    BY InboxAppend DEF TypeOK, HangUp
  <1>2. ASSUME inbox \in Seq({"fin"})
        PROVE  inbox' \in Seq({"fin"})
    BY <1>2, InboxAppend DEF HangUp
  <1> QED BY <1>1, <1>2 DEF HeardInv, HangUp

(* The guest's steps touch nothing on the host but what it will read.      *)
LEMMA GuestStep ==
  ASSUME LinkInv,
         HostFrame,
         inbox' \in Seq(Chunks \cup {"fin"}),
         far' \in {"none", "dialling", "backlog", "served"}, stale' \in BOOLEAN,
         bridge' \in {"up", "down", "gone"}, greets' \in BOOLEAN, spoke' \in BOOLEAN,
         spoke => spoke', HeardInv'
  PROVE  LinkInv'
  BY DEF LinkInv, HostFrame, TypeOK, FreshInv, Untouched, AskInv, TimerInv, RestInv,
         CountInv, OwnedInv, GraceInv, WebcamHeard, NeverDeaf, BudgetExact, ReleasedForGood,
         Running,
         webcam, link, timing

(* Every step of the guest and of QEMU keeps the invariant.                *)
LEMMA GuestSteps ==
  ASSUME LinkInv,
         Guest \/ BridgeHangsUp \/ BridgeFails \/ BridgeStarts \/ QemuExits
  PROVE  LinkInv'
PROOF
  <1> USE DEF guest
  <1>0. TypeOK /\ HeardInv
    BY DEF LinkInv
  <1>1. CASE FarConnects
    <2>1. CASE far' = "backlog" /\ UNCHANGED inbox
      BY <1>0, <1>1, <2>1, GuestStep DEF FarConnects, HeardInv, TypeOK
    <2>2. CASE HangUp
      BY <1>0, <1>1, <2>2, GuestStep, HangUpKeeps DEF FarConnects, HeardInv, TypeOK
    <2> QED BY <1>1, <2>1, <2>2 DEF FarConnects
  <1>2. CASE BridgeAccepts
    <2>1. PICK s \in {<<>>, <<"greeting">>, <<"part", "rest">>, <<"other">>} : inbox' = inbox \o s
      BY <1>2 DEF BridgeAccepts
    <2>2. s \in Seq(Chunks \cup {"fin"})
      <3> DEFINE S == Chunks \cup {"fin"}
      <3>1. {"greeting", "part", "rest", "other"} \subseteq S
        BY DEF Chunks
      <3> HIDE DEF S
      <3>2. <<"greeting">> \in Seq(S) /\ <<"part", "rest">> \in Seq(S) /\ <<"other">> \in Seq(S)
        BY <3>1, ShortSeq
      <3>3. s \in Seq(S)
        BY <2>1, <3>2, EmptySeq
      <3> QED BY <3>3 DEF S
    <2>3. inbox' \in Seq(Chunks \cup {"fin"})
      BY <1>0, <2>1, <2>2, ConcatProperties DEF TypeOK
    <2>4. HeardInv' /\ (spoke => spoke') /\ spoke' \in BOOLEAN
      BY <1>0, <1>2 DEF BridgeAccepts, HeardInv, TypeOK
    <2> QED BY <1>0, <1>2, <2>3, <2>4, GuestStep DEF BridgeAccepts, TypeOK
  <1>3. CASE BridgeDropsStale
    BY <1>0, <1>3, GuestStep DEF BridgeDropsStale, HeardInv, TypeOK
  <1>4. CASE BridgeHangsUp
    <2>1. HangUp
      BY <1>4 DEF BridgeHangsUp, HangUp
    <2> QED BY <1>0, <1>4, <2>1, GuestStep, HangUpKeeps DEF BridgeHangsUp, HeardInv, TypeOK
  <1>5. CASE BridgeFails
    <2>1. CASE HangUp
      BY <1>0, <1>5, <2>1, GuestStep, HangUpKeeps DEF BridgeFails, HeardInv, TypeOK
    <2>2. CASE UNCHANGED <<far, inbox>>
      BY <1>0, <1>5, <2>2, GuestStep DEF BridgeFails, HeardInv, TypeOK
    <2> QED BY <1>5, <2>1, <2>2 DEF BridgeFails
  <1>6. CASE BridgeStarts
    BY <1>0, <1>6, GuestStep DEF BridgeStarts, HeardInv, TypeOK
  <1>7. CASE QemuExits
    <2>1. CASE HangUp
      BY <1>0, <1>7, <2>1, GuestStep, HangUpKeeps DEF QemuExits, HeardInv, TypeOK
    <2>2. CASE UNCHANGED <<far, inbox>>
      BY <1>0, <1>7, <2>2, GuestStep DEF QemuExits, HeardInv, TypeOK
    <2> QED BY <1>7, <2>1, <2>2 DEF QemuExits
  <1> QED BY <1>1, <1>2, <1>3, <1>4, <1>5, <1>6, <1>7 DEF Guest

-----------------------------------------------------------------------------
(* Steps of the host.                                                      *)

(* A socket that comes to rest: the streamer waits for a reconnect, or has *)
(* spent its budget.                                                       *)
LEMMA DisconnectedStep ==
  ASSUME LinkInv, Disconnected, socket # "unconnected"
  PROVE  LinkInv'
PROOF
  <1> USE DEF LinkInv, TypeOK, webcam, link, timing, guest
  <1>0. timers = 0 /\ ~pending /\ owner # "new"
    BY DEF RestInv, TimerInv, FreshInv, Untouched
  <1>1. HeardInv' /\ inbox' \in Seq(Chunks \cup {"fin"})
    BY DEF Disconnected, HeardInv
  <1>2. FreshInv'
    BY <1>0 DEF Disconnected, FreshInv
  <1>3. CASE ~Running
    BY <1>0, <1>1, <1>2, <1>3 DEF Disconnected, Reacts, AskInv, Untouched, TimerInv, RestInv,
       CountInv, OwnedInv, GraceInv, WebcamHeard, NeverDeaf, BudgetExact, ReleasedForGood, Running
  <1>4. CASE Running
    <2>1. ~asking \/ ~device
      BY DEF AskInv, Untouched
    <2>2. ended = "no" /\ ~asking
      BY <1>4, <2>1 DEF ReleasedForGood, Running, AskInv
    <2>3. grace' = FALSE /\ grace' \in BOOLEAN
      BY <1>4, Zenon DEF Disconnected, Reacts
    <2>4. CASE ~CountsAsDrop
      <3>1. ScheduleReconnect /\ open' = FALSE /\ open' \in BOOLEAN
            /\ UNCHANGED <<attempts, confirmed, stable, webcam, report, drops>>
        BY <1>4, <2>4, Zenon DEF Disconnected, Reacts
      <3>2. pending' = TRUE /\ timers' = 1 /\ pending' \in BOOLEAN
        BY <1>0, <3>1 DEF ScheduleReconnect
      <3> QED BY <1>1, <1>2, <1>4, <2>2, <2>3, <3>1, <3>2 DEF Disconnected, AskInv, TimerInv,
              RestInv, CountInv, OwnedInv, GraceInv, WebcamHeard, NeverDeaf, BudgetExact,
              ReleasedForGood, Running
    <2>5. CASE CountsAsDrop
      <3> DEFINE n == (IF stable THEN 0 ELSE attempts) + 1
      <3>0. n \in Nat /\ drops' = n /\ drops' \in Nat
        BY <1>4, <2>5 DEF Disconnected, Reacts, CountInv, CountsAsDrop
      <3>1. CASE BudgetLeft(n)
        <4>1. ScheduleReconnect /\ open' = FALSE /\ open' \in BOOLEAN /\ attempts' = n
              /\ UNCHANGED <<confirmed, stable, webcam, report>>
          BY <1>4, <2>5, <3>1, Zenon DEF Disconnected, Reacts
        <4>2. pending' = TRUE /\ timers' = 1 /\ pending' \in BOOLEAN
          BY <1>0, <4>1 DEF ScheduleReconnect
        <4>3. n \in 0..MaxReconnects
          BY <3>0, <3>1, ReconnectsAssumption DEF BudgetLeft
        <4> HIDE DEF n
        <4> QED BY <1>1, <1>2, <1>4, <2>2, <2>3, <3>0, <4>1, <4>2, <4>3, ReconnectsAssumption
               DEF Disconnected, AskInv, TimerInv,
                RestInv, CountInv, OwnedInv, GraceInv, WebcamHeard, NeverDeaf, BudgetExact,
                ReleasedForGood, Running
      <3>2. CASE ~BudgetLeft(n)
        <4>1. /\ device' = FALSE /\ camera' = FALSE /\ ended' = "spent" /\ report' = FALSE
              /\ ResetLink /\ UNCHANGED <<pending, timers>>
          BY <1>4, <2>5, <3>2, Zenon DEF Disconnected, Reacts
        <4>2. /\ device' \in BOOLEAN /\ camera' \in BOOLEAN /\ report' \in BOOLEAN
              /\ open' \in BOOLEAN /\ stable' \in BOOLEAN /\ confirmed' \in BOOLEAN
          BY <4>1, Zenon DEF ResetLink
        <4>3. n > MaxReconnects /\ attempts' \in 0..MaxReconnects
          BY <3>0, <3>2, <4>1, ReconnectsAssumption DEF BudgetLeft, ResetLink
        <4> HIDE DEF n
        <4> QED BY <1>0, <1>1, <1>2, <2>2, <2>3, <3>0, <4>1, <4>2, <4>3, ReconnectsAssumption
               DEF Disconnected, AskInv, TimerInv,
                RestInv, CountInv, OwnedInv, GraceInv, WebcamHeard, NeverDeaf, BudgetExact,
                ReleasedForGood, Running
      <3> QED BY <3>1, <3>2
    <2> QED BY <2>4, <2>5
  <1> QED BY <1>3, <1>4

(* A bridge that answered, or whose grace ran out, gets the webcam.        *)
LEMMA AnsweredStep ==
  ASSUME LinkInv, Answered, Running, spoke \/ waited',
         UNCHANGED <<owner, asking, socket, guest, drops>>, waited => waited',
         waited' \in BOOLEAN, inbox' \in Seq(Chunks \cup {"fin"}), HeardInv',
         buffer' \in {"empty", "part", "greeting", "other"}, socket = "connected",
         UNCHANGED <<far, stale>>
  PROVE  LinkInv'
PROOF
  <1> USE DEF LinkInv, TypeOK, guest
  <1>1. /\ grace' \in BOOLEAN /\ report' \in BOOLEAN /\ confirmed' \in BOOLEAN
        /\ camera' \in BOOLEAN /\ device' \in BOOLEAN
    BY Zenon DEF Answered
  <1>2. ended = "no" /\ ~asking /\ owner # "new"
    BY DEF ReleasedForGood, AskInv, Untouched, Running, FreshInv
  <1> QED BY <1>1, <1>2 DEF Answered, FreshInv, AskInv, TimerInv, RestInv, CountInv, OwnedInv,
      GraceInv,
          WebcamHeard, NeverDeaf, BudgetExact, ReleasedForGood, Running

(* A watch begins from an untouched streamer.                              *)
LEMMA WatchStep ==
  ASSUME LinkInv, WatchGuest, Untouched, ended = "no",
         owner' = "held", asking' = FALSE
  PROVE  LinkInv'
PROOF
  <1> USE DEF LinkInv, TypeOK, guest, wire
  <1>1. /\ device' \in BOOLEAN /\ report' \in BOOLEAN /\ pending' \in BOOLEAN
        /\ confirmed' \in BOOLEAN /\ open' \in BOOLEAN /\ stable' \in BOOLEAN
        /\ asking' \in BOOLEAN
    BY Zenon DEF WatchGuest, OpenConnection, ReconnectTaken
  <1>2. attempts' \in 0..MaxReconnects
    BY ReconnectsAssumption DEF WatchGuest
  <1> QED BY <1>1, <1>2, ReconnectsAssumption DEF WatchGuest, OpenConnection, ReconnectTaken,
          Untouched, FreshInv, AskInv, TimerInv, RestInv, HeardInv, CountInv, OwnedInv, GraceInv,
          WebcamHeard, NeverDeaf, BudgetExact, ReleasedForGood, Running

(* Once released, nothing runs, and the socket is at rest.                 *)
LEMMA ReleaseStep ==
  ASSUME LinkInv, NEW why \in {"stopped", "failed"}, Release(why), owner # "new",
         owner' \in {"held", "dropped"}, ended = "spent" => ended' = "spent",
         UNCHANGED <<asking, pending, timers, buffer, guest, waited, drops>>,
         attempts' \in 0..MaxReconnects,
         grace' \in BOOLEAN, report' \in BOOLEAN,
         confirmed' \in BOOLEAN, open' \in BOOLEAN, stable' \in BOOLEAN
  PROVE  LinkInv'
PROOF
  <1> USE DEF LinkInv, TypeOK, guest
  <1>1. /\ device' = FALSE /\ camera' = FALSE
        /\ device' \in BOOLEAN /\ camera' \in BOOLEAN
    BY Zenon DEF Release
  <1>2. /\ socket' = "unconnected" /\ inbox' = <<>> /\ far' = "none"
        /\ stale' \in BOOLEAN
    BY DEF Release, Abort
  <1>3. /\ ended' \in {"no", "stopped", "spent", "failed", "denied"} /\ ended' # "no"
        /\ ended' = "spent" => ended = "spent"
    BY DEF Release
  <1>4. inbox' \in Seq(Chunks \cup {"fin"}) /\ inbox' \in Seq({"fin"})
    BY <1>2, EmptySeq
  <1> QED BY <1>1, <1>2, <1>3, <1>4 DEF FreshInv, AskInv, TimerInv, RestInv, HeardInv,
          CountInv, OwnedInv, GraceInv, WebcamHeard, NeverDeaf, BudgetExact, ReleasedForGood,
          Running

(* The first dial follows start, or macOS's answer while it still waits.   *)
LEMMA WindowSteps ==
  ASSUME LinkInv, Window \/ PermissionResult \/ CameraError
  PROVE  LinkInv'
PROOF
  <1> USE DEF link, timing, webcam, guest, wire
  <1>1. CASE Start
    <2>0. owner = "new" /\ Untouched /\ ~device /\ ~asking /\ ended = "no" /\ asking = FALSE
      BY <1>1 DEF Start, LinkInv, FreshInv, TypeOK
    <2>1. CASE owner' = "held" /\ WatchGuest /\ UNCHANGED asking
      BY <2>0, <2>1, WatchStep
    <2>2. CASE owner' = "held" /\ AskFirst
      <3>1. asking' \in BOOLEAN /\ device' \in BOOLEAN /\ asking'
        BY <2>2, Zenon DEF AskFirst
      <3> QED BY <2>0, <2>2, <3>1 DEF AskFirst, LinkInv, TypeOK, Untouched, FreshInv, AskInv,
              TimerInv, RestInv, HeardInv, CountInv, OwnedInv, GraceInv, WebcamHeard,
              NeverDeaf, BudgetExact,
              ReleasedForGood, Running
    <2>3. CASE /\ owner' = "dropped" /\ ended' = "denied"
               /\ UNCHANGED <<device, camera, asking, link, timing, socket, buffer, wire,
                              guest, waited, drops>>
      BY <2>0, <2>3 DEF LinkInv, TypeOK, Untouched, FreshInv, AskInv,
         TimerInv, RestInv, HeardInv, CountInv, OwnedInv, GraceInv, WebcamHeard, NeverDeaf,
         BudgetExact,
         ReleasedForGood, Running
    <2> QED BY <1>1, <2>1, <2>2, <2>3 DEF Start
  <1>2. CASE Stop
    <2>1. owner' = "dropped" /\ Release("stopped")
          /\ UNCHANGED <<asking, pending, timers, buffer, guest, waited, drops>>
          /\ owner # "new" /\ attempts' = 0
      BY <1>2 DEF Stop, ResetLink
    <2>2. /\ grace' \in BOOLEAN /\ report' \in BOOLEAN
          /\ confirmed' \in BOOLEAN /\ open' \in BOOLEAN /\ stable' \in BOOLEAN
      BY <1>2, Zenon DEF Stop, ResetLink
    <2>3. ended = "spent" => ended' = "spent"
      BY <2>1 DEF Release
    <2> QED BY <2>1, <2>2, <2>3, ReleaseStep, ReconnectsAssumption
  <1>3. CASE CameraError
    <2>1. camera /\ Release("failed") /\ owner' = owner
          /\ UNCHANGED <<asking, pending, timers, buffer, guest, waited, drops, link, grace,
                        report>>
      BY <1>3 DEF CameraError
    <2>2. owner \in {"held", "dropped"} /\ (ended = "spent" => ended' = "spent")
      BY <2>1 DEF Release, LinkInv, TypeOK, FreshInv, Untouched
    <2> QED BY <2>1, <2>2, ReleaseStep DEF LinkInv, TypeOK
  <1>4. CASE PermissionResult
    <2>0. asking /\ asking' = FALSE /\ owner' = owner /\ ~camera /\ owner # "new"
          /\ asking' \in BOOLEAN
      BY <1>4, Zenon DEF PermissionResult, LinkInv, AskInv, FreshInv
    <2>1. CASE StillWatching /\ WatchGuest
      <3>1. Untouched /\ ended = "no"
        BY <2>0, <2>1 DEF StillWatching, LinkInv, AskInv, ReleasedForGood, Running
      <3>2. CASE owner = "held"
        BY <2>0, <2>1, <3>1, <3>2, WatchStep
      <3>3. CASE owner = "dropped"
        \* A dropped streamer has ended, and does not wait for macOS.
        BY <3>1, <3>3 DEF LinkInv, OwnedInv
      <3> QED BY <2>0, <3>2, <3>3 DEF LinkInv, TypeOK
    <2>2. CASE /\ device' = FALSE
               /\ ended' = (IF ended = "no" THEN "denied" ELSE ended)
               /\ UNCHANGED <<camera, link, timing, socket, buffer, wire, guest, waited, drops>>
      <3>1. device' \in BOOLEAN
        BY <2>2, Zenon
      <3> QED BY <2>0, <2>2, <3>1 DEF LinkInv, TypeOK, Untouched, FreshInv, AskInv,
              TimerInv, RestInv, HeardInv, CountInv, OwnedInv, GraceInv, WebcamHeard,
              NeverDeaf, BudgetExact,
              ReleasedForGood, Running
    <2> QED BY <1>4, <2>1, <2>2 DEF PermissionResult
  <1> QED BY <1>1, <1>2, <1>3, <1>4 DEF Window

(* The callbacks of the socket and of the timers.                          *)
LEMMA SocketSteps ==
  ASSUME LinkInv, Sockets \/ GreetingTimedOut \/ ReconnectFires \/ Ages
  PROVE  LinkInv'
PROOF
  <1> USE DEF webcam, link, timing, wire, guest
  <1>1. CASE Connected
    <2>1. grace' \in BOOLEAN
      BY <1>1, Zenon DEF Connected, AwaitGreeting
    <2> QED BY <1>1, <2>1 DEF Connected, AwaitGreeting, LinkInv, TypeOK, Untouched, FreshInv,
            AskInv, TimerInv, RestInv, HeardInv, CountInv, OwnedInv, GraceInv, WebcamHeard,
            NeverDeaf, BudgetExact,
            ReleasedForGood, Running
  <1>2. CASE Refused
    BY <1>2, DisconnectedStep DEF Refused
  <1>3. CASE PeerClosed
    BY <1>3, DisconnectedStep DEF PeerClosed
  <1>4. CASE ReadGreeting
    <2>1. inbox \in Seq(Chunks \cup {"fin"}) /\ inbox # <<>> /\ Head(inbox) # "fin"
      BY <1>4 DEF ReadGreeting, LinkInv, TypeOK
    <2>2. inbox' \in Seq(Chunks \cup {"fin"}) /\ Head(inbox) \in Chunks
      BY <1>4, <2>1, HeadTailProperties DEF ReadGreeting
    <2>3. spoke
      BY <2>1, HeadTailProperties DEF LinkInv, HeardInv
    <2>4. buffer' \in {"empty", "part", "greeting", "other"}
      BY <1>4, <2>2 DEF ReadGreeting, Extend, Chunks
    <2>5. HeardInv'
      BY <1>4, <2>3 DEF ReadGreeting, HeardInv
    <2>6. CASE UNCHANGED <<webcam, link, timing>>
      BY <1>4, <2>2, <2>4, <2>5, <2>6 DEF ReadGreeting, LinkInv, TypeOK, Untouched, FreshInv,
         AskInv, TimerInv, RestInv, CountInv, OwnedInv, GraceInv, WebcamHeard, NeverDeaf,
         BudgetExact,
         ReleasedForGood, Running
    <2>7. CASE Answered
      <3>1. waited' = waited /\ waited' \in BOOLEAN
        BY <1>4 DEF ReadGreeting, LinkInv, TypeOK
      <3> QED BY <1>4, <2>2, <2>3, <2>4, <2>5, <2>7, <3>1, AnsweredStep DEF ReadGreeting
    <2> QED BY <1>4, <2>6, <2>7 DEF ReadGreeting
  <1>5. CASE GreetingTimedOut
    <2>1. waited' = TRUE /\ waited' \in BOOLEAN
      BY <1>5, Zenon DEF GreetingTimedOut
    <2>2. CASE Running
      <3>1. Answered /\ socket = "connected"
        BY <1>5, <2>2 DEF GreetingTimedOut, LinkInv, GraceInv
      <3>2. HeardInv' /\ inbox' \in Seq(Chunks \cup {"fin"}) /\ buffer' = buffer
            /\ buffer \in {"empty", "part", "greeting", "other"}
        BY <1>5 DEF GreetingTimedOut, LinkInv, HeardInv, TypeOK
      <3> QED BY <1>5, <2>1, <2>2, <3>1, <3>2, AnsweredStep DEF GreetingTimedOut
    <2>3. CASE ~Running
      <3>1. grace' \in BOOLEAN /\ UNCHANGED <<webcam, link, pending, timers, report>>
        BY <1>5, <2>3, Zenon DEF GreetingTimedOut
      <3> QED BY <1>5, <2>1, <2>3, <3>1 DEF GreetingTimedOut, LinkInv, TypeOK, Untouched,
              FreshInv, AskInv, TimerInv, RestInv, HeardInv, CountInv, OwnedInv, GraceInv,
              WebcamHeard, NeverDeaf,
              BudgetExact, ReleasedForGood, Running
    <2> QED BY <2>2, <2>3
  <1>6. CASE ReconnectFires
    <2>1. /\ pending' = FALSE /\ pending' \in BOOLEAN
          /\ confirmed' \in BOOLEAN /\ open' \in BOOLEAN /\ stable' \in BOOLEAN
      BY <1>6, Zenon DEF ReconnectFires, OpenConnection, ReconnectTaken
    <2>2. timers' = 0 /\ (asking => ~device) /\ owner # "new"
      BY <1>6 DEF ReconnectFires, LinkInv, TypeOK, TimerInv, AskInv, FreshInv, Untouched
    <2> QED BY <1>6, <2>1, <2>2 DEF ReconnectFires, OpenConnection, LinkInv, TypeOK, Untouched,
            FreshInv, AskInv, TimerInv, RestInv, HeardInv, CountInv, OwnedInv, GraceInv,
            WebcamHeard, NeverDeaf,
            BudgetExact, ReleasedForGood, Running
  <1>7. CASE Ages
    <2>1. stable' \in BOOLEAN
      BY <1>7, Zenon DEF Ages
    <2> QED BY <1>7, <2>1 DEF Ages, LinkInv, TypeOK, Untouched, FreshInv, AskInv, TimerInv,
            RestInv, HeardInv, CountInv, OwnedInv, GraceInv, WebcamHeard, NeverDeaf,
            BudgetExact, ReleasedForGood,
            Running
  <1> QED BY <1>1, <1>2, <1>3, <1>4, <1>5, <1>6, <1>7 DEF Sockets

(* Every step keeps the invariant.                                         *)
LEMMA LinkInvStep == LinkInv /\ [Next]_vars => LinkInv'
PROOF
  <1> SUFFICES ASSUME LinkInv, [Next]_vars PROVE LinkInv'
    OBVIOUS
  <1>1. CASE Next
    BY <1>1, GuestSteps, WindowSteps, SocketSteps DEF Next
  <1>2. CASE UNCHANGED vars
    BY <1>2 DEF vars, webcam, link, timing, wire, guest, LinkInv, TypeOK, Untouched, FreshInv,
       AskInv, TimerInv, RestInv, HeardInv, CountInv, OwnedInv, GraceInv, WebcamHeard,
       NeverDeaf, BudgetExact, ReleasedForGood, Running
  <1> QED BY <1>1, <1>2

(* The streamer the window constructs satisfies the invariant.             *)
LEMMA LinkInvInit == Init => LinkInv
PROOF
  <1> SUFFICES ASSUME Init PROVE LinkInv
    OBVIOUS
  <1>1. /\ device \in BOOLEAN /\ camera \in BOOLEAN /\ asking \in BOOLEAN
        /\ confirmed \in BOOLEAN /\ open \in BOOLEAN /\ stable \in BOOLEAN
        /\ pending \in BOOLEAN /\ grace \in BOOLEAN /\ report \in BOOLEAN
        /\ stale \in BOOLEAN /\ spoke \in BOOLEAN /\ waited \in BOOLEAN
    BY Zenon DEF Init
  <1>2. inbox \in Seq(Chunks \cup {"fin"}) /\ inbox \in Seq({"fin"})
    BY EmptySeq DEF Init
  <1>3. TypeOK
    BY <1>1, <1>2, ReconnectsAssumption DEF Init, TypeOK
  <1>4. ~device /\ ~camera /\ ~asking /\ ~pending /\ ~grace
    BY DEF Init
  <1> QED BY <1>2, <1>3, <1>4 DEF Init, LinkInv, Untouched, FreshInv, AskInv,
          TimerInv, RestInv, HeardInv, CountInv, OwnedInv, GraceInv, WebcamHeard, NeverDeaf,
          BudgetExact, ReleasedForGood, Running

(* So the invariant holds throughout.                                      *)
LEMMA LinkInvAlways == Spec => []LinkInv
  BY LinkInvInit, LinkInvStep, PTL DEF Spec

(* Every variable keeps its type; the attempts stay within the budget.     *)
THEOREM LinkTyped == Spec => []TypeOK
  BY LinkInvAlways, PTL DEF LinkInv

(* The webcam comes on only for a bridge that spoke or a grace that ran    *)
(* out (_read_greeting, _greeting_timed_out).                              *)
THEOREM WebcamWaits == Spec => []WebcamHeard
  BY LinkInvAlways, PTL DEF LinkInv

(* A watching streamer always has a connection or a reconnect under way    *)
(* (_disconnected, _schedule_reconnect).                                   *)
THEOREM AlwaysListening == Spec => []NeverDeaf
  BY LinkInvAlways, PTL DEF LinkInv

(* The reconnect budget is neither cut short nor exceeded, for every       *)
(* budget (GuestLink.closed).                                              *)
THEOREM BudgetIsExact == Spec => []BudgetExact
  BY LinkInvAlways, PTL DEF LinkInv

(* A streamer that ended never runs again (stop, _give_up, _camera_error). *)
THEOREM NeverRevived == Spec => []ReleasedForGood
  BY LinkInvAlways, PTL DEF LinkInv

(* No dial aborts a connection (_open_connection).                         *)
LEMMA DialStep ==
  ASSUME LinkInv, [Next]_vars, socket = "connected"
  PROVE  socket' # "connecting"
PROOF
  <1>1. timers = 0 /\ owner # "new" /\ (asking => ~device)
    BY DEF LinkInv, TypeOK, TimerInv, RestInv, FreshInv, AskInv, Untouched
  <1>2. CASE Window \/ PermissionResult \/ CameraError
    BY <1>1, <1>2 DEF Window, Start, Stop, PermissionResult, StillWatching, CameraError,
       Release, Abort
  <1>3. CASE Sockets \/ GreetingTimedOut \/ ReconnectFires \/ Ages
    BY <1>1, <1>3 DEF Sockets, Connected, Refused, PeerClosed, Disconnected, ReadGreeting,
       GreetingTimedOut, ReconnectFires, Ages
  <1>4. CASE Guest \/ BridgeHangsUp \/ BridgeFails \/ BridgeStarts \/ QemuExits
    BY <1>4 DEF Guest, FarConnects, BridgeAccepts, BridgeDropsStale, BridgeHangsUp,
       BridgeFails, BridgeStarts, QemuExits, HostFrame
  <1>5. CASE UNCHANGED vars
    BY <1>5 DEF vars
  <1> QED BY <1>2, <1>3, <1>4, <1>5 DEF Next

(* No timer or permission ever throws away a connection that is up         *)
(* (_open_connection, _watch_guest).                                       *)
THEOREM DialsAreFree == Spec => DialsFromRest
PROOF
  <1>1. LinkInv /\ [Next]_vars => [socket = "connected" => socket' # "connecting"]_vars
    BY DialStep
  <1> QED BY <1>1, LinkInvAlways, PTL DEF Spec, DialsFromRest

-----------------------------------------------------------------------------
(* A streamer that has ended schedules nothing more, and each dial it      *)
(* still makes takes the place of a reconnect that was due: there was one  *)
(* at most, so that after it no callback of Qt, of macOS or of the guest   *)
(* dials again (_schedule_reconnect, _open_connection, stop).              *)
DiesOut ==
  [][ended # "no" =>
       /\ timers <= 1 /\ timers' <= timers
       /\ socket = "unconnected" /\ socket' # "unconnected" => timers' < timers]_vars

LEMMA EndedStep ==
  ASSUME LinkInv, [Next]_vars, ended # "no"
  PROVE  /\ timers <= 1 /\ timers' <= timers
         /\ socket = "unconnected" /\ socket' # "unconnected" => timers' < timers
PROOF
  <1>1. /\ timers \in {0, 1} /\ timers <= timers
        /\ owner # "new" /\ ~Running /\ ~device /\ ~camera
    BY DEF LinkInv, TypeOK, TimerInv, FreshInv, ReleasedForGood, Running
  <1>2. CASE Window \/ PermissionResult \/ CameraError
    BY <1>1, <1>2 DEF Window, Start, Stop, PermissionResult, StillWatching, CameraError,
       Release, Abort, timing
  <1>3. CASE Sockets \/ GreetingTimedOut \/ Ages
    BY <1>1, <1>3 DEF Sockets, Connected, Refused, PeerClosed, Disconnected, Reacts,
       ReadGreeting, GreetingTimedOut, AwaitGreeting, Ages, timing, link
  <1>4. CASE ReconnectFires
    BY <1>1, <1>4 DEF ReconnectFires
  <1>5. CASE Guest \/ BridgeHangsUp \/ BridgeFails \/ BridgeStarts \/ QemuExits
    BY <1>1, <1>5 DEF Guest, FarConnects, BridgeAccepts, BridgeDropsStale, BridgeHangsUp,
       BridgeFails, BridgeStarts, QemuExits, HostFrame, timing
  <1>6. CASE UNCHANGED vars
    BY <1>1, <1>6 DEF vars, timing
  <1> QED BY <1>2, <1>3, <1>4, <1>5, <1>6 DEF Next

(* The safety half of EndsQuietly, for every reconnect budget: an ended    *)
(* streamer dials at most once more.                                       *)
THEOREM EndedDialsNoMore == Spec => DiesOut
PROOF
  <1>1. LinkInv /\ [Next]_vars =>
          [ended # "no" =>
             /\ timers <= 1 /\ timers' <= timers
             /\ socket = "unconnected" /\ socket' # "unconnected" => timers' < timers]_vars
    BY EndedStep
  <1> QED BY <1>1, LinkInvAlways, PTL DEF Spec, DiesOut
=============================================================================
