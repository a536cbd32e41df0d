---------------------------- MODULE CameraBridge ----------------------------
(***************************************************************************)
(* The guest's side of the camera, guest/camera-bridge.py, beyond the      *)
(* greeting that CameraLink models.  Three kinds of threads share it:      *)
(*   the network thread serves one host at a time and offers each frame to *)
(*     a bounded queue (serve_camera, serve_connection, FrameQueue.offer), *)
(*   the encoder thread takes frames, or the test pattern when the host is *)
(*     quiet, to ffmpeg's standard input (Encoder.run),                    *)
(*   a preview thread per browser waits for the newest picture             *)
(*     (PreviewHandler, Latest).                                           *)
(* A step is what no other thread can interrupt: one call of queue.Queue,  *)
(* one critical section of Latest, one operation on its Event.             *)
(***************************************************************************)
EXTENDS Naturals, Sequences

CONSTANTS
  Size,       (* FRAME_QUEUE                                               *)
  Clients,    (* the browsers                                              *)
  MaxFrames,  (* bound: the frames the hosts send, numbered from 1         *)
  MaxExits    (* bound: how often ffmpeg exits by itself                   *)

ASSUME SizeAssumption == Size \in Nat \ {0}
ASSUME BoundsAssumption == MaxFrames \in Nat /\ MaxExits \in Nat

VARIABLES
  net,       (* the network thread: "open", "serve", then the    *)
             (* frame's "put", "drop", "again", "publish", "announce"; or  *)
             (* "closed", the main thread past serve_camera                *)
  frame,     (* the newest frame received                                  *)
  queue,     (* FrameQueue                                                 *)
  latest,    (* Latest.data: a frame, Pattern, or Nothing                  *)
  arrived,   (* Latest.arrived                                             *)
  enc,       (* the encoder thread: "restart", "get", "write", "announce", *)
             (* "done", or "dead" of an exception                          *)
  item,      (* what the encoder writes: a frame or Pattern                *)
  taken,     (* the last frame the encoder took                            *)
  ffmpeg,    (* "none", "running" or "exited"                              *)
  exits,     (* how often it has exited by itself                          *)
  still,     (* the pattern's file could be made                           *)
  busy,      (* less than IDLE_FALLBACK since the encoder's last frame     *)
  client,    (* each browser: "away", "wait", "clear", "look", "send"      *)
  (* History, read by no action:                                           *)
  unseen     (* a picture was published that no stream has looked at       *)

network == <<net, frame>>
shared  == <<latest, arrived, unseen>>
encoder == <<enc, item, taken>>
process == <<ffmpeg, exits>>
vars    == <<network, queue, shared, encoder, process, still, busy, client>>

Pattern == 0
Nothing == MaxFrames + 1
Frames  == 1..MaxFrames

TypeOK ==
  /\ net \in {"open", "serve", "put", "drop", "again", "publish", "announce", "closed"}
  /\ frame \in 0..MaxFrames /\ taken \in 0..MaxFrames
  /\ queue \in Seq(Frames) /\ Len(queue) <= Size
  /\ latest \in 0..Nothing /\ arrived \in BOOLEAN
  /\ enc \in {"restart", "get", "write", "announce", "done", "dead"}
  /\ item \in 0..MaxFrames
  /\ ffmpeg \in {"none", "running", "exited"} /\ exits \in 0..MaxExits
  /\ still \in BOOLEAN
  /\ busy \in BOOLEAN /\ unseen \in BOOLEAN
  /\ client \in [Clients -> {"away", "wait", "clear", "look", "send"}]

(* main, with capture_test_pattern: the guest has run for longer than      *)
(* IDLE_FALLBACK, so that the encoder starts idle.                         *)
Init ==
  /\ net = "open" /\ frame = 0 /\ queue = <<>>
  /\ still \in BOOLEAN
  /\ latest = (IF still THEN Pattern ELSE Nothing)
  /\ arrived = still /\ unseen = still
  /\ enc = "restart" /\ item = Pattern /\ taken = 0
  /\ ffmpeg = "none" /\ exits = 0
  /\ busy = FALSE
  /\ client = [c \in Clients |-> "away"]

-----------------------------------------------------------------------------
(* Latest.publish: the picture, and then the event.                        *)

SetData(picture) == latest' = picture /\ unseen' = TRUE /\ UNCHANGED arrived
Announce         == arrived' = TRUE /\ UNCHANGED <<latest, unseen>>

Streaming(c) == client[c] # "away"

-----------------------------------------------------------------------------
(* The network thread.                                                     *)

NetworkFrame == UNCHANGED <<encoder, still, busy, client>>

(* A port that is taken ends the bridge; so does Control-C.                *)
Close ==
  /\ net \in {"open", "serve"}
  /\ net' = "closed"
  /\ ffmpeg' = (IF ffmpeg = "running" THEN "exited" ELSE ffmpeg)
  /\ UNCHANGED <<frame, queue, shared, exits>> /\ NetworkFrame

OpenListener ==
  /\ net = "open"
  /\ net' = "serve"
  /\ UNCHANGED <<frame, queue, shared, process>> /\ NetworkFrame

(* What one recv returns is taken for a frame of the host being served;    *)
(* CameraLink has what happens between the hosts.                          *)
Receive ==
  /\ net = "serve" /\ frame < MaxFrames
  /\ frame' = frame + 1
  /\ net' = "put"
  /\ UNCHANGED <<queue, shared, process>> /\ NetworkFrame

(* Faulty variants, named for the fault, stand before what they replace.   *)
PutWaits ==
  /\ net = "put" /\ Len(queue) < Size
  /\ queue' = Append(queue, frame) /\ net' = "publish"
  /\ UNCHANGED <<frame, shared, process>> /\ NetworkFrame

PutUnbounded ==
  /\ net = "put"
  /\ queue' = Append(queue, frame) /\ net' = "publish"
  /\ UNCHANGED <<frame, shared, process>> /\ NetworkFrame

PutOrGiveUp ==
  /\ net = "put"
  /\ queue' = (IF Len(queue) < Size THEN Append(queue, frame) ELSE queue)
  /\ net' = "publish"
  /\ UNCHANGED <<frame, shared, process>> /\ NetworkFrame

Put ==
  /\ net = "put"
  /\ \/ /\ Len(queue) < Size
        /\ queue' = Append(queue, frame) /\ net' = "publish"
     \/ /\ Len(queue) = Size
        /\ net' = "drop" /\ UNCHANGED queue
  /\ UNCHANGED <<frame, shared, process>> /\ NetworkFrame

(* The encoder may have emptied the queue meanwhile.                       *)
DropOldest ==
  /\ net = "drop"
  /\ queue' = (IF queue = <<>> THEN queue ELSE Tail(queue))
  /\ net' = "again"
  /\ UNCHANGED <<frame, shared, process>> /\ NetworkFrame

PutAgain ==
  /\ net = "again"
  /\ queue' = (IF Len(queue) < Size THEN Append(queue, frame) ELSE queue)
  /\ net' = "publish"
  /\ UNCHANGED <<frame, shared, process>> /\ NetworkFrame

PublishFrame ==
  /\ net = "publish"
  /\ SetData(frame)
  /\ net' = "announce"
  /\ UNCHANGED <<frame, queue, process>> /\ NetworkFrame

AnnounceFrame ==
  /\ net = "announce"
  /\ Announce
  /\ net' = "serve"
  /\ UNCHANGED <<frame, queue, process>> /\ NetworkFrame

-----------------------------------------------------------------------------
(* The encoder thread.                                                     *)

EncoderFrame == UNCHANGED <<network, still, client>>

Continue == enc' = IF net = "closed" THEN "done" ELSE "get"

(* restart kills what is left of the old process; the new one may not      *)
(* start, and then nobody drains the queue any more.                       *)
Restart ==
  /\ enc = "restart"
  /\ \/ ffmpeg' = "running" /\ Continue
     \/ ffmpeg' = "none" /\ enc' = "dead"
  /\ UNCHANGED <<item, taken, exits, queue, shared, busy>> /\ EncoderFrame

TakeFrame ==
  /\ enc = "get" /\ queue # <<>>
  /\ queue' = Tail(queue)
  /\ item' = Head(queue) /\ taken' = Head(queue)
  /\ busy' = TRUE
  /\ enc' = "write"
  /\ UNCHANGED <<shared, process>> /\ EncoderFrame

(* The 0.2 seconds ran out with the pattern due: TEST_PATTERN_INTERVAL is  *)
(* as short as the reader of the camera likes.                             *)
TakePattern ==
  /\ enc = "get" /\ queue = <<>> /\ ~busy
  /\ \/ still /\ item' = Pattern /\ enc' = "write"
     \/ ~still /\ Continue /\ UNCHANGED item
  /\ UNCHANGED <<taken, busy, queue, shared, process>> /\ EncoderFrame

GetsNothing ==
  /\ enc = "get" /\ queue = <<>> /\ busy /\ net = "closed"
  /\ enc' = "done"
  /\ UNCHANGED <<item, taken, busy, queue, shared, process>> /\ EncoderFrame

Write ==
  /\ enc = "write" /\ ffmpeg = "running"
  /\ IF item = Pattern
     THEN SetData(Pattern) /\ enc' = "announce"
     ELSE Continue /\ UNCHANGED shared
  /\ UNCHANGED <<item, taken, busy, queue, process>> /\ EncoderFrame

FailsAgain ==
  /\ enc = "write" /\ ffmpeg # "running"
  /\ Continue
  /\ UNCHANGED <<item, taken, busy, queue, shared, process>> /\ EncoderFrame

(* The frame is lost with the process that was to encode it.               *)
WriteFails ==
  /\ enc = "write" /\ ffmpeg # "running"
  /\ enc' = "restart"
  /\ UNCHANGED <<item, taken, busy, queue, shared, process>> /\ EncoderFrame

AnnouncePattern ==
  /\ enc = "announce"
  /\ Announce
  /\ Continue
  /\ UNCHANGED <<item, taken, busy, queue, process>> /\ EncoderFrame

-----------------------------------------------------------------------------
(* A browser's thread.                                                     *)

Step(c, from, to) == client[c] = from /\ client' = [client EXCEPT ![c] = to]
ClientFrame == UNCHANGED <<network, queue, encoder, process, still, busy>>

(* /stream; /, /snapshot.jpg and any other path are answered once, and     *)
(* change nothing.                                                         *)
Browse(c) ==
  /\ Step(c, "away", "wait")
  /\ UNCHANGED shared /\ ClientFrame

(* take, whose time running out changes nothing.  Whoever waited when the  *)
(* event was set wakes, even if another thread has cleared it since.       *)
Woken(c) ==
  /\ arrived /\ Step(c, "wait", "clear")
  /\ UNCHANGED shared /\ ClientFrame

TakeLooksFirst(c) ==
  /\ \/ Step(c, "clear", "look") /\ unseen' = FALSE /\ UNCHANGED arrived
     \/ Step(c, "look", "send") /\ arrived' = FALSE /\ UNCHANGED unseen
  /\ UNCHANGED latest /\ ClientFrame

Take(c) ==
  /\ \/ Step(c, "clear", "look") /\ arrived' = FALSE /\ UNCHANGED unseen
     \/ Step(c, "look", "send") /\ unseen' = FALSE /\ UNCHANGED arrived
  /\ UNCHANGED latest /\ ClientFrame

(* Only a frame that is written tells that the browser is gone.            *)
Send(c) ==
  /\ \/ Step(c, "send", "wait")
     \/ Step(c, "send", "away")
  /\ UNCHANGED shared /\ ClientFrame

-----------------------------------------------------------------------------
(* The clock and ffmpeg.                                                   *)

World == UNCHANGED <<network, queue, shared, encoder, still, client>>

HostQuiet ==
  /\ busy /\ busy' = FALSE
  /\ UNCHANGED process /\ World

FfmpegExits ==
  /\ ffmpeg = "running" /\ exits < MaxExits
  /\ ffmpeg' = "exited" /\ exits' = exits + 1
  /\ UNCHANGED busy /\ World

-----------------------------------------------------------------------------

Offer   == Put \/ DropOldest \/ PutAgain \/ PublishFrame \/ AnnounceFrame
Network == Close \/ OpenListener \/ Receive \/ Offer
EncodeButWrite == Restart \/ TakeFrame \/ TakePattern \/ GetsNothing \/ WriteFails
                    \/ AnnouncePattern
Stream(c) == Woken(c) \/ Take(c) \/ Send(c)
Preview == \E c \in Clients : Browse(c) \/ Stream(c)

Next == Network \/ EncodeButWrite \/ Write \/ Preview \/ HostQuiet \/ FfmpegExits

Spec == Init /\ [][Next]_vars

(* The threads run when they can, clocks go on, and a browser reads or     *)
(* goes.  Hosts and ffmpeg's exits are as they like, and a camera that no  *)
(* application reads may keep a write waiting for ever.                    *)
FairSpec ==
  /\ Spec
  /\ WF_vars(Offer) /\ WF_vars(EncodeButWrite) /\ WF_vars(HostQuiet)
  /\ \A c \in Clients : WF_vars(Stream(c))

-----------------------------------------------------------------------------
(* What must hold.                                                         *)

(* The queue keeps the frames in their order, and the newest frame offered *)
(* is never the one dropped, whatever the encoder takes between the three  *)
(* calls of FrameQueue.offer ("drops the oldest frame, not the newest").   *)
QueueKeepsNewest ==
  /\ \A i \in 1..Len(queue) : queue[i] > (IF i = 1 THEN taken ELSE queue[i - 1])
  /\ net \notin {"put", "drop", "again"} /\ frame > taken
        => queue # <<>> /\ queue[Len(queue)] = frame

(* The network thread is through with every frame, though the encoder be   *)
(* stalled or dead (Encoder: neither would "take the host link down").     *)
NetworkNeverWaits == net = "put" ~> net \in {"serve", "closed"}

(* A published picture is looked at by a stream, if there is one: the      *)
(* event that the streams share is not lost between its clearing and the   *)
(* look (Latest.take, Latest.publish).                                     *)
PreviewWakes == unseen ~> (~unseen \/ \A c \in Clients : ~Streaming(c))

(* Once the hosts are quiet and the camera is read, the test pattern       *)
(* returns to the preview, however often ffmpeg has exited (Encoder.run).  *)
PatternReturns ==
  (still /\ WF_vars(Write))
     => <>[](latest = Pattern \/ enc = "dead" \/ net = "closed")
=============================================================================
