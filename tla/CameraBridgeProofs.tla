-------------------------- MODULE CameraBridgeProofs --------------------------
(***************************************************************************)
(* The frame queue of the guest's camera bridge, proved for any capacity   *)
(* and any number of browsers and frames: it stays bounded, keeps the      *)
(* frames in their order, and never loses the newest one to an older.      *)
(*                                                                         *)
(* Three calls of queue.Queue make one offer, and the encoder may take     *)
(* between any two of them: Offering says what is known at each.           *)
(***************************************************************************)
EXTENDS CameraBridge, SequenceTheorems, TLAPS

(* The queue holds frames in their order, of those received and not yet    *)
(* taken; the one being offered is newer than all.                         *)
Inside == net \in {"put", "drop", "again"}
Ordered ==
  /\ queue \in Seq(Nat) /\ Len(queue) <= Size /\ frame \in Nat /\ taken \in Nat
  /\ \A i \in 1..Len(queue) : taken < queue[i] /\ queue[i] <= frame
  /\ \A i, j \in 1..Len(queue) : i < j => queue[i] < queue[j]
  /\ taken <= frame

Offering ==
  /\ Inside => taken < frame /\ \A i \in 1..Len(queue) : queue[i] < frame
  /\ net = "again" => Len(queue) < Size
  /\ ~Inside /\ frame > taken => Len(queue) > 0 /\ queue[Len(queue)] = frame

QueueInv == Ordered /\ Offering

-----------------------------------------------------------------------------
(* The operations of a queue on one that is in order.                      *)

(* A newer frame is put at its end.                                        *)
LEMMA PutKeepsOrder ==
  ASSUME Ordered, Inside, Offering, Len(queue) < Size, queue' = Append(queue, frame),
         UNCHANGED <<frame, taken>>
  PROVE  Ordered' /\ Len(queue') > 0 /\ queue'[Len(queue')] = frame
  BY SizeAssumption DEF Ordered, Offering

(* The oldest frame is dropped.                                            *)
LEMMA DropKeepsOrder ==
  ASSUME Ordered, queue # <<>>, queue' = Tail(queue), UNCHANGED <<frame, taken>>
  PROVE  /\ Ordered' /\ Len(queue') = Len(queue) - 1
         /\ \A i \in 1..Len(queue') : i + 1 \in 1..Len(queue) /\ queue'[i] = queue[i + 1]
  BY SizeAssumption DEF Ordered

(* The oldest frame is taken.                                              *)
LEMMA TakeKeepsOrder ==
  ASSUME Ordered, queue # <<>>, queue' = Tail(queue), taken' = Head(queue), UNCHANGED frame
  PROVE  /\ Ordered' /\ Len(queue') = Len(queue) - 1
         /\ \A i \in 1..Len(queue') : i + 1 \in 1..Len(queue) /\ queue'[i] = queue[i + 1]
  BY SizeAssumption DEF Ordered

-----------------------------------------------------------------------------
(* Every step keeps the queue in order and the offer's promise.            *)
LEMMA QueueStays == QueueInv /\ [Next]_vars => QueueInv'
PROOF
  <1> SUFFICES ASSUME QueueInv, [Next]_vars PROVE QueueInv'
    OBVIOUS
  <1> USE DEF QueueInv, Inside, network, encoder, shared, process
  <1>1. CASE Put
    <2>1. UNCHANGED <<frame, taken>> /\ net = "put"
      BY <1>1 DEF Put, NetworkFrame
    <2>2. CASE Len(queue) < Size /\ queue' = Append(queue, frame) /\ net' = "publish"
      BY <2>1, <2>2, PutKeepsOrder DEF Offering
    <2>3. CASE Len(queue) = Size /\ net' = "drop" /\ UNCHANGED queue
      BY <2>1, <2>3 DEF Ordered, Offering
    <2> QED
      BY <1>1, <2>2, <2>3 DEF Put
  <1>2. CASE DropOldest
    <2>1. UNCHANGED <<frame, taken>> /\ net = "drop" /\ net' = "again"
      BY <1>2 DEF DropOldest, NetworkFrame
    <2>2. CASE queue = <<>> /\ queue' = queue
      BY <2>1, <2>2, SizeAssumption DEF Ordered, Offering
    <2>3. CASE queue # <<>> /\ queue' = Tail(queue)
      <3>1. /\ Ordered' /\ Len(queue') = Len(queue) - 1
            /\ \A i \in 1..Len(queue') : i + 1 \in 1..Len(queue) /\ queue'[i] = queue[i + 1]
        BY <2>1, <2>3, DropKeepsOrder
      <3>2. Len(queue') < Size
        BY <3>1, SizeAssumption DEF Ordered
      <3>3. \A i \in 1..Len(queue) : queue[i] < frame
        BY <2>1 DEF Offering
      <3>4. \A i \in 1..Len(queue') : queue'[i] < frame
        BY <3>1, <3>3
      <3> QED
        BY <2>1, <3>1, <3>2, <3>4 DEF Offering, Ordered
    <2> QED
      BY <1>2, <2>2, <2>3 DEF DropOldest
  <1>3. CASE PutAgain
    <2>1. UNCHANGED <<frame, taken>> /\ net = "again" /\ net' = "publish" /\ Len(queue) < Size
      BY <1>3 DEF PutAgain, NetworkFrame, Offering
    <2>2. queue' = Append(queue, frame)
      BY <1>3, <2>1 DEF PutAgain
    <2> QED
      BY <2>1, <2>2, PutKeepsOrder DEF Offering
  <1>4. CASE TakeFrame
    <2>1. /\ queue # <<>> /\ queue' = Tail(queue) /\ taken' = Head(queue)
          /\ UNCHANGED <<net, frame>>
      BY <1>4 DEF TakeFrame, EncoderFrame
    <2>2. /\ Ordered' /\ Len(queue') = Len(queue) - 1
          /\ \A i \in 1..Len(queue') : i + 1 \in 1..Len(queue) /\ queue'[i] = queue[i + 1]
      BY <2>1, TakeKeepsOrder
    <2>3. taken' = queue[1] /\ Len(queue) > 0
      BY <2>1 DEF Ordered
    <2>4. Inside => taken' < frame /\ \A i \in 1..Len(queue') : queue'[i] < frame
      <3>1. ASSUME Inside PROVE \A i \in 1..Len(queue) : queue[i] < frame
        BY <3>1 DEF Offering
      <3>2. 1 \in 1..Len(queue)
        BY <2>3 DEF Ordered
      <3> QED
        BY <2>2, <2>3, <3>1, <3>2
    <2>5. net = "again" => Len(queue') < Size
      BY <2>2, SizeAssumption DEF Ordered, Offering
    <2>6. ~Inside /\ frame > taken' => Len(queue') > 0 /\ queue'[Len(queue')] = frame
      <3>1. SUFFICES ASSUME ~Inside, frame > taken'
                     PROVE  Len(queue') > 0 /\ queue'[Len(queue')] = frame
        OBVIOUS
      <3>2. frame > taken /\ queue[Len(queue)] = frame
        BY <2>1, <2>3, <3>1 DEF Ordered, Offering
      <3>3. Len(queue) # 1
        BY <2>3, <3>1, <3>2 DEF Ordered
      <3> QED
        BY <2>2, <2>3, <3>2, <3>3 DEF Ordered
    <2> QED
      BY <2>1, <2>2, <2>4, <2>5, <2>6 DEF Offering
  <1>5. CASE Receive
    BY <1>5 DEF Receive, NetworkFrame, Ordered, Offering
  <1>6. CASE Close
    BY <1>6 DEF Close, NetworkFrame, Ordered, Offering
  <1>7. CASE OpenListener
    BY <1>7 DEF OpenListener, NetworkFrame, Ordered, Offering
  <1>8. CASE PublishFrame
    BY <1>8 DEF PublishFrame, NetworkFrame, Ordered, Offering
  <1>9. CASE AnnounceFrame
    BY <1>9 DEF AnnounceFrame, NetworkFrame, Ordered, Offering
  <1>10. CASE Restart
    BY <1>10 DEF Restart, EncoderFrame, Ordered, Offering
  <1>11. CASE TakePattern
    BY <1>11 DEF TakePattern, EncoderFrame, Ordered, Offering
  <1>12. CASE GetsNothing
    BY <1>12 DEF GetsNothing, EncoderFrame, Ordered, Offering
  <1>13. CASE WriteFails
    BY <1>13 DEF WriteFails, EncoderFrame, Ordered, Offering
  <1>14. CASE AnnouncePattern
    BY <1>14 DEF AnnouncePattern, EncoderFrame, Ordered, Offering
  <1>15. CASE Write
    BY <1>15 DEF Write, EncoderFrame, Ordered, Offering
  <1>16. CASE HostQuiet
    BY <1>16 DEF HostQuiet, World, Ordered, Offering
  <1>17. CASE FfmpegExits
    BY <1>17 DEF FfmpegExits, World, Ordered, Offering
  <1>18. CASE Preview
    BY <1>18 DEF Preview, Browse, Stream, Woken, Take, Send, ClientFrame, Ordered, Offering
  <1>19. CASE UNCHANGED vars
    BY <1>19 DEF vars, Ordered, Offering
  <1> QED
    BY <1>1, <1>2, <1>3, <1>4, <1>5, <1>6, <1>7, <1>8, <1>9, <1>10, <1>11, <1>12,
       <1>13, <1>14, <1>15, <1>16, <1>17, <1>18, <1>19
       DEF Next, Network, Offer, EncodeButWrite

(* In every behaviour the queue is in order and bounded.                   *)
LEMMA QueueInvHolds == Spec => []QueueInv
PROOF
  <1>1. Init => QueueInv
    BY SizeAssumption DEF Init, QueueInv, Ordered, Offering, Inside
  <1> QED
    BY <1>1, QueueStays, PTL DEF Spec

-----------------------------------------------------------------------------
(* The newest frame is never the one dropped, and the encoder gets the     *)
(* frames in their order, for any capacity of the queue.                   *)
THEOREM QueueAlwaysKeepsNewest == Spec => []QueueKeepsNewest
PROOF
  <1>1. QueueInv => QueueKeepsNewest
    BY DEF QueueInv, Ordered, Offering, Inside, QueueKeepsNewest
  <1> QED
    BY <1>1, QueueInvHolds, PTL

-----------------------------------------------------------------------------
(* A frame in offer is one of the frames sent.                             *)
TypeInv == TypeOK /\ (Inside => frame \in Frames)

(* Every step keeps the types.                                             *)
LEMMA TypeStays == TypeInv /\ [Next]_vars => TypeInv'
PROOF
  <1> SUFFICES ASSUME TypeInv, [Next]_vars PROVE TypeInv'
    OBVIOUS
  <1> USE DEF TypeInv, TypeOK, Inside, Frames, Nothing, Pattern, network, encoder, shared, process
  <1>1. CASE Close
    BY <1>1 DEF Close, NetworkFrame
  <1>2. CASE OpenListener
    BY <1>2 DEF OpenListener, NetworkFrame
  <1>3. CASE Receive
    BY <1>3, BoundsAssumption DEF Receive, NetworkFrame
  <1>4. CASE Put
    <2>1. queue' \in Seq(Frames) /\ Len(queue') <= Size
      <3>1. CASE Len(queue) < Size /\ queue' = Append(queue, frame)
        <4>1. net = "put" /\ frame \in Frames
          BY <1>4 DEF Put
        <4> QED
          BY <3>1, <4>1, AppendProperties, SizeAssumption
      <3>2. CASE UNCHANGED queue
        BY <3>2
      <3> QED
        BY <1>4, <3>1, <3>2 DEF Put
    <2> QED
      BY <1>4, <2>1 DEF Put, NetworkFrame
  <1>5. CASE DropOldest
    <2>1. queue' \in Seq(Frames) /\ Len(queue') <= Size
      <3>1. CASE UNCHANGED queue
        BY <3>1
      <3>2. CASE queue # <<>> /\ queue' = Tail(queue)
        BY <3>2, HeadTailProperties, SizeAssumption
      <3> QED
        BY <1>5, <3>1, <3>2 DEF DropOldest
    <2> QED
      BY <1>5, <2>1 DEF DropOldest, NetworkFrame
  <1>6. CASE PutAgain
    <2>1. net = "again" /\ frame \in Frames
      BY <1>6 DEF PutAgain
    <2>2. queue' \in Seq(Frames) /\ Len(queue') <= Size
      <3>1. CASE UNCHANGED queue
        BY <3>1
      <3>2. CASE Len(queue) < Size /\ queue' = Append(queue, frame)
        BY <2>1, <3>2, AppendProperties, SizeAssumption
      <3> QED
        BY <1>6, <3>1, <3>2 DEF PutAgain
    <2> QED
      BY <1>6, <2>2 DEF PutAgain, NetworkFrame
  <1>7. CASE PublishFrame
    BY <1>7, BoundsAssumption DEF PublishFrame, NetworkFrame, SetData
  <1>8. CASE AnnounceFrame
    BY <1>8 DEF AnnounceFrame, NetworkFrame, Announce
  <1>9. CASE Restart
    BY <1>9 DEF Restart, EncoderFrame, Continue
  <1>10. CASE TakeFrame
    <2>1. /\ queue' \in Seq(Frames) /\ Len(queue') <= Size
          /\ item' \in Frames /\ taken' \in Frames
      <3>1. queue # <<>> /\ queue' = Tail(queue) /\ item' = Head(queue) /\ taken' = Head(queue)
        BY <1>10 DEF TakeFrame
      <3>2. queue \in Seq(Frames) /\ Len(queue) <= Size
        OBVIOUS
      <3>3. /\ Head(queue) \in Frames /\ Tail(queue) \in Seq(Frames)
            /\ Len(Tail(queue)) = Len(queue) - 1
        BY <3>1, <3>2, HeadTailProperties
      <3>4. Len(Tail(queue)) <= Size
        BY <3>2, <3>3, SizeAssumption
      <3> QED
        BY <3>1, <3>3, <3>4
    <2>2. item' \in 0..MaxFrames /\ taken' \in 0..MaxFrames
      BY <2>1, BoundsAssumption
    <2> QED
      BY <1>10, <2>1, <2>2 DEF TakeFrame, EncoderFrame
  <1>11. CASE TakePattern
    BY <1>11, BoundsAssumption DEF TakePattern, EncoderFrame, Continue
  <1>12. CASE GetsNothing
    BY <1>12 DEF GetsNothing, EncoderFrame
  <1>13. CASE Write
    <2>1. latest' \in 0..Nothing /\ arrived' = arrived
      BY <1>13, BoundsAssumption DEF Write, SetData
    <2>2. unseen' \in BOOLEAN
      BY <1>13, Zenon DEF Write, SetData
    <2>3. enc' \in {"announce", "done", "get"}
      BY <1>13 DEF Write, Continue
    <2> QED
      BY <1>13, <2>1, <2>2, <2>3 DEF Write, EncoderFrame
  <1>14. CASE WriteFails
    BY <1>14 DEF WriteFails, EncoderFrame
  <1>15. CASE AnnouncePattern
    BY <1>15 DEF AnnouncePattern, EncoderFrame, Continue, Announce
  <1>16. CASE HostQuiet
    BY <1>16 DEF HostQuiet, World
  <1>17. CASE FfmpegExits
    BY <1>17, BoundsAssumption DEF FfmpegExits, World
  <1>18. CASE Preview
    <2>1. PICK c \in Clients : Browse(c) \/ Stream(c)
      BY <1>18 DEF Preview
    <2>2. UNCHANGED <<network, queue, encoder, process, still, busy, latest>>
      BY <2>1 DEF Browse, Stream, Woken, Take, Send, ClientFrame
    <2>3. arrived' \in BOOLEAN
      <3>1. arrived' = arrived \/ arrived' = FALSE
        BY <2>1 DEF Browse, Stream, Woken, Take, Send
      <3> QED
        BY <3>1, Zenon
    <2>4. unseen' \in BOOLEAN
      <3>1. unseen' = unseen \/ unseen' = FALSE
        BY <2>1 DEF Browse, Stream, Woken, Take, Send
      <3> QED
        BY <3>1, Zenon
    <2>5. client' \in [Clients -> {"away", "wait", "clear", "look", "send"}]
      BY <2>1 DEF Browse, Stream, Woken, Take, Send, Step
    <2> QED
      BY <2>2, <2>3, <2>4, <2>5
  <1>19. CASE UNCHANGED vars
    BY <1>19 DEF vars
  <1> QED
    BY <1>1, <1>2, <1>3, <1>4, <1>5, <1>6, <1>7, <1>8, <1>9, <1>10, <1>11, <1>12,
       <1>13, <1>14, <1>15, <1>16, <1>17, <1>18, <1>19
       DEF Next, Network, Offer, EncodeButWrite

(* No counter, no frame and no length of the queue leaves its range.       *)
THEOREM TypeCorrect == Spec => []TypeOK
PROOF
  <1>1. Init => TypeInv
    <2> SUFFICES ASSUME Init PROVE TypeInv
      OBVIOUS
    <2>1. queue \in Seq(Frames) /\ Len(queue) <= Size
      BY SizeAssumption DEF Init
    <2>2. latest \in 0..Nothing /\ frame \in 0..MaxFrames /\ taken \in 0..MaxFrames
          /\ item \in 0..MaxFrames /\ exits \in 0..MaxExits
      BY BoundsAssumption DEF Init, Nothing, Pattern
    <2>3. still \in BOOLEAN /\ arrived \in BOOLEAN /\ unseen \in BOOLEAN /\ busy \in BOOLEAN
      BY Zenon DEF Init
    <2> QED
      BY <2>1, <2>2, <2>3 DEF Init, TypeInv, TypeOK, Inside
  <1>2. TypeInv => TypeOK
    BY DEF TypeInv
  <1> QED
    BY <1>1, <1>2, TypeStays, PTL DEF Spec

-----------------------------------------------------------------------------
(* Somebody has still to set the event that the streams wait for, or to    *)
(* look at the picture.                                                    *)
Ringing == arrived \/ net = "announce" \/ enc = "announce"
Looking == \E c \in Clients : client[c] = "look"

(* A picture that no stream has looked at is one whose event is set or     *)
(* about to be, or that a stream which cleared the event is about to look  *)
(* at: between Latest.publish's two writes and Latest.take's clearing and  *)
(* look, no order of any number of threads loses a wake-up.                *)
WakeKept == unseen => Ringing \/ Looking

ClientTyped == client \in [Clients -> {"away", "wait", "clear", "look", "send"}]

(* A browser's step: clearing the event is followed by the look, and a     *)
(* look leaves nothing unseen.                                             *)
LEMMA StreamWakes ==
  ASSUME ClientTyped, WakeKept, NEW c \in Clients, Browse(c) \/ Stream(c)
  PROVE  ClientTyped' /\ WakeKept'
PROOF
  <1> USE DEF ClientTyped, WakeKept, Ringing, Looking, Step
  <1>1. UNCHANGED <<net, enc>>
    BY DEF Browse, Stream, Woken, Take, Send, ClientFrame, network, encoder
  <1>2. ClientTyped'
    BY DEF Browse, Stream, Woken, Take, Send
  <1>3. CASE Step(c, "clear", "look")
    BY <1>1, <1>3
  <1>4. CASE Take(c) /\ ~Step(c, "clear", "look")
    BY <1>4 DEF Take
  <1>5. CASE Browse(c) \/ Woken(c) \/ Send(c)
    <2>1. UNCHANGED shared /\ client[c] # "look"
      BY <1>5 DEF Browse, Woken, Send
    <2>2. Looking => Looking'
      BY <1>5, <2>1 DEF Browse, Woken, Send
    <2>3. (unseen' <=> unseen) /\ (Ringing' <=> Ringing)
      BY <1>1, <2>1 DEF shared
    <2> HIDE DEF Ringing, Looking
    <2> QED
      BY <1>2, <2>2, <2>3
  <1> QED
    BY <1>2, <1>3, <1>4, <1>5 DEF Stream

LEMMA WakeStays == ClientTyped /\ WakeKept /\ [Next]_vars => (ClientTyped /\ WakeKept)'
PROOF
  <1> SUFFICES ASSUME ClientTyped, WakeKept, [Next]_vars PROVE (ClientTyped /\ WakeKept)'
    OBVIOUS
  <1> USE DEF ClientTyped, WakeKept, Ringing, Looking, network, encoder, shared, process
  <1>1. CASE Write
    BY <1>1 DEF Write, EncoderFrame, SetData
  <1>2. CASE AnnouncePattern
    BY <1>2 DEF AnnouncePattern, EncoderFrame, Announce
  <1>3. CASE PublishFrame
    BY <1>3 DEF PublishFrame, NetworkFrame, SetData
  <1>4. CASE AnnounceFrame
    BY <1>4 DEF AnnounceFrame, NetworkFrame, Announce
  <1>5. CASE Close \/ OpenListener \/ Receive \/ Put \/ DropOldest \/ PutAgain
    BY <1>5 DEF Close, OpenListener, Receive, Put, DropOldest, PutAgain, NetworkFrame
  <1>6. CASE Restart \/ TakeFrame \/ TakePattern \/ GetsNothing \/ WriteFails
    BY <1>6 DEF Restart, TakeFrame, TakePattern, GetsNothing, WriteFails, EncoderFrame
  <1>7. CASE HostQuiet \/ FfmpegExits
    BY <1>7 DEF HostQuiet, FfmpegExits, World
  <1>8. CASE Preview
    BY <1>8, StreamWakes DEF Preview
  <1>9. CASE UNCHANGED vars
    BY <1>9 DEF vars
  <1> QED
    BY <1>1, <1>2, <1>3, <1>4, <1>5, <1>6, <1>7, <1>8, <1>9
       DEF Next, Network, Offer, EncodeButWrite

(* The safety half of PreviewWakes: what is left to fairness is only that  *)
(* the one who is known to act does.                                       *)
THEOREM NoWakeUpLost == Spec => []WakeKept
PROOF
  <1>1. Init => ClientTyped /\ WakeKept
    BY DEF Init, ClientTyped, WakeKept, Ringing, Looking
  <1> QED
    BY <1>1, WakeStays, PTL DEF Spec
=============================================================================
