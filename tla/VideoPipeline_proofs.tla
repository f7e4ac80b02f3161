------------------------- MODULE VideoPipeline_proofs -------------------------
(***************************************************************************)
(* Proofs about VideoPipeline, for any capacity of the channel and any     *)
(* number of packets and suspensions: what the decoder is fed never spans  *)
(* a suspension, and has no gap within an era.  The first argument is      *)
(* about eras.  A packet in flight was read in the current era or before;  *)
(* a codec without a pending suspension was fed its keyframe in the        *)
(* current era.  The second is about the line from the codec through the   *)
(* channel to the reader: each live packet in it follows the live one      *)
(* before it, and a packet is discarded only while none of its era is in   *)
(* the line.                                                               *)
(***************************************************************************)
EXTENDS VideoPipeline, TLAPS

USE DEF hubVars, anchorVars, ReaderGoto, DecoderKeeps

-----------------------------------------------------------------------------
(* Types.                                                                  *)

\* The packets the tasks make, and the empty ones, are packets.
LEMMA PacketType ==
    ASSUME NEW kind \in Kinds, NEW n \in Nat, NEW live \in BOOLEAN, NEW when \in Nat
    PROVE  Packet(kind, n, live, when) \in Packets
BY DEF Packet, Packets

\* What the tasks hold when they hold nothing.
LEMMA EmptyTypes ==
    /\ NoPacket \in Packets /\ NoCodec \in Codecs
    /\ \A label \in {"read", "stopped"} : Reader(label) \in Readers
    /\ \A label \in {"wait", "take", "stopped"} : Watcher(label) \in Watchers
<1>1. NoPacket \in Packets /\ NoCodec \in Codecs
  BY DEF NoPacket, Packet, Packets, Kinds, NoCodec, Codec, Codecs
<1>2. \A label \in {"read", "stopped"} : Reader(label) \in Readers
  BY <1>1 DEF Reader, Readers
<1>3. \A label \in {"wait", "take", "stopped"} : Watcher(label) \in Watchers
  BY DEF Watcher, Watchers
<1> QED
  BY <1>1, <1>2, <1>3

\* A codec that is fed a packet.
LEMMA FedType ==
    ASSUME NEW codec \in Codecs, NEW packet \in Packets, era \in Nat
    PROVE  Fed(codec, packet) \in Codecs
BY DEF Fed, Codec, Codecs, Packets

\* The decoder at another stage.
LEMMA DecoderType ==
    ASSUME decoder \in Decoders, NEW codec \in Codecs, NEW awaiting \in BOOLEAN
    PROVE  /\ \A label \in {"observe", "epoch", "decode", "check", "publish", "stopped"} :
                  GoOn(label, codec, awaiting) => decoder' \in Decoders
           /\ NextPacket(codec, awaiting) => decoder' \in Decoders
<1>1. NoPacket \in Packets
  BY EmptyTypes
<1> QED
  BY <1>1 DEF GoOn, NextPacket, Decoders

\* A packet sent on a channel that has room.
LEMMA SendType ==
    ASSUME queue \in Seq(Packets), Capacity \in Nat, Room, NEW packet \in Packets,
           Send(packet)
    PROVE  queue' \in Seq(Packets) /\ Len(queue') <= Capacity
BY DEF Room, Send

\* The channel at its end.
LEMMA ReceiveType ==
    ASSUME queue \in Seq(Packets), queue # <<>>
    PROVE  /\ Head(queue) \in Packets
           /\ Tail(queue) \in Seq(Packets) /\ Len(Tail(queue)) <= Len(queue)
OBVIOUS

\* Init has the types.
LEMMA TypeInit == Init => TypeOK
<1> SUFFICES ASSUME Init PROVE TypeOK
    OBVIOUS
<1>1. reader \in Readers
  BY EmptyTypes DEF Init, Readers
<1>2. watcher \in Watchers
  BY DEF Init, Watchers
<1>3. decoder \in Decoders
  BY EmptyTypes DEF Init, Decoders
<1>4. queue \in Seq(Packets) /\ Len(queue) <= Capacity
  BY BoundsAssumption DEF Init
<1> QED
  BY <1>1, <1>2, <1>3, <1>4 DEF Init, TypeOK

\* Every step keeps the types, the bound of the channel among them.
LEMMA TypeStep == TypeOK /\ [Next]_vars => TypeOK'
<1> SUFFICES ASSUME TypeOK, [Next]_vars PROVE TypeOK'
    OBVIOUS
<1>a. /\ reader \in Readers /\ watcher \in Watchers /\ decoder \in Decoders
      /\ queue \in Seq(Packets) /\ Len(queue) <= Capacity
      /\ era \in Nat /\ count \in Nat /\ Capacity \in Nat
      /\ lastKeyframe \in Nat /\ resumeKeyframe \in Nat
  BY BoundsAssumption DEF TypeOK
<1>b. /\ reader.packet \in Packets /\ reader.anchor \in Nat /\ reader.wants \in BOOLEAN
      /\ watcher.anchor \in Nat /\ watcher.wants \in BOOLEAN
      /\ decoder.packet \in Packets /\ decoder.codec \in Codecs
      /\ decoder.awaiting \in BOOLEAN /\ decoder.packet.n \in Nat
  BY <1>a DEF Readers, Watchers, Decoders, Packets
<1>1. CASE Hub
  <2>1. CASE WantByLease
    BY <2>1 DEF WantByLease, TypeOK
  <2>2. CASE WantByScript
    BY <2>2 DEF WantByScript, TypeOK
  <2>3. CASE Unwant
    BY <2>3 DEF Unwant, TypeOK
  <2>4. CASE Suspend
    BY <2>4 DEF Suspend, TypeOK
  <2>5. CASE Shutdown
    BY <2>5 DEF Shutdown, TypeOK
  <2> QED
    BY <1>1, <2>1, <2>2, <2>3, <2>4, <2>5 DEF Hub
<1>2. CASE ReadPacket
  <2>1. CASE ReadSession
    <3>1. count' \in Nat
      BY <2>1, <1>a DEF ReadSession
    <3>2. Packet("session", count', TRUE, era) \in Packets
      BY <2>1, <1>a, <3>1, PacketType DEF ReadSession, Kinds
    <3>3. reader' \in Readers
      BY <2>1, <1>a, <3>2 DEF ReadSession, Readers
    <3> QED
      BY <2>1, <3>1, <3>2, <3>3 DEF ReadSession, TypeOK
  <2>2. CASE ReadKeyframe
    <3>1. count' \in Nat
      BY <2>2, <1>a DEF ReadKeyframe
    <3>2. Packet("keyframe", count', TRUE, era) \in Packets
      BY <2>2, <1>a, <3>1, PacketType DEF ReadKeyframe, Kinds
    <3>3. reader' \in Readers
      BY <2>2, <1>a, <3>2 DEF ReadKeyframe, Readers
    <3> QED
      BY <2>2, <3>1, <3>2, <3>3 DEF ReadKeyframe, TypeOK
  <2>3. CASE ReadDelta
    <3>1. count' \in Nat
      BY <2>3, <1>a DEF ReadDelta
    <3>2. Packet("delta", count', TRUE, era) \in Packets
      BY <2>3, <1>a, <3>1, PacketType DEF ReadDelta, Kinds
    <3>3. reader' \in Readers
      BY <2>3, <1>a, <3>2 DEF ReadDelta, Readers
    <3> QED
      BY <2>3, <3>1, <3>2, <3>3 DEF ReadDelta, TypeOK
  <2> QED
    BY <1>2, <2>1, <2>2, <2>3 DEF ReadPacket
<1>3. CASE StreamEnds
  BY <1>3, EmptyTypes DEF StreamEnds, ReaderEnds, TypeOK
<1>4. CASE ReaderStep
  <2>1. CASE LoadDemand
    <3>1. reader' \in Readers
      BY <2>1, <1>a DEF LoadDemand, Readers, Demand
    <3> QED
      BY <2>1, <3>1 DEF LoadDemand, TypeOK
  <2>2. CASE Discard
    <3>1. reader' \in Readers
      BY <2>2, <1>a, EmptyTypes DEF Discard, NextRead
    <3> QED
      BY <2>2, <3>1 DEF Discard, TypeOK
  <2>3. CASE SwapDemand
    <3>1. reader.wants \in BOOLEAN
      BY <2>3, <1>b DEF SwapDemand
    <3>2. reader' \in Readers
      BY <2>3, <1>a DEF SwapDemand, Readers
    <3> QED
      BY <2>3, <3>1, <3>2 DEF SwapDemand, TypeOK
  <2>4. CASE TakeKeyframe
    <3>1. reader' \in Readers
      BY <2>4, <1>a DEF TakeKeyframe, Readers
    <3> QED
      BY <2>4, <3>1 DEF TakeKeyframe, TypeOK
  <2>5. CASE TakeNoKeyframe
    <3>1. reader' \in Readers
      BY <2>5, <1>a DEF TakeNoKeyframe, Readers
    <3> QED
      BY <2>5, <3>1 DEF TakeNoKeyframe, TypeOK
  <2>6. CASE Replay
    <3>1. reader' \in Readers
      BY <2>6, <1>a DEF Replay, Readers
    <3>2. Packet("keyframe", reader.anchor, FALSE, era) \in Packets
      BY <2>6, <1>a, <1>b, PacketType DEF Replay, Kinds
    <3>3. queue' \in Seq(Packets) /\ Len(queue') <= Capacity
      BY <2>6, <1>a, <3>2, SendType DEF Replay
    <3> QED
      BY <2>6, <3>1, <3>2, <3>3 DEF Replay, TypeOK
  <2>7. CASE SendPacket
    <3>1. reader' \in Readers
      BY <2>7, <1>a, EmptyTypes DEF SendPacket, NextRead
    <3>2. queue' \in Seq(Packets) /\ Len(queue') <= Capacity
      BY <2>7, <1>a, <1>b, SendType DEF SendPacket
    <3> QED
      BY <2>7, <3>1, <3>2 DEF SendPacket, TypeOK
  <2>8. CASE SendFails
    <3>1. reader' \in Readers
      BY <2>8, EmptyTypes DEF SendFails, ReaderEnds
    <3> QED
      BY <2>8, <3>1 DEF SendFails, TypeOK, ReaderEnds
  <2> QED
    BY <1>4, <2>1, <2>2, <2>3, <2>4, <2>5, <2>6, <2>7, <2>8 DEF ReaderStep
<1>5. CASE WatcherStep
  <2>1. CASE Wake
    <3>1. watcher' \in Watchers
      BY <2>1, <1>a DEF Wake, Watchers, Demand
    <3> QED
      BY <2>1, <3>1 DEF Wake, TypeOK
  <2>2. CASE StopWatching
    <3>1. watcher' \in Watchers
      BY <2>2, EmptyTypes DEF StopWatching
    <3> QED
      BY <2>2, <3>1 DEF StopWatching, TypeOK
  <2>3. CASE WatcherSwap
    <3>1. watcher.wants \in BOOLEAN
      BY <2>3, <1>b DEF WatcherSwap
    <3>2. watcher' \in Watchers
      BY <2>3, EmptyTypes DEF WatcherSwap
    <3> QED
      BY <2>3, <3>1, <3>2 DEF WatcherSwap, TypeOK
  <2>4. CASE TakeAnchor
    <3>1. watcher' \in Watchers
      BY <2>4, <1>a DEF TakeAnchor, Watchers
    <3> QED
      BY <2>4, <3>1 DEF TakeAnchor, TypeOK
  <2>5. CASE SendAnchor
    <3>1. watcher' \in Watchers
      BY <2>5, EmptyTypes DEF SendAnchor
    <3>2. Packet("keyframe", watcher.anchor, FALSE, era) \in Packets
      BY <2>5, <1>a, <1>b, PacketType DEF SendAnchor, Kinds
    <3>3. queue' \in Seq(Packets) /\ Len(queue') <= Capacity
      BY <2>5, <1>a, <3>2, SendType DEF SendAnchor
    <3> QED
      BY <2>5, <3>1, <3>2, <3>3 DEF SendAnchor, TypeOK
  <2>6. CASE SendAnchorFails
    <3>1. watcher' \in Watchers
      BY <2>6, EmptyTypes DEF SendAnchorFails
    <3> QED
      BY <2>6, <3>1 DEF SendAnchorFails, TypeOK
  <2> QED
    BY <1>5, <2>1, <2>2, <2>3, <2>4, <2>5, <2>6 DEF WatcherStep
<1>6. CASE DecoderStep
  <2>1. CASE ReceiveSession
    <3>1. Head(queue) \in Packets /\ Head(queue).n \in Nat
      BY <2>1, <1>a, ReceiveType DEF ReceiveSession, Packets
    <3>2. decoder' \in Decoders
      BY <2>1, <1>a, <3>1, EmptyTypes DEF ReceiveSession, Decoders
    <3>3. queue' \in Seq(Packets) /\ Len(queue') <= Capacity
      BY <2>1, <1>a, ReceiveType DEF ReceiveSession
    <3> QED
      BY <2>1, <3>1, <3>2, <3>3 DEF ReceiveSession, TypeOK
  <2>2. CASE ReceiveMedia
    <3>1. decoder' \in Decoders
      BY <2>2, <1>a, ReceiveType DEF ReceiveMedia, Decoders
    <3>2. queue' \in Seq(Packets) /\ Len(queue') <= Capacity
      BY <2>2, <1>a, ReceiveType DEF ReceiveMedia
    <3> QED
      BY <2>2, <3>1, <3>2 DEF ReceiveMedia, TypeOK
  <2>3. CASE ChannelCloses
    <3>1. decoder' \in Decoders
      BY <2>3, <1>a DEF ChannelCloses, Decoders
    <3> QED
      BY <2>3, <3>1 DEF ChannelCloses, TypeOK
  <2>4. CASE IsWanted
    <3>1. decoder' \in Decoders
      BY <2>4, <1>a, <1>b, DecoderType DEF IsWanted
    <3> QED
      BY <2>4, <3>1 DEF IsWanted, TypeOK
  <2>5. CASE IsUnwanted
    <3>1. decoder' \in Decoders
      BY <2>5, <1>a, <1>b, DecoderType, EmptyTypes DEF IsUnwanted
    <3> QED
      BY <2>5, <3>1 DEF IsUnwanted, TypeOK
  <2>6. CASE Observe
    <3>1. decoder' \in Decoders
      BY <2>6, <1>a, <1>b, DecoderType DEF Observe
    <3> QED
      BY <2>6, <3>1 DEF Observe, TypeOK
  <2>7. CASE SameEpoch
    <3>1. decoder' \in Decoders
      BY <2>7, <1>a, <1>b, DecoderType DEF SameEpoch, Filter
    <3> QED
      BY <2>7, <3>1 DEF SameEpoch, TypeOK
  <2>8. CASE NewEpoch
    <3>1. decoder' \in Decoders
      BY <2>8, <1>a, <1>b, DecoderType, EmptyTypes DEF NewEpoch, Filter
    <3> QED
      BY <2>8, <3>1 DEF NewEpoch, TypeOK
  <2>9. CASE DecodeFrame
    <3>1. decoder' \in Decoders
      BY <2>9, <1>a, <1>b, DecoderType, FedType DEF DecodeFrame
    <3> QED
      BY <2>9, <3>1 DEF DecodeFrame, TypeOK
  <2>10. CASE DecodeNothing
    <3>1. decoder' \in Decoders
      BY <2>10, <1>a, <1>b, DecoderType, FedType DEF DecodeNothing
    <3> QED
      BY <2>10, <3>1 DEF DecodeNothing, TypeOK
  <2>11. CASE DecodeError
    <3>1. decoder' \in Decoders
      BY <2>11, <1>a, <1>b, DecoderType, EmptyTypes DEF DecodeError
    <3> QED
      BY <2>11, <3>1 DEF DecodeError, TypeOK
  <2>12. CASE DecoderInitError
    <3>1. decoder' \in Decoders
      BY <2>12, <1>a, DecoderType, EmptyTypes DEF DecoderInitError
    <3>2. queue' \in Seq(Packets) /\ Len(queue') <= Capacity
      BY <2>12, <1>a DEF DecoderInitError
    <3> QED
      BY <2>12, <3>1, <3>2 DEF DecoderInitError, TypeOK
  <2>13. CASE StillWanted
    <3>1. decoder' \in Decoders
      BY <2>13, <1>a, <1>b, DecoderType DEF StillWanted
    <3> QED
      BY <2>13, <3>1 DEF StillWanted, TypeOK
  <2>14. CASE DropFrame
    <3>1. decoder' \in Decoders
      BY <2>14, <1>a, <1>b, DecoderType DEF DropFrame
    <3> QED
      BY <2>14, <3>1 DEF DropFrame, TypeOK
  <2>15. CASE Publish
    <3>1. decoder' \in Decoders
      BY <2>15, <1>a, <1>b, DecoderType DEF Publish
    <3> QED
      BY <2>15, <3>1, <1>b DEF Publish, TypeOK
  <2> QED
    BY <1>6, <2>1, <2>2, <2>3, <2>4, <2>5, <2>6, <2>7, <2>8, <2>9, <2>10, <2>11, <2>12, <2>13, <2>14, <2>15 DEF DecoderStep
<1>7. CASE UNCHANGED vars
  BY <1>7 DEF vars, TypeOK
<1> QED
  BY <1>1, <1>2, <1>3, <1>4, <1>5, <1>6, <1>7 DEF Next

-----------------------------------------------------------------------------
(* The packets in flight.                                                  *)

\* What a packet in flight is at a time: a media packet has a number, and was read
\* before that time.
Flies(packet, now) ==
    /\ packet.kind # "session" => packet.n # 0
    /\ packet.era <= now

FlightInv ==
    /\ \A i \in 1..Len(queue) : Flies(queue[i], era)
    /\ Flies(reader.packet, era)
    /\ Flies(decoder.packet, era)
    /\ reader.pc = "replay" => reader.anchor # 0
    /\ watcher.pc = "send" => watcher.anchor # 0

\* A packet still flies in a later era, and the empty one always does.
LEMMA FliesOn ==
    /\ \A packet \in Packets : Flies(packet, era) /\ era \in Nat
                                   => Flies(packet, era + 1)
    /\ \A now \in Nat : Flies(NoPacket, now)
BY DEF Flies, Packets, NoPacket, Packet

\* What is sent on the channel flies, so all of the channel does.
LEMMA SendFlies ==
    ASSUME queue \in Seq(Packets), NEW packet \in Packets, Send(packet),
           era' = era, Flies(packet, era),
           \A i \in 1..Len(queue) : Flies(queue[i], era)
    PROVE  \A i \in 1..Len(queue') : Flies(queue'[i], era')
<1> SUFFICES ASSUME NEW i \in 1..Len(queue') PROVE Flies(queue'[i], era)
    OBVIOUS
<1>1. queue' = Append(queue, packet) /\ Len(queue') = Len(queue) + 1
  BY DEF Send
<1>2. CASE i = Len(queue) + 1
  BY <1>1, <1>2
<1>3. CASE i # Len(queue) + 1
  <2>1. i \in 1..Len(queue) /\ queue'[i] = queue[i]
    BY <1>1, <1>3
  <2> QED
    BY <2>1
<1> QED
  BY <1>2, <1>3

\* A packet that is received flew in the channel, and so does the rest of it.
LEMMA ReceiveFlies ==
    ASSUME queue \in Seq(Packets), queue # <<>>, queue' = Tail(queue), era' = era,
           \A i \in 1..Len(queue) : Flies(queue[i], era)
    PROVE  /\ Flies(Head(queue), era)
           /\ \A i \in 1..Len(queue') : Flies(queue'[i], era')
<1>1. Head(queue) = queue[1] /\ 1 \in 1..Len(queue)
  OBVIOUS
<1>2. \A i \in 1..Len(queue') : i + 1 \in 1..Len(queue) /\ queue'[i] = queue[i + 1]
  OBVIOUS
<1> QED
  BY <1>1, <1>2

\* Initially nothing is in flight.
LEMMA FlightInit == Init => FlightInv
<1> SUFFICES ASSUME Init PROVE FlightInv
    OBVIOUS
<1>1. Flies(NoPacket, 0)
  BY FliesOn
<1> QED
  BY <1>1 DEF Init, FlightInv

\* Every step keeps the packets in flight: the reader numbers from one, and stamps
\* a packet with the era in which it is read or replayed.
LEMMA FlightStep == TypeOK /\ FlightInv /\ [Next]_vars => FlightInv'
<1> SUFFICES ASSUME TypeOK, FlightInv, [Next]_vars PROVE FlightInv'
    OBVIOUS
<1>a. /\ reader \in Readers /\ watcher \in Watchers /\ decoder \in Decoders
      /\ queue \in Seq(Packets) /\ era \in Nat /\ count \in Nat
  BY DEF TypeOK
<1>b. /\ reader.packet \in Packets /\ decoder.packet \in Packets
      /\ reader.anchor \in Nat /\ watcher.anchor \in Nat
      /\ lastKeyframe \in Nat /\ resumeKeyframe \in Nat
  BY <1>a DEF Readers, Watchers, Decoders, TypeOK
<1>f. /\ \A i \in 1..Len(queue) : Flies(queue[i], era)
      /\ Flies(reader.packet, era) /\ Flies(decoder.packet, era)
      /\ Flies(NoPacket, era)
  BY <1>a, FliesOn DEF FlightInv
<1>1. CASE Hub
  <2>1. CASE WantByLease
    BY <2>1 DEF WantByLease, FlightInv
  <2>2. CASE WantByScript
    BY <2>2 DEF WantByScript, FlightInv
  <2>3. CASE Unwant
    BY <2>3 DEF Unwant, FlightInv
  <2>4. CASE Shutdown
    BY <2>4 DEF Shutdown, FlightInv
  <2>5. CASE Suspend
    <3>1. \A k \in 1..Len(queue) : queue[k] \in Packets
      BY <1>a
    <3>2. \A k \in 1..Len(queue) : Flies(queue[k], era + 1)
      BY <3>1, <1>a, <1>f, FliesOn
    <3>3. Flies(reader.packet, era + 1) /\ Flies(decoder.packet, era + 1)
      BY <1>a, <1>b, <1>f, FliesOn
    <3> QED
      BY <2>5, <3>2, <3>3 DEF Suspend, FlightInv
  <2> QED
    BY <1>1, <2>1, <2>2, <2>3, <2>4, <2>5 DEF Hub
<1>2. CASE ReadPacket
  <2>1. CASE ReadSession
    <3>1. Flies(Packet("session", count + 1, TRUE, era), era)
      BY <1>a DEF Flies, Packet
    <3>2. reader'.packet = Packet("session", count + 1, TRUE, era) /\ reader'.pc = "demand"
      BY <2>1, <1>a DEF ReadSession, Readers
    <3> QED
      BY <2>1, <3>1, <3>2, <1>f DEF ReadSession, FlightInv
  <2>2. CASE ReadKeyframe
    <3>1. Flies(Packet("keyframe", count + 1, TRUE, era), era)
      BY <1>a DEF Flies, Packet
    <3>2. reader'.packet = Packet("keyframe", count + 1, TRUE, era) /\ reader'.pc = "demand"
      BY <2>2, <1>a DEF ReadKeyframe, Readers
    <3> QED
      BY <2>2, <3>1, <3>2, <1>f DEF ReadKeyframe, FlightInv
  <2>3. CASE ReadDelta
    <3>1. Flies(Packet("delta", count + 1, TRUE, era), era)
      BY <1>a DEF Flies, Packet
    <3>2. reader'.packet = Packet("delta", count + 1, TRUE, era) /\ reader'.pc = "demand"
      BY <2>3, <1>a DEF ReadDelta, Readers
    <3> QED
      BY <2>3, <3>1, <3>2, <1>f DEF ReadDelta, FlightInv
  <2> QED
    BY <1>2, <2>1, <2>2, <2>3 DEF ReadPacket
<1>3. CASE StreamEnds
  BY <1>3, <1>f DEF StreamEnds, ReaderEnds, Reader, FlightInv
<1>4. CASE ReaderStep
  <2>1. CASE LoadDemand
    <3>1. reader'.packet = reader.packet /\ reader'.pc = "swap"
      BY <2>1, <1>a DEF LoadDemand, Readers
    <3> QED
      BY <2>1, <3>1, <1>f DEF LoadDemand, FlightInv
  <2>2. CASE Discard
    BY <2>2, <1>f DEF Discard, NextRead, Reader, FlightInv
  <2>3. CASE SwapDemand
    <3>1. reader'.packet = reader.packet /\ reader'.pc # "replay"
      BY <2>3, <1>a DEF SwapDemand, Readers
    <3> QED
      BY <2>3, <3>1, <1>f DEF SwapDemand, FlightInv
  <2>4. CASE TakeKeyframe
    <3>1. reader'.packet = reader.packet /\ reader'.anchor # 0
      BY <2>4, <1>a DEF TakeKeyframe, Readers
    <3> QED
      BY <2>4, <3>1, <1>f DEF TakeKeyframe, FlightInv
  <2>5. CASE TakeNoKeyframe
    <3>1. reader'.packet = reader.packet /\ reader'.pc = "send"
      BY <2>5, <1>a DEF TakeNoKeyframe, Readers
    <3> QED
      BY <2>5, <3>1, <1>f DEF TakeNoKeyframe, FlightInv
  <2>6. CASE Replay
    <3>a. reader.anchor # 0 /\ reader.anchor \in Nat
      BY <2>6, <1>b DEF Replay, FlightInv
    <3>b. Flies(Packet("keyframe", reader.anchor, FALSE, era), era)
      BY <3>a, <1>a DEF Flies, Packet
    <3>1. Packet("keyframe", reader.anchor, FALSE, era) \in Packets
      BY <3>a, <1>a, PacketType DEF Kinds
    <3>2. \A k \in 1..Len(queue') : Flies(queue'[k], era')
      BY <2>6, <3>b, <3>1, <1>a, <1>f, SendFlies DEF Replay
    <3>3. reader'.pc = "send" /\ reader'.packet = reader.packet
      BY <2>6, <1>a DEF Replay, Readers
    <3> QED
      BY <2>6, <3>2, <3>3, <1>f DEF Replay, FlightInv
  <2>7. CASE SendPacket
    <3>1. \A k \in 1..Len(queue') : Flies(queue'[k], era')
      BY <2>7, <1>a, <1>b, <1>f, SendFlies DEF SendPacket
    <3> QED
      BY <2>7, <3>1, <1>f DEF SendPacket, NextRead, Reader, FlightInv
  <2>8. CASE SendFails
    BY <2>8, <1>f DEF SendFails, ReaderEnds, Reader, FlightInv
  <2> QED
    BY <1>4, <2>1, <2>2, <2>3, <2>4, <2>5, <2>6, <2>7, <2>8 DEF ReaderStep
<1>5. CASE WatcherStep
  <2>1. CASE Wake
    <3>1. watcher'.pc = "send" => watcher'.anchor # 0
      BY <2>1, <1>a DEF Wake, Watchers
    <3> QED
      BY <2>1, <3>1, <1>f DEF Wake, FlightInv
  <2>2. CASE StopWatching
    BY <2>2, <1>f DEF StopWatching, Watcher, FlightInv
  <2>3. CASE WatcherSwap
    BY <2>3, <1>f DEF WatcherSwap, Watcher, FlightInv
  <2>4. CASE TakeAnchor
    <3>1. watcher'.pc = "send" => watcher'.anchor # 0
      BY <2>4, <1>a DEF TakeAnchor, Watchers
    <3> QED
      BY <2>4, <3>1, <1>f DEF TakeAnchor, FlightInv
  <2>5. CASE SendAnchor
    <3>a. watcher.anchor # 0 /\ watcher.anchor \in Nat
      BY <2>5, <1>b DEF SendAnchor, FlightInv
    <3>b. Flies(Packet("keyframe", watcher.anchor, FALSE, era), era)
      BY <3>a, <1>a DEF Flies, Packet
    <3>1. Packet("keyframe", watcher.anchor, FALSE, era) \in Packets
      BY <3>a, <1>a, PacketType DEF Kinds
    <3>2. \A k \in 1..Len(queue') : Flies(queue'[k], era')
      BY <2>5, <3>b, <3>1, <1>a, <1>f, SendFlies DEF SendAnchor
    <3> QED
      BY <2>5, <3>2, <1>f DEF SendAnchor, Watcher, FlightInv
  <2>6. CASE SendAnchorFails
    BY <2>6, <1>f DEF SendAnchorFails, Watcher, FlightInv
  <2> QED
    BY <1>5, <2>1, <2>2, <2>3, <2>4, <2>5, <2>6 DEF WatcherStep
<1>6. CASE DecoderStep
  <2>1. CASE ReceiveSession
    <3>1. /\ Flies(Head(queue), era)
          /\ \A k \in 1..Len(queue') : Flies(queue'[k], era')
      BY <2>1, <1>a, <1>f, ReceiveFlies DEF ReceiveSession
    <3>2. decoder'.packet = decoder.packet
      BY <2>1, <1>a DEF ReceiveSession, Decoders
    <3> QED
      BY <2>1, <3>1, <3>2, <1>f DEF ReceiveSession, FlightInv
  <2>2. CASE ReceiveMedia
    <3>1. /\ Flies(Head(queue), era)
          /\ \A k \in 1..Len(queue') : Flies(queue'[k], era')
      BY <2>2, <1>a, <1>f, ReceiveFlies DEF ReceiveMedia
    <3>2. decoder'.packet = Head(queue)
      BY <2>2, <1>a DEF ReceiveMedia, Decoders
    <3> QED
      BY <2>2, <3>1, <3>2, <1>f DEF ReceiveMedia, FlightInv
  <2>3. CASE ChannelCloses
    <3>1. decoder'.packet \in {decoder.packet, NoPacket}
      BY <2>3, <1>a DEF ChannelCloses, Decoders
    <3> QED
      BY <2>3, <3>1, <1>f DEF ChannelCloses, FlightInv
  <2>4. CASE IsWanted
    <3>1. decoder'.packet \in {decoder.packet, NoPacket}
      BY <2>4, <1>a DEF IsWanted, GoOn, Decoders
    <3> QED
      BY <2>4, <3>1, <1>f DEF IsWanted, FlightInv
  <2>5. CASE IsUnwanted
    <3>1. decoder'.packet \in {decoder.packet, NoPacket}
      BY <2>5, <1>a DEF IsUnwanted, GoOn, Decoders
    <3> QED
      BY <2>5, <3>1, <1>f DEF IsUnwanted, FlightInv
  <2>6. CASE Observe
    <3>1. decoder'.packet \in {decoder.packet, NoPacket}
      BY <2>6, <1>a DEF Observe, NextPacket, Decoders
    <3> QED
      BY <2>6, <3>1, <1>f DEF Observe, FlightInv
  <2>7. CASE SameEpoch
    <3>1. decoder'.packet \in {decoder.packet, NoPacket}
      BY <2>7, <1>a DEF SameEpoch, Filter, NextPacket, GoOn, Decoders
    <3> QED
      BY <2>7, <3>1, <1>f DEF SameEpoch, FlightInv
  <2>8. CASE NewEpoch
    <3>1. decoder'.packet \in {decoder.packet, NoPacket}
      BY <2>8, <1>a DEF NewEpoch, Filter, NextPacket, GoOn, Decoders
    <3> QED
      BY <2>8, <3>1, <1>f DEF NewEpoch, FlightInv
  <2>9. CASE DecodeFrame
    <3>1. decoder'.packet \in {decoder.packet, NoPacket}
      BY <2>9, <1>a DEF DecodeFrame, GoOn, Decoders
    <3> QED
      BY <2>9, <3>1, <1>f DEF DecodeFrame, FlightInv
  <2>10. CASE DecodeNothing
    <3>1. decoder'.packet \in {decoder.packet, NoPacket}
      BY <2>10, <1>a DEF DecodeNothing, NextPacket, Decoders
    <3> QED
      BY <2>10, <3>1, <1>f DEF DecodeNothing, FlightInv
  <2>11. CASE DecodeError
    <3>1. decoder'.packet \in {decoder.packet, NoPacket}
      BY <2>11, <1>a DEF DecodeError, NextPacket, Decoders
    <3> QED
      BY <2>11, <3>1, <1>f DEF DecodeError, FlightInv
  <2>12. CASE DecoderInitError
    <3>1. decoder'.packet \in {decoder.packet, NoPacket}
      BY <2>12, <1>a DEF DecoderInitError, GoOn, Decoders
    <3> QED
      BY <2>12, <3>1, <1>f DEF DecoderInitError, FlightInv
  <2>13. CASE StillWanted
    <3>1. decoder'.packet \in {decoder.packet, NoPacket}
      BY <2>13, <1>a DEF StillWanted, GoOn, Decoders
    <3> QED
      BY <2>13, <3>1, <1>f DEF StillWanted, FlightInv
  <2>14. CASE DropFrame
    <3>1. decoder'.packet \in {decoder.packet, NoPacket}
      BY <2>14, <1>a DEF DropFrame, NextPacket, Decoders
    <3> QED
      BY <2>14, <3>1, <1>f DEF DropFrame, FlightInv
  <2>15. CASE Publish
    <3>1. decoder'.packet \in {decoder.packet, NoPacket}
      BY <2>15, <1>a DEF Publish, NextPacket, Decoders
    <3> QED
      BY <2>15, <3>1, <1>f DEF Publish, FlightInv
  <2> QED
    BY <1>6, <2>1, <2>2, <2>3, <2>4, <2>5, <2>6, <2>7, <2>8, <2>9, <2>10, <2>11, <2>12, <2>13, <2>14, <2>15 DEF DecoderStep
<1>7. CASE UNCHANGED vars
  BY <1>7 DEF vars, FlightInv
<1> QED
  BY <1>1, <1>2, <1>3, <1>4, <1>5, <1>6, <1>7 DEF Next

-----------------------------------------------------------------------------
(* The codec.                                                              *)

\* A media packet is past the queue.
HasMedia == decoder.pc \in {"demand", "epoch", "decode"}
                => decoder.packet.kind # "session"

\* A decoder without a codec awaits a keyframe, so it never comes to decode a delta.
Awaits ==
    /\ decoder.awaiting \/ decoder.codec # NoCodec
    /\ decoder.pc = "observe" => decoder.codec = NoCodec
    /\ FeedsDelta => ~decoder.awaiting

\* Unless a suspension has moved the epoch the decoder compares, the codec was
\* started in the current era.
FedNow == decoder.codec # NoCodec /\ "suspend" \notin moved => decoder.codec.fed = era

\* The delta to decode was read no later than the codec was started.
ReadBefore == FeedsDelta => decoder.packet.era <= decoder.codec.fed

CodecInv == HasMedia /\ Awaits /\ FedNow /\ ReadBefore

\* A codec that has been fed a numbered packet is one; a keyframe starts it in the
\* current era, and a delta leaves that as it was.
LEMMA FedSome ==
    ASSUME NEW codec \in Codecs, NEW packet \in Packets, packet.n # 0
    PROVE  /\ Fed(codec, packet) # NoCodec
           /\ packet.kind = "keyframe" => Fed(codec, packet).fed = era
           /\ packet.kind # "keyframe" => Fed(codec, packet).fed = codec.fed
<1>1. Fed(codec, packet).last = packet.n /\ NoCodec.last = 0
  BY DEF Fed, Codec, Codecs, NoCodec
<1> QED
  BY <1>1 DEF Fed, Codec, Codecs

\* Initially there is no codec.
LEMMA CodecInit == Init => CodecInv
BY DEF Init, CodecInv, HasMedia, Awaits, FedNow, ReadBefore, FeedsDelta

\* A step of another task leaves the codec alone; if it begins an era, it also
\* moves the epoch.
LEMMA CodecKept ==
    ASSUME CodecInv, decoder' = decoder, moved \subseteq moved',
           era' = era \/ "suspend" \in moved'
    PROVE  CodecInv'
BY DEF CodecInv, HasMedia, Awaits, FedNow, ReadBefore, FeedsDelta

\* Every step of the decoder keeps all this: a delta passes the epoch only if no
\* suspension has moved it, and it was read in the current era or before.
LEMMA CodecDecodes == TypeOK /\ FlightInv /\ CodecInv /\ DecoderStep => CodecInv'
<1> SUFFICES ASSUME TypeOK, FlightInv, CodecInv, DecoderStep PROVE CodecInv'
    OBVIOUS
<1> USE DEF GoOn, NextPacket
<1>a. /\ decoder \in Decoders /\ decoder.packet \in Packets /\ decoder.codec \in Codecs
      /\ queue \in Seq(Packets) /\ era \in Nat
  BY DEF TypeOK, Decoders
<1>b. decoder.packet.kind \in Kinds /\ decoder.packet.era \in Nat
  BY <1>a DEF Packets
<1>f. /\ decoder.packet.kind # "session" => decoder.packet.n # 0
      /\ decoder.packet.era <= era
  BY DEF FlightInv, Flies
<1>1. CASE ReceiveSession
  BY <1>1, <1>a DEF ReceiveSession, Decoders, CodecInv, HasMedia, Awaits, FedNow, ReadBefore, FeedsDelta
<1>2. CASE ReceiveMedia
  BY <1>2, <1>a DEF ReceiveMedia, Decoders, CodecInv, HasMedia, Awaits, FedNow, ReadBefore, FeedsDelta
<1>3. CASE ChannelCloses
  BY <1>3, <1>a DEF ChannelCloses, Decoders, CodecInv, HasMedia, Awaits, FedNow, ReadBefore, FeedsDelta
<1>4. CASE IsWanted
  BY <1>4, <1>a DEF IsWanted, Decoders, CodecInv, HasMedia, Awaits, FedNow, ReadBefore, FeedsDelta
<1>5. CASE IsUnwanted
  BY <1>5, <1>a DEF IsUnwanted, Decoders, CodecInv, HasMedia, Awaits, FedNow, ReadBefore, FeedsDelta
<1>6. CASE Observe
  BY <1>6, <1>a DEF Observe, Decoders, CodecInv, HasMedia, Awaits, FedNow, ReadBefore, FeedsDelta
<1>7. CASE SameEpoch
  BY <1>7, <1>a, <1>b, <1>f DEF SameEpoch, Filter, Decoders, CodecInv, HasMedia, Awaits, FedNow, ReadBefore, FeedsDelta
<1>8. CASE NewEpoch
  BY <1>8, <1>a, <1>b, <1>f DEF NewEpoch, Filter, Decoders, CodecInv, HasMedia, Awaits, FedNow, ReadBefore, FeedsDelta
<1>9. CASE DecodeFrame
  <2> DEFINE codec == Fed(decoder.codec, decoder.packet)
  <2>1. decoder.packet.n # 0
    BY <1>9, <1>f DEF DecodeFrame, CodecInv, HasMedia
  <2>2. /\ decoder'.codec = codec /\ decoder'.pc \in {"check", "recv"}
        /\ era' = era /\ moved' = moved
    BY <1>9, <1>a DEF DecodeFrame, Decoders
  <2>3. codec # NoCodec
    BY <2>1, <1>a, FedSome
  <2>4. "suspend" \notin moved => codec.fed = era
    <3>1. CASE decoder.packet.kind = "keyframe"
      BY <3>1, <2>1, <1>a, FedSome
    <3>2. CASE decoder.packet.kind # "keyframe"
      <4>1. FeedsDelta
        BY <3>2, <1>9, <1>b DEF DecodeFrame, CodecInv, HasMedia, FeedsDelta, Kinds
      <4>2. decoder.codec # NoCodec
        BY <4>1 DEF CodecInv, Awaits
      <4>3. codec.fed = decoder.codec.fed
        BY <3>2, <2>1, <1>a, FedSome
      <4> QED
        BY <4>2, <4>3 DEF CodecInv, FedNow
    <3> QED
      BY <3>1, <3>2
  <2> QED
    BY <2>2, <2>3, <2>4 DEF CodecInv, HasMedia, Awaits, FedNow, ReadBefore, FeedsDelta
<1>10. CASE DecodeNothing
  <2> DEFINE codec == Fed(decoder.codec, decoder.packet)
  <2>1. decoder.packet.n # 0
    BY <1>10, <1>f DEF DecodeNothing, CodecInv, HasMedia
  <2>2. /\ decoder'.codec = codec /\ decoder'.pc \in {"check", "recv"}
        /\ era' = era /\ moved' = moved
    BY <1>10, <1>a DEF DecodeNothing, Decoders
  <2>3. codec # NoCodec
    BY <2>1, <1>a, FedSome
  <2>4. "suspend" \notin moved => codec.fed = era
    <3>1. CASE decoder.packet.kind = "keyframe"
      BY <3>1, <2>1, <1>a, FedSome
    <3>2. CASE decoder.packet.kind # "keyframe"
      <4>1. FeedsDelta
        BY <3>2, <1>10, <1>b DEF DecodeNothing, CodecInv, HasMedia, FeedsDelta, Kinds
      <4>2. decoder.codec # NoCodec
        BY <4>1 DEF CodecInv, Awaits
      <4>3. codec.fed = decoder.codec.fed
        BY <3>2, <2>1, <1>a, FedSome
      <4> QED
        BY <4>2, <4>3 DEF CodecInv, FedNow
    <3> QED
      BY <3>1, <3>2
  <2> QED
    BY <2>2, <2>3, <2>4 DEF CodecInv, HasMedia, Awaits, FedNow, ReadBefore, FeedsDelta
<1>11. CASE DecodeError
  BY <1>11, <1>a DEF DecodeError, Decoders, CodecInv, HasMedia, Awaits, FedNow, ReadBefore, FeedsDelta
<1>12. CASE DecoderInitError
  BY <1>12, <1>a DEF DecoderInitError, Decoders, CodecInv, HasMedia, Awaits, FedNow, ReadBefore, FeedsDelta
<1>13. CASE StillWanted
  BY <1>13, <1>a DEF StillWanted, Decoders, CodecInv, HasMedia, Awaits, FedNow, ReadBefore, FeedsDelta
<1>14. CASE DropFrame
  BY <1>14, <1>a DEF DropFrame, Decoders, CodecInv, HasMedia, Awaits, FedNow, ReadBefore, FeedsDelta
<1>15. CASE Publish
  BY <1>15, <1>a DEF Publish, Decoders, CodecInv, HasMedia, Awaits, FedNow, ReadBefore, FeedsDelta
<1> QED
  BY <1>1, <1>2, <1>3, <1>4, <1>5, <1>6, <1>7, <1>8, <1>9, <1>10, <1>11, <1>12, <1>13, <1>14, <1>15 DEF DecoderStep

\* Every step of the system keeps them.
LEMMA CodecStep == TypeOK /\ FlightInv /\ CodecInv /\ [Next]_vars => CodecInv'
<1> SUFFICES ASSUME TypeOK, FlightInv, CodecInv, [Next]_vars PROVE CodecInv'
    OBVIOUS
<1>1. CASE Hub
  BY <1>1, CodecKept
  DEF Hub, WantByLease, WantByScript, Unwant, Suspend, Shutdown
<1>2. CASE ReadPacket
  BY <1>2, CodecKept DEF ReadPacket, ReadSession, ReadKeyframe, ReadDelta
<1>3. CASE StreamEnds
  BY <1>3, CodecKept DEF StreamEnds, ReaderEnds
<1>4. CASE ReaderStep
  BY <1>4, CodecKept
  DEF ReaderStep, LoadDemand, Discard, SwapDemand, TakeKeyframe, TakeNoKeyframe,
      Replay, SendPacket, SendFails, ReaderEnds
<1>5. CASE WatcherStep
  BY <1>5, CodecKept
  DEF WatcherStep, Wake, StopWatching, WatcherSwap, TakeAnchor, SendAnchor,
      SendAnchorFails
<1>6. CASE DecoderStep
  BY <1>6, CodecDecodes
<1>7. CASE UNCHANGED vars
  BY <1>7, CodecKept DEF vars
<1> QED
  BY <1>1, <1>2, <1>3, <1>4, <1>5, <1>6, <1>7 DEF Next

-----------------------------------------------------------------------------
(* The chain.  The packets past the reader are a line: what the decoder    *)
(* holds, or has fed its codec, and behind it the channel.  The live ones   *)
(* of that line follow one another, and the reader's next one follows the   *)
(* last of them.                                                           *)

\* The decoder has a packet that it has not fed yet.
Holding == decoder.pc \in {"demand", "epoch", "decode"}

\* The end of the chain in the codec, as if the last packet fed were a live one of
\* the era in which the chain began.
ChainEnd ==
    Packet("delta", decoder.codec.last, decoder.codec.live, decoder.codec.era)

\* The head of the line.
Fore == IF Holding THEN decoder.packet ELSE ChainEnd

\* The line behind head: position 0 is head itself.
Line(head, q, i) == IF i = 0 THEN head ELSE q[i]

\* Packet n of era when may come next after the packet: eras do not go back, and
\* within one only a session packet may be followed by any packet.
Follows(packet, n, when) ==
    /\ packet.era <= when
    /\ packet.kind # "session" /\ packet.era = when => n = packet.n + 1

\* No packet of q from the first to the last position is live.
NoneLive(q, first, last) == \A l \in 1..Len(q) : first <= l /\ l <= last => ~q[l].live

\* Each live packet of the line follows the live one before it.
Linked(head, q) ==
    \A i \in 0..Len(q), j \in 1..Len(q) :
        i < j /\ Line(head, q, i).live /\ q[j].live /\ NoneLive(q, i + 1, j - 1)
            => Follows(Line(head, q, i), q[j].n, q[j].era)

\* Packet n of era when may come next after the last live packet of the line.
Extends(head, q, n, when) ==
    \A i \in 0..Len(q) :
        Line(head, q, i).live /\ NoneLive(q, i + 1, Len(q))
            => Follows(Line(head, q, i), n, when)

\* No live media packet of the line is of this era.
Older(head, q, now) ==
    \A i \in 0..Len(q) :
        Line(head, q, i).live /\ Line(head, q, i).kind # "session"
            => Line(head, q, i).era < now

\* The reader has a packet that it has not sent yet.
HasRead == reader.pc \in {"demand", "swap", "take", "replay", "send"}

\* The number and the era of that packet, or of the one it would read now.
NextNumber == IF HasRead THEN reader.packet.n ELSE count + 1
NextEra == IF HasRead THEN reader.packet.era ELSE era

\* The line, and what comes next.
LineInv ==
    /\ Linked(Fore, queue)
    /\ reader.pc # "stopped" => Extends(Fore, queue, NextNumber, NextEra)
    /\ HasRead => reader.packet.live /\ reader.packet.n = count

\* The packet the decoder holds follows what its codec has been fed; a decoder that
\* awaits a keyframe has no chain; only keyframes are replayed.
ChainHeld ==
    /\ Holding /\ decoder.packet.live /\ decoder.codec.live
           => Follows(ChainEnd, decoder.packet.n, decoder.packet.era)
    /\ decoder.awaiting => ~decoder.codec.live
    /\ decoder.codec.era <= era
    /\ Holding => decoder.packet.live \/ decoder.packet.kind = "keyframe"
    /\ \A i \in 1..Len(queue) : queue[i].live \/ queue[i].kind = "keyframe"

\* While nobody wants frames, and still when the reader is about to discard a
\* packet, nothing that was read since the suspension is in the line or on its way
\* into it: so no gap is within an era.
GapInv ==
    /\ state = "suspended" \/ (reader.pc = "swap" /\ ~reader.wants)
           => Older(Fore, queue, era)
    /\ reader.pc \in {"swap", "take", "replay", "send"} /\ reader.packet.kind # "session"
           => /\ state = "suspended" /\ reader.wants => reader.packet.era < era
              /\ reader.pc # "swap" => reader.wants

\* The part of the invariant about the chain.
ChainInv == LineInv /\ ChainHeld /\ GapInv

\* A replayed packet at the end of the line changes nothing for the live ones.
LEMMA AppendReplayed ==
    ASSUME NEW head \in Packets, NEW q \in Seq(Packets), NEW packet \in Packets,
           ~packet.live
    PROVE  /\ Linked(head, q) => Linked(head, Append(q, packet))
           /\ \A n \in Nat, when \in Nat :
                  Extends(head, q, n, when) => Extends(head, Append(q, packet), n, when)
<1> DEFINE longer == Append(q, packet)
<1>1. /\ Len(longer) = Len(q) + 1 /\ Len(q) \in Nat
      /\ \A i \in 1..Len(q) : longer[i] = q[i]
      /\ longer[Len(q) + 1] = packet
  OBVIOUS
<1> HIDE DEF longer
<1>2. ASSUME Linked(head, q) PROVE Linked(head, longer)
  <2> SUFFICES ASSUME NEW i \in 0..Len(longer), NEW j \in 1..Len(longer),
                      i < j, Line(head, longer, i).live, longer[j].live,
                      NoneLive(longer, i + 1, j - 1)
               PROVE  Follows(Line(head, longer, i), longer[j].n, longer[j].era)
    BY DEF Linked
  <2>1. j \in 1..Len(q) /\ i \in 0..Len(q)
    BY <1>1
  <2>2. Line(head, longer, i) = Line(head, q, i) /\ longer[j] = q[j]
    BY <2>1, <1>1 DEF Line
  <2>3. NoneLive(q, i + 1, j - 1)
    BY <1>1 DEF NoneLive
  <2> QED
    BY <2>1, <2>2, <2>3, <1>2 DEF Linked
<1>3. ASSUME NEW n \in Nat, NEW when \in Nat, Extends(head, q, n, when)
      PROVE  Extends(head, longer, n, when)
  <2> SUFFICES ASSUME NEW i \in 0..Len(longer), Line(head, longer, i).live,
                      NoneLive(longer, i + 1, Len(longer))
               PROVE  Follows(Line(head, longer, i), n, when)
    BY DEF Extends
  <2>1. i \in 0..Len(q)
    BY <1>1 DEF Line
  <2>2. Line(head, longer, i) = Line(head, q, i)
    BY <2>1, <1>1 DEF Line
  <2>3. NoneLive(q, i + 1, Len(q))
    BY <1>1 DEF NoneLive
  <2> QED
    BY <2>1, <2>2, <2>3, <1>3 DEF Extends
<1> QED
  BY <1>2, <1>3 DEF longer

\* A live packet that may come next is linked, and is the last live one.
LEMMA AppendRead ==
    ASSUME NEW head \in Packets, NEW q \in Seq(Packets), NEW packet \in Packets,
           packet.live, Linked(head, q), Extends(head, q, packet.n, packet.era)
    PROVE  /\ Linked(head, Append(q, packet))
           /\ \A n \in Nat, when \in Nat :
                  Follows(packet, n, when) => Extends(head, Append(q, packet), n, when)
<1> DEFINE longer == Append(q, packet)
<1>1. /\ Len(longer) = Len(q) + 1 /\ Len(q) \in Nat
      /\ \A i \in 1..Len(q) : longer[i] = q[i]
      /\ longer[Len(q) + 1] = packet
  OBVIOUS
<1> HIDE DEF longer
<1>2. Linked(head, longer)
  <2> SUFFICES ASSUME NEW i \in 0..Len(longer), NEW j \in 1..Len(longer),
                      i < j, Line(head, longer, i).live, longer[j].live,
                      NoneLive(longer, i + 1, j - 1)
               PROVE  Follows(Line(head, longer, i), longer[j].n, longer[j].era)
    BY DEF Linked
  <2>1. i \in 0..Len(q)
    BY <1>1
  <2>2. Line(head, longer, i) = Line(head, q, i)
    BY <2>1, <1>1 DEF Line
  <2>3. CASE j = Len(longer)
    <3>1. NoneLive(q, i + 1, Len(q))
      BY <2>3, <1>1 DEF NoneLive
    <3>2. longer[j] = packet
      BY <2>3, <1>1
    <3> QED
      BY <2>1, <2>2, <3>1, <3>2 DEF Extends
  <2>4. CASE j # Len(longer)
    <3>1. j \in 1..Len(q) /\ longer[j] = q[j]
      BY <2>4, <1>1
    <3>2. NoneLive(q, i + 1, j - 1)
      BY <1>1 DEF NoneLive
    <3> QED
      BY <2>1, <2>2, <3>1, <3>2 DEF Linked
  <2> QED
    BY <2>3, <2>4
<1>3. ASSUME NEW n \in Nat, NEW when \in Nat, Follows(packet, n, when)
      PROVE  Extends(head, longer, n, when)
  <2> SUFFICES ASSUME NEW i \in 0..Len(longer), Line(head, longer, i).live,
                      NoneLive(longer, i + 1, Len(longer))
               PROVE  Follows(Line(head, longer, i), n, when)
    BY DEF Extends
  <2>1. i = Len(longer)
    BY <1>1 DEF NoneLive
  <2>2. Line(head, longer, i) = packet
    BY <2>1, <1>1 DEF Line
  <2> QED
    BY <2>2, <1>3
<1> QED
  BY <1>2, <1>3 DEF longer

\* The line is older than an era if what is appended to it is.
LEMMA AppendOlder ==
    ASSUME NEW head \in Packets, NEW q \in Seq(Packets), NEW packet \in Packets,
           NEW now \in Nat, Older(head, q, now),
           packet.live /\ packet.kind # "session" => packet.era < now
    PROVE  Older(head, Append(q, packet), now)
<1> SUFFICES ASSUME NEW i \in 0..Len(Append(q, packet)),
                    Line(head, Append(q, packet), i).live,
                    Line(head, Append(q, packet), i).kind # "session"
             PROVE  Line(head, Append(q, packet), i).era < now
    BY DEF Older
<1>1. CASE i = Len(q) + 1
  BY <1>1 DEF Line
<1>2. CASE i # Len(q) + 1
  <2>1. i \in 0..Len(q) /\ Line(head, Append(q, packet), i) = Line(head, q, i)
    BY <1>2 DEF Line
  <2> QED
    BY <2>1 DEF Older
<1> QED
  BY <1>1, <1>2

\* When the decoder receives, the line moves up by one.
LEMMA MoveUp ==
    ASSUME NEW head \in Packets, NEW q \in Seq(Packets), q # <<>>
    PROVE  /\ Linked(head, q) => Linked(Head(q), Tail(q))
           /\ \A n \in Nat, when \in Nat :
                  Extends(head, q, n, when) => Extends(Head(q), Tail(q), n, when)
           /\ \A now \in Nat : Older(head, q, now) => Older(Head(q), Tail(q), now)
<1> DEFINE first == Head(q)  rest == Tail(q)
<1>1. /\ Len(rest) + 1 = Len(q) /\ Len(q) \in Nat /\ Len(rest) \in Nat
      /\ \A i \in 1..Len(rest) : rest[i] = q[i + 1]
      /\ first = q[1]
  OBVIOUS
<1> HIDE DEF first, rest
<1>2. \A i \in 0..Len(rest) : /\ i + 1 \in 0..Len(q)
                              /\ Line(first, rest, i) = Line(head, q, i + 1)
  BY <1>1 DEF Line
<1>3. ASSUME NEW i \in Nat, NEW j \in Nat, NoneLive(rest, i, j), i # 0
      PROVE  NoneLive(q, i + 1, j + 1)
  <2> SUFFICES ASSUME NEW l \in 1..Len(q), i + 1 <= l, l <= j + 1
               PROVE  ~q[l].live
    BY DEF NoneLive
  <2>1. l - 1 \in 1..Len(rest) /\ (l - 1) + 1 = l /\ i <= l - 1 /\ l - 1 <= j
    BY <1>1, <1>3
  <2>2. rest[l - 1] = q[l]
    BY <2>1, <1>1
  <2> QED
    BY <2>1, <2>2, <1>3 DEF NoneLive
<1>4. ASSUME Linked(head, q) PROVE Linked(first, rest)
  <2> SUFFICES ASSUME NEW i \in 0..Len(rest), NEW j \in 1..Len(rest),
                      i < j, Line(first, rest, i).live, rest[j].live,
                      NoneLive(rest, i + 1, j - 1)
               PROVE  Follows(Line(first, rest, i), rest[j].n, rest[j].era)
    BY DEF Linked
  <2>1. NoneLive(q, (i + 1) + 1, (j + 1) - 1)
    <3>1. NoneLive(q, (i + 1) + 1, (j - 1) + 1)
      BY <1>3
    <3>2. (j - 1) + 1 = (j + 1) - 1
      OBVIOUS
    <3> QED
      BY <3>1, <3>2
  <2>2. /\ i + 1 \in 0..Len(q) /\ j + 1 \in 1..Len(q) /\ i + 1 < j + 1
        /\ Line(first, rest, i) = Line(head, q, i + 1) /\ rest[j] = q[j + 1]
    BY <1>1, <1>2
  <2> QED
    BY <2>1, <2>2, <1>4 DEF Linked
<1>5. ASSUME NEW n \in Nat, NEW when \in Nat, Extends(head, q, n, when)
      PROVE  Extends(first, rest, n, when)
  <2> SUFFICES ASSUME NEW i \in 0..Len(rest), Line(first, rest, i).live,
                      NoneLive(rest, i + 1, Len(rest))
               PROVE  Follows(Line(first, rest, i), n, when)
    BY DEF Extends
  <2>1. i + 1 \in Nat /\ i + 1 # 0 /\ Len(rest) \in Nat /\ Len(rest) + 1 = Len(q)
    BY <1>1
  <2>2. NoneLive(q, (i + 1) + 1, Len(q))
    BY <2>1, <1>3
  <2> QED
    BY <2>2, <1>1, <1>2, <1>5 DEF Extends
<1>6. ASSUME NEW now \in Nat, Older(head, q, now) PROVE Older(first, rest, now)
  BY <1>2, <1>6 DEF Older
<1> QED
  BY <1>4, <1>5, <1>6 DEF first, rest

\* A head that asks no more of what follows it than another did.
Weaker(less, more) ==
    less.live => /\ more.live
                 /\ \A n \in Nat, when \in Nat :
                        Follows(more, n, when) => Follows(less, n, when)
                 /\ less.kind # "session" => more.kind # "session" /\ less.era <= more.era

\* Such a head can take the place of the other.
LEMMA WeakerHead ==
    ASSUME NEW head \in Packets, NEW less \in Packets, NEW q \in Seq(Packets),
           Weaker(less, head)
    PROVE  /\ Linked(head, q) => Linked(less, q)
           /\ \A n \in Nat, when \in Nat :
                  Extends(head, q, n, when) => Extends(less, q, n, when)
           /\ \A now \in Nat : Older(head, q, now) => Older(less, q, now)
<1>1. \A i \in 1..Len(q) : q[i].n \in Nat /\ q[i].era \in Nat
  <2>1. \A i \in 1..Len(q) : q[i] \in Packets
    OBVIOUS
  <2> QED
    BY <2>1 DEF Packets
<1>2. ASSUME Linked(head, q) PROVE Linked(less, q)
  <2> SUFFICES ASSUME NEW i \in 0..Len(q), NEW j \in 1..Len(q),
                      i < j, Line(less, q, i).live, q[j].live,
                      NoneLive(q, i + 1, j - 1)
               PROVE  Follows(Line(less, q, i), q[j].n, q[j].era)
    BY DEF Linked
  <2>1. CASE i = 0
    BY <2>1, <1>1, <1>2 DEF Linked, Line, Weaker
  <2>2. CASE i # 0
    BY <2>2, <1>2 DEF Linked, Line
  <2> QED
    BY <2>1, <2>2
<1>3. ASSUME NEW n \in Nat, NEW when \in Nat, Extends(head, q, n, when)
      PROVE  Extends(less, q, n, when)
  <2> SUFFICES ASSUME NEW i \in 0..Len(q), Line(less, q, i).live,
                      NoneLive(q, i + 1, Len(q))
               PROVE  Follows(Line(less, q, i), n, when)
    BY DEF Extends
  <2>1. CASE i = 0
    BY <2>1, <1>3 DEF Extends, Line, Weaker
  <2>2. CASE i # 0
    BY <2>2, <1>3 DEF Extends, Line
  <2> QED
    BY <2>1, <2>2
<1>4. ASSUME NEW now \in Nat, Older(head, q, now) PROVE Older(less, q, now)
  <2> SUFFICES ASSUME NEW i \in 0..Len(q), Line(less, q, i).live,
                      Line(less, q, i).kind # "session"
               PROVE  Line(less, q, i).era < now
    BY DEF Older
  <2>1. CASE i = 0
    <3>1. head.era < now
      BY <2>1, <1>4 DEF Older, Line, Weaker
    <3>2. less.era <= head.era /\ less.era \in Nat /\ head.era \in Nat
      BY <2>1 DEF Line, Weaker, Packets
    <3> QED
      BY <2>1, <3>1, <3>2 DEF Line
  <2>2. CASE i # 0
    BY <2>2, <1>4 DEF Older, Line
  <2> QED
    BY <2>1, <2>2
<1> QED
  BY <1>2, <1>3, <1>4

\* The end of the chain and the head of the line are packets.
LEMMA HeadType ==
    ASSUME decoder \in Decoders
    PROVE  /\ ChainEnd \in Packets /\ Fore \in Packets
           /\ decoder.packet \in Packets /\ decoder.codec \in Codecs
<1>1. decoder.packet \in Packets /\ decoder.codec \in Codecs
  BY DEF Decoders
<1>2. ChainEnd \in Packets
  BY <1>1 DEF ChainEnd, Packet, Packets, Codecs, Kinds
<1> QED
  BY <1>1, <1>2 DEF Fore

\* No packet of the line is of a later era than the current one.
LEMMA LineFlies ==
    ASSUME TypeOK, FlightInv, ChainHeld
    PROVE  \A i \in 0..Len(queue) : /\ Line(Fore, queue, i) \in Packets
                                    /\ Line(Fore, queue, i).era <= era
<1>1. Fore \in Packets
  BY HeadType DEF TypeOK
<1>2. Fore.era <= era
  BY DEF Fore, ChainEnd, Packet, FlightInv, Flies, ChainHeld
<1> QED
  BY <1>1, <1>2 DEF Line, TypeOK, FlightInv, Flies

\* After a line that is older than an era, anything of that era may come next.
LEMMA OlderExtends ==
    ASSUME NEW head, NEW q, NEW now \in Nat, Older(head, q, now),
           \A i \in 0..Len(q) : Line(head, q, i) \in Packets /\ Line(head, q, i).era <= now
    PROVE  \A n \in Nat : Extends(head, q, n, now)
<1> SUFFICES ASSUME NEW n \in Nat, NEW i \in 0..Len(q), Line(head, q, i).live
             PROVE  Follows(Line(head, q, i), n, now)
    BY DEF Extends
<1>1. Line(head, q, i).kind # "session" => Line(head, q, i).era < now
  BY DEF Older
<1>2. Line(head, q, i).era \in Nat /\ Line(head, q, i).era <= now
  BY DEF Packets
<1> QED
  BY <1>1, <1>2 DEF Follows

\* Initially the line is empty: the codec that was never fed is not live.
LEMMA ChainInit == Init => ChainInv
<1> SUFFICES ASSUME Init PROVE ChainInv
    OBVIOUS
<1>1. /\ Len(queue) = 0 /\ ~Holding /\ ~HasRead /\ reader.pc = "read"
      /\ decoder.codec = NoCodec /\ era = 0
  BY DEF Init, Holding, HasRead
<1>2. ~Fore.live /\ ~decoder.codec.live /\ decoder.codec.era = 0
  BY <1>1 DEF Fore, ChainEnd, Packet, NoCodec, Codec
<1>3. Linked(Fore, queue)
  BY <1>1 DEF Linked
<1>4. Extends(Fore, queue, NextNumber, NextEra) /\ Older(Fore, queue, era)
  BY <1>1, <1>2 DEF Extends, Older, Line
<1> QED
  BY <1>1, <1>2, <1>3, <1>4 DEF ChainInv, LineInv, ChainHeld, GapInv

\* A step that leaves the channel and the decoder alone leaves the line as it was.
LEMMA SameLine ==
    ASSUME queue' = queue, decoder' = decoder
    PROVE  Fore' = Fore /\ ChainEnd' = ChainEnd /\ (Holding' <=> Holding)
BY DEF Fore, ChainEnd, Holding

\* If it also leaves the reader alone, and is not a suspension, nothing changes.
LEMMA ChainKept ==
    ASSUME ChainInv, queue' = queue, decoder' = decoder, reader' = reader,
           count' = count, era' = era, state' = "suspended" => state = "suspended"
    PROVE  ChainInv'
<1>1. Fore' = Fore /\ ChainEnd' = ChainEnd /\ (Holding' <=> Holding)
  BY SameLine
<1>2. /\ (HasRead' <=> HasRead) /\ NextNumber' = NextNumber /\ NextEra' = NextEra
  BY DEF HasRead, NextNumber, NextEra
<1>3. LineInv'
  BY <1>1, <1>2 DEF ChainInv, LineInv
<1>4. ChainHeld'
  BY <1>1 DEF ChainInv, ChainHeld
<1>5. GapInv'
  BY <1>1 DEF ChainInv, GapInv
<1> QED
  BY <1>3, <1>4, <1>5 DEF ChainInv

\* A suspension begins an era: the whole line is older, and so is the packet on its
\* way into it.
LEMMA ChainSuspends ==
    TypeOK /\ FlightInv /\ ChainInv /\ Suspend => ChainInv'
<1> SUFFICES ASSUME TypeOK, FlightInv, ChainInv, Suspend PROVE ChainInv'
    OBVIOUS
<1>a. /\ queue' = queue /\ decoder' = decoder /\ reader' = reader /\ count' = count
      /\ era' = era + 1 /\ era \in Nat /\ count \in Nat
      /\ reader.packet \in Packets /\ decoder.codec \in Codecs
  BY DEF Suspend, TypeOK, Readers, Decoders
<1>b. reader.packet.era \in Nat /\ decoder.codec.era \in Nat /\ reader.packet.era <= era
  BY <1>a DEF Packets, Codecs, FlightInv, Flies
<1>1. Fore' = Fore /\ ChainEnd' = ChainEnd /\ (Holding' <=> Holding)
  BY <1>a, SameLine
<1>2. \A i \in 0..Len(queue) : /\ Line(Fore, queue, i) \in Packets
                               /\ Line(Fore, queue, i).era \in Nat
                               /\ Line(Fore, queue, i).era <= era
  BY LineFlies DEF ChainInv, Packets
<1>3. Older(Fore, queue, era + 1)
  BY <1>2, <1>a DEF Older
<1>4. ASSUME NEW n \in Nat PROVE Extends(Fore, queue, n, era + 1)
  BY <1>2, <1>3, <1>4, <1>a, OlderExtends
<1>5. LineInv'
  <2>1. Linked(Fore', queue')
    BY <1>1, <1>a DEF ChainInv, LineInv
  <2>2. reader.pc # "stopped" => Extends(Fore, queue, NextNumber', NextEra')
    <3>1. CASE HasRead
      BY <3>1, <1>a DEF ChainInv, LineInv, NextNumber, NextEra, HasRead
    <3>2. CASE ~HasRead
      BY <3>2, <1>a, <1>4 DEF NextNumber, NextEra, HasRead
    <3> QED
      BY <3>1, <3>2
  <2> QED
    BY <2>1, <2>2, <1>1, <1>a DEF ChainInv, LineInv, HasRead
<1>6. ChainHeld'
  BY <1>1, <1>a, <1>b DEF ChainInv, ChainHeld
<1>7. GapInv'
  BY <1>1, <1>3, <1>a, <1>b DEF ChainInv, GapInv
<1> QED
  BY <1>5, <1>6, <1>7 DEF ChainInv

\* A step of the reader that sends nothing and goes on with its packet keeps the
\* line; it sends a media packet only if it is wanted, and comes to no packet that
\* is wanted while the session is suspended.
LEMMA ChainPasses ==
    ASSUME ChainInv, queue' = queue, decoder' = decoder, era' = era, count' = count,
           state' = state, HasRead, HasRead', reader'.packet = reader.packet,
           \/ reader.pc = "demand" /\ reader'.pc = "swap" /\ reader'.wants = Demand
           \/ /\ reader.pc \in {"swap", "take", "replay"} /\ reader'.wants = reader.wants
              /\ reader.pc = "swap" => reader.packet.kind = "session" \/ reader.wants
              /\ reader'.pc \in {"take", "replay", "send"}
    PROVE  ChainInv'
<1>1. Fore' = Fore /\ ChainEnd' = ChainEnd /\ (Holding' <=> Holding)
  BY SameLine
<1>2. NextNumber' = NextNumber /\ NextEra' = NextEra /\ reader.pc # "stopped"
  BY DEF HasRead, NextNumber, NextEra
<1>3. LineInv'
  BY <1>1, <1>2 DEF ChainInv, LineInv
<1>4. ChainHeld'
  BY <1>1 DEF ChainInv, ChainHeld
<1>5. GapInv'
  BY <1>1 DEF ChainInv, GapInv, Demand
<1> QED
  BY <1>3, <1>4, <1>5 DEF ChainInv

\* The reader reads the packet it was said to read next.
LEMMA ChainReads ==
    TypeOK /\ ChainInv /\ ReadPacket => ChainInv'
<1> SUFFICES ASSUME TypeOK, ChainInv, ReadPacket PROVE ChainInv'
    OBVIOUS
<1>a. reader \in Readers
  BY DEF TypeOK
<1>b. PICK kind \in Kinds :
          /\ reader.pc = "read" /\ count' = count + 1
          /\ reader' = [reader EXCEPT !.pc = "demand",
                                      !.packet = Packet(kind, count', TRUE, era)]
          /\ queue' = queue /\ decoder' = decoder /\ era' = era /\ state' = state
  BY DEF ReadPacket, ReadSession, ReadKeyframe, ReadDelta, Kinds
<1>c. /\ reader'.pc = "demand" /\ reader'.packet.live
      /\ reader'.packet.n = count' /\ reader'.packet.era = era
  BY <1>a, <1>b DEF Readers, Packet
<1>1. Fore' = Fore /\ ChainEnd' = ChainEnd /\ (Holding' <=> Holding)
  BY <1>b, SameLine
<1>2. /\ ~HasRead /\ HasRead'
      /\ NextNumber = count + 1 /\ NextEra = era
      /\ NextNumber' = count + 1 /\ NextEra' = era
  BY <1>b, <1>c DEF HasRead, NextNumber, NextEra
<1>3. LineInv'
  BY <1>1, <1>2, <1>b, <1>c DEF ChainInv, LineInv
<1>4. ChainHeld'
  BY <1>1, <1>b DEF ChainInv, ChainHeld
<1>5. GapInv'
  BY <1>1, <1>b, <1>c DEF ChainInv, GapInv
<1> QED
  BY <1>3, <1>4, <1>5 DEF ChainInv

\* When the reader ends, nothing comes next.
LEMMA ChainEnds ==
    ChainInv /\ ReaderEnds => ChainInv'
<1> SUFFICES ASSUME ChainInv, ReaderEnds PROVE ChainInv'
    OBVIOUS
<1>a. /\ reader'.pc = "stopped" /\ queue' = queue /\ decoder' = decoder
      /\ era' = era /\ state' = state
  BY DEF ReaderEnds, Reader
<1>1. Fore' = Fore /\ ChainEnd' = ChainEnd /\ (Holding' <=> Holding)
  BY <1>a, SameLine
<1> QED
  BY <1>1, <1>a DEF ChainInv, LineInv, ChainHeld, GapInv, HasRead

\* A packet is discarded only if no live media packet of the current era is in the
\* line, so whatever is read next may come next.
LEMMA ChainDiscards ==
    TypeOK /\ FlightInv /\ ChainInv /\ Discard => ChainInv'
<1> SUFFICES ASSUME TypeOK, FlightInv, ChainInv, Discard PROVE ChainInv'
    OBVIOUS
<1>a. /\ reader'.pc \in {"read", "stopped"} /\ queue' = queue /\ decoder' = decoder
      /\ era' = era /\ state' = state /\ count' = count
      /\ reader.pc = "swap" /\ ~reader.wants
      /\ era \in Nat /\ count \in Nat
  BY DEF Discard, NextRead, Reader, TypeOK
<1>1. Fore' = Fore /\ ChainEnd' = ChainEnd /\ (Holding' <=> Holding)
  BY <1>a, SameLine
<1>2. ~HasRead' /\ NextNumber' = count + 1 /\ NextEra' = era
  BY <1>a DEF HasRead, NextNumber, NextEra
<1>3. Extends(Fore, queue, count + 1, era)
  <2>1. Older(Fore, queue, era)
    BY <1>a DEF ChainInv, GapInv
  <2>2. \A i \in 0..Len(queue) : /\ Line(Fore, queue, i) \in Packets
                                 /\ Line(Fore, queue, i).era <= era
    BY LineFlies DEF ChainInv
  <2>3. count + 1 \in Nat
    BY <1>a
  <2> QED
    BY <2>1, <2>2, <2>3, <1>a, OlderExtends
<1>4. LineInv'
  BY <1>1, <1>2, <1>3, <1>a DEF ChainInv, LineInv
<1>5. ChainHeld'
  BY <1>1, <1>a DEF ChainInv, ChainHeld
<1>6. GapInv'
  BY <1>1, <1>a DEF ChainInv, GapInv
<1> QED
  BY <1>4, <1>5, <1>6 DEF ChainInv

\* A replayed keyframe enters the line, from the watcher or from a reader that still
\* has its packet to send.
LEMMA ChainReplays ==
    ASSUME TypeOK, ChainInv, NEW n \in Nat, Send(Packet("keyframe", n, FALSE, era)),
           decoder' = decoder, era' = era, count' = count, state' = state,
           \/ reader' = reader
           \/ /\ reader.pc = "replay" /\ reader'.pc = "send"
              /\ reader'.packet = reader.packet /\ reader'.wants = reader.wants
    PROVE  ChainInv'
<1> DEFINE packet == Packet("keyframe", n, FALSE, era)
<1>a. /\ packet \in Packets /\ ~packet.live /\ packet.kind = "keyframe"
      /\ era \in Nat /\ queue \in Seq(Packets)
      /\ queue' = Append(queue, packet)
  BY PacketType DEF TypeOK, Kinds, Packet, Send
<1>b. reader \in Readers /\ decoder \in Decoders /\ count \in Nat
  BY DEF TypeOK
<1>c. Fore \in Packets
  BY <1>b, HeadType
<1> HIDE DEF packet
<1>1. Fore' = Fore /\ ChainEnd' = ChainEnd /\ (Holding' <=> Holding)
  BY DEF Fore, ChainEnd, Holding
<1>2. /\ (HasRead' <=> HasRead) /\ NextNumber' = NextNumber /\ NextEra' = NextEra
      /\ NextNumber \in Nat /\ NextEra \in Nat
      /\ reader'.pc = "stopped" => reader.pc = "stopped"
      /\ reader'.packet = reader.packet
  <2>1. reader.packet.n \in Nat /\ reader.packet.era \in Nat
    BY <1>b DEF Readers, Packets
  <2> QED
    BY <2>1, <1>a, <1>b DEF HasRead, NextNumber, NextEra
<1>3. LineInv'
  <2>1. Linked(Fore, queue')
    BY <1>a, <1>c, AppendReplayed DEF ChainInv, LineInv
  <2>2. reader.pc # "stopped" => Extends(Fore, queue', NextNumber, NextEra)
    BY <1>a, <1>c, <1>2, AppendReplayed DEF ChainInv, LineInv
  <2> QED
    BY <2>1, <2>2, <1>1, <1>2 DEF ChainInv, LineInv
<1>4. ChainHeld'
  <2>1. \A i \in 1..Len(queue') : queue'[i].live \/ queue'[i].kind = "keyframe"
    <3> SUFFICES ASSUME NEW i \in 1..Len(queue')
                 PROVE  queue'[i].live \/ queue'[i].kind = "keyframe"
      OBVIOUS
    <3>1. CASE i = Len(queue) + 1
      BY <3>1, <1>a
    <3>2. CASE i # Len(queue) + 1
      <4>1. i \in 1..Len(queue) /\ queue'[i] = queue[i]
        BY <3>2, <1>a
      <4> QED
        BY <4>1 DEF ChainInv, ChainHeld
    <3> QED
      BY <3>1, <3>2
  <2> QED
    BY <2>1, <1>1 DEF ChainInv, ChainHeld
<1>5. GapInv'
  <2>1. Older(Fore, queue, era) => Older(Fore, queue', era)
    BY <1>a, <1>c, AppendOlder
  <2> QED
    BY <2>1, <1>1, <1>2 DEF ChainInv, GapInv
<1> QED
  BY <1>3, <1>4, <1>5 DEF ChainInv

\* The reader sends the packet it was said to send next; while the session is
\* suspended, it is one that was read before.
LEMMA ChainSends ==
    TypeOK /\ FlightInv /\ ChainInv /\ SendPacket => ChainInv'
<1> SUFFICES ASSUME TypeOK, FlightInv, ChainInv, SendPacket PROVE ChainInv'
    OBVIOUS
<1> DEFINE packet == reader.packet
<1>a. /\ reader.pc = "send" /\ reader'.pc \in {"read", "stopped"}
      /\ queue' = Append(queue, packet) /\ decoder' = decoder
      /\ era' = era /\ state' = state /\ count' = count
  BY DEF SendPacket, Send, NextRead, Reader
<1>b. /\ reader \in Readers /\ decoder \in Decoders /\ packet \in Packets
      /\ queue \in Seq(Packets) /\ era \in Nat /\ count \in Nat
  BY DEF TypeOK, Readers
<1>c. Fore \in Packets /\ packet.n \in Nat /\ packet.era \in Nat /\ packet.era <= era
  BY <1>b, HeadType DEF Packets, FlightInv, Flies
<1>d. HasRead /\ packet.live /\ packet.n = count /\ NextNumber = packet.n
      /\ NextEra = packet.era
  BY <1>a DEF HasRead, ChainInv, LineInv, NextNumber, NextEra
<1>1. Fore' = Fore /\ ChainEnd' = ChainEnd /\ (Holding' <=> Holding)
  BY <1>a DEF Fore, ChainEnd, Holding
<1>2. ~HasRead' /\ NextNumber' = count + 1 /\ NextEra' = era
  BY <1>a DEF HasRead, NextNumber, NextEra
<1>3. LineInv'
  <2>1. Linked(Fore, queue) /\ Extends(Fore, queue, packet.n, packet.era)
    BY <1>a, <1>d DEF ChainInv, LineInv
  <2>2. Follows(packet, count + 1, era)
    BY <1>c, <1>d DEF Follows
  <2>3. count + 1 \in Nat
    BY <1>b
  <2>4. Linked(Fore, queue') /\ Extends(Fore, queue', count + 1, era)
    BY <2>1, <2>2, <2>3, <1>a, <1>b, <1>c, <1>d, AppendRead
  <2> QED
    BY <2>4, <1>1, <1>2 DEF LineInv
<1>4. ChainHeld'
  <2>1. \A i \in 1..Len(queue') : queue'[i].live \/ queue'[i].kind = "keyframe"
    <3> SUFFICES ASSUME NEW i \in 1..Len(queue')
                 PROVE  queue'[i].live \/ queue'[i].kind = "keyframe"
      OBVIOUS
    <3>1. CASE i = Len(queue) + 1
      BY <3>1, <1>a, <1>b, <1>d
    <3>2. CASE i # Len(queue) + 1
      <4>1. i \in 1..Len(queue) /\ queue'[i] = queue[i]
        BY <3>2, <1>a, <1>b
      <4> QED
        BY <4>1 DEF ChainInv, ChainHeld
    <3> QED
      BY <3>1, <3>2
  <2> QED
    BY <2>1, <1>1, <1>a DEF ChainInv, ChainHeld
<1>5. GapInv'
  <2>1. CASE state = "suspended"
    <3>1. packet.kind # "session" => packet.era < era
      BY <2>1, <1>a DEF ChainInv, GapInv
    <3>2. Older(Fore, queue, era)
      BY <2>1 DEF ChainInv, GapInv
    <3>3. Older(Fore, queue', era)
      BY <3>1, <3>2, <1>a, <1>b, <1>c, AppendOlder
    <3> QED
      BY <3>3, <1>1, <1>a DEF GapInv
  <2>2. CASE state # "suspended"
    BY <2>2, <1>a DEF GapInv
  <2> QED
    BY <2>1, <2>2
<1> QED
  BY <1>3, <1>4, <1>5 DEF ChainInv

\* Every step of the reader keeps the chain.
LEMMA ChainReader ==
    TypeOK /\ FlightInv /\ ChainInv /\ ReaderStep => ChainInv'
<1> SUFFICES ASSUME TypeOK, FlightInv, ChainInv, ReaderStep PROVE ChainInv'
    OBVIOUS
<1>a. reader \in Readers
  BY DEF TypeOK
<1>1. CASE LoadDemand
  BY <1>1, <1>a, ChainPasses DEF LoadDemand, Readers, HasRead
<1>2. CASE Discard
  BY <1>2, ChainDiscards
<1>3. CASE SwapDemand
  BY <1>3, <1>a, ChainPasses DEF SwapDemand, Readers, HasRead
<1>4. CASE TakeKeyframe
  BY <1>4, <1>a, ChainPasses DEF TakeKeyframe, Readers, HasRead
<1>5. CASE TakeNoKeyframe
  BY <1>5, <1>a, ChainPasses DEF TakeNoKeyframe, Readers, HasRead
<1>6. CASE Replay
  <2>1. reader.anchor \in Nat
    BY <1>a DEF Readers
  <2>2. /\ reader'.pc = "send" /\ reader'.packet = reader.packet
        /\ reader'.wants = reader.wants
    BY <1>6, <1>a DEF Replay, Readers
  <2> QED
    BY <2>1, <2>2, <1>6, ChainReplays DEF Replay
<1>7. CASE SendPacket
  BY <1>7, ChainSends
<1>8. CASE SendFails
  BY <1>8, ChainEnds DEF SendFails
<1> QED
  BY <1>1, <1>2, <1>3, <1>4, <1>5, <1>6, <1>7, <1>8 DEF ReaderStep

\* So does every step of the watcher.
LEMMA ChainWatcher ==
    TypeOK /\ ChainInv /\ WatcherStep => ChainInv'
<1> SUFFICES ASSUME TypeOK, ChainInv, WatcherStep PROVE ChainInv'
    OBVIOUS
<1>1. CASE SendAnchor
  <2>1. watcher.anchor \in Nat
    BY DEF TypeOK, Watchers
  <2> QED
    BY <2>1, <1>1, ChainReplays DEF SendAnchor
<1>2. CASE ~SendAnchor
  BY <1>2, ChainKept
  DEF WatcherStep, Wake, StopWatching, WatcherSwap, TakeAnchor, SendAnchorFails
<1> QED
  BY <1>1, <1>2

\* What a step of the decoder does to the line: it puts a weaker head in the place
\* of the old one or of the packet behind it, or ends the channel.
LEMMA HeadMoves ==
    ASSUME TypeOK, decoder' \in Decoders, LineInv, GapInv,
           reader' = reader, count' = count, era' = era, state' = state,
           \/ queue' = queue /\ Weaker(Fore', Fore)
           \/ queue # <<>> /\ queue' = Tail(queue) /\ Weaker(Fore', Head(queue))
           \/ queue' = <<>> /\ ~Fore'.live
    PROVE  LineInv' /\ GapInv'
<1>a. /\ Fore \in Packets /\ Fore' \in Packets /\ queue \in Seq(Packets)
      /\ era \in Nat /\ count \in Nat /\ reader.packet \in Packets
  <2>1. Fore \in Packets
    BY HeadType DEF TypeOK
  <2>2. Fore' \in Packets
    <3>1. decoder'.packet \in Packets /\ decoder'.codec \in Codecs
      BY DEF Decoders
    <3>2. ChainEnd' \in Packets
      BY <3>1 DEF ChainEnd, Packet, Packets, Codecs, Kinds
    <3> QED
      BY <3>1, <3>2 DEF Fore
  <2> QED
    BY <2>1, <2>2 DEF TypeOK, Readers
<1>b. /\ (HasRead' <=> HasRead) /\ NextNumber' = NextNumber /\ NextEra' = NextEra
      /\ NextNumber \in Nat /\ NextEra \in Nat
  BY <1>a DEF HasRead, NextNumber, NextEra, Packets
<1>1. /\ Linked(Fore, queue) => Linked(Fore', queue')
      /\ Extends(Fore, queue, NextNumber, NextEra)
             => Extends(Fore', queue', NextNumber, NextEra)
      /\ Older(Fore, queue, era) => Older(Fore', queue', era)
  <2>1. CASE queue' = queue /\ Weaker(Fore', Fore)
    BY <2>1, <1>a, <1>b, WeakerHead
  <2>2. CASE queue # <<>> /\ queue' = Tail(queue) /\ Weaker(Fore', Head(queue))
    <3>1. Head(queue) \in Packets /\ Tail(queue) \in Seq(Packets)
      BY <2>2, <1>a
    <3>2. /\ Linked(Fore, queue) => Linked(Head(queue), Tail(queue))
          /\ Extends(Fore, queue, NextNumber, NextEra)
                 => Extends(Head(queue), Tail(queue), NextNumber, NextEra)
          /\ Older(Fore, queue, era) => Older(Head(queue), Tail(queue), era)
      BY <2>2, <1>a, <1>b, MoveUp
    <3>3. /\ Linked(Head(queue), Tail(queue)) => Linked(Fore', Tail(queue))
          /\ Extends(Head(queue), Tail(queue), NextNumber, NextEra)
                 => Extends(Fore', Tail(queue), NextNumber, NextEra)
          /\ Older(Head(queue), Tail(queue), era) => Older(Fore', Tail(queue), era)
      BY <2>2, <3>1, <1>a, <1>b, WeakerHead
    <3> QED
      BY <2>2, <3>2, <3>3
  <2>3. CASE queue' = <<>> /\ ~Fore'.live
    BY <2>3 DEF Linked, Extends, Older, Line
  <2> QED
    BY <2>1, <2>2, <2>3
<1>2. LineInv'
  BY <1>1, <1>b DEF LineInv
<1>3. GapInv'
  BY <1>1 DEF GapInv
<1> QED
  BY <1>2, <1>3

\* A packet that is not live asks nothing, and no packet asks more than itself.
LEMMA WeakerSelf ==
    /\ \A packet \in Packets : Weaker(packet, packet)
    /\ \A less, more : ~less.live => Weaker(less, more)
BY DEF Weaker, Packets

\* The chain that a codec has once it is fed the packet the decoder holds asks no
\* more of what follows than that packet did.
LEMMA FedWeaker ==
    ASSUME TypeOK, FlightInv, HasMedia, ChainHeld, decoder.pc = "decode",
           NEW codec, codec = Fed(decoder.codec, decoder.packet)
    PROVE  /\ Weaker(Packet("delta", codec.last, codec.live, codec.era), decoder.packet)
           /\ codec.era <= era
<1> DEFINE packet == decoder.packet
           next == Packet("delta", codec.last, codec.live, codec.era)
<1>a. /\ packet \in Packets /\ decoder.codec \in Codecs /\ era \in Nat
      /\ packet.era <= era /\ packet.kind # "session" /\ Holding
  BY DEF TypeOK, Decoders, FlightInv, Flies, HasMedia, Holding
<1>b. /\ packet.era \in Nat /\ packet.n \in Nat
      /\ decoder.codec.era \in Nat /\ decoder.codec.last \in Nat
  BY <1>a DEF Packets, Codecs
<1>1. CASE packet.kind = "keyframe"
  <2>1. codec.last = packet.n /\ codec.live = packet.live /\ codec.era = packet.era
    BY <1>1 DEF Fed, Codec
  <2>2. /\ next.n = packet.n /\ next.live = packet.live /\ next.era = packet.era
        /\ next.kind = "delta"
    BY <2>1 DEF Packet
  <2> QED
    BY <2>1, <2>2, <1>1, <1>a, <1>b DEF Weaker, Follows
<1>2. CASE packet.kind # "keyframe"
  <2>1. /\ codec.last = packet.n /\ codec.live = decoder.codec.live
        /\ codec.era = decoder.codec.era
    BY <1>2, <1>a DEF Fed, Codecs
  <2>2. /\ next.n = packet.n /\ next.live = decoder.codec.live
        /\ next.era = decoder.codec.era /\ next.kind = "delta"
    BY <2>1 DEF Packet
  <2>3. packet.live
    BY <1>2, <1>a DEF ChainHeld
  <2>4. decoder.codec.live => decoder.codec.era <= packet.era
    BY <2>3, <1>a DEF ChainHeld, Follows, ChainEnd, Packet
  <2>5. ASSUME next.live, NEW n \in Nat, NEW when \in Nat, Follows(packet, n, when)
        PROVE  Follows(next, n, when)
    <3>1. /\ packet.era <= when /\ (packet.era = when => n = packet.n + 1)
          /\ decoder.codec.era <= packet.era
      BY <2>2, <2>4, <2>5, <1>a DEF Follows
    <3> QED
      BY <3>1, <2>2, <1>b DEF Follows
  <2>6. Weaker(next, packet)
    BY <2>2, <2>3, <2>4, <2>5, <1>a DEF Weaker
  <2> QED
    BY <2>6, <2>1 DEF ChainHeld
<1> QED
  BY <1>1, <1>2

\* The decoder drops its codec: whatever it holds, the new codec has no chain.
LEMMA NoChain == ~NoCodec.live /\ NoCodec.era = 0
BY DEF NoCodec, Codec

\* Every step of the decoder keeps the chain.
LEMMA ChainDecodes ==
    TypeOK /\ FlightInv /\ HasMedia /\ ChainInv /\ DecoderStep => ChainInv'
<1> SUFFICES ASSUME TypeOK, FlightInv, HasMedia, ChainInv, DecoderStep PROVE ChainInv'
    OBVIOUS
<1> USE DEF GoOn, NextPacket
<1>a. /\ decoder \in Decoders /\ decoder.packet \in Packets /\ decoder.codec \in Codecs
      /\ queue \in Seq(Packets) /\ era \in Nat
      /\ Fore \in Packets /\ ChainEnd \in Packets
  BY HeadType DEF TypeOK
<1>b. decoder' \in Decoders
  BY TypeStep DEF Next, TypeOK
<1>c. LineInv /\ ChainHeld /\ GapInv
  BY DEF ChainInv
<1>d. /\ reader' = reader /\ count' = count /\ era' = era /\ state' = state
  BY DEF DecoderStep, ReceiveSession, ReceiveMedia, ChannelCloses, IsWanted, IsUnwanted,
     Observe, SameEpoch, NewEpoch, DecodeFrame, DecodeNothing, DecodeError,
     DecoderInitError, StillWanted, DropFrame, Publish
\* The head of the line and the channel move as HeadMoves says; the rest is kept.
<1>e. ASSUME ChainHeld',
             \/ queue' = queue /\ (Fore' = Fore \/ ~Fore'.live \/ Weaker(Fore', Fore))
             \/ /\ queue # <<>> /\ queue' = Tail(queue)
                /\ Fore' = Head(queue) \/ ~Fore'.live
             \/ queue' = <<>> /\ ~Fore'.live
      PROVE  ChainInv'
  <2>1. queue # <<>> => Head(queue) \in Packets
    BY <1>a
  <2>2. \/ queue' = queue /\ Weaker(Fore', Fore)
        \/ queue # <<>> /\ queue' = Tail(queue) /\ Weaker(Fore', Head(queue))
        \/ queue' = <<>> /\ ~Fore'.live
    BY <2>1, <1>a, <1>e, WeakerSelf
  <2>3. LineInv' /\ GapInv'
    BY <2>2, <1>b, <1>c, <1>d, HeadMoves
  <2> QED
    BY <2>3, <1>e DEF ChainInv
<1>1. CASE ReceiveSession
  <2>0. /\ queue # <<>> /\ queue' = Tail(queue)
        /\ \A i \in 1..Len(queue') : i + 1 \in 1..Len(queue) /\ queue'[i] = queue[i + 1]
        /\ Head(queue) = queue[1] /\ 1 \in 1..Len(queue)
    BY <1>1, <1>a DEF ReceiveSession
  <2>1. ~Fore'.live
    BY <1>1, <1>a, NoChain DEF ReceiveSession, Decoders, Holding, Fore, ChainEnd, Packet
  <2>2. ChainHeld'
    <3>1. /\ decoder'.codec = NoCodec /\ ~Holding'
      BY <1>1, <1>a DEF ReceiveSession, Decoders, Holding
    <3> QED
      BY <3>1, <2>0, <1>a, <1>c, <1>d, NoChain DEF ChainHeld
  <2> QED
    BY <2>0, <2>1, <2>2, <1>e
<1>2. CASE ReceiveMedia
  <2>0. /\ queue # <<>> /\ queue' = Tail(queue)
        /\ \A i \in 1..Len(queue') : i + 1 \in 1..Len(queue) /\ queue'[i] = queue[i + 1]
        /\ Head(queue) = queue[1] /\ 1 \in 1..Len(queue)
    BY <1>2, <1>a DEF ReceiveMedia
  <2>1. /\ decoder'.packet = Head(queue) /\ decoder'.codec = decoder.codec
        /\ decoder'.awaiting = decoder.awaiting
        /\ ~Holding /\ Holding'
    BY <1>2, <1>a DEF ReceiveMedia, Decoders, Holding
  <2>2. Fore' = Head(queue) /\ Fore = ChainEnd /\ ChainEnd' = ChainEnd
    BY <2>1 DEF Fore, ChainEnd
  <2>3. Head(queue).live /\ decoder.codec.live
            => Follows(ChainEnd, Head(queue).n, Head(queue).era)
    <3>1. ASSUME Head(queue).live, decoder.codec.live
          PROVE  Follows(ChainEnd, Head(queue).n, Head(queue).era)
      <4>1. Line(Fore, queue, 0) = ChainEnd /\ ChainEnd.live
        BY <2>2, <3>1 DEF Line, ChainEnd, Packet
      <4>2. NoneLive(queue, 0 + 1, 1 - 1)
        BY DEF NoneLive
      <4>3. queue[1].live /\ 0 < 1 /\ 0 \in 0..Len(queue) /\ 1 \in 1..Len(queue)
        BY <2>0, <3>1, <1>a
      <4> QED
        BY <4>1, <4>2, <4>3, <2>0, <1>c DEF LineInv, Linked
    <3> QED
      BY <3>1
  <2>4. ChainHeld'
    BY <2>0, <2>1, <2>2, <2>3, <1>a, <1>c, <1>d DEF ChainHeld
  <2> QED
    BY <2>0, <2>2, <2>4, <1>e
<1>3. CASE ChannelCloses
  <2>1. queue' = queue /\ Fore' = Fore
    BY <1>3, <1>a, <1>c, NoChain
    DEF ChannelCloses, Decoders, Holding, Fore, ChainEnd, Packet, ChainHeld
  <2>2. ChainHeld'
    BY <1>3, <1>a, <1>c, <1>d, NoChain
    DEF ChannelCloses, Decoders, Holding, ChainEnd, Packet, ChainHeld
  <2> QED
    BY <2>1, <2>2, <1>e
<1>4. CASE IsWanted
  <2>1. queue' = queue /\ Fore' = Fore
    BY <1>4, <1>a, <1>c, NoChain
    DEF IsWanted, Decoders, Holding, Fore, ChainEnd, Packet, ChainHeld
  <2>2. ChainHeld'
    BY <1>4, <1>a, <1>c, <1>d, NoChain
    DEF IsWanted, Decoders, Holding, ChainEnd, Packet, ChainHeld
  <2> QED
    BY <2>1, <2>2, <1>e
<1>5. CASE IsUnwanted
  <2>1. queue' = queue /\ ~Fore'.live
    BY <1>5, <1>a, <1>c, NoChain
    DEF IsUnwanted, Decoders, Holding, Fore, ChainEnd, Packet, ChainHeld
  <2>2. ChainHeld'
    BY <1>5, <1>a, <1>c, <1>d, NoChain
    DEF IsUnwanted, Decoders, Holding, ChainEnd, Packet, ChainHeld
  <2> QED
    BY <2>1, <2>2, <1>e
<1>6. CASE Observe
  <2>1. queue' = queue /\ Fore' = Fore
    BY <1>6, <1>a, <1>c, NoChain
    DEF Observe, Decoders, Holding, Fore, ChainEnd, Packet, ChainHeld
  <2>2. ChainHeld'
    BY <1>6, <1>a, <1>c, <1>d, NoChain
    DEF Observe, Decoders, Holding, ChainEnd, Packet, ChainHeld
  <2> QED
    BY <2>1, <2>2, <1>e
<1>7. CASE SameEpoch
  <2>1. queue' = queue /\ (Fore' = Fore \/ ~Fore'.live)
    BY <1>7, <1>a, <1>c, NoChain
    DEF SameEpoch, Filter, Decoders, Holding, Fore, ChainEnd, Packet, ChainHeld
  <2>2. ChainHeld'
    BY <1>7, <1>a, <1>c, <1>d, NoChain
    DEF SameEpoch, Filter, Decoders, Holding, ChainEnd, Packet, ChainHeld
  <2> QED
    BY <2>1, <2>2, <1>e
<1>8. CASE NewEpoch
  <2>1. /\ queue' = queue /\ decoder'.codec = NoCodec
        /\ Holding /\ (Holding' => decoder'.packet = decoder.packet)
    <3>1. queue' = queue /\ Holding /\ Filter(NoCodec, TRUE)
      BY <1>8 DEF NewEpoch, Holding
    <3>2. CASE decoder.packet.kind = "delta"
      BY <3>1, <3>2, <1>a DEF Filter, Decoders, Holding
    <3>3. CASE decoder.packet.kind # "delta"
      BY <3>1, <3>3, <1>a DEF Filter, Decoders, Holding
    <3> QED
      BY <3>1, <3>2, <3>3
  <2>2. Fore' = Fore \/ ~Fore'.live
    BY <2>1, NoChain DEF Fore, ChainEnd, Packet
  <2>3. ChainHeld'
    BY <2>1, <1>c, <1>d, <1>a, NoChain DEF ChainHeld
  <2> QED
    BY <2>1, <2>2, <2>3, <1>e
<1>9. CASE DecodeFrame
  <2> DEFINE codec == Fed(decoder.codec, decoder.packet)
  <2>1. /\ decoder'.codec = codec /\ ~decoder'.awaiting /\ ~Holding' /\ Holding
        /\ decoder.pc = "decode" /\ queue' = queue
    BY <1>9, <1>a DEF DecodeFrame, Decoders, Holding
  <2>2. /\ Weaker(Packet("delta", codec.last, codec.live, codec.era), decoder.packet)
        /\ codec.era <= era
    BY <2>1, <1>c, FedWeaker
  <2> HIDE DEF codec
  <2>3. Weaker(Fore', Fore)
    BY <2>1, <2>2 DEF Fore, ChainEnd
  <2>4. ChainHeld'
    BY <2>1, <2>2, <1>c, <1>d DEF ChainHeld
  <2> QED
    BY <2>1, <2>3, <2>4, <1>e
<1>10. CASE DecodeNothing
  <2> DEFINE codec == Fed(decoder.codec, decoder.packet)
  <2>1. /\ decoder'.codec = codec /\ ~decoder'.awaiting /\ ~Holding' /\ Holding
        /\ decoder.pc = "decode" /\ queue' = queue
    BY <1>10, <1>a DEF DecodeNothing, Decoders, Holding
  <2>2. /\ Weaker(Packet("delta", codec.last, codec.live, codec.era), decoder.packet)
        /\ codec.era <= era
    BY <2>1, <1>c, FedWeaker
  <2> HIDE DEF codec
  <2>3. Weaker(Fore', Fore)
    BY <2>1, <2>2 DEF Fore, ChainEnd
  <2>4. ChainHeld'
    BY <2>1, <2>2, <1>c, <1>d DEF ChainHeld
  <2> QED
    BY <2>1, <2>3, <2>4, <1>e
<1>11. CASE DecodeError
  <2>1. queue' = queue /\ ~Fore'.live
    BY <1>11, <1>a, <1>c, NoChain
    DEF DecodeError, Decoders, Holding, Fore, ChainEnd, Packet, ChainHeld
  <2>2. ChainHeld'
    BY <1>11, <1>a, <1>c, <1>d, NoChain
    DEF DecodeError, Decoders, Holding, ChainEnd, Packet, ChainHeld
  <2> QED
    BY <2>1, <2>2, <1>e
<1>12. CASE DecoderInitError
  <2>1. queue' = <<>> /\ ~Fore'.live
    BY <1>12, <1>a, <1>c, NoChain
    DEF DecoderInitError, Decoders, Holding, Fore, ChainEnd, Packet, ChainHeld
  <2>2. ChainHeld'
    BY <1>12, <1>a, <1>c, <1>d, NoChain
    DEF DecoderInitError, Decoders, Holding, ChainEnd, Packet, ChainHeld
  <2> QED
    BY <2>1, <2>2, <1>e
<1>13. CASE StillWanted
  <2>1. queue' = queue /\ Fore' = Fore
    BY <1>13, <1>a, <1>c, NoChain
    DEF StillWanted, Decoders, Holding, Fore, ChainEnd, Packet, ChainHeld
  <2>2. ChainHeld'
    BY <1>13, <1>a, <1>c, <1>d, NoChain
    DEF StillWanted, Decoders, Holding, ChainEnd, Packet, ChainHeld
  <2> QED
    BY <2>1, <2>2, <1>e
<1>14. CASE DropFrame
  <2>1. queue' = queue /\ Fore' = Fore
    BY <1>14, <1>a, <1>c, NoChain
    DEF DropFrame, Decoders, Holding, Fore, ChainEnd, Packet, ChainHeld
  <2>2. ChainHeld'
    BY <1>14, <1>a, <1>c, <1>d, NoChain
    DEF DropFrame, Decoders, Holding, ChainEnd, Packet, ChainHeld
  <2> QED
    BY <2>1, <2>2, <1>e
<1>15. CASE Publish
  <2>1. queue' = queue /\ Fore' = Fore
    BY <1>15, <1>a, <1>c, NoChain
    DEF Publish, Decoders, Holding, Fore, ChainEnd, Packet, ChainHeld
  <2>2. ChainHeld'
    BY <1>15, <1>a, <1>c, <1>d, NoChain
    DEF Publish, Decoders, Holding, ChainEnd, Packet, ChainHeld
  <2> QED
    BY <2>1, <2>2, <1>e
<1> QED
  BY <1>1, <1>2, <1>3, <1>4, <1>5, <1>6, <1>7, <1>8,
     <1>9, <1>10, <1>11, <1>12, <1>13, <1>14, <1>15
  DEF DecoderStep

\* Every step of the system keeps it.
LEMMA ChainStep ==
    TypeOK /\ FlightInv /\ CodecInv /\ ChainInv /\ [Next]_vars => ChainInv'
<1> SUFFICES ASSUME TypeOK, FlightInv, CodecInv, ChainInv, [Next]_vars PROVE ChainInv'
    OBVIOUS
<1>1. CASE Hub
  <2>1. CASE Suspend
    BY <2>1, ChainSuspends
  <2>2. CASE ~Suspend
    BY <1>1, <2>2, ChainKept DEF Hub, WantByLease, WantByScript, Unwant, Shutdown
  <2> QED
    BY <2>1, <2>2
<1>2. CASE ReadPacket
  BY <1>2, ChainReads
<1>3. CASE StreamEnds
  BY <1>3, ChainEnds DEF StreamEnds
<1>4. CASE ReaderStep
  BY <1>4, ChainReader
<1>5. CASE WatcherStep
  BY <1>5, ChainWatcher
<1>6. CASE DecoderStep
  BY <1>6, ChainDecodes DEF CodecInv
<1>7. CASE UNCHANGED vars
  BY <1>7, ChainKept DEF vars
<1> QED
  BY <1>1, <1>2, <1>3, <1>4, <1>5, <1>6, <1>7 DEF Next

\* The chain makes the decoder steady: a delta it holds is live.
LEMMA ChainSteady == TypeOK /\ ChainInv => SteadyChain
<1> SUFFICES ASSUME TypeOK, ChainInv, FeedsDelta, decoder.codec.live,
                    decoder.codec.era = decoder.packet.era
             PROVE  decoder.packet.n = decoder.codec.last + 1
    BY DEF SteadyChain
<1>1. Holding /\ decoder.packet.live
  BY DEF FeedsDelta, Holding, ChainInv, ChainHeld
<1>2. Follows(ChainEnd, decoder.packet.n, decoder.packet.era)
  BY <1>1 DEF ChainInv, ChainHeld
<1> QED
  BY <1>2 DEF Follows, ChainEnd, Packet

-----------------------------------------------------------------------------
(* The theorems.                                                           *)

\* The inductive invariant: types, packets in flight, codec, chain.
THEOREM Invariance == Spec => [](TypeOK /\ FlightInv /\ CodecInv /\ ChainInv)
<1>1. Init => TypeOK /\ FlightInv /\ CodecInv /\ ChainInv
  BY TypeInit, FlightInit, CodecInit, ChainInit
<1>2. TypeOK /\ FlightInv /\ CodecInv /\ ChainInv /\ [Next]_vars
          => (TypeOK /\ FlightInv /\ CodecInv /\ ChainInv)'
  BY TypeStep, FlightStep, CodecStep, ChainStep
<1> QED
  BY <1>1, <1>2, PTL DEF Spec

\* session.rs:1140: the variables keep their types, and the channel never holds more
\* than its capacity, however the reader and the watcher send on it.
THEOREM TypeCorrect == Spec => []TypeOK
BY Invariance, PTL

\* session.rs:1177-1184: a delta read after a suspension is never fed to a codec
\* started before it, nor to one that has seen no keyframe.
THEOREM NoGapOverSuspension == Spec => []SuspensionResets
<1>1. CodecInv => SuspensionResets
  BY DEF CodecInv, Awaits, ReadBefore, SuspensionResets
<1> QED
  BY <1>1, Invariance, PTL

\* session.rs:1152-1229, 1240-1362: between two suspensions the pipeline loses, repeats
\* and reorders nothing that was read, however the reader, the watcher and the decoder
\* interleave: a chain that began with a live keyframe is fed packet after packet.
THEOREM Unbroken == Spec => []SteadyChain
BY ChainSteady, Invariance, PTL
=============================================================================
