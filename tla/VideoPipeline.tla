----------------------------- MODULE VideoPipeline -----------------------------
(***************************************************************************)
(* The video path of a session (crates/forge-core/src/session.rs): the     *)
(* task that reads packets off the socket, the task that watches the       *)
(* demand, the bounded channel they both send on, and the decoder thread.  *)
(*                                                                         *)
(* Packets are numbered as the device sends them.  A keyframe can be       *)
(* decoded alone, a delta only by a decoder that has just been fed the     *)
(* packet before it.  While nobody wants frames the reader discards        *)
(* packets; when demand returns, the reader or the watcher replays the     *)
(* last keyframe, the anchor.                                              *)
(*                                                                         *)
(* The hub is the three-state machine that HubActivity has in detail; its  *)
(* refreshes are single steps here.                                        *)
(***************************************************************************)
EXTENDS Naturals, Sequences

CONSTANTS Capacity,     \* of the packet channel
          DecoderCanFail, \* whether FFmpeg can fail, or give no frame for a packet
          MaxPackets,   \* bound: packets the device sends
          MaxEras       \* bound: times the session is suspended

ASSUME BoundsAssumption ==
    /\ Capacity \in Nat \ {0} /\ DecoderCanFail \in BOOLEAN
    /\ MaxPackets \in Nat /\ MaxEras \in Nat

VARIABLES
    state,          \* activity.state of the hub
    moved,          \* why demand_epoch differs from the decoder's observed epoch
    latest,         \* the latest frame, by the packet it comes from; 0 for none
    alive,          \* the session's flag
    queue,          \* the channel: DecoderPackets
    resumeKeyframe, \* the anchor both tasks can take; 0 for none
    readerDemand,   \* the demand the last task to look has seen
    count,          \* packets read off the socket
    lastKeyframe,   \* the reader's own copy of the anchor
    reader, watcher, decoder,    \* the three tasks
    era             \* history: how many times the session has been suspended

hubVars == <<state, moved, latest>>
anchorVars == <<resumeKeyframe, lastKeyframe>>
vars == <<hubVars, alive, queue, anchorVars, readerDemand, count, reader, watcher,
          decoder, era>>

Kinds == {"session", "keyframe", "delta"}

\* live: sent as it was read, not replayed.  era: when it was read.
Packet(kind, n, live, when) == [kind |-> kind, n |-> n, live |-> live, era |-> when]
NoPacket == Packet("session", 0, FALSE, 0)

\* The packet the decoder was fed last; whether the keyframe its reference chain
\* starts with was live; the eras when that keyframe was read and when it was fed.
Codec(last, live, when, fed) ==
    [last |-> last, live |-> live, era |-> when, fed |-> fed]
NoCodec == Codec(0, FALSE, 0, 0)

Demand == state # "suspended"    \* video_demand()

Init ==
    /\ state = "suspended"
    /\ moved = {}
    /\ latest = 0
    /\ alive = TRUE
    /\ queue = <<>>
    /\ resumeKeyframe = 0 /\ lastKeyframe = 0
    /\ readerDemand = FALSE
    /\ count = 0
    /\ reader = [pc |-> "read", packet |-> NoPacket, anchor |-> 0, wants |-> FALSE]
    /\ watcher = [pc |-> "wait", anchor |-> 0, wants |-> FALSE]
    /\ decoder = [pc |-> "recv", packet |-> NoPacket, codec |-> NoCodec,
                  awaiting |-> TRUE, size |-> 0]
    /\ era = 0

-----------------------------------------------------------------------------
(* The hub.                                                                *)

\* refresh_activity() finds a lease: even a session that was only idle moves the
\* epoch.
WantByLease ==
    /\ state # "active"
    /\ state' = "active"
    /\ moved' = moved \cup {IF state = "suspended" THEN "suspend" ELSE "reconnect"}
    /\ latest' = IF state = "suspended" THEN 0 ELSE latest
    /\ UNCHANGED <<alive, queue, anchorVars, readerDemand, count, reader, watcher,
                   decoder, era>>

\* mark_active(), for a script.
WantByScript ==
    /\ state # "active"
    /\ state' = "active"
    /\ moved' = IF state = "suspended" THEN moved \cup {"suspend"} ELSE moved
    /\ latest' = IF state = "suspended" THEN 0 ELSE latest
    /\ UNCHANGED <<alive, queue, anchorVars, readerDemand, count, reader, watcher,
                   decoder, era>>

Unwant ==
    /\ state = "active"
    /\ state' = "idleGrace"
    /\ UNCHANGED <<moved, latest, alive, queue, anchorVars, readerDemand, count,
                   reader, watcher, decoder, era>>

\* IDLE_GRACE is over.
Suspend ==
    /\ state = "idleGrace"
    /\ era < MaxEras
    /\ state' = "suspended"
    /\ moved' = moved \cup {"suspend"}
    /\ era' = era + 1
    /\ UNCHANGED <<latest, alive, queue, anchorVars, readerDemand, count, reader,
                   watcher, decoder>>

\* shutdown(), or the failure of the input writer.
Shutdown ==
    /\ alive
    /\ alive' = FALSE
    /\ UNCHANGED <<hubVars, queue, anchorVars, readerDemand, count, reader, watcher,
                   decoder, era>>

Hub == WantByLease \/ WantByScript \/ Unwant \/ Suspend \/ Shutdown

-----------------------------------------------------------------------------
(* The channel.                                                            *)

Open == decoder.pc # "stopped"

\* The packets the channel takes without waiting.
Room == Len(queue) < Capacity

Send(packet) == queue' = Append(queue, packet)

-----------------------------------------------------------------------------
(* The reader task.                                                        *)

ReaderGoto(label) == reader' = [reader EXCEPT !.pc = label]

\* The locals of an iteration are gone at the end of it.
Reader(label) == [pc |-> label, packet |-> NoPacket, anchor |-> 0, wants |-> FALSE]

\* The loop goes on if the session is alive when it comes to its top.
NextRead == reader' = Reader(IF alive THEN "read" ELSE "stopped")

\* The task ends, and takes its sender with it.
ReaderEnds ==
    /\ reader' = Reader("stopped")
    /\ alive' = FALSE
    /\ UNCHANGED <<hubVars, queue, anchorVars, readerDemand, count, watcher, decoder,
                   era>>

\* A read fails, or gives a session packet with invalid dimensions.
StreamEnds == reader.pc = "read" /\ ReaderEnds

\* PacketReader::read() forgets its keyframe, and the reader takes the anchor.
ReadSession ==
    /\ reader.pc = "read"
    /\ count < MaxPackets
    /\ count' = count + 1
    /\ lastKeyframe' = 0 /\ resumeKeyframe' = 0
    /\ reader' = [reader EXCEPT !.pc = "demand",
                                !.packet = Packet("session", count', TRUE, era)]
    /\ UNCHANGED <<hubVars, alive, queue, readerDemand, watcher, decoder, era>>

\* A keyframe becomes the anchor.
ReadKeyframe ==
    /\ reader.pc = "read"
    /\ count < MaxPackets
    /\ count' = count + 1
    /\ lastKeyframe' = count' /\ resumeKeyframe' = count'
    /\ reader' = [reader EXCEPT !.pc = "demand",
                                !.packet = Packet("keyframe", count', TRUE, era)]
    /\ UNCHANGED <<hubVars, alive, queue, readerDemand, watcher, decoder, era>>

ReadDelta ==
    /\ reader.pc = "read"
    /\ count < MaxPackets
    /\ count' = count + 1
    /\ reader' = [reader EXCEPT !.pc = "demand",
                                !.packet = Packet("delta", count', TRUE, era)]
    /\ UNCHANGED <<hubVars, alive, queue, anchorVars, readerDemand, watcher, decoder,
                   era>>

LoadDemand ==
    /\ reader.pc = "demand"
    /\ reader' = [reader EXCEPT !.pc = "swap", !.wants = Demand]
    /\ UNCHANGED <<hubVars, alive, queue, anchorVars, readerDemand, count, watcher,
                   decoder, era>>

\* readerDemand.swap(), by either task.
Resumes(wants) == wants /\ ~readerDemand

\* Nobody wants a media packet: it is discarded.
Discard ==
    /\ reader.pc = "swap"
    /\ reader.packet.kind # "session" /\ ~reader.wants
    /\ readerDemand' = FALSE
    /\ NextRead
    /\ UNCHANGED <<hubVars, alive, queue, anchorVars, count, watcher, decoder,
                   era>>

\* A delta that ends a suspension is preceded by the anchor.  A session packet is
\* sent whatever the demand is.
SwapDemand ==
    /\ reader.pc = "swap"
    /\ reader.packet.kind = "session" \/ reader.wants
    /\ readerDemand' = reader.wants
    /\ ReaderGoto(IF Resumes(reader.wants) /\ reader.packet.kind = "delta"
                  THEN "take" ELSE "send")
    /\ UNCHANGED <<hubVars, alive, queue, anchorVars, count, watcher, decoder,
                   era>>

\* take_last_keyframe(): the reader's copy and the shared one go.
TakeKeyframe ==
    /\ reader.pc = "take"
    /\ lastKeyframe # 0
    /\ reader' = [reader EXCEPT !.pc = "replay", !.anchor = lastKeyframe]
    /\ lastKeyframe' = 0 /\ resumeKeyframe' = 0
    /\ UNCHANGED <<hubVars, alive, queue, readerDemand, count, watcher, decoder,
                   era>>

TakeNoKeyframe ==
    /\ reader.pc = "take"
    /\ lastKeyframe = 0
    /\ ReaderGoto("send")
    /\ UNCHANGED <<hubVars, alive, queue, anchorVars, readerDemand, count, watcher,
                   decoder, era>>

Replay ==
    /\ reader.pc = "replay"
    /\ Room /\ Open
    /\ Send(Packet("keyframe", reader.anchor, FALSE, era))
    /\ reader' = [reader EXCEPT !.pc = "send", !.anchor = 0]
    /\ UNCHANGED <<hubVars, alive, anchorVars, readerDemand, count, watcher, decoder,
                   era>>

\* Mutant: try_send(): a packet that would have to wait is dropped.
SendOrDrop ==
    /\ reader.pc = "send"
    /\ Open
    /\ queue' = IF Room THEN Append(queue, reader.packet) ELSE queue
    /\ NextRead
    /\ UNCHANGED <<hubVars, alive, anchorVars, readerDemand, count, watcher, decoder,
                   era>>

\* Mutant: the channel has no bound.
SendUnbounded ==
    /\ reader.pc = "send"
    /\ Open
    /\ Send(reader.packet)
    /\ NextRead
    /\ UNCHANGED <<hubVars, alive, anchorVars, readerDemand, count, watcher, decoder,
                   era>>

SendPacket ==
    /\ reader.pc = "send"
    /\ Room /\ Open
    /\ Send(reader.packet)
    /\ NextRead
    /\ UNCHANGED <<hubVars, alive, anchorVars, readerDemand, count, watcher, decoder,
                   era>>

\* send() fails once the decoder has dropped the receiver.
SendFails ==
    /\ reader.pc \in {"send", "replay"}
    /\ ~Open
    /\ ReaderEnds

ReadPacket == ReadSession \/ ReadKeyframe \/ ReadDelta

ReaderStep ==
    \/ LoadDemand \/ Discard \/ SwapDemand
    \/ TakeKeyframe \/ TakeNoKeyframe \/ Replay \/ SendPacket \/ SendFails

-----------------------------------------------------------------------------
(* The watcher task: woken by a change of the demand, or by its tick.      *)

Watcher(label) == [pc |-> label, anchor |-> 0, wants |-> FALSE]

Wake ==
    /\ watcher.pc = "wait"
    /\ alive
    /\ watcher' = [watcher EXCEPT !.pc = "swap", !.wants = Demand]
    /\ UNCHANGED <<hubVars, alive, queue, anchorVars, readerDemand, count, reader,
                   decoder, era>>

\* Mutant: the watcher ends only when it cannot send.
WatchWhileOpen ==
    /\ watcher.pc = "wait"
    /\ ~alive /\ ~Open
    /\ watcher' = Watcher("stopped")
    /\ UNCHANGED <<hubVars, alive, queue, anchorVars, readerDemand, count, reader,
                   decoder, era>>

StopWatching ==
    /\ watcher.pc = "wait"
    /\ ~alive
    /\ watcher' = Watcher("stopped")
    /\ UNCHANGED <<hubVars, alive, queue, anchorVars, readerDemand, count, reader,
                   decoder, era>>

WatcherSwap ==
    /\ watcher.pc = "swap"
    /\ readerDemand' = watcher.wants
    /\ watcher' = Watcher(IF Resumes(watcher.wants) THEN "take" ELSE "wait")
    /\ UNCHANGED <<hubVars, alive, queue, anchorVars, count, reader, decoder,
                   era>>

\* Only the shared copy of the anchor is taken.
TakeAnchor ==
    /\ watcher.pc = "take"
    /\ resumeKeyframe' = 0
    /\ watcher' = [watcher EXCEPT !.pc = IF resumeKeyframe = 0 THEN "wait" ELSE "send",
                                  !.anchor = resumeKeyframe]
    /\ UNCHANGED <<hubVars, alive, queue, lastKeyframe, readerDemand, count, reader,
                   decoder, era>>

SendAnchor ==
    /\ watcher.pc = "send"
    /\ Room /\ Open
    /\ Send(Packet("keyframe", watcher.anchor, FALSE, era))
    /\ watcher' = Watcher("wait")
    /\ UNCHANGED <<hubVars, alive, anchorVars, readerDemand, count, reader, decoder,
                   era>>

SendAnchorFails ==
    /\ watcher.pc = "send"
    /\ ~Open
    /\ watcher' = Watcher("stopped")
    /\ UNCHANGED <<hubVars, alive, queue, anchorVars, readerDemand, count, reader,
                   decoder, era>>

WatcherStep ==
    Wake \/ StopWatching \/ WatcherSwap \/ TakeAnchor \/ SendAnchor \/ SendAnchorFails

-----------------------------------------------------------------------------
(* The decoder thread.                                                     *)

DecoderKeeps == UNCHANGED <<state, alive, anchorVars, readerDemand, count, reader,
                            watcher, era>>

\* A new generation of the stream: the codec is dropped.
ReceiveSession ==
    /\ decoder.pc = "recv"
    /\ queue # <<>> /\ Head(queue).kind = "session"
    /\ queue' = Tail(queue)
    /\ decoder' = [decoder EXCEPT !.codec = NoCodec, !.awaiting = TRUE,
                                  !.size = Head(queue).n]
    /\ DecoderKeeps /\ UNCHANGED <<moved, latest>>

ReceiveMedia ==
    /\ decoder.pc = "recv"
    /\ queue # <<>> /\ Head(queue).kind # "session"
    /\ queue' = Tail(queue)
    /\ decoder' = [decoder EXCEPT !.pc = "demand", !.packet = Head(queue)]
    /\ DecoderKeeps /\ UNCHANGED <<moved, latest>>

\* Both senders are gone.
ChannelCloses ==
    /\ decoder.pc = "recv"
    /\ queue = <<>> /\ reader.pc = "stopped" /\ watcher.pc = "stopped"
    /\ decoder' = [decoder EXCEPT !.pc = "stopped"]
    /\ alive' = FALSE
    /\ UNCHANGED <<hubVars, queue, anchorVars, readerDemand, count, reader, watcher,
                   era>>

\* On to the next stage with this packet, or to the next packet.
GoOn(label, codec, awaiting) ==
    decoder' = [decoder EXCEPT !.pc = label, !.codec = codec, !.awaiting = awaiting]
NextPacket(codec, awaiting) ==
    decoder' = [decoder EXCEPT !.pc = "recv", !.packet = NoPacket,
                               !.codec = codec, !.awaiting = awaiting]

IsWanted ==
    /\ decoder.pc = "demand"
    /\ Demand
    /\ GoOn("epoch", decoder.codec, decoder.awaiting)
    /\ DecoderKeeps /\ UNCHANGED <<moved, latest, queue>>

IsUnwanted ==
    /\ decoder.pc = "demand"
    /\ ~Demand
    /\ GoOn("observe", NoCodec, TRUE)
    /\ DecoderKeeps /\ UNCHANGED <<moved, latest, queue>>

Observe ==
    /\ decoder.pc = "observe"
    /\ moved' = {}
    /\ NextPacket(decoder.codec, decoder.awaiting)
    /\ DecoderKeeps /\ UNCHANGED <<latest, queue>>

\* A decoder that awaits a keyframe skips a delta.
Filter(codec, awaiting) ==
    IF awaiting /\ decoder.packet.kind = "delta"
    THEN NextPacket(codec, awaiting) ELSE GoOn("decode", codec, awaiting)

SameEpoch ==
    /\ decoder.pc = "epoch"
    /\ moved = {}
    /\ Filter(decoder.codec, decoder.awaiting)
    /\ DecoderKeeps /\ UNCHANGED <<moved, latest, queue>>

\* Mutant: the codec survives a change of the epoch.
NewEpochKeepsCodec ==
    /\ decoder.pc = "epoch"
    /\ moved # {}
    /\ moved' = {}
    /\ Filter(decoder.codec, decoder.awaiting)
    /\ DecoderKeeps /\ UNCHANGED <<latest, queue>>

NewEpoch ==
    /\ decoder.pc = "epoch"
    /\ moved # {}
    /\ moved' = {}
    /\ Filter(NoCodec, TRUE)
    /\ DecoderKeeps /\ UNCHANGED <<latest, queue>>

\* The codec once it has been fed the packet.
Fed(codec, packet) ==
    IF packet.kind = "keyframe"
    THEN Codec(packet.n, packet.live, packet.era, era)
    ELSE [codec EXCEPT !.last = packet.n]

DecodeFrame ==
    /\ decoder.pc = "decode"
    /\ GoOn("check", Fed(decoder.codec, decoder.packet), FALSE)
    /\ DecoderKeeps /\ UNCHANGED <<moved, latest, queue>>

\* FFmpeg keeps the packet and has no frame yet.
DecodeNothing ==
    /\ decoder.pc = "decode"
    /\ DecoderCanFail
    /\ NextPacket(Fed(decoder.codec, decoder.packet), FALSE)
    /\ DecoderKeeps /\ UNCHANGED <<moved, latest, queue>>

DecodeError ==
    /\ decoder.pc = "decode"
    /\ DecoderCanFail
    /\ NextPacket(NoCodec, TRUE)
    /\ DecoderKeeps /\ UNCHANGED <<moved, latest, queue>>

\* FFmpeg cannot be initialised: the thread returns, the receiver is dropped.
DecoderInitError ==
    /\ decoder.pc = "decode"
    /\ decoder.codec = NoCodec /\ DecoderCanFail
    /\ GoOn("stopped", NoCodec, TRUE)
    /\ alive' = FALSE
    /\ queue' = <<>>
    /\ UNCHANGED <<hubVars, anchorVars, readerDemand, count, reader, watcher,
                   era>>

\* The demand is looked at again before the frame is published.
StillWanted ==
    /\ decoder.pc = "check"
    /\ Demand
    /\ GoOn("publish", decoder.codec, decoder.awaiting)
    /\ DecoderKeeps /\ UNCHANGED <<moved, latest, queue>>

DropFrame ==
    /\ decoder.pc = "check"
    /\ ~Demand
    /\ NextPacket(decoder.codec, decoder.awaiting)
    /\ DecoderKeeps /\ UNCHANGED <<moved, latest, queue>>

Publish ==
    /\ decoder.pc = "publish"
    /\ latest' = decoder.packet.n
    /\ NextPacket(decoder.codec, decoder.awaiting)
    /\ DecoderKeeps /\ UNCHANGED <<moved, queue>>

DecoderStep ==
    \/ ReceiveSession \/ ReceiveMedia \/ ChannelCloses
    \/ IsWanted \/ IsUnwanted \/ Observe \/ SameEpoch \/ NewEpoch
    \/ DecodeFrame \/ DecodeNothing \/ DecodeError \/ DecoderInitError
    \/ StillWanted \/ DropFrame \/ Publish

-----------------------------------------------------------------------------
Next == Hub \/ ReadPacket \/ StreamEnds \/ ReaderStep \/ WatcherStep \/ DecoderStep

Spec == Init /\ [][Next]_vars

\* The tasks and the thread run; the watcher ticks.  The socket of a session that
\* is not alive is closed: its shutdown kills the server.
Fairness ==
    /\ WF_vars(ReaderStep) /\ WF_vars(WatcherStep) /\ WF_vars(DecoderStep)
    /\ WF_vars(StreamEnds /\ ~alive)

FairSpec == Spec /\ Fairness

-----------------------------------------------------------------------------
(* Properties.                                                             *)

Packets == [kind : Kinds, n : Nat, live : BOOLEAN, era : Nat]
Codecs == [last : Nat, live : BOOLEAN, era : Nat, fed : Nat]
Readers ==
    [pc : {"read", "demand", "swap", "take", "replay", "send", "stopped"},
     packet : Packets, anchor : Nat, wants : BOOLEAN]
Watchers ==
    [pc : {"wait", "swap", "take", "send", "stopped"}, anchor : Nat, wants : BOOLEAN]
Decoders ==
    [pc : {"recv", "demand", "observe", "epoch", "decode", "check", "publish",
           "stopped"},
     packet : Packets, codec : Codecs, awaiting : BOOLEAN, size : Nat]

\* Types of the variables; the channel holds at most its capacity, however many
\* tasks send on it.
TypeOK ==
    /\ state \in {"active", "idleGrace", "suspended"}
    /\ moved \subseteq {"suspend", "reconnect"}
    /\ latest \in Nat /\ count \in Nat /\ era \in Nat
    /\ alive \in BOOLEAN /\ readerDemand \in BOOLEAN
    /\ queue \in Seq(Packets) /\ Len(queue) <= Capacity
    /\ resumeKeyframe \in Nat /\ lastKeyframe \in Nat
    /\ reader \in Readers
    /\ watcher \in Watchers
    /\ decoder \in Decoders

\* The packet about to be decoded is a delta.
FeedsDelta == decoder.pc = "decode" /\ decoder.packet.kind = "delta"

\* session.rs:1177-1184: a delta that was read after a suspension is never fed to
\* a codec that was started before it, whose chain has lost the packets that were
\* discarded; nor is one fed to a codec that has seen no keyframe.
SuspensionResets ==
    FeedsDelta => /\ decoder.codec # NoCodec
                  /\ decoder.packet.era <= decoder.codec.fed

\* Between two suspensions the pipeline loses, repeats and reorders nothing,
\* however the three tasks interleave and wait for the channel: a decoder whose
\* chain starts with a live keyframe is fed every delta right after the packet
\* before it.  A chain that starts with a replayed anchor has a gap by design, and
\* the property says nothing of it.
SteadyChain ==
    FeedsDelta /\ decoder.codec.live /\ decoder.codec.era = decoder.packet.era
        => decoder.packet.n = decoder.codec.last + 1

\* When the session is over, both tasks and the thread end, so the socket, the
\* channel and the codec are let go.
TasksEnd ==
    ~alive ~> /\ reader.pc = "stopped" /\ watcher.pc = "stopped"
              /\ decoder.pc = "stopped"

\* ARCHITECTURE.md:33-35: a later demand can inject the cached keyframe even when
\* a static device has not emitted a new packet.
ResumeShowsFrame ==
    <>[](state = "active" /\ alive /\ lastKeyframe # 0) => []<>(latest # 0)
=============================================================================
