---------------------------- MODULE InputWriter ----------------------------
(***************************************************************************)
(* The input of a session (ScrcpySession::send_input and the writer task   *)
(* in crates/forge-core/src/session.rs): gestures become batches of        *)
(* messages, a bounded queue takes the batches, and one task writes them   *)
(* to the control socket while every caller waits for its answer, but not  *)
(* for ever.  SessionLife composes it with the life of the session.        *)
(*                                                                         *)
(* A batch stands for one call of send_input, a retry for another batch.   *)
(***************************************************************************)
EXTENDS Naturals, Sequences, FiniteSets, SequencesExt

CONSTANTS Batches,
          Length,     \* the number of messages of each batch
          Capacity,   \* how many batches the queue takes, 16 in the code
          NoBatch

ASSUME InputAssumption ==
    /\ Length \in [Batches -> Nat \ {0}]
    /\ Capacity \in Nat \ {0}
    /\ NoBatch \notin Batches

VARIABLES
    alive,    \* the session's flag
    input,    \* whether the session still has its sender
    call,     \* where each call is, or how it has ended
    queue,    \* the batches in the channel
    writer,   \* where the task is, and the batch it is at
    sent,     \* how many messages of each batch were written
    reply     \* the answer in the oneshot channel of each batch

inputVars == <<call, queue, writer, sent, reply>>

\* Refused: not enqueued.  Gone: the caller's future was dropped.
Refused == {"dead", "busy", "closed", "stopped"}
Calls == {"new", "lock", "waiting", "ok", "error", "timeout", "gone"} \cup Refused
Replies == {"none", "ok", "error", "dropped"}
WriterPcs == {"recv", "check", "write", "delay", "flush", "fail", "break",
              "shutdown", "ended"}

InputInit ==
    /\ call = [b \in Batches |-> "new"]
    /\ queue = <<>>
    /\ writer = [pc |-> "recv", batch |-> NoBatch]
    /\ sent = [b \in Batches |-> 0]
    /\ reply = [b \in Batches |-> "none"]

Calling(b) == call[b] \in {"lock", "waiting"}
CallTo(b, label) == call' = [call EXCEPT ![b] = label]
WriterTo(label) == writer' = [writer EXCEPT !.pc = label]
Reply(S, answer) == reply' = [b \in Batches |-> IF b \in S THEN answer ELSE reply[b]]

-----------------------------------------------------------------------------
(* The callers.                                                            *)

\* The session must look alive; the batch is not empty and not too large.
Submit(b) ==
    /\ call[b] = "new"
    /\ CallTo(b, IF alive THEN "lock" ELSE "dead")
    /\ UNCHANGED <<alive, input, queue, writer, sent, reply>>

\* Mutant: the answer to a full queue is given after the batch has got in.
EnqueueAnyway(b) ==
    /\ call[b] = "lock"
    /\ input
    /\ queue' = Append(queue, b)
    /\ CallTo(b, IF Len(queue) < Capacity THEN "waiting" ELSE "busy")
    /\ UNCHANGED <<alive, input, writer, sent, reply>>

\* The sender is cloned and tried at once.
Enqueue(b) ==
    /\ call[b] = "lock"
    /\ input /\ writer.pc # "ended" /\ Len(queue) < Capacity
    /\ queue' = Append(queue, b)
    /\ CallTo(b, "waiting")
    /\ UNCHANGED <<alive, input, writer, sent, reply>>

Refuse(b) ==
    /\ call[b] = "lock"
    /\ \/ ~input /\ CallTo(b, "closed")
       \/ input /\ writer.pc = "ended" /\ CallTo(b, "stopped")
       \/ input /\ writer.pc # "ended" /\ Len(queue) = Capacity /\ CallTo(b, "busy")
    /\ UNCHANGED <<alive, input, queue, writer, sent, reply>>

\* The answer, or the end of the channel it should have come through.
Receive(b) ==
    /\ call[b] = "waiting" /\ reply[b] # "none"
    /\ CallTo(b, IF reply[b] = "dropped" THEN "stopped" ELSE reply[b])
    /\ UNCHANGED <<alive, input, queue, writer, sent, reply>>

\* Half a second and the delays of the batch are over.  The batch is not taken
\* back.
Timeout(b) ==
    /\ call[b] = "waiting" /\ reply[b] = "none"
    /\ CallTo(b, "timeout")
    /\ UNCHANGED <<alive, input, queue, writer, sent, reply>>

\* The request, or the script, that wanted the gesture is gone.
Abandon(b) ==
    /\ Calling(b)
    /\ CallTo(b, "gone")
    /\ UNCHANGED <<alive, input, queue, writer, sent, reply>>

CallStep(b) == Enqueue(b) \/ Refuse(b) \/ Receive(b) \/ Timeout(b)

-----------------------------------------------------------------------------
(* The writer task.                                                        *)

TakeBatch ==
    /\ writer.pc = "recv"
    /\ queue # <<>>
    /\ writer' = [pc |-> "check", batch |-> Head(queue)]
    /\ queue' = Tail(queue)
    /\ UNCHANGED <<alive, input, call, sent, reply>>

\* The session has let its sender go, and so has every caller.
QueueClosed ==
    /\ writer.pc = "recv"
    /\ queue = <<>>
    /\ ~input /\ \A b \in Batches : call[b] # "waiting"
    /\ WriterTo("shutdown")
    /\ UNCHANGED <<alive, input, call, queue, sent, reply>>

\* Before every message.
CheckAlive ==
    /\ writer.pc = "check"
    /\ WriterTo(IF sent[writer.batch] = Length[writer.batch] THEN "flush"
                ELSE IF alive THEN "write" ELSE "fail")
    /\ UNCHANGED <<alive, input, call, queue, sent, reply>>

\* The socket takes the message.
Write ==
    /\ writer.pc = "write"
    /\ sent' = [sent EXCEPT ![writer.batch] = @ + 1]
    /\ WriterTo("delay")
    /\ UNCHANGED <<alive, input, call, queue, reply>>

\* The delay after the message is over, or cut short in one of its steps.
EndDelay ==
    /\ writer.pc = "delay"
    /\ \/ WriterTo("check")
       \/ ~alive /\ WriterTo("fail")
    /\ UNCHANGED <<alive, input, call, queue, sent, reply>>

\* Mutant: a batch has succeeded when its first message is written.
AnswerEarly ==
    /\ writer.pc \in {"delay", "flush"}
    /\ Reply({writer.batch}, "ok")
    /\ IF writer.pc = "flush" THEN writer' = [pc |-> "recv", batch |-> NoBatch]
                              ELSE WriterTo("check")
    /\ UNCHANGED <<alive, input, call, queue, sent>>

\* Written and flushed: the batch has succeeded.
AnswerOk ==
    /\ writer.pc = "flush"
    /\ Reply({writer.batch}, "ok")
    /\ writer' = [pc |-> "recv", batch |-> NoBatch]
    /\ UNCHANGED <<alive, input, call, queue, sent>>

\* The socket fails.
WriteFails ==
    /\ writer.pc \in {"write", "flush"}
    /\ WriterTo("fail")
    /\ UNCHANGED <<alive, input, call, queue, sent, reply>>

AnswerError ==
    /\ writer.pc = "fail"
    /\ Reply({writer.batch}, "error")
    /\ WriterTo("break")
    /\ UNCHANGED <<alive, input, call, queue, sent>>

\* Mutant: the writer goes on with the next batch.
GoOnAfterError ==
    /\ writer.pc = "break"
    /\ writer' = [pc |-> "recv", batch |-> NoBatch]
    /\ UNCHANGED <<alive, input, call, queue, sent, reply>>

\* A failed batch ends the session.
Break ==
    /\ writer.pc = "break"
    /\ alive' = FALSE
    /\ writer' = [pc |-> "shutdown", batch |-> NoBatch]
    /\ UNCHANGED <<input, call, queue, sent, reply>>

\* The socket is shut down, then the receiver is dropped with what is queued.
EndWriter ==
    /\ writer.pc = "shutdown"
    /\ Reply(ToSet(queue), "dropped")
    /\ queue' = <<>>
    /\ WriterTo("ended")
    /\ UNCHANGED <<alive, input, call, sent>>

\* What does not depend on the socket.
WriterStep ==
    \/ TakeBatch \/ QueueClosed \/ CheckAlive \/ EndDelay
    \/ AnswerError \/ Break \/ EndWriter

SocketStep == Write \/ AnswerOk \/ WriteFails

InputStep ==
    \/ \E b \in Batches : CallStep(b) \/ Abandon(b)
    \/ WriterStep \/ SocketStep

-----------------------------------------------------------------------------
(* Properties.                                                             *)

InputTypeOK ==
    /\ call \in [Batches -> Calls]
    /\ queue \in Seq(Batches) /\ Len(queue) <= Capacity
    /\ writer \in [pc : WriterPcs, batch : Batches \cup {NoBatch}]
    /\ sent \in [Batches -> Nat] /\ \A b \in Batches : sent[b] <= Length[b]
    /\ reply \in [Batches -> Replies]

\* session.rs:1391-1393: success is reported only for a batch that was written
\* to the last message; a failed tap never looks successful.
OkMeansWritten == \A b \in Batches : call[b] = "ok" => sent[b] = Length[b]

\* A caller that is told of a refusal, of a full queue or of a writer that has
\* stopped may try again without doing a gesture twice: no message of the batch
\* was or will be written.  A caller that is told of a timeout may not.
RefusedIsNotSent ==
    \A b \in Batches :
        call[b] \in Refused =>
            sent[b] = 0 /\ b \notin ToSet(queue) /\ writer.batch # b

\* A gesture that was begun is finished before the next one begins; one that was
\* cut short, a touch that went down and not up again, has ended its session.
GesturesAreWhole ==
    \A b \in Batches :
        sent[b] \in 1..Length[b] - 1 /\ writer.batch # b => ~alive
=============================================================================
