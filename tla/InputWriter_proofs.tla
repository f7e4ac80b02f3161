------------------------- MODULE InputWriter_proofs -------------------------
(***************************************************************************)
(* Proofs about InputWriter, for any set of batches, any lengths and any   *)
(* capacity of the queue.  The session's life, which SessionLife adds, can *)
(* take `alive` and `input` away at any time; the lemmas here are about    *)
(* the steps of the callers and the writer, and SessionLife_proofs cites   *)
(* them.  The invariant follows a batch on its way:                        *)
(*   QueueInv    where a batch can be, and how often                       *)
(*   WriterInv   what the writer knows of the batch it is at               *)
(*   AnswerInv   what the answers say of what was written                  *)
(***************************************************************************)
EXTENDS InputWriter, SequenceTheorems, TLAPS

\* The batch has left no trace, in the queue, at the writer or on the socket.
Unsent(b) == sent[b] = 0 /\ b \notin ToSet(queue) /\ writer.batch # b

\* The pcs at which the writer is at a batch.
AtBatch == {"check", "write", "delay", "flush", "fail", "break"}

\* No two positions have the same batch.
Distinct(s) == \A i, j \in 1..Len(s) : s[i] = s[j] => i = j

\* A batch is queued at most once, before any of it was written, and by a call
\* that has got that far.
QueueInv ==
    /\ Distinct(queue)
    /\ \A b \in ToSet(queue) :
          /\ call[b] \notin {"new", "lock"}
          /\ sent[b] = 0 /\ writer.batch # b /\ reply[b] = "none"
    /\ \A b \in Batches : call[b] \in {"new", "lock"} => Unsent(b) /\ reply[b] = "none"

\* The writer has a batch just when it is at one, and has not answered it before
\* the batch is over.
WriterInv ==
    /\ writer.batch # NoBatch <=> writer.pc \in AtBatch
    /\ writer.pc \in AtBatch \ {"break"} => reply[writer.batch] = "none"
    /\ writer.pc = "break" => reply[writer.batch] = "error"
    /\ writer.pc = "write" => sent[writer.batch] < Length[writer.batch]
    /\ writer.pc = "flush" => sent[writer.batch] = Length[writer.batch]

\* A batch that was dropped or refused has left no trace; one that has succeeded
\* was written whole and is out of the writer's hands.
AnswerInv ==
    \A b \in Batches :
        /\ reply[b] = "dropped" \/ call[b] \in Refused => Unsent(b)
        /\ reply[b] = "ok" \/ call[b] = "ok" =>
              sent[b] = Length[b] /\ b \notin ToSet(queue) /\ writer.batch # b


\* The part of the invariant about the input.
InputInv == /\ InputTypeOK /\ QueueInv /\ WriterInv /\ AnswerInv
            /\ GesturesAreWhole

\* A step of the callers or of the writer.
InputNext == InputStep \/ \E b \in Batches : Submit(b)

-----------------------------------------------------------------------------
(* The queue.                                                              *)

\* A batch that joins the queue is at its end, behind all the others.
LEMMA JoinQueue ==
    ASSUME NEW s \in Seq(Batches), NEW b \in Batches
    PROVE  /\ Append(s, b) \in Seq(Batches) /\ Len(Append(s, b)) = Len(s) + 1
           /\ ToSet(Append(s, b)) = ToSet(s) \cup {b}
           /\ Distinct(s) /\ b \notin ToSet(s) => Distinct(Append(s, b))
<1>1. /\ Append(s, b) \in Seq(Batches) /\ Len(Append(s, b)) = Len(s) + 1
      /\ \A i \in 1..Len(s) : Append(s, b)[i] = s[i]
      /\ Append(s, b)[Len(s) + 1] = b
  BY AppendProperties
<1>2. /\ DOMAIN s = 1..Len(s) /\ DOMAIN Append(s, b) = 1..Len(s) + 1
      /\ Len(s) \in Nat
  BY <1>1, LenProperties
<1>3. ToSet(Append(s, b)) = ToSet(s) \cup {b}
  BY <1>1, <1>2 DEF ToSet
<1>4. Distinct(s) /\ b \notin ToSet(s) => Distinct(Append(s, b))
  BY <1>1, <1>2 DEF ToSet, Distinct
<1> QED
  BY <1>1, <1>3, <1>4

\* The batch that leaves the queue is its head; if the batches are distinct it is
\* not in what is left.
LEMMA LeaveQueue ==
    ASSUME NEW s \in Seq(Batches), s # <<>>
    PROVE  /\ Tail(s) \in Seq(Batches) /\ Len(Tail(s)) = Len(s) - 1
           /\ Head(s) \in Batches /\ Head(s) \in ToSet(s)
           /\ ToSet(Tail(s)) \subseteq ToSet(s)
           /\ Distinct(s) => Distinct(Tail(s)) /\ Head(s) \notin ToSet(Tail(s))
<1>1. /\ Tail(s) \in Seq(Batches) /\ Len(Tail(s)) = Len(s) - 1
      /\ \A i \in 1..Len(s) - 1 : Tail(s)[i] = s[i + 1]
      /\ Head(s) = s[1] /\ Head(s) \in Batches
  BY HeadTailProperties
<1>2. /\ DOMAIN s = 1..Len(s) /\ DOMAIN Tail(s) = 1..Len(s) - 1
      /\ Len(s) \in Nat \ {0}
  BY <1>1, LenProperties, EmptySeq
<1>3. Head(s) \in ToSet(s) /\ ToSet(Tail(s)) \subseteq ToSet(s)
  BY <1>1, <1>2 DEF ToSet
<1>4. Distinct(s) => Distinct(Tail(s)) /\ Head(s) \notin ToSet(Tail(s))
  BY <1>1, <1>2 DEF ToSet, Distinct
<1> QED
  BY <1>1, <1>3, <1>4

\* Nothing is in an empty queue.
LEMMA NoQueue == /\ <<>> \in Seq(Batches) /\ Len(<<>>) = 0
                 /\ ToSet(<<>>) = {} /\ Distinct(<<>>)
BY DEF ToSet, Distinct

\* What is in the queue is a batch.
LEMMA QueuedIsBatch == InputTypeOK => ToSet(queue) \subseteq Batches
BY LenProperties, ElementOfSeq DEF InputTypeOK, ToSet

-----------------------------------------------------------------------------
(* The steps.                                                              *)

\* Before the session is up nothing was submitted, queued, written or answered.
LEMMA InputInitInv == InputInit => InputInv
<1> SUFFICES ASSUME InputInit PROVE InputInv
    OBVIOUS
<1> USE InputAssumption, NoQueue DEF InputInit
<1>1. InputTypeOK
  BY DEF InputTypeOK, Calls, Replies, WriterPcs
<1>2. QueueInv /\ WriterInv /\ AnswerInv /\ GesturesAreWhole
  BY DEF QueueInv, WriterInv, AnswerInv, GesturesAreWhole, Unsent, AtBatch, Refused
<1> QED
  BY <1>1, <1>2 DEF InputInv

\* The types, under the invariant.
LEMMA InputTypeStep ==
    ASSUME InputInv, alive \in BOOLEAN, InputNext PROVE InputTypeOK'
<1> USE InputAssumption DEF InputInv, InputTypeOK, Calls, Refused, Replies, WriterPcs
<1>1. ASSUME NEW b \in Batches, Submit(b) PROVE InputTypeOK'
  BY <1>1 DEF Submit, CallTo
<1>2. ASSUME NEW b \in Batches, CallStep(b) PROVE InputTypeOK'
  <2>1. CASE Enqueue(b)
    BY <2>1, JoinQueue DEF Enqueue, CallTo
  <2>2. CASE Refuse(b)
    BY <2>2 DEF Refuse, CallTo
  <2>3. CASE Receive(b)
    BY <2>3 DEF Receive, CallTo
  <2>4. CASE Timeout(b)
    BY <2>4 DEF Timeout, CallTo
  <2> QED
    BY <1>2, <2>1, <2>2, <2>3, <2>4 DEF CallStep
<1>3. ASSUME NEW b \in Batches, Abandon(b) PROVE InputTypeOK'
  BY <1>3 DEF Abandon, CallTo
<1>4. CASE WriterStep
  <2>1. CASE TakeBatch
    BY <2>1, LeaveQueue DEF TakeBatch
  <2>2. CASE QueueClosed
    BY <2>2 DEF QueueClosed, WriterTo
  <2>3. CASE CheckAlive
    BY <2>3 DEF CheckAlive, WriterTo
  <2>4. CASE EndDelay
    BY <2>4 DEF EndDelay, WriterTo
  <2>5. CASE AnswerError
    BY <2>5 DEF AnswerError, WriterTo, Reply
  <2>6. CASE Break
    BY <2>6 DEF Break
  <2>7. CASE EndWriter
    <3>1. queue' \in Seq(Batches) /\ Len(queue') <= Capacity
      BY <2>7, NoQueue DEF EndWriter
    <3>2. writer' \in [pc : WriterPcs, batch : Batches \cup {NoBatch}]
      BY <2>7 DEF EndWriter, WriterTo
    <3>3. reply' \in [Batches -> Replies]
      BY <2>7 DEF EndWriter, Reply
    <3> QED
      BY <2>7, <3>1, <3>2, <3>3 DEF EndWriter
  <2> QED
    BY <1>4, <2>1, <2>2, <2>3, <2>4, <2>5, <2>6, <2>7 DEF WriterStep
<1>5. CASE SocketStep
  <2>1. CASE Write
    <3>1. writer.batch \in Batches /\ sent[writer.batch] < Length[writer.batch]
      BY <2>1 DEF Write, WriterInv, AtBatch
    <3>2. writer' \in [pc : WriterPcs, batch : Batches \cup {NoBatch}]
      BY <2>1 DEF Write, WriterTo
    <3>3. sent' \in [Batches -> Nat] /\ \A b \in Batches : sent'[b] <= Length[b]
      BY <2>1, <3>1 DEF Write
    <3> QED
      BY <2>1, <3>2, <3>3 DEF Write
  <2>2. CASE AnswerOk
    BY <2>2 DEF AnswerOk, Reply
  <2>3. CASE WriteFails
    BY <2>3 DEF WriteFails, WriterTo
  <2> QED
    BY <1>5, <2>1, <2>2, <2>3 DEF SocketStep
<1> QED
  BY <1>1, <1>2, <1>3, <1>4, <1>5 DEF InputNext, InputStep

\* The rest of the invariant, in a step of the callers ...
LEMMA CallerStep ==
    ASSUME InputInv, alive \in BOOLEAN, NEW b \in Batches,
           Submit(b) \/ CallStep(b) \/ Abandon(b)
    PROVE  QueueInv' /\ WriterInv' /\ AnswerInv' /\ GesturesAreWhole'
<1> USE InputAssumption DEF InputInv, InputTypeOK, Refused, AtBatch, Unsent
<1>0. ToSet(queue) \subseteq Batches
  BY QueuedIsBatch
<1>1. CASE Submit(b)
  BY <1>0, <1>1 DEF Submit, CallTo, QueueInv, WriterInv, AnswerInv, GesturesAreWhole
<1>2. CASE Enqueue(b)
  <2>1. ToSet(queue') = ToSet(queue) \cup {b} /\ Distinct(queue')
    BY <1>2, JoinQueue DEF Enqueue, QueueInv
  <2> QED
    BY <1>0, <1>2, <2>1 DEF Enqueue, CallTo, QueueInv, WriterInv, AnswerInv, GesturesAreWhole
<1>3. CASE Refuse(b)
  BY <1>0, <1>3 DEF Refuse, CallTo, QueueInv, WriterInv, AnswerInv, GesturesAreWhole
<1>4. CASE Receive(b)
  BY <1>0, <1>4 DEF Receive, CallTo, QueueInv, WriterInv, AnswerInv, GesturesAreWhole, Replies
<1>5. CASE Timeout(b)
  BY <1>0, <1>5 DEF Timeout, CallTo, QueueInv, WriterInv, AnswerInv, GesturesAreWhole
<1>6. CASE Abandon(b)
  BY <1>0, <1>6 DEF Abandon, Calling, CallTo, QueueInv, WriterInv, AnswerInv, GesturesAreWhole
<1> QED
  BY <1>1, <1>2, <1>3, <1>4, <1>5, <1>6 DEF CallStep

\* ... and in a step of the writer.
LEMMA TaskStep ==
    ASSUME InputInv, alive \in BOOLEAN, WriterStep \/ SocketStep
    PROVE  QueueInv' /\ WriterInv' /\ AnswerInv' /\ GesturesAreWhole'
<1> USE InputAssumption DEF InputInv, InputTypeOK, Refused, AtBatch, Unsent
<1>0. ToSet(queue) \subseteq Batches
  BY QueuedIsBatch
<1>1. CASE TakeBatch
  <2>1. /\ ToSet(queue') \subseteq ToSet(queue) /\ Distinct(queue')
        /\ writer'.batch \in ToSet(queue) \ ToSet(queue')
    BY <1>1, LeaveQueue DEF TakeBatch, QueueInv
  <2> QED
    BY <1>0, <1>1, <2>1 DEF TakeBatch, QueueInv, WriterInv, AnswerInv, GesturesAreWhole
<1>2. CASE QueueClosed
  BY <1>0, <1>2 DEF QueueClosed, WriterTo, QueueInv, WriterInv, AnswerInv, GesturesAreWhole
<1>3. CASE CheckAlive
  BY <1>0, <1>3 DEF CheckAlive, WriterTo, QueueInv, WriterInv, AnswerInv, GesturesAreWhole
<1>4. CASE EndDelay
  BY <1>0, <1>4 DEF EndDelay, WriterTo, QueueInv, WriterInv, AnswerInv, GesturesAreWhole
<1>5. CASE AnswerError
  BY <1>0, <1>5 DEF AnswerError, WriterTo, Reply, QueueInv, WriterInv, AnswerInv, GesturesAreWhole
<1>6. CASE Break
  BY <1>0, <1>6 DEF Break, QueueInv, WriterInv, AnswerInv, GesturesAreWhole
<1>7. CASE EndWriter
  BY <1>0, <1>7, NoQueue DEF EndWriter, WriterTo, Reply, QueueInv, WriterInv, AnswerInv, GesturesAreWhole
<1>8. CASE Write
  BY <1>0, <1>8 DEF Write, WriterTo, QueueInv, WriterInv, AnswerInv, GesturesAreWhole
<1>9. CASE AnswerOk
  BY <1>0, <1>9 DEF AnswerOk, Reply, QueueInv, WriterInv, AnswerInv, GesturesAreWhole
<1>10. CASE WriteFails
  BY <1>0, <1>10 DEF WriteFails, WriterTo, QueueInv, WriterInv, AnswerInv, GesturesAreWhole
<1> QED
  BY <1>1, <1>2, <1>3, <1>4, <1>5, <1>6, <1>7, <1>8, <1>9, <1>10 DEF WriterStep, SocketStep

\* The callers and the writer keep the invariant.
LEMMA InputNextInv ==
    ASSUME InputInv, alive \in BOOLEAN, InputNext PROVE InputInv'
BY InputTypeStep, CallerStep, TaskStep DEF InputNext, InputStep, InputInv
=============================================================================
