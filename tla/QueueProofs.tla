----------------------------- MODULE QueueProofs -----------------------------
(***************************************************************************)
(* Proofs about the two kinds of queues between the threads.               *)
(*                                                                         *)
(* SharedMemory, for any set of senders and any number of calls: the state *)
(* is well typed, no sender is left asleep on a free slot, and the segment *)
(* with its reader thread implements the FIFO channel of MessageChannel.   *)
(*                                                                         *)
(* SPSCQueue and AudioOutput, for buffers, callbacks and rings of any      *)
(* size: producer and consumer of the queue never meet on a slot, what is  *)
(* published is there, and the queue is a bounded FIFO, also as            *)
(* AudioOutput uses it.  The frames of the ring are played in order.       *)
(***************************************************************************)
EXTENDS SharedMemory, AudioOutput, SequenceTheorems, TLAPS

USE ChannelAssumption

(* What notify_one leaves in pc: everyone keeps his place except at most   *)
(* one blocked thread, which is awake afterwards; and if somebody was      *)
(* blocked, somebody who was is awake.                                     *)
LEMMA NotifyOneFacts ==
  ASSUME NEW f \in [Threads -> SenderPc \cup ReaderPc], NEW g \in NotifyOne(f)
  PROVE  /\ g \in [Threads -> SenderPc \cup ReaderPc]
         /\ \A t \in Threads : g[t] = f[t] \/ (f[t] = "blocked" /\ g[t] = "awake")
         /\ (\E t \in Threads : f[t] = "blocked")
              => \E t \in Threads : f[t] = "blocked" /\ g[t] = "awake"
<1>1. CASE Blocked(f) = {}
  BY <1>1 DEF NotifyOne, Blocked
<1>2. CASE Blocked(f) # {}
  <2>1. PICK u \in Blocked(f) : g = [f EXCEPT ![u] = "awake"]
    BY <1>2 DEF NotifyOne
  <2>2. u \in Threads /\ f[u] = "blocked"
    BY <2>1 DEF Blocked
  <2>3. QED
    BY <2>1, <2>2 DEF SenderPc, ReaderPc
<1>3. QED
  BY <1>1, <1>2

(* The critical section of send() keeps the types.                         *)
LEMMA FillSlotType ==
  ASSUME TypeOK, NEW s \in Senders, NEW n \in 1 .. MaxSends, FillSlot(s, n),
         calls' \in [Senders -> 0 .. MaxSends],
         \A t \in Senders : calls'[t] >= calls[t]
  PROVE  TypeOK'
<1> DEFINE f == [pc EXCEPT ![s] = "idle"]
<1>1. f \in [Threads -> SenderPc \cup ReaderPc]
  BY DEF TypeOK, Threads, SenderPc, ReaderPc
<1>2. pc' \in NotifyOne(f)
  BY DEF FillSlot
<1>3. /\ pc' \in [Threads -> SenderPc \cup ReaderPc]
      /\ \A t \in Threads : pc'[t] = f[t] \/ (f[t] = "blocked" /\ pc'[t] = "awake")
  <2> HIDE DEF f
  <2> QED
    BY <1>1, <1>2, NotifyOneFacts
<1>4. pc'[Reader] \in ReaderPc
  BY <1>3 DEF TypeOK, Threads, ReaderPc
<1>5. \A t \in Senders : pc'[t] \in SenderPc
  BY <1>3 DEF TypeOK, Threads, SenderPc
<1>6. ASSUME NEW t \in Senders, pc'[t] # "idle" PROVE calls'[t] > 0
  <2>1. pc[t] # "idle" \/ t = s
    BY <1>3, <1>6 DEF TypeOK, Threads
  <2>2. t # s
    BY <1>3, <1>6 DEF TypeOK, Threads
  <2>3. calls[t] > 0 /\ calls[t] \in Int /\ calls'[t] \in Int
    BY <2>1, <2>2 DEF TypeOK
  <2>4. QED
    BY <2>3
<1>7. data' \in Message
  BY DEF FillSlot, Message
<1>8. QED
  BY <1>3, <1>4, <1>5, <1>6, <1>7 DEF TypeOK, FillSlot

LEMMA WaitForFreeSlotType ==
  ASSUME TypeOK, NEW s \in Senders, WaitForFreeSlot(s),
         calls' \in [Senders -> 0 .. MaxSends], calls'[s] > 0,
         \A t \in Senders : calls'[t] >= calls[t]
  PROVE  TypeOK'
  BY DEF WaitForFreeSlot, TypeOK, Threads, SenderPc, ReaderPc

LEMMA TakeSlotType ==
  ASSUME TypeOK, TakeSlot
  PROVE  TypeOK'
<1> DEFINE f == [pc EXCEPT ![Reader] = "loop"]
<1>1. f \in [Threads -> SenderPc \cup ReaderPc]
  BY DEF TypeOK, Threads, SenderPc, ReaderPc
<1>2. pc' \in NotifyOne(f)
  BY DEF TakeSlot
<1>3. /\ pc' \in [Threads -> SenderPc \cup ReaderPc]
      /\ \A t \in Threads : pc'[t] = f[t] \/ (f[t] = "blocked" /\ pc'[t] = "awake")
  <2> HIDE DEF f
  <2> QED
    BY <1>1, <1>2, NotifyOneFacts
<1>4. /\ pc'[Reader] \in ReaderPc
      /\ \A t \in Senders : pc'[t] \in SenderPc
      /\ \A t \in Senders : pc'[t] # "idle" => calls'[t] > 0
  BY <1>3 DEF TypeOK, Threads, ReaderPc, SenderPc, TakeSlot
<1>5. message_queue' \in Seq(Message)
  BY DEF TypeOK, TakeSlot
<1>6. QED
  BY <1>3, <1>4, <1>5 DEF TypeOK, TakeSlot

LEMMA ReaderGoesToType ==
  ASSUME TypeOK, NEW where \in ReaderPc, ReaderGoesTo(where)
  PROVE  TypeOK'
  BY DEF ReaderGoesTo, TypeOK, Threads, SenderPc, ReaderPc

LEMMA InitTyped == Init => TypeOK
<1> SUFFICES ASSUME Init PROVE TypeOK
  OBVIOUS
<1>1. pc \in [Threads -> SenderPc \cup ReaderPc] /\ pc[Reader] = "loop"
  BY DEF Init, Threads, SenderPc, ReaderPc
<1>2. \A s \in Senders : pc[s] = "idle"
  BY DEF Init, Threads
<1>3. message_queue \in Seq(Message) /\ delivered \in Seq(Message)
  BY DEF Init
<1>4. calls \in [Senders -> 0 .. MaxSends]
  BY DEF Init
<1>5. QED
  BY <1>1, <1>2, <1>3, <1>4 DEF Init, TypeOK, SenderPc, ReaderPc

LEMMA NextTyped == TypeOK /\ [Next]_vars => TypeOK'
<1> SUFFICES ASSUME TypeOK, [Next]_vars PROVE TypeOK'
  OBVIOUS
<1>1. ASSUME NEW s \in Senders, Send(s) PROVE TypeOK'
  <2>1. /\ calls' \in [Senders -> 0 .. MaxSends]
        /\ calls'[s] > 0
        /\ calls[s] + 1 \in 1 .. MaxSends
        /\ \A t \in Senders : calls'[t] >= calls[t]
    BY <1>1 DEF Send, TypeOK
  <2>2. FillSlot(s, calls[s] + 1) \/ WaitForFreeSlot(s)
    BY <1>1 DEF Send
  <2>3. QED
    BY <2>1, <2>2, FillSlotType, WaitForFreeSlotType
<1>2. ASSUME NEW s \in Senders, SendOversized(s) PROVE TypeOK'
  BY <1>2 DEF SendOversized, TypeOK
<1>3. ASSUME NEW s \in Senders, SenderResumes(s) PROVE TypeOK'
  <2>1. /\ calls' \in [Senders -> 0 .. MaxSends]
        /\ calls'[s] > 0
        /\ calls[s] \in 1 .. MaxSends
        /\ \A t \in Senders : calls'[t] >= calls[t]
    BY <1>3 DEF SenderResumes, TypeOK
  <2>2. FillSlot(s, calls[s]) \/ WaitForFreeSlot(s)
    BY <1>3 DEF SenderResumes
  <2>3. QED
    BY <2>1, <2>2, FillSlotType, WaitForFreeSlotType
<1>4. ASSUME ReaderNext PROVE TypeOK'
  <2>1. TakeSlot \/ \E where \in ReaderPc : ReaderGoesTo(where)
    BY <1>4 DEF ReaderNext, ReaderLocks, ReaderResumes, ReaderTimesOut,
                ReaderExpires, ReaderExits, ReaderPc
  <2>2. QED
    BY <2>1, TakeSlotType, ReaderGoesToType
<1>5. ASSUME NEW t \in Threads, SpuriousWakeup(t) PROVE TypeOK'
  BY <1>5 DEF SpuriousWakeup, TypeOK, Threads, SenderPc, ReaderPc
<1>6. CASE TryPop
  <2>1. Head(message_queue) \in Message /\ Tail(message_queue) \in Seq(Message)
    BY <1>6 DEF TryPop, TypeOK
  <2>2. QED
    BY <1>6, <2>1 DEF TryPop, TypeOK
<1>7. CASE StopReaderThread
  BY <1>7 DEF StopReaderThread, TypeOK
<1>8. CASE UNCHANGED vars
  BY <1>8 DEF vars, TypeOK
<1>9. QED
  BY <1>1, <1>2, <1>3, <1>4, <1>5, <1>6, <1>7, <1>8 DEF Next

(* The shared segment, its threads' places and the queue stay well typed.  *)
THEOREM TypeCorrect == Spec => []TypeOK
<1>1. QED
  BY InitTyped, NextTyped, PTL DEF Spec

-----------------------------------------------------------------------------
(***************************************************************************)
(* NoStrandedSender is inductive.  Only TakeSlot can free the slot, and    *)
(* its notify_one, given while the reader itself is not waiting, reaches a *)
(* sender whenever one waits.                                              *)
(***************************************************************************)
LEMMA TakeSlotWakesASender ==
  ASSUME TypeOK, TakeSlot
  PROVE  NoStrandedSender'
<1> DEFINE f == [pc EXCEPT ![Reader] = "loop"]
<1>1. /\ f \in [Threads -> SenderPc \cup ReaderPc]
      /\ f[Reader] = "loop"
  BY DEF TypeOK, Threads, SenderPc, ReaderPc
<1>2. pc' \in NotifyOne(f)
  BY DEF TakeSlot
<1>3. /\ \A t \in Threads : pc'[t] = f[t] \/ (f[t] = "blocked" /\ pc'[t] = "awake")
      /\ (\E t \in Threads : f[t] = "blocked")
           => \E t \in Threads : f[t] = "blocked" /\ pc'[t] = "awake"
  <2> HIDE DEF f
  <2> QED
    BY <1>1, <1>2, NotifyOneFacts
<1>4. ASSUME NEW s \in Senders, pc'[s] = "blocked"
      PROVE  \E t \in Senders : pc'[t] = "awake"
  <2> HIDE DEF f
  <2>1. s \in Threads /\ f[s] = "blocked"
    BY <1>3, <1>4 DEF Threads
  <2>2. PICK t \in Threads : f[t] = "blocked" /\ pc'[t] = "awake"
    BY <1>3, <2>1
  <2>3. t \in Senders
    BY <1>1, <2>2 DEF Threads
  <2>4. QED
    BY <2>2, <2>3
<1>5. QED
  BY <1>4 DEF NoStrandedSender

LEMMA NextNoStrandedSender ==
  TypeOK /\ NoStrandedSender /\ [Next]_vars => NoStrandedSender'
<1> SUFFICES ASSUME TypeOK, NoStrandedSender, [Next]_vars PROVE NoStrandedSender'
  OBVIOUS
<1>1. ASSUME NEW s \in Senders, Send(s) \/ SenderResumes(s) PROVE NoStrandedSender'
  <2>1. data_ready'
    BY <1>1 DEF Send, SenderResumes, FillSlot, WaitForFreeSlot
  <2>2. QED
    BY <2>1 DEF NoStrandedSender
<1>2. ASSUME NEW s \in Senders, SendOversized(s) PROVE NoStrandedSender'
  BY <1>2 DEF SendOversized, NoStrandedSender
<1>3. CASE ReaderNext
  <2>1. ASSUME NEW where, ReaderGoesTo(where) PROVE NoStrandedSender'
    BY <2>1 DEF ReaderGoesTo, NoStrandedSender, TypeOK, Threads
  <2>2. QED
    BY <1>3, <2>1, TakeSlotWakesASender
       DEF ReaderNext, ReaderLocks, ReaderResumes, ReaderTimesOut, ReaderExpires, ReaderExits
<1>4. ASSUME NEW t \in Threads, SpuriousWakeup(t) PROVE NoStrandedSender'
  BY <1>4 DEF SpuriousWakeup, NoStrandedSender, TypeOK, Threads
<1>5. CASE TryPop \/ StopReaderThread \/ UNCHANGED vars
  BY <1>5 DEF TryPop, StopReaderThread, vars, NoStrandedSender
<1>6. QED
  BY <1>1, <1>2, <1>3, <1>4, <1>5 DEF Next

(* The wakeup for a free slot is never lost, although senders and reader   *)
(* share one condition variable and notify_one wakes an arbitrary waiter.  *)
THEOREM NoSenderIsStranded == Spec => []NoStrandedSender
<1>1. Init => NoStrandedSender
  BY DEF Init, NoStrandedSender, Threads
<1>2. QED
  BY <1>1, NextNoStrandedSender, TypeCorrect, PTL DEF Spec

-----------------------------------------------------------------------------
(***************************************************************************)
(* Refinement: filling the slot is Accept, popping the queue is Deliver,   *)
(* an oversized message is Refuse, and every other step, the reader moving *)
(* the message from the slot to the queue included, changes nothing of the *)
(* abstract channel.                                                       *)
(***************************************************************************)
LEMMA InTransitType == TypeOK => InTransit \in Seq(Message)
  BY DEF TypeOK, InTransit

(* Only the caller's own place and call counter move what it has returned. *)
LEMMA ReturnedAfterFill ==
  ASSUME TypeOK, NEW s \in Senders, NEW n \in 1 .. MaxSends, FillSlot(s, n),
         calls' = [calls EXCEPT ![s] = n]
  PROVE  Returned' = [Returned EXCEPT ![s] = n]
<1> DEFINE f == [pc EXCEPT ![s] = "idle"]
<1>1. /\ f \in [Threads -> SenderPc \cup ReaderPc]
      /\ f[s] = "idle"
      /\ \A t \in Senders \ {s} : f[t] = pc[t]
  BY DEF TypeOK, Threads, SenderPc, ReaderPc
<1>2. pc' \in NotifyOne(f)
  BY DEF FillSlot
<1>3. \A t \in Threads : pc'[t] = f[t] \/ (f[t] = "blocked" /\ pc'[t] = "awake")
  <2> HIDE DEF f
  <2> QED
    BY <1>1, <1>2, NotifyOneFacts
<1> HIDE DEF f
<1>4. pc'[s] = "idle" /\ calls'[s] = n
  BY <1>1, <1>3 DEF Threads, TypeOK
<1>5. \A t \in Senders \ {s} : (pc'[t] = "idle" <=> pc[t] = "idle") /\ calls'[t] = calls[t]
  BY <1>1, <1>3 DEF Threads, TypeOK
<1>6. Returned'[s] = n /\ \A t \in Senders \ {s} : Returned'[t] = Returned[t]
  BY <1>4, <1>5 DEF Returned
<1>7. DOMAIN Returned' = Senders /\ DOMAIN Returned = Senders
  BY DEF Returned
<1>8. /\ Returned' = [t \in Senders |-> Returned'[t]]
      /\ Returned = [t \in Senders |-> Returned[t]]
  BY DEF Returned
<1>9. QED
  BY <1>6, <1>7, <1>8

LEMMA FillSlotAccepts ==
  ASSUME TypeOK, NEW s \in Senders, NEW n \in 1 .. MaxSends, FillSlot(s, n),
         calls' = [calls EXCEPT ![s] = n], Returned[s] = n - 1
  PROVE  Fifo!Accept(s)
<1>1. Returned' = [Returned EXCEPT ![s] = Returned[s] + 1]
  <2>1. Returned' = [Returned EXCEPT ![s] = n]
    BY ReturnedAfterFill
  <2>2. n = Returned[s] + 1
    OBVIOUS
  <2>3. QED
    BY <2>1, <2>2
<1>2. InTransit' = Append(InTransit, <<s, n>>)
  BY DEF FillSlot, InTransit
<1>3. delivered' = delivered
  BY DEF FillSlot
<1>4. n = Returned[s] + 1 /\ Returned[s] < MaxSends
  OBVIOUS
<1>5. QED
  BY <1>1, <1>2, <1>3, <1>4 DEF Fifo!Accept

LEMMA TakeSlotStutters ==
  ASSUME TypeOK, TakeSlot
  PROVE  UNCHANGED <<InTransit, Returned, delivered>>
<1> DEFINE f == [pc EXCEPT ![Reader] = "loop"]
<1>1. /\ f \in [Threads -> SenderPc \cup ReaderPc]
      /\ \A t \in Senders : f[t] = pc[t]
  BY DEF TypeOK, Threads, SenderPc, ReaderPc
<1>2. pc' \in NotifyOne(f)
  BY DEF TakeSlot
<1>3. \A t \in Threads : pc'[t] = f[t] \/ (f[t] = "blocked" /\ pc'[t] = "awake")
  <2> HIDE DEF f
  <2> QED
    BY <1>1, <1>2, NotifyOneFacts
<1> HIDE DEF f
<1>4. \A t \in Senders : pc'[t] = "idle" <=> pc[t] = "idle"
  BY <1>1, <1>3 DEF Threads
<1>5. Returned' = Returned
  BY <1>4 DEF Returned, TakeSlot
<1>6. QED
  BY <1>5 DEF TakeSlot, InTransit

(* Popping behind a full slot: head and tail are those of the queue.       *)
LEMMA PopDelivers == ASSUME TypeOK, TryPop PROVE Fifo!Deliver
<1>1. /\ message_queue \in Seq(Message) /\ message_queue # << >>
      /\ message_queue' = Tail(message_queue)
      /\ delivered' = Append(delivered, Head(message_queue))
      /\ data_ready' = data_ready /\ data' = data
      /\ Returned' = Returned
  BY DEF TypeOK, TryPop, Returned
<1>2. CASE ~ data_ready
  BY <1>1, <1>2 DEF InTransit, Fifo!Deliver
<1>3. CASE data_ready
  <2>1. data \in Message
    BY <1>3 DEF TypeOK
  <2>2. /\ Append(message_queue, data) # << >>
        /\ Head(Append(message_queue, data)) = Head(message_queue)
        /\ Tail(Append(message_queue, data)) = Append(Tail(message_queue), data)
    BY <1>1, <2>1
  <2>3. QED
    BY <1>1, <1>3, <2>2 DEF InTransit, Fifo!Deliver
<1>4. QED
  BY <1>2, <1>3

LEMMA NextRefines == TypeOK /\ [Next]_vars => [Fifo!Next]_(Fifo!vars)
<1> SUFFICES ASSUME TypeOK, [Next]_vars PROVE [Fifo!Next]_(Fifo!vars)
  OBVIOUS
<1>1. ASSUME NEW s \in Senders, Send(s) PROVE [Fifo!Next]_(Fifo!vars)
  <2> DEFINE n == calls[s] + 1
  <2>1. n \in 1 .. MaxSends /\ calls' = [calls EXCEPT ![s] = n] /\ Returned[s] = n - 1
    BY <1>1 DEF Send, TypeOK, Returned
  <2>2. CASE FillSlot(s, n)
    BY <2>1, <2>2, FillSlotAccepts DEF Fifo!Next
  <2>3. CASE WaitForFreeSlot(s)
    <3>1. \A t \in Senders : Returned'[t] = Returned[t]
      BY <1>1, <2>3 DEF Send, WaitForFreeSlot, Returned, TypeOK, Threads
    <3>2. Returned' = Returned
      BY <3>1 DEF Returned
    <3>3. QED
      BY <2>3, <3>2 DEF WaitForFreeSlot, InTransit, Fifo!vars
  <2>4. QED
    BY <1>1, <2>2, <2>3 DEF Send
<1>2. ASSUME NEW s \in Senders, SendOversized(s) PROVE [Fifo!Next]_(Fifo!vars)
  <2>1. Returned[s] = calls[s] /\ calls[s] < MaxSends
    BY <1>2 DEF SendOversized, Returned
  <2>2. Returned' = [Returned EXCEPT ![s] = Returned[s] + 1]
    BY <1>2 DEF SendOversized, Returned, TypeOK
  <2>3. UNCHANGED <<InTransit, delivered>>
    BY <1>2 DEF SendOversized, InTransit
  <2>4. Fifo!Refuse(s)
    BY <2>1, <2>2, <2>3 DEF Fifo!Refuse
  <2>5. QED
    BY <2>4 DEF Fifo!Next
<1>3. ASSUME NEW s \in Senders, SenderResumes(s) PROVE [Fifo!Next]_(Fifo!vars)
  <2> DEFINE n == calls[s]
  <2>1. n \in 1 .. MaxSends /\ calls' = [calls EXCEPT ![s] = n] /\ Returned[s] = n - 1
    BY <1>3 DEF SenderResumes, TypeOK, Returned
  <2>2. CASE FillSlot(s, n)
    BY <2>1, <2>2, FillSlotAccepts DEF Fifo!Next
  <2>3. CASE WaitForFreeSlot(s)
    <3>1. \A t \in Senders : Returned'[t] = Returned[t]
      BY <1>3, <2>3 DEF SenderResumes, WaitForFreeSlot, Returned, TypeOK, Threads
    <3>2. Returned' = Returned
      BY <3>1 DEF Returned
    <3>3. QED
      BY <2>3, <3>2 DEF WaitForFreeSlot, InTransit, Fifo!vars
  <2>4. QED
    BY <1>3, <2>2, <2>3 DEF SenderResumes
<1>4. CASE ReaderNext
  <2>1. ASSUME NEW where, ReaderGoesTo(where)
        PROVE  UNCHANGED <<InTransit, Returned, delivered>>
    <3>1. \A t \in Senders : pc'[t] = pc[t]
      BY <2>1 DEF ReaderGoesTo, TypeOK, Threads
    <3>2. Returned' = Returned
      BY <2>1, <3>1 DEF ReaderGoesTo, Returned
    <3>3. QED
      BY <2>1, <3>2 DEF ReaderGoesTo, InTransit
  <2>2. QED
    BY <1>4, <2>1, TakeSlotStutters
       DEF ReaderNext, ReaderLocks, ReaderResumes, ReaderTimesOut, ReaderExpires,
           ReaderExits, Fifo!vars
<1>5. ASSUME NEW t \in Threads, SpuriousWakeup(t) PROVE [Fifo!Next]_(Fifo!vars)
  <2>1. \A u \in Senders : pc'[u] = "idle" <=> pc[u] = "idle"
    BY <1>5 DEF SpuriousWakeup, TypeOK, Threads
  <2>2. Returned' = Returned
    BY <1>5, <2>1 DEF SpuriousWakeup, Returned
  <2>3. QED
    BY <1>5, <2>2 DEF SpuriousWakeup, InTransit, Fifo!vars
<1>6. CASE TryPop
  BY <1>6, PopDelivers DEF Fifo!Next
<1>7. CASE StopReaderThread \/ UNCHANGED vars
  BY <1>7 DEF StopReaderThread, vars, InTransit, Returned, Fifo!vars
<1>8. QED
  BY <1>1, <1>2, <1>3, <1>4, <1>5, <1>6, <1>7 DEF Next

(* The segment, its reader thread and the queue behind it are a FIFO       *)
(* channel: nothing that send() accepted is lost, repeated or overtaken.   *)
THEOREM ImplementsFifo == Spec => RefinesFifo
<1>1. Init => Fifo!Init
  BY DEF Init, Fifo!Init, InTransit, Returned, Threads
<1>2. QED
  BY <1>1, NextRefines, TypeCorrect, PTL DEF Spec, RefinesFifo, Fifo!Spec

-----------------------------------------------------------------------------
USE SizeAssumption, NothingAssumption

-----------------------------------------------------------------------------
(* Indices that wrap, without the modulo.                                  *)

LEMMA Wraps ==
  ASSUME NEW a \in 0 .. 2 * Size - 1
  PROVE  a % Size = IF a < Size THEN a ELSE a - Size
  OBVIOUS

Ahead(h, t) == IF h >= t THEN h - t ELSE h + Size - t  \* slots from t to h
Place(t, i) == IF t + i - 1 < Size THEN t + i - 1 ELSE t + i - 1 - Size

LEMMA AheadIsDistance ==
  ASSUME NEW h \in Slot, NEW t \in Slot
  PROVE  /\ (h + Size - t) % Size = Ahead(h, t)
         /\ Ahead(h, t) \in 0 .. Size - 1
<1>1. h + Size - t \in 0 .. 2 * Size - 1
  BY DEF Slot
<1> QED
  BY <1>1, Wraps DEF Slot, Ahead

LEMMA PlaceIsSlot ==
  ASSUME NEW t \in Slot, NEW i \in 1 .. Size
  PROVE  /\ (t + i - 1) % Size = Place(t, i)
         /\ Place(t, i) \in Slot
<1>1. t + i - 1 \in 0 .. 2 * Size - 1
  BY DEF Slot
<1> QED
  BY <1>1, Wraps DEF Slot, Place

LEMMA AfterIsNext ==
  ASSUME NEW h \in Slot
  PROVE  /\ After(h) = IF h + 1 = Size THEN 0 ELSE h + 1
         /\ After(h) \in Slot
<1>1. h + 1 \in 0 .. 2 * Size - 1
  BY DEF Slot
<1> QED
  BY <1>1, Wraps DEF Slot, After

(* The i-th stored item lies i - 1 slots after the tail, before the head.  *)
LEMMA PlacesBeforeHead ==
  ASSUME NEW h \in Slot, NEW t \in Slot, NEW i \in 1 .. Ahead(h, t)
  PROVE  /\ i \in 1 .. Size
         /\ Place(t, i) \in Slot
         /\ Place(t, i) # h
         /\ Place(t, i) = t <=> i = 1
         /\ Ahead(Place(t, i), t) = i - 1
<1>1. i \in 1 .. Size
  BY AheadIsDistance
<1> QED
  BY <1>1, PlaceIsSlot DEF Slot, Ahead, Place

LEMMA HeadMoves ==
  ASSUME NEW h \in Slot, NEW t \in Slot, After(h) # t
  PROVE  /\ Ahead(After(h), t) = Ahead(h, t) + 1
         /\ Place(t, Ahead(h, t) + 1) = h
  BY AfterIsNext DEF Slot, Ahead, Place

LEMMA TailMoves ==
  ASSUME NEW h \in Slot, NEW t \in Slot, h # t
  PROVE  /\ Ahead(h, After(t)) = Ahead(h, t) - 1
         /\ \A i \in 1 .. Ahead(h, t) - 1 : Place(After(t), i) = Place(t, i + 1)
  BY AfterIsNext DEF Slot, Ahead, Place

-----------------------------------------------------------------------------
(* The inductive invariant.  What a thread found when it looked at the     *)
(* other one's index stays so, because the other one can only make room    *)
(* (or add an item); therefore they work on different slots.               *)
IsPublished(i) == Ahead(i, tail) < Ahead(head, tail)

QueueIInv ==
  /\ QueueTypeOK
  /\ producing # "idle" => After(head) # tail /\ item \in Item
  /\ consuming # "idle" => head # tail
  /\ producing = "store" => buffer[head] = item
  /\ consuming = "store" => taken \in Item
  /\ \A i \in Slot :
       IsPublished(i) /\ ~ (i = tail /\ consuming = "store") => buffer[i] \in Item

LEMMA QueueBegins == QueueInit => QueueIInv
<1> SUFFICES ASSUME QueueInit PROVE QueueIInv
  OBVIOUS
<1>1. head \in Slot /\ tail \in Slot /\ QueueTypeOK
  BY DEF QueueInit, QueueTypeOK, Slot
<1>2. \A i \in Slot : ~ IsPublished(i)
  BY <1>1 DEF QueueInit, IsPublished, Ahead, Slot
<1> QED
  BY <1>1, <1>2 DEF QueueInit, QueueIInv

LEMMA RefusesKeeps == QueueIInv /\ EnqueueRefuses => QueueIInv'
  BY DEF QueueIInv, QueueTypeOK, EnqueueRefuses, IsPublished, consumerVars

LEMMA EnqueueBeginsKeeps ==
  ASSUME QueueIInv, NEW x \in Item, EnqueueBegins(x) PROVE QueueIInv'
  BY DEF QueueIInv, QueueTypeOK, EnqueueBegins, IsFull, IsPublished, consumerVars

LEMMA EnqueueMovesKeeps == QueueIInv /\ EnqueueMoves => QueueIInv'
<1> SUFFICES ASSUME QueueIInv, EnqueueMoves PROVE QueueIInv'
  OBVIOUS
<1> USE DEF QueueIInv, EnqueueMoves, consumerVars
<1>1. head \in Slot /\ tail \in Slot /\ buffer \in [Slot -> Item \cup {Nothing}] /\ item \in Item
  BY DEF QueueTypeOK
<1>2. buffer' = [buffer EXCEPT ![head] = item] /\ head' = head /\ tail' = tail
  OBVIOUS
<1>3. QueueTypeOK'
  BY <1>1 DEF QueueTypeOK
<1>4. ASSUME NEW i \in Slot, IsPublished(i)', ~ (i = tail /\ consuming = "store")'
      PROVE  buffer'[i] \in Item
  BY <1>1, <1>2, <1>4 DEF IsPublished
<1>5. buffer'[head'] = item'
  BY <1>1, <1>2
<1> QED
  BY <1>1, <1>2, <1>3, <1>4, <1>5

LEMMA EnqueueStoresKeeps == QueueIInv /\ EnqueueStores => QueueIInv'
<1> SUFFICES ASSUME QueueIInv, EnqueueStores PROVE QueueIInv'
  OBVIOUS
<1> USE DEF QueueIInv, EnqueueStores, consumerVars
<1>1. head \in Slot /\ tail \in Slot /\ buffer[head] \in Item /\ After(head) # tail
  BY DEF QueueTypeOK
<1>2. head' = After(head) /\ tail' = tail /\ buffer' = buffer /\ consuming' = consuming /\ taken' = taken
  OBVIOUS
<1>3. QueueTypeOK'
  BY <1>1, AfterIsNext DEF QueueTypeOK
<1>4. ASSUME NEW i \in Slot, IsPublished(i)', i # head
      PROVE  IsPublished(i)
  <2>1. Ahead(i, tail) < Ahead(head, tail) + 1
    BY <1>1, <1>2, <1>4, HeadMoves DEF IsPublished
  <2>2. Ahead(i, tail) # Ahead(head, tail)
    BY <1>1, <1>4 DEF Ahead, Slot
  <2>3. Ahead(i, tail) \in Int /\ Ahead(head, tail) \in Int
    BY <1>1 DEF Ahead, Slot
  <2> QED
    BY <2>1, <2>2, <2>3 DEF IsPublished
<1>5. ASSUME NEW i \in Slot, IsPublished(i)', ~ (i = tail /\ consuming = "store")'
      PROVE  buffer'[i] \in Item
  BY <1>1, <1>2, <1>4, <1>5
<1>6. consuming' # "idle" => head' # tail'
  BY <1>1, <1>2
<1> QED
  BY <1>2, <1>3, <1>5, <1>6

LEMMA FindsNothingKeeps == QueueIInv /\ DequeueFindsNothing => QueueIInv'
  BY DEF QueueIInv, QueueTypeOK, DequeueFindsNothing, IsPublished, producerVars

LEMMA DequeueBeginsKeeps == QueueIInv /\ DequeueBegins => QueueIInv'
  BY DEF QueueIInv, QueueTypeOK, DequeueBegins, IsEmpty, IsPublished, producerVars

LEMMA DequeueMovesKeeps == QueueIInv /\ DequeueMoves => QueueIInv'
<1> SUFFICES ASSUME QueueIInv, DequeueMoves PROVE QueueIInv'
  OBVIOUS
<1> USE DEF QueueIInv, DequeueMoves, producerVars
<1>1. head \in Slot /\ tail \in Slot /\ buffer \in [Slot -> Item \cup {Nothing}] /\ head # tail
  BY DEF QueueTypeOK
<1>2. buffer[tail] \in Item
  BY <1>1 DEF IsPublished, Ahead, Slot
<1>3. QueueTypeOK'
  BY <1>1, <1>2 DEF QueueTypeOK
<1>4. ASSUME NEW i \in Slot, IsPublished(i)', ~ (i = tail /\ consuming = "store")'
      PROVE  buffer'[i] \in Item
  BY <1>1, <1>4 DEF IsPublished
<1>5. producing' = "store" => buffer'[head'] = item'
  BY <1>1
<1> QED
  BY <1>1, <1>2, <1>3, <1>4, <1>5

LEMMA DequeueStoresKeeps == QueueIInv /\ DequeueStores => QueueIInv'
<1> SUFFICES ASSUME QueueIInv, DequeueStores PROVE QueueIInv'
  OBVIOUS
<1> USE DEF QueueIInv, DequeueStores, producerVars
<1>1. head \in Slot /\ tail \in Slot /\ head # tail /\ After(tail) \in Slot
  BY AfterIsNext DEF QueueTypeOK
<1>2. tail' = After(tail) /\ head' = head /\ buffer' = buffer
  OBVIOUS
<1>3. QueueTypeOK'
  BY <1>1 DEF QueueTypeOK
<1>4. ASSUME NEW i \in Slot, IsPublished(i)'
      PROVE  IsPublished(i) /\ i # tail
  BY <1>1, <1>2, <1>4, AfterIsNext DEF IsPublished, Ahead, Slot
<1>5. producing' # "idle" => After(head') # tail'
  BY <1>1, <1>2, AfterIsNext DEF Slot
<1>6. consuming' = "idle"
  OBVIOUS
<1> QED
  BY <1>2, <1>3, <1>4, <1>5, <1>6

LEMMA QueueStepKeeps == QueueIInv /\ [QueueNext]_queueVars => QueueIInv'
<1> SUFFICES ASSUME QueueIInv, [QueueNext]_queueVars PROVE QueueIInv'
  OBVIOUS
<1>1. CASE Enqueue
  BY <1>1, RefusesKeeps, EnqueueBeginsKeeps, EnqueueMovesKeeps, EnqueueStoresKeeps DEF Enqueue
<1>2. CASE Dequeue
  BY <1>2, FindsNothingKeeps, DequeueBeginsKeeps, DequeueMovesKeeps, DequeueStoresKeeps
     DEF Dequeue
<1>3. CASE UNCHANGED queueVars
  BY <1>3 DEF queueVars, producerVars, consumerVars, QueueIInv, QueueTypeOK, IsPublished
<1> QED
  BY <1>1, <1>2, <1>3 DEF QueueNext

-----------------------------------------------------------------------------
(* Safety.                                                                 *)

LEMMA InvariantIsSafe == QueueIInv => QueueTypeOK /\ SlotsAreSeparate /\ SlotsAreFilled
<1> SUFFICES ASSUME QueueIInv PROVE QueueTypeOK /\ SlotsAreSeparate /\ SlotsAreFilled
  OBVIOUS
<1>1. head \in Slot /\ tail \in Slot
  BY DEF QueueIInv, QueueTypeOK
<1>2. \A i \in Slot : Published(i) <=> IsPublished(i)
  BY <1>1, AheadIsDistance DEF Published, IsPublished
<1> QED
  BY <1>2 DEF QueueIInv, SlotsAreSeparate, SlotsAreFilled

(* Producer and consumer never work on the same slot, and a slot that is   *)
(* published holds an item, in any interleaving of enqueue and dequeue.    *)
THEOREM QueueIsSafe == QueueSpec => [](QueueTypeOK /\ SlotsAreSeparate /\ SlotsAreFilled)
BY QueueBegins, QueueStepKeeps, InvariantIsSafe, PTL DEF QueueSpec

-----------------------------------------------------------------------------
(* The refinement: each step is a step of the FIFO or leaves it alone.     *)

Front(i) == IF i = 1 /\ consuming = "store" THEN taken ELSE buffer[Place(tail, i)]

StoredFromTail ==
  /\ Stored = [i \in 1 .. Ahead(head, tail) |-> Front(i)]
  /\ Ahead(head, tail) \in 0 .. Size - 1
  /\ Stored \in Seq(Item)
  /\ Len(Stored) = Ahead(head, tail)

LEMMA StoredItems == QueueIInv => StoredFromTail
<1> SUFFICES ASSUME QueueIInv PROVE StoredFromTail
  OBVIOUS
<1>1. head \in Slot /\ tail \in Slot
  BY DEF QueueIInv, QueueTypeOK
<1>2. Ahead(head, tail) \in 0 .. Size - 1 /\ (head + Size - tail) % Size = Ahead(head, tail)
  BY <1>1, AheadIsDistance
<1>3. \A i \in 1 .. Ahead(head, tail) : (tail + i - 1) % Size = Place(tail, i)
  BY <1>1, <1>2, PlaceIsSlot
<1>4. Stored = [i \in 1 .. Ahead(head, tail) |-> Front(i)]
  BY <1>2, <1>3 DEF Stored, Front
<1>5. ASSUME NEW i \in 1 .. Ahead(head, tail) PROVE Front(i) \in Item
  <2>1. Place(tail, i) \in Slot /\ IsPublished(Place(tail, i)) /\ (Place(tail, i) = tail <=> i = 1)
    BY <1>1, <1>2, PlacesBeforeHead DEF IsPublished
  <2> QED
    BY <2>1 DEF QueueIInv, Front
<1> QED
  BY <1>2, <1>4, <1>5 DEF StoredFromTail

LEMMA StoredItemsNext == QueueIInv' => StoredFromTail'
BY StoredItems, PTL

LEMMA InitImplements == QueueInit => Bounded!FifoInit
<1> SUFFICES ASSUME QueueInit PROVE Bounded!FifoInit
  OBVIOUS
<1>1. Stored = [i \in 1 .. Ahead(head, tail) |-> Front(i)] /\ Ahead(head, tail) = 0
  BY QueueBegins, StoredItems DEF StoredFromTail, QueueInit, Ahead
<1> QED
  BY <1>1 DEF QueueInit, Bounded!FifoInit

LEMMA RefuseImplements == QueueIInv /\ EnqueueRefuses => Bounded!Refuse
<1> SUFFICES ASSUME QueueIInv, EnqueueRefuses PROVE Bounded!Refuse
  OBVIOUS
<1>1. Len(Stored) = Size - 1
  <2>1. head \in Slot /\ tail \in Slot /\ After(head) = tail
    BY DEF EnqueueRefuses, IsFull, QueueIInv, QueueTypeOK
  <2>2. Ahead(head, tail) = Size - 1
    BY <2>1, AfterIsNext DEF Ahead, Slot
  <2> QED
    BY <2>2, StoredItems DEF StoredFromTail
<1>2. Stored' = Stored /\ got' = got
  BY DEF Stored, EnqueueRefuses, consumerVars
<1> QED
  BY <1>1, <1>2 DEF EnqueueRefuses, Bounded!Refuse

LEMMA AcceptImplements == QueueIInv /\ EnqueueStores => \E x \in Item : Bounded!Accept(x)
<1> SUFFICES ASSUME QueueIInv, EnqueueStores PROVE Bounded!Accept(item)
  BY DEF QueueIInv, EnqueueStores
<1> DEFINE n == Ahead(head, tail)
<1>1. /\ head \in Slot /\ tail \in Slot /\ After(head) # tail /\ buffer[head] = item
      /\ item \in Item /\ (consuming # "idle" => head # tail)
  BY DEF EnqueueStores, QueueIInv, QueueTypeOK
<1>2. /\ head' = After(head) /\ UNCHANGED <<buffer, tail, consuming, taken, got>>
      /\ accepted' = TRUE
  BY DEF EnqueueStores, consumerVars
<1>3. n \in 0 .. Size - 1 /\ Ahead(head', tail') = n + 1 /\ Place(tail, n + 1) = head
  BY <1>1, <1>2, HeadMoves, AheadIsDistance
<1>4. Stored = [i \in 1 .. n |-> Front(i)] /\ Stored \in Seq(Item) /\ Len(Stored) = n
  BY StoredItems DEF StoredFromTail
<1>5. Stored' = [i \in 1 .. n + 1 |-> Front(i)]
  <2>1. QueueIInv'
    BY EnqueueStoresKeeps
  <2>2. Stored' = [i \in 1 .. Ahead(head', tail') |-> Front(i)']
    BY <2>1, StoredItemsNext DEF StoredFromTail
  <2>3. \A i \in 1 .. n + 1 : Front(i)' = Front(i)
    BY <1>2 DEF Front
  <2> QED
    BY <1>3, <2>2, <2>3
<1>6. Front(n + 1) = item
  <2>1. n + 1 = 1 => consuming = "idle"
    BY <1>1, <1>3 DEF Ahead, Slot
  <2> QED
    BY <1>1, <1>3, <2>1 DEF Front
<1>7. Stored' = Append(Stored, item)
  BY <1>1, <1>3, <1>4, <1>5, <1>6
<1>8. n < Size - 1
  BY <1>1, AfterIsNext DEF Ahead, Slot
<1> QED
  BY <1>2, <1>4, <1>7, <1>8 DEF Bounded!Accept

LEMMA GiveImplements == QueueIInv /\ DequeueStores => Bounded!Give
<1> SUFFICES ASSUME QueueIInv, DequeueStores PROVE Bounded!Give
  OBVIOUS
<1> DEFINE n == Ahead(head, tail)
<1>1. head \in Slot /\ tail \in Slot /\ head # tail /\ consuming = "store"
  BY DEF DequeueStores, QueueIInv, QueueTypeOK
<1>2. /\ tail' = After(tail) /\ got' = taken /\ consuming' = "idle"
      /\ UNCHANGED <<buffer, head, accepted>>
  BY DEF DequeueStores, producerVars
<1>3. n \in 1 .. Size - 1 /\ Ahead(head', tail') = n - 1
  BY <1>1, <1>2, TailMoves, AheadIsDistance DEF Ahead, Slot
<1>4. Stored = [i \in 1 .. n |-> Front(i)] /\ Stored \in Seq(Item) /\ Len(Stored) = n
  BY StoredItems DEF StoredFromTail
<1>5. Stored' = [i \in 1 .. n - 1 |-> Front(i + 1)]
  <2>1. QueueIInv'
    BY DequeueStoresKeeps
  <2>2. Stored' = [i \in 1 .. Ahead(head', tail') |-> Front(i)']
    BY <2>1, StoredItemsNext DEF StoredFromTail
  <2>3. ASSUME NEW i \in 1 .. n - 1 PROVE Front(i)' = Front(i + 1)
    <3>1. Place(tail', i) = Place(tail, i + 1)
      BY <1>1, <1>2, TailMoves
    <3>2. i + 1 # 1 /\ consuming' # "store"
      BY <1>2, <1>3
    <3> QED
      BY <1>2, <3>1, <3>2 DEF Front
  <2> QED
    BY <1>3, <2>2, <2>3
<1>6. Stored' = Tail(Stored) /\ Stored # << >>
  BY <1>3, <1>4, <1>5
<1>7. Head(Stored) = taken
  BY <1>1, <1>3, <1>4 DEF Front
<1> QED
  BY <1>2, <1>6, <1>7 DEF Bounded!Give

LEMMA GiveNothingImplements == QueueIInv /\ DequeueFindsNothing => Bounded!GiveNothing
<1> SUFFICES ASSUME QueueIInv, DequeueFindsNothing PROVE Bounded!GiveNothing
  OBVIOUS
<1>1. Ahead(head, tail) = 0
  BY DEF DequeueFindsNothing, IsEmpty, Ahead, QueueIInv, QueueTypeOK, Slot
<1>2. Stored = << >>
  BY <1>1, StoredItems DEF StoredFromTail
<1>3. Stored' = Stored
  BY DEF Stored, DequeueFindsNothing, producerVars
<1> QED
  BY <1>2, <1>3 DEF DequeueFindsNothing, Bounded!GiveNothing, producerVars

(* The other steps: a slot that is not published, or the first item on its *)
(* way from the buffer to the consumer.                                    *)
LEMMA WorkIsUnseen ==
  QueueIInv /\ ((\E x \in Item : EnqueueBegins(x)) \/ EnqueueMoves \/ DequeueBegins \/ DequeueMoves)
    => UNCHANGED <<Stored, accepted, got>>
<1> SUFFICES ASSUME QueueIInv,
                    \/ \E x \in Item : EnqueueBegins(x)
                    \/ EnqueueMoves \/ DequeueBegins \/ DequeueMoves
             PROVE  UNCHANGED <<Stored, accepted, got>>
  OBVIOUS
<1>1. head \in Slot /\ tail \in Slot /\ buffer \in [Slot -> Item \cup {Nothing}]
  BY DEF QueueIInv, QueueTypeOK
<1>2. UNCHANGED <<head, tail, accepted, got>>
  BY DEF EnqueueBegins, EnqueueMoves, DequeueBegins, DequeueMoves, producerVars, consumerVars
<1>3. QueueIInv'
  BY EnqueueBeginsKeeps, EnqueueMovesKeeps, DequeueBeginsKeeps, DequeueMovesKeeps
<1>4. ASSUME NEW i \in 1 .. Ahead(head, tail) PROVE Front(i)' = Front(i)
  <2>1. /\ Place(tail, i) \in Slot /\ Place(tail, i) # head
        /\ Place(tail, i) = tail <=> i = 1
    BY <1>1, PlacesBeforeHead
  <2>2. CASE (\E x \in Item : EnqueueBegins(x)) \/ DequeueBegins
    BY <2>2 DEF EnqueueBegins, DequeueBegins, producerVars, consumerVars, Front
  <2>3. CASE EnqueueMoves
    BY <1>1, <2>1, <2>3 DEF EnqueueMoves, consumerVars, Front
  <2>4. CASE DequeueMoves
    <3>1. /\ consuming = "move" /\ consuming' = "store" /\ taken' = buffer[tail] /\ tail' = tail
          /\ buffer' = [buffer EXCEPT ![tail] = Nothing]
      BY <2>4 DEF DequeueMoves
    <3>2. CASE i = 1
      BY <2>1, <3>1, <3>2 DEF Front
    <3>3. CASE i # 1
      BY <1>1, <2>1, <3>1, <3>3 DEF Front
    <3> QED
      BY <3>2, <3>3
  <2> QED
    BY <2>2, <2>3, <2>4
<1>5. /\ Stored = [i \in 1 .. Ahead(head, tail) |-> Front(i)]
      /\ Stored' = [i \in 1 .. Ahead(head', tail') |-> Front(i)']
  BY <1>3, StoredItems, StoredItemsNext DEF StoredFromTail
<1> QED
  BY <1>2, <1>4, <1>5

LEMMA StepImplements ==
  QueueIInv /\ [QueueNext]_queueVars => [Bounded!FifoNext]_(Bounded!fifoVars)
<1> SUFFICES ASSUME QueueIInv, [QueueNext]_queueVars PROVE [Bounded!FifoNext]_(Bounded!fifoVars)
  OBVIOUS
<1> USE DEF Bounded!FifoNext, Bounded!fifoVars
<1>1. CASE Enqueue
  BY <1>1, RefuseImplements, AcceptImplements, WorkIsUnseen DEF Enqueue
<1>2. CASE Dequeue
  BY <1>2, GiveImplements, GiveNothingImplements, WorkIsUnseen DEF Dequeue
<1>3. CASE UNCHANGED queueVars
  BY <1>3 DEF queueVars, producerVars, consumerVars, Stored
<1> QED
  BY <1>1, <1>2, <1>3 DEF QueueNext

(* SPSCQueue implements the bounded FIFO, whatever the size of its buffer. *)
THEOREM QueueImplementsFifo == QueueSpec => QueueIsFifo
BY QueueBegins, QueueStepKeeps, InitImplements, StepImplements, PTL
   DEF QueueSpec, QueueIsFifo, Bounded!FifoSpec

-----------------------------------------------------------------------------
(* The queue between AudioOutModule and the TUI.                           *)

(* Every event is an item of the queue: buffers are counted modulo Buffers. *)
LEMMA NumberIsItem == AudioSpec => [](number \in Item)
<1>1. AudioInit => number \in Item
  BY AudioOutputAssumption DEF AudioInit
<1>2. number \in Item /\ [AudioNext]_audioVars => (number \in Item)'
  <2> SUFFICES ASSUME number \in Item, [AudioNext]_audioVars PROVE number' \in Item
    OBVIOUS
  <2>1. CASE WriteChunk
    <3>1. (number + 1) % Buffers \in 0 .. Buffers - 1
      BY AudioOutputAssumption
    <3> QED
      BY <2>1, <3>1, AudioOutputAssumption DEF WriteChunk
  <2>2. CASE ~ WriteChunk
    BY <2>2 DEF AudioNext, EngineStep, StartStream, Emit, EmitIsRefused, EmitBegins, EmitMoves,
                EmitStores, Writes, WriteWaits, DeleteModule, CloseSetsFlag, CloseSignals,
                CloseJoins, CallbackStep, CallbackLoops, CallbackEvent, CallbackWaits,
                AudioCallback, DeviceWrites, TuiStep, engineVars, audioVars
  <2> QED
    BY <2>1, <2>2
<1> QED
  BY <1>1, <1>2, PTL DEF AudioSpec

LEMMA AudioUsesQueue == AudioSpec => QueueSpec
<1>1. AudioInit => QueueInit
  BY DEF AudioInit
<1>2. number \in Item /\ [AudioNext]_audioVars => [QueueNext]_queueVars
  <2> SUFFICES ASSUME number \in Item, [AudioNext]_audioVars PROVE [QueueNext]_queueVars
    OBVIOUS
  <2>1. CASE Emit
    BY <2>1 DEF Emit, EmitIsRefused, EmitBegins, EmitMoves, EmitStores, QueueNext, Enqueue
  <2>2. CASE TuiStep
    BY <2>2 DEF TuiStep, QueueNext
  <2>3. CASE EngineStep /\ ~ Emit
    BY <2>3 DEF EngineStep, StartStream, WriteChunk, WriteWaits, DeleteModule, CloseSetsFlag,
                CloseSignals, CloseJoins
  <2>4. CASE CallbackStep
    BY <2>4 DEF CallbackStep, CallbackLoops, CallbackEvent, CallbackWaits, AudioCallback,
                DeviceWrites
  <2>5. CASE UNCHANGED audioVars
    BY <2>5 DEF audioVars
  <2> QED
    BY <2>1, <2>2, <2>3, <2>4, <2>5 DEF AudioNext
<1> QED
  BY <1>1, <1>2, NumberIsItem, PTL DEF AudioSpec, QueueSpec

(* The events that the engine emits reach the TUI in order, the newest     *)
(* ones being refused when it is slow.                                     *)
THEOREM EventsAreFifo == AudioSpec => QueueIsFifo
BY AudioUsesQueue, QueueImplementsFifo

-----------------------------------------------------------------------------
(* The ring of frames.                                                     *)

LEMMA Remainder ==
  ASSUME NEW n \in Nat \ {0}, NEW a \in Nat, NEW b \in Nat, a + b < 2 * n
  PROVE  /\ (a + b) % n = IF a + b < n THEN a + b ELSE a + b - n
         /\ (a + b) % n \in 0 .. n - 1
  OBVIOUS

(* Indices and numbers that wrap; their definitions stay folded below.     *)
InRing(a) == a % Capacity
Id(a) == a % FrameIds

LEMMA FramesOfBuffers ==
  /\ FrameIds \in Nat \ {0}
  /\ FrameIds > Capacity
  /\ \A b \in Item : /\ b * WriteFrames \in Nat
                     /\ b * WriteFrames + WriteFrames <= FrameIds
                     /\ ((b + 1) % Buffers) * WriteFrames = Id(b * WriteFrames + WriteFrames)
<1> USE AudioOutputAssumption DEF Id
<1>1. FrameIds \in Nat \ {0} /\ FrameIds > Capacity
  BY DEF FrameIds
<1>2. ASSUME NEW b \in Item
      PROVE  /\ b * WriteFrames \in Nat
             /\ b * WriteFrames + WriteFrames <= FrameIds
             /\ ((b + 1) % Buffers) * WriteFrames = Id(b * WriteFrames + WriteFrames)
  <2>1. b * WriteFrames \in Nat /\ b * WriteFrames + WriteFrames = (b + 1) * WriteFrames
    OBVIOUS
  <2>2. CASE b + 1 = Buffers
    <3>1. (b + 1) % Buffers = 0 /\ FrameIds % FrameIds = 0
      BY <1>1, <2>2
    <3>2. b * WriteFrames + WriteFrames = FrameIds
      BY <2>1, <2>2 DEF FrameIds
    <3> QED
      BY <2>1, <3>1, <3>2
  <2>3. CASE b + 1 < Buffers
    <3>1. (b + 1) % Buffers = b + 1
      BY <2>3
    <3>2. (Buffers - b - 1) * WriteFrames > 0
      BY <2>3
    <3>3. (Buffers - b - 1) * WriteFrames = FrameIds - (b + 1) * WriteFrames
      BY DEF FrameIds
    <3>4. (b + 1) * WriteFrames < FrameIds /\ (b + 1) * WriteFrames \in Nat
      BY <1>1, <3>2, <3>3
    <3>5. ((b + 1) * WriteFrames) % FrameIds = (b + 1) * WriteFrames
      BY <1>1, <3>4
    <3> QED
      BY <1>1, <2>1, <3>1, <3>4, <3>5
  <2> QED
    BY <2>2, <2>3
<1> QED
  BY <1>1, <1>2

LEMMA RingWraps ==
  ASSUME NEW a \in Nat, NEW b \in Nat, a + b < 2 * Capacity
  PROVE  /\ InRing(a + b) = IF a + b < Capacity THEN a + b ELSE a + b - Capacity
         /\ InRing(a + b) \in RingIndex
<1>1. Capacity \in Nat \ {0}
  BY AudioOutputAssumption
<1> QED
  BY <1>1, Remainder DEF RingIndex, InRing

LEMMA FramesWrap ==
  ASSUME NEW a \in Nat, NEW b \in Nat, a + b < 2 * FrameIds
  PROVE  /\ Id(a + b) = IF a + b < FrameIds THEN a + b ELSE a + b - FrameIds
         /\ Id(a + b) \in 0 .. FrameIds - 1
<1>1. FrameIds \in Nat \ {0}
  BY FramesOfBuffers
<1> QED
  BY <1>1, Remainder DEF Id

-----------------------------------------------------------------------------
(* The inductive invariant: the frame that is written next follows what is *)
(* in the ring, wherever the engine is.                                    *)
RingIInv ==
  /\ number \in Item
  /\ left \in 0 .. WriteFrames
  /\ engine \in {"write", "waiting"} => left > 0
  /\ ring \in [RingIndex -> 0 .. FrameIds - 1]
  /\ readIndex \in RingIndex
  /\ available \in 0 .. Capacity
  /\ writeIndex = InRing(readIndex + available)
  /\ heard \in 0 .. FrameIds - 1
  /\ \A i \in 0 .. available - 1 : ring[InRing(readIndex + i)] = Id(heard + 1 + i)
  /\ (IF engine \in {"write", "waiting"} THEN Frame(0) ELSE number * WriteFrames)
       = Id(heard + 1 + available)

LEMMA RingBegins == AudioInit => RingIInv
<1> SUFFICES ASSUME AudioInit PROVE RingIInv
  OBVIOUS
<1>1. Id(FrameIds) = 0 /\ InRing(0) = 0 /\ 0 * WriteFrames = 0
  BY AudioOutputAssumption, FramesOfBuffers DEF Id, InRing
<1>2. FrameIds \in Nat \ {0} /\ 0 \in Item /\ 0 \in 0 .. FrameIds - 1 /\ 0 \in RingIndex
  BY AudioOutputAssumption, FramesOfBuffers DEF RingIndex
<1> QED
  BY <1>1, <1>2, AudioOutputAssumption DEF AudioInit, RingIInv

(* What is written lies behind what is read and takes no place of it.      *)
LEMMA ChunkLands ==
  ASSUME RingIInv, engine = "write", available < Capacity
  PROVE  /\ Chunk \in 1 .. left /\ Chunk <= Capacity - available
         /\ \A i \in 0 .. available - 1 :
              Copied[InRing(readIndex + i)] = ring[InRing(readIndex + i)]
         /\ \A k \in 0 .. Chunk - 1 :
              Copied[InRing(readIndex + available + k)] = Frame(k)
<1> DEFINE w == readIndex + available
<1>1. /\ Capacity \in Nat \ {0} /\ available \in 0 .. Capacity - 1
      /\ readIndex \in 0 .. Capacity - 1 /\ left \in Nat \ {0}
      /\ writeIndex = InRing(w)
  BY AudioOutputAssumption DEF RingIInv, RingIndex
<1>2. Chunk \in 1 .. left /\ Chunk <= Capacity - available
  BY <1>1 DEF Chunk, Least, Room
<1>3. /\ w \in Nat /\ w < 2 * Capacity
      /\ writeIndex = IF w < Capacity THEN w ELSE w - Capacity
      /\ writeIndex \in 0 .. Capacity - 1
  <2>1. readIndex \in Nat /\ available \in Nat /\ w \in Nat /\ w < 2 * Capacity
    BY <1>1
  <2> QED
    BY <1>1, <2>1, RingWraps DEF RingIndex
<1>4. /\ FirstPart = IF Chunk <= Capacity - writeIndex THEN Chunk ELSE Capacity - writeIndex
      /\ FirstPart \in 0 .. Chunk
  BY <1>1, <1>2, <1>3 DEF FirstPart, Least
<1>5. ASSUME NEW i \in 0 .. available - 1, NEW j, j = InRing(readIndex + i)
      PROVE  Copied[j] = ring[j]
  <2>1. readIndex \in Nat /\ i \in Nat /\ readIndex + i < 2 * Capacity
    BY <1>1
  <2>2. /\ j = IF readIndex + i < Capacity THEN readIndex + i ELSE readIndex + i - Capacity
        /\ j \in RingIndex
    BY <1>5, <2>1, RingWraps
  <2>3. ~ (j \in writeIndex .. writeIndex + FirstPart - 1) /\ ~ (j < Chunk - FirstPart)
    BY <1>1, <1>2, <1>3, <1>4, <2>2
  <2> QED
    BY <2>2, <2>3 DEF Copied
<1>6. ASSUME NEW k \in 0 .. Chunk - 1, NEW j, j = InRing(w + k)
      PROVE  Copied[j] = Frame(k)
  <2>1. w \in Nat /\ k \in Nat /\ w + k < 2 * Capacity
    BY <1>1, <1>2
  <2>2. /\ j = IF w + k < Capacity THEN w + k ELSE w + k - Capacity
        /\ j \in RingIndex
    BY <1>6, <2>1, RingWraps
  <2>3. CASE k < FirstPart
    <3>1. j \in writeIndex .. writeIndex + FirstPart - 1 /\ j - writeIndex = k
      BY <1>1, <1>2, <1>3, <1>4, <2>2, <2>3
    <3> QED
      BY <2>2, <3>1 DEF Copied
  <2>4. CASE ~ (k < FirstPart)
    <3>1. /\ ~ (j \in writeIndex .. writeIndex + FirstPart - 1)
          /\ j < Chunk - FirstPart /\ FirstPart + j = k
      BY <1>1, <1>2, <1>3, <1>4, <2>2, <2>4
    <3> QED
      BY <2>2, <3>1 DEF Copied
  <2> QED
    BY <2>3, <2>4
<1> QED
  BY <1>2, <1>5, <1>6

LEMMA WriteChunkKeeps == RingIInv /\ WriteChunk => RingIInv'
<1> SUFFICES ASSUME RingIInv, WriteChunk PROVE RingIInv'
  OBVIOUS
<1> DEFINE next == heard + 1 + available
           moved == available + Chunk
<1>1. /\ Capacity \in Nat \ {0} /\ available \in 0 .. Capacity - 1
      /\ readIndex \in 0 .. Capacity - 1 /\ left \in 1 .. WriteFrames /\ WriteFrames \in Nat
      /\ heard \in 0 .. FrameIds - 1 /\ number \in Item
      /\ FrameIds \in Nat \ {0} /\ FrameIds > Capacity
      /\ engine = "write"
  BY AudioOutputAssumption, FramesOfBuffers DEF RingIInv, RingIndex, WriteChunk
<1>2. /\ Chunk \in 1 .. left /\ Chunk <= Capacity - available
      /\ \A i \in 0 .. available - 1 :
           Copied[InRing(readIndex + i)] = ring[InRing(readIndex + i)]
      /\ \A k \in 0 .. Chunk - 1 : Copied[InRing(readIndex + available + k)] = Frame(k)
  BY <1>1, ChunkLands
<1>3. /\ number * WriteFrames \in Nat
      /\ number * WriteFrames + WriteFrames <= FrameIds
      /\ ((number + 1) % Buffers) * WriteFrames = Id(number * WriteFrames + WriteFrames)
  BY <1>1, FramesOfBuffers
<1>4. /\ next \in Nat /\ next + Chunk < 2 * FrameIds
      /\ Frame(0) = IF next < FrameIds THEN next ELSE next - FrameIds
      /\ Frame(0) \in Nat /\ Frame(0) + left <= FrameIds
  <2>1. /\ heard + 1 \in Nat /\ available \in Nat /\ next \in Nat
        /\ next + Chunk < 2 * FrameIds /\ next < 2 * FrameIds
    BY <1>1, <1>2
  <2>2. Frame(0) = Id(next)
    BY <1>1 DEF RingIInv
  <2>3. Frame(0) \in Nat /\ Frame(0) + left <= FrameIds
    BY <1>1, <1>3 DEF Frame
  <2>4. Id(next) = IF next < FrameIds THEN next ELSE next - FrameIds
    <3>1. PICK a \in Nat : a = heard + 1
      BY <2>1
    <3>2. Id(a + available) = IF a + available < FrameIds THEN a + available
                              ELSE a + available - FrameIds
      BY <2>1, <3>1, FramesWrap
    <3> QED
      BY <1>1, <3>1, <3>2
  <2> QED
    BY <2>1, <2>2, <2>3, <2>4
<1>5. ASSUME NEW k \in 0 .. Chunk
      PROVE  /\ Frame(k) = Frame(0) + k
             /\ k < left => Frame(k) = Id(next + k) /\ Frame(k) \in 0 .. FrameIds - 1
             /\ k = left => Id(Frame(k)) = Id(next + k)
  <2>1. Frame(k) = Frame(0) + k
    BY <1>1, <1>2, <1>3 DEF Frame
  <2>2. next \in Nat /\ k \in Nat /\ next + k < 2 * FrameIds
    BY <1>1, <1>2, <1>4
  <2>3. Id(next + k) = IF next + k < FrameIds THEN next + k ELSE next + k - FrameIds
    BY <2>2, FramesWrap
  <2>4. CASE k < left
    BY <1>1, <1>2, <1>4, <2>1, <2>3, <2>4
  <2>5. CASE k = left
    <3>1. Frame(0) \in Nat /\ k \in Nat /\ Frame(0) + k < 2 * FrameIds
      BY <1>1, <1>4, <2>5
    <3>2. Id(Frame(0) + k) = IF Frame(0) + k < FrameIds THEN Frame(0) + k
                             ELSE Frame(0) + k - FrameIds
      BY <3>1, FramesWrap
    <3>3. Id(Frame(0) + k) = Id(next + k)
      BY <1>1, <1>4, <2>2, <2>3, <2>5, <3>1, <3>2
    <3> QED
      BY <1>1, <2>1, <2>5, <3>3
  <2> QED
    BY <1>2, <2>1, <2>4, <2>5
<1>6. /\ ring' = Copied /\ writeIndex' = InRing(writeIndex + Chunk)
      /\ available' = moved /\ left' = left - Chunk
      /\ readIndex' = readIndex /\ heard' = heard
  BY DEF WriteChunk, RingAfterWrite, InRing
<1>7. moved \in 0 .. Capacity /\ left' \in 0 .. WriteFrames
  BY <1>1, <1>2, <1>6
<1>8. ASSUME NEW i \in 0 .. moved - 1
      PROVE  Copied[InRing(readIndex + i)] = Id(heard + 1 + i)
  <2>1. CASE i < available
    BY <1>1, <1>2, <2>1 DEF RingIInv
  <2>2. CASE ~ (i < available)
    <3> DEFINE k == i - available
    <3>1. /\ k \in 0 .. Chunk - 1 /\ k \in 0 .. Chunk /\ k < left
          /\ readIndex + i = readIndex + available + k /\ heard + 1 + i = next + k
      BY <1>1, <1>2, <2>2
    <3> HIDE DEF k
    <3> QED
      BY <1>2, <1>5, <3>1
  <2> QED
    BY <2>1, <2>2
<1>9. ring' \in [RingIndex -> 0 .. FrameIds - 1]
  <2>1. ASSUME NEW j \in RingIndex PROVE Copied[j] \in 0 .. FrameIds - 1
    <3>1. CASE j \in writeIndex .. writeIndex + FirstPart - 1
      <4>1. Copied[j] = Frame(j - writeIndex) /\ j - writeIndex \in 0 .. Chunk - 1
        <5>1. writeIndex \in Nat /\ FirstPart \in Int /\ FirstPart <= Chunk
          <6>1. writeIndex \in RingIndex
            <7>1. readIndex \in Nat /\ available \in Nat /\ readIndex + available < 2 * Capacity
              BY <1>1
            <7> QED
              BY <7>1, RingWraps DEF RingIInv
          <6> QED
            BY <1>1, <1>2, <6>1 DEF FirstPart, Least, RingIndex
        <5> QED
          BY <1>1, <1>2, <3>1, <5>1 DEF Copied, RingIndex
      <4>2. j - writeIndex \in 0 .. Chunk /\ j - writeIndex < left
        BY <1>1, <1>2, <4>1
      <4> QED
        BY <1>5, <4>1, <4>2
    <3>2. CASE /\ ~ (j \in writeIndex .. writeIndex + FirstPart - 1)
               /\ j < Chunk - FirstPart
      <4>1. Copied[j] = Frame(FirstPart + j)
        BY <3>2 DEF Copied
      <4>2. FirstPart + j \in 0 .. Chunk - 1
        <5>1. writeIndex \in RingIndex
          <6>1. readIndex \in Nat /\ available \in Nat /\ readIndex + available < 2 * Capacity
            BY <1>1
          <6> QED
            BY <6>1, RingWraps DEF RingIInv
        <5> QED
          BY <1>1, <1>2, <3>2, <5>1 DEF FirstPart, Least, RingIndex
      <4> QED
        BY <1>1, <1>2, <1>5, <4>1, <4>2
    <3>3. CASE /\ ~ (j \in writeIndex .. writeIndex + FirstPart - 1)
               /\ ~ (j < Chunk - FirstPart)
      BY <3>3 DEF Copied, RingIInv
    <3> QED
      BY <3>1, <3>2, <3>3
  <2> QED
    BY <1>6, <2>1 DEF Copied
<1>10. writeIndex' = InRing(readIndex' + available')
  <2>1. /\ readIndex \in Nat /\ available \in Nat /\ readIndex + available < 2 * Capacity
        /\ moved \in Nat /\ readIndex + moved < 2 * Capacity
    BY <1>1, <1>2
  <2>2. /\ writeIndex = InRing(readIndex + available)
        /\ InRing(readIndex + available) =
             IF readIndex + available < Capacity THEN readIndex + available
             ELSE readIndex + available - Capacity
        /\ InRing(readIndex + moved) =
             IF readIndex + moved < Capacity THEN readIndex + moved
             ELSE readIndex + moved - Capacity
    BY <2>1, RingWraps DEF RingIInv
  <2>3. /\ writeIndex \in Nat
        /\ Chunk \in Nat /\ writeIndex + Chunk < 2 * Capacity
    BY <1>1, <1>2, <2>1, <2>2
  <2>4. InRing(writeIndex + Chunk) =
          IF writeIndex + Chunk < Capacity THEN writeIndex + Chunk
          ELSE writeIndex + Chunk - Capacity
    BY <2>3, RingWraps
  <2> QED
    BY <1>1, <1>2, <1>6, <2>2, <2>3, <2>4
<1>11. CASE Chunk = left
  <2>1. engine' = "process" /\ number' = (number + 1) % Buffers /\ number' \in Item
    BY <1>1, <1>11, AudioOutputAssumption DEF WriteChunk
  <2>2. number' * WriteFrames = Id(heard' + 1 + available')
    <3>1. Frame(left) = number * WriteFrames + WriteFrames
      BY <1>1, <1>3 DEF Frame
    <3>2. left \in 0 .. Chunk /\ next + left = heard + 1 + moved
      BY <1>1, <1>2, <1>11
    <3>3. Id(Frame(left)) = Id(next + left)
      BY <1>5, <3>2
    <3> QED
      BY <1>3, <1>6, <2>1, <3>1, <3>2, <3>3
  <2> QED
    BY <1>1, <1>6, <1>7, <1>8, <1>9, <1>10, <2>1, <2>2 DEF RingIInv
<1>12. CASE Chunk # left
  <2>1. engine' = "write" /\ number' = number /\ left' > 0
    BY <1>1, <1>2, <1>6, <1>12 DEF WriteChunk
  <2>2. Frame(0)' = Id(heard' + 1 + available')
    <3>1. Chunk \in 0 .. Chunk /\ Chunk < left /\ next + Chunk = heard + 1 + moved
      BY <1>1, <1>2, <1>12
    <3>2. Frame(0)' = Frame(Chunk)
      BY <1>1, <1>2, <1>3, <1>6, <2>1 DEF Frame
    <3> QED
      BY <1>5, <1>6, <3>1, <3>2
  <2> QED
    BY <1>1, <1>6, <1>7, <1>8, <1>9, <1>10, <2>1, <2>2 DEF RingIInv
<1> QED
  BY <1>11, <1>12

LEMMA CallbackKeeps == RingIInv /\ AudioCallback => RingIInv'
<1> SUFFICES ASSUME RingIInv, AudioCallback PROVE RingIInv'
  OBVIOUS
<1>1. /\ Capacity \in Nat \ {0} /\ available \in 0 .. Capacity
      /\ readIndex \in 0 .. Capacity - 1 /\ CallbackFrames \in 1 .. Capacity
      /\ heard \in 0 .. FrameIds - 1
      /\ FrameIds \in Nat \ {0} /\ FrameIds > Capacity
  BY AudioOutputAssumption, FramesOfBuffers DEF RingIInv, RingIndex
<1>2. /\ UNCHANGED <<number, left, ring, writeIndex>>
      /\ engine' \in {"write", "waiting"} <=> engine \in {"write", "waiting"}
      /\ Frame(0)' = Frame(0)
  BY DEF AudioCallback, Frame
<1>3. CASE available < CallbackFrames
  <2>1. UNCHANGED <<readIndex, available, heard>>
    BY <1>3 DEF AudioCallback
  <2> QED
    BY <1>2, <2>1 DEF RingIInv
<1>4. CASE ~ (available < CallbackFrames)
  <2>1. /\ heard' = ring[InRing(readIndex + CallbackFrames - 1)]
        /\ readIndex' = InRing(readIndex + CallbackFrames)
        /\ available' = available - CallbackFrames
    BY <1>4 DEF AudioCallback, InRing
  <2>2. available' \in 0 .. Capacity
    BY <1>1, <1>4, <2>1
  <2>3. /\ readIndex' = IF readIndex + CallbackFrames < Capacity THEN readIndex + CallbackFrames
                        ELSE readIndex + CallbackFrames - Capacity
        /\ readIndex' \in RingIndex /\ readIndex' \in 0 .. Capacity - 1
    <3>1. readIndex \in Nat /\ CallbackFrames \in Nat /\ readIndex + CallbackFrames < 2 * Capacity
      BY <1>1
    <3> QED
      BY <2>1, <3>1, RingWraps DEF RingIndex
  <2>4. /\ heard' = IF heard + CallbackFrames < FrameIds THEN heard + CallbackFrames
                    ELSE heard + CallbackFrames - FrameIds
        /\ heard' \in 0 .. FrameIds - 1
    <3>1. PICK last \in 0 .. available - 1 : last = CallbackFrames - 1
      BY <1>1, <1>4
    <3>2. /\ ring[InRing(readIndex + last)] = Id(heard + 1 + last)
          /\ readIndex + CallbackFrames - 1 = readIndex + last
          /\ heard + 1 + last = heard + CallbackFrames
      BY <1>1, <3>1 DEF RingIInv
    <3>3. heard \in Nat /\ CallbackFrames \in Nat /\ heard + CallbackFrames < 2 * FrameIds
      BY <1>1
    <3>4. heard' = Id(heard + CallbackFrames)
      BY <2>1, <3>2
    <3>5. /\ Id(heard + CallbackFrames) =
               IF heard + CallbackFrames < FrameIds THEN heard + CallbackFrames
               ELSE heard + CallbackFrames - FrameIds
          /\ Id(heard + CallbackFrames) \in 0 .. FrameIds - 1
      BY <3>3, FramesWrap
    <3> QED
      BY <3>4, <3>5
  <2>5. ASSUME NEW x \in 1 .. available' + 1
        PROVE  Id(heard' + x) = Id(heard + (CallbackFrames + x))
    <3>1. /\ heard \in Nat /\ CallbackFrames + x \in Nat
          /\ heard + (CallbackFrames + x) < 2 * FrameIds
      BY <1>1, <1>4, <2>1
    <3>2. heard' \in Nat /\ x \in Nat /\ heard' + x < 2 * FrameIds
      BY <1>1, <1>4, <2>1, <2>2, <2>4
    <3>3. Id(heard' + x) = IF heard' + x < FrameIds THEN heard' + x ELSE heard' + x - FrameIds
      BY <3>2, FramesWrap
    <3>4. Id(heard + (CallbackFrames + x)) =
            IF heard + (CallbackFrames + x) < FrameIds THEN heard + (CallbackFrames + x)
            ELSE heard + (CallbackFrames + x) - FrameIds
      BY <3>1, FramesWrap
    <3> QED
      BY <1>1, <2>4, <3>1, <3>2, <3>3, <3>4
  <2>6. ASSUME NEW x \in 0 .. available'
        PROVE  InRing(readIndex' + x) = InRing(readIndex + (CallbackFrames + x))
    <3>1. /\ readIndex \in Nat /\ CallbackFrames + x \in Nat
          /\ readIndex + (CallbackFrames + x) < 2 * Capacity
      BY <1>1, <1>4, <2>1
    <3>2. readIndex' \in Nat /\ x \in Nat /\ readIndex' + x < 2 * Capacity
      BY <1>1, <2>2, <2>3
    <3>3. InRing(readIndex' + x) =
            IF readIndex' + x < Capacity THEN readIndex' + x ELSE readIndex' + x - Capacity
      BY <3>2, RingWraps
    <3>4. InRing(readIndex + (CallbackFrames + x)) =
            IF readIndex + (CallbackFrames + x) < Capacity THEN readIndex + (CallbackFrames + x)
            ELSE readIndex + (CallbackFrames + x) - Capacity
      BY <3>1, RingWraps
    <3> QED
      BY <1>1, <2>3, <3>1, <3>2, <3>3, <3>4
  <2>7. ASSUME NEW i \in 0 .. available' - 1
        PROVE  ring[InRing(readIndex' + i)] = Id(heard' + 1 + i)
    <3>1. PICK k \in 0 .. available - 1 : k = CallbackFrames + i
      BY <1>1, <1>4, <2>1
    <3>2. PICK x \in 1 .. available' + 1 : x = i + 1
      BY <1>1, <1>4, <2>1
    <3>3. ring[InRing(readIndex + k)] = Id(heard + 1 + k)
      BY DEF RingIInv
    <3>4. heard + 1 + k = heard + (CallbackFrames + x) /\ heard' + x = heard' + 1 + i
      BY <1>1, <2>4, <3>1, <3>2
    <3>5. InRing(readIndex' + i) = InRing(readIndex + k)
      <4>1. i \in 0 .. available'
        BY <1>1, <1>4, <2>1
      <4> QED
        BY <2>6, <3>1, <4>1
    <3> QED
      BY <2>5, <3>3, <3>4, <3>5
  <2>8. Id(heard' + 1 + available') = Id(heard + 1 + available)
    <3>1. PICK x \in 1 .. available' + 1 : x = available' + 1
      BY <1>1, <1>4, <2>1
    <3>2. /\ heard' + x = heard' + 1 + available'
          /\ heard + (CallbackFrames + x) = heard + 1 + available
      BY <1>1, <2>1, <2>2, <2>4, <3>1
    <3> QED
      BY <2>5, <3>2
  <2>9. writeIndex' = InRing(readIndex' + available')
    <3>1. available' \in 0 .. available' /\ readIndex + (CallbackFrames + available') = readIndex + available
      BY <1>1, <2>1, <2>2
    <3> QED
      BY <1>2, <2>6, <3>1 DEF RingIInv
  <2> QED
    BY <1>2, <2>2, <2>3, <2>4, <2>7, <2>8, <2>9 DEF RingIInv
<1> QED
  BY <1>3, <1>4

LEMMA RingStepKeeps == RingIInv /\ [AudioNext]_audioVars => RingIInv'
<1> SUFFICES ASSUME RingIInv, [AudioNext]_audioVars PROVE RingIInv'
  OBVIOUS
<1>1. CASE WriteChunk
  BY <1>1, WriteChunkKeeps
<1>2. CASE AudioCallback
  BY <1>2, CallbackKeeps
<1>3. CASE Emit
  <2>1. UNCHANGED <<number, ringVars>>
    BY <1>3 DEF Emit, EmitIsRefused, EmitBegins, EmitMoves, EmitStores, Writes, engineVars
  <2>2. CASE EmitIsRefused \/ EmitStores
    <3>1. /\ engine \notin {"write", "waiting"} /\ engine' = "write" /\ left' = WriteFrames
      BY <2>2 DEF EmitIsRefused, EmitStores, Writes
    <3>2. Frame(0)' = number * WriteFrames
      BY <2>1, <3>1, FramesOfBuffers, AudioOutputAssumption DEF Frame, RingIInv
    <3> QED
      BY <2>1, <3>1, <3>2, AudioOutputAssumption DEF RingIInv, ringVars
  <2>3. CASE EmitBegins \/ EmitMoves
    <3>1. /\ engine \notin {"write", "waiting"} /\ engine' \notin {"write", "waiting"}
          /\ left' = left
      BY <2>3 DEF EmitBegins, EmitMoves, engineVars
    <3> QED
      BY <2>1, <3>1 DEF RingIInv, ringVars
  <2> QED
    BY <1>3, <2>2, <2>3 DEF Emit
<1>4. CASE /\ EngineStep \/ CallbackStep \/ TuiStep \/ UNCHANGED audioVars
           /\ ~ WriteChunk /\ ~ AudioCallback /\ ~ Emit
  <2>1. /\ UNCHANGED <<number, left, ringVars>>
        /\ engine' \in {"write", "waiting"} <=> engine \in {"write", "waiting"}
    BY <1>4 DEF EngineStep, StartStream, WriteWaits, DeleteModule, CloseSetsFlag, CloseSignals,
                CloseJoins, CallbackStep, CallbackLoops, CallbackEvent, CallbackWaits,
                DeviceWrites, TuiStep, engineVars, audioVars
  <2>2. Frame(0)' = Frame(0)
    BY <2>1 DEF Frame
  <2> QED
    BY <2>1, <2>2 DEF RingIInv, ringVars
<1> QED
  BY <1>1, <1>2, <1>3, <1>4 DEF AudioNext

(* No frame is lost, repeated or played out of order, for any sizes of     *)
(* buffer, callback and ring.                                              *)
THEOREM FramesPlayedInOrder == AudioSpec => []FramesInOrder
<1>1. RingIInv => FramesInOrder
  BY DEF RingIInv, FramesInOrder, InRing, Id
<1> QED
  BY <1>1, RingBegins, RingStepKeeps, PTL DEF AudioSpec
=============================================================================
