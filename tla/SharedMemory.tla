---------------------------- MODULE SharedMemory ----------------------------
(***************************************************************************)
(* One IPC::SharedMemory segment with everyone that uses it: the threads   *)
(* that call send(), the reader thread of the owner, and the owner's main  *)
(* loop that pops the MessageQueue.                                        *)
(*                                                                         *)
(* The segment is a single slot guarded by one mutex and ONE condition     *)
(* variable, on which senders wait for the slot to be free and the reader  *)
(* waits for it to be full.  Every critical section runs under the mutex,  *)
(* so an action is the code between taking the mutex (or leaving the       *)
(* condition variable, which takes it again) and releasing it (or waiting  *)
(* on the condition variable, which releases it).                          *)
(*                                                                         *)
(* GUIToAudio has two senders, the GUI's main loop and the worker thread   *)
(* of HardwareInputService; AudioToGUI has one, the engine's main thread.  *)
(***************************************************************************)
EXTENDS Naturals, Sequences

CONSTANTS
  Senders,   (* the threads that call send() on this segment              *)
  Reader,    (* the thread that runs readerThreadFunc                     *)
  MaxSends,  (* bound: how many times each sender calls send()            *)
  MayStop    (* whether the owner calls stopReaderThread()                *)

ASSUME ChannelAssumption ==
  /\ Reader \notin Senders
  /\ MaxSends \in Nat
  /\ MayStop \in BOOLEAN

VARIABLES
  data_ready,    (* SharedBuffer::data_ready                              *)
  data,          (* SharedBuffer::data, the message last written          *)
  message_queue, (* SharedMemory::_message_queue of the owner             *)
  running,       (* SharedMemory::_running                                *)
  pc,            (* where each thread is with respect to mutex and cond   *)
  calls,         (* per sender, how many calls of send() have begun       *)
  delivered      (* what the owner's loop has popped, oldest first        *)

vars == <<data_ready, data, message_queue, running, pc, calls, delivered>>

Threads == Senders \cup {Reader}
Message == Senders \X (1 .. MaxSends)
NoMessage == << >>

(***************************************************************************)
(* A sender is "idle" between two calls of send(); the reader is in "loop" *)
(* at the head of its while.  "blocked" is inside cond.wait, "awake" after *)
(* a notification or a spurious wakeup and before the predicate is tested  *)
(* again, "expired" when timed_wait gave up after 100 ms and has yet to    *)
(* take the mutex again, "done" once readerThreadFunc has returned.        *)
(***************************************************************************)
SenderPc == {"idle", "blocked", "awake"}
ReaderPc == {"loop", "blocked", "awake", "expired", "done"}

Init ==
  /\ data_ready = FALSE
  /\ data = NoMessage
  /\ message_queue = << >>
  /\ running = TRUE
  /\ pc = [t \in Threads |-> IF t = Reader THEN "loop" ELSE "idle"]
  /\ calls = [s \in Senders |-> 0]
  /\ delivered = << >>

(* cond.notify_one(): one thread that waits, whichever it is, is woken.    *)
Blocked(f) == {t \in Threads : f[t] = "blocked"}

NotifyOne(f) ==
  IF Blocked(f) = {} THEN {f} ELSE {[f EXCEPT ![t] = "awake"] : t \in Blocked(f)}

(***************************************************************************)
(* send(): with the mutex held, wait until the slot is free, fill it and   *)
(* notify.  The message is that of the call in progress.                   *)
(***************************************************************************)
FillSlotUnwritten(s, n) ==  \* mutant: data_ready is set before the memcpy
  /\ ~ data_ready
  /\ data_ready' = TRUE
  /\ pc' \in NotifyOne([pc EXCEPT ![s] = "idle"])
  /\ UNCHANGED <<data, message_queue, running, delivered>>

FillSlotOverwrites(s, n) == \* mutant: no wait for data_ready = false
  /\ data_ready' = TRUE
  /\ data' = <<s, n>>
  /\ pc' \in NotifyOne([pc EXCEPT ![s] = "idle"])
  /\ UNCHANGED <<message_queue, running, delivered>>

FillSlot(s, n) ==
  /\ ~ data_ready
  /\ data_ready' = TRUE
  /\ data' = <<s, n>>
  /\ pc' \in NotifyOne([pc EXCEPT ![s] = "idle"])
  /\ UNCHANGED <<message_queue, running, delivered>>

WaitForFreeSlot(s) ==
  /\ data_ready
  /\ pc' = [pc EXCEPT ![s] = "blocked"]
  /\ UNCHANGED <<data_ready, data, message_queue, running, delivered>>

Send(s) ==
  /\ pc[s] = "idle"
  /\ calls[s] < MaxSends
  /\ calls' = [calls EXCEPT ![s] = @ + 1]
  /\ FillSlot(s, calls[s] + 1) \/ WaitForFreeSlot(s)

(* send() of a message larger than the slot returns false without locking. *)
SendOversized(s) ==
  /\ pc[s] = "idle"
  /\ calls[s] < MaxSends
  /\ calls' = [calls EXCEPT ![s] = @ + 1]
  /\ UNCHANGED <<data_ready, data, message_queue, running, pc, delivered>>

SenderResumes(s) ==
  /\ pc[s] = "awake"
  /\ FillSlot(s, calls[s]) \/ WaitForFreeSlot(s)
  /\ UNCHANGED calls

(***************************************************************************)
(* readerThreadFunc: while _running, take the mutex, wait at most 100 ms   *)
(* for the slot to be full, empty it, notify, and push to the queue.       *)
(***************************************************************************)
TakeSlotSilently ==         \* mutant: the reader does not notify
  /\ data_ready
  /\ data_ready' = FALSE
  /\ pc' = [pc EXCEPT ![Reader] = "loop"]
  /\ message_queue' = Append(message_queue, data)
  /\ UNCHANGED <<data, running, calls, delivered>>

TakeSlot ==
  /\ data_ready
  /\ data_ready' = FALSE
  /\ pc' \in NotifyOne([pc EXCEPT ![Reader] = "loop"])
  /\ message_queue' = Append(message_queue, data)
  /\ UNCHANGED <<data, running, calls, delivered>>

ReaderGoesTo(where) ==
  /\ pc' = [pc EXCEPT ![Reader] = where]
  /\ UNCHANGED <<data_ready, data, message_queue, running, calls, delivered>>

ReaderLocks ==
  /\ pc[Reader] = "loop"
  /\ running
  /\ TakeSlot \/ (~ data_ready /\ ReaderGoesTo("blocked"))

ReaderResumes ==
  /\ pc[Reader] = "awake"
  /\ TakeSlot \/ (~ data_ready /\ ReaderGoesTo("blocked"))

ReaderWaitsForever ==       \* mutant: cond.wait in place of timed_wait
  FALSE

ReaderTimesOut ==
  /\ pc[Reader] = "blocked"
  /\ ReaderGoesTo("expired")

(* timed_wait returns the predicate: a message that came meanwhile is taken. *)
ReaderExpires ==
  /\ pc[Reader] = "expired"
  /\ TakeSlot \/ (~ data_ready /\ ReaderGoesTo("loop"))

ReaderExits ==
  /\ pc[Reader] = "loop"
  /\ ~ running
  /\ ReaderGoesTo("done")

(* POSIX lets a wait on a condition variable return for no reason.         *)
SpuriousWakeup(t) ==
  /\ pc[t] = "blocked"
  /\ pc' = [pc EXCEPT ![t] = "awake"]
  /\ UNCHANGED <<data_ready, data, message_queue, running, calls, delivered>>

(***************************************************************************)
(* The owner's main loop: tryPop until it calls stopReaderThread, which    *)
(* clears _running and joins the reader.                                   *)
(***************************************************************************)
TryPop ==
  /\ running
  /\ message_queue # << >>
  /\ message_queue' = Tail(message_queue)
  /\ delivered' = Append(delivered, Head(message_queue))
  /\ UNCHANGED <<data_ready, data, running, pc, calls>>

StopReaderThread ==
  /\ MayStop
  /\ running
  /\ running' = FALSE
  /\ UNCHANGED <<data_ready, data, message_queue, pc, calls, delivered>>

ReaderNext ==
  ReaderLocks \/ ReaderResumes \/ ReaderTimesOut \/ ReaderExpires \/ ReaderExits

Next ==
  \/ \E s \in Senders : Send(s) \/ SendOversized(s) \/ SenderResumes(s)
  \/ ReaderNext
  \/ \E t \in Threads : SpuriousWakeup(t)
  \/ TryPop
  \/ StopReaderThread

Spec == Init /\ [][Next]_vars

(***************************************************************************)
(* The scheduler runs a thread that can run; a mutex is not withheld for   *)
(* ever; the owner's loop keeps polling.  The 100 ms of timed_wait are an  *)
(* absolute deadline that a wakeup does not push back, so a reader that    *)
(* waits again and again does time out: strong fairness.  No fairness for  *)
(* starting a new send(), for spurious wakeups or for stopping.            *)
(***************************************************************************)
Fairness ==
  /\ \A s \in Senders : WF_vars(SenderResumes(s))
  /\ WF_vars(ReaderNext)
  /\ SF_vars(ReaderTimesOut)
  /\ WF_vars(TryPop)

FairSpec == Spec /\ Fairness

-----------------------------------------------------------------------------
TypeOK ==
  /\ data_ready \in BOOLEAN
  /\ data \in Message \cup {NoMessage}
  /\ data_ready => data \in Message
  /\ message_queue \in Seq(Message)
  /\ running \in BOOLEAN
  /\ pc \in [Threads -> SenderPc \cup ReaderPc]
  /\ pc[Reader] \in ReaderPc
  /\ \A s \in Senders : pc[s] \in SenderPc
  /\ calls \in [Senders -> 0 .. MaxSends]
  /\ \A s \in Senders : pc[s] # "idle" => calls[s] > 0
  /\ delivered \in Seq(Message)

(***************************************************************************)
(* notify_one may wake the wrong thread: both directions share one         *)
(* condition variable.  Still, no sender sleeps on a free slot unless      *)
(* another sender is already awake and about to test the slot: the wakeup  *)
(* for "the slot is free" (SharedMemory.cpp:244) is never lost, although   *)
(* cond.wait in send() (line 140) has no timeout to fall back on.          *)
(***************************************************************************)
NoStrandedSender ==
  (~ data_ready /\ \E s \in Senders : pc[s] = "blocked")
     => \E s \in Senders : pc[s] = "awake"

(* The link is the FIFO channel its users take it for: nothing accepted is *)
(* lost, repeated or overtaken between the slot and the queue.             *)
InTransit == IF data_ready THEN Append(message_queue, data) ELSE message_queue
Returned == [s \in Senders |-> IF pc[s] = "idle" THEN calls[s] ELSE calls[s] - 1]

Fifo == INSTANCE MessageChannel
          WITH channel <- InTransit, attempted <- Returned, delivered <- delivered

RefinesFifo == Fifo!Spec

(* A send() that waits for the slot comes back while the reader runs, even *)
(* though the notification it waits for may be given to another thread.    *)
SendReturns ==
  \A s \in Senders : (pc[s] # "idle") ~> (pc[s] = "idle" \/ ~ running)

(* Every message put in the slot reaches the owner's loop.  A notification *)
(* of send() (line 145) can go to another sender, so this rests on the     *)
(* 100 ms timeout of the reader's timed_wait (line 238).                   *)
EventuallyDelivered ==
  \A m \in Message :
    (data_ready /\ data = m)
      ~> (~ running \/ \E i \in DOMAIN delivered : delivered[i] = m)

(* stopReaderThread() returns: the reader leaves its loop, whether or not  *)
(* a message ever comes to wake it.                                        *)
StopJoins == ~ running ~> pc[Reader] = "done"
=============================================================================
