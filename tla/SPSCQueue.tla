----------------------------- MODULE SPSCQueue -----------------------------
(***************************************************************************)
(* SPSCQueue, step by step: one producer calls enqueue and one consumer    *)
(* dequeue, with no lock.  Each loads the other one's index once, works on *)
(* a slot of the buffer and then stores its own index.  A slot from which  *)
(* an item was moved holds Nothing, as a std::unique_ptr does.             *)
(***************************************************************************)
EXTENDS Integers, Sequences

CONSTANTS
  Size,     (* slots of the buffer: 1024                                  *)
  Item,
  Nothing

ASSUME SizeAssumption == Size \in Nat \ {0}
ASSUME NothingAssumption == Nothing \notin Item

VARIABLES
  buffer,
  head,      (* written by the producer                                   *)
  tail,      (* written by the consumer                                   *)
  producing, (* where the producer is in enqueue                          *)
  item,      (* what it enqueues                                          *)
  accepted,  (* what its last enqueue returned                            *)
  consuming, (* where the consumer is in dequeue                          *)
  taken,     (* what it has moved out of the buffer                       *)
  got        (* what its last dequeue returned                            *)

producerVars == <<producing, item, accepted>>
consumerVars == <<consuming, taken, got>>
queueVars == <<buffer, head, tail, producerVars, consumerVars>>

Slot == 0 .. Size - 1
After(i) == (i + 1) % Size

QueueInit ==
  /\ buffer = [i \in Slot |-> Nothing]
  /\ head = 0
  /\ tail = 0
  /\ producing = "idle"
  /\ item = Nothing
  /\ accepted = TRUE
  /\ consuming = "idle"
  /\ taken = Nothing
  /\ got = Nothing

-----------------------------------------------------------------------------
(* enqueue: the check, the move into the slot, the store of head_.         *)
IsFullAtLast == head = tail /\ buffer[head] # Nothing
  \* mutant: every slot is used, as if head_ = tail_ could mean "full"
IsFull == After(head) = tail

EnqueueRefuses ==
  /\ producing = "idle"
  /\ IsFull
  /\ accepted' = FALSE
  /\ UNCHANGED <<buffer, head, tail, producing, item, consumerVars>>

EnqueueBegins(x) ==
  /\ producing = "idle"
  /\ ~ IsFull
  /\ producing' = "move"
  /\ item' = x
  /\ UNCHANGED <<buffer, head, tail, accepted, consumerVars>>

EnqueueMoves ==
  /\ producing = "move"
  /\ buffer' = [buffer EXCEPT ![head] = item]
  /\ producing' = "store"
  /\ UNCHANGED <<head, tail, item, accepted, consumerVars>>

EnqueueStores ==
  /\ producing = "store"
  /\ head' = After(head)
  /\ producing' = "idle"
  /\ item' = Nothing
  /\ accepted' = TRUE
  /\ UNCHANGED <<buffer, tail, consumerVars>>

-----------------------------------------------------------------------------
(* dequeue: the check, the move out of the slot, the store of tail_.       *)
IsEmptyUnpublished == tail = head /\ producing = "idle"
  \* mutant: head_ is advanced before the item is in its slot
IsEmpty == tail = head

DequeueFindsNothing ==
  /\ consuming = "idle"
  /\ IsEmpty
  /\ got' = Nothing
  /\ UNCHANGED <<buffer, head, tail, producerVars, consuming, taken>>

DequeueBegins ==
  /\ consuming = "idle"
  /\ ~ IsEmpty
  /\ consuming' = "move"
  /\ UNCHANGED <<buffer, head, tail, producerVars, taken, got>>

DequeueMoves ==
  /\ consuming = "move"
  /\ taken' = buffer[tail]
  /\ buffer' = [buffer EXCEPT ![tail] = Nothing]
  /\ consuming' = "store"
  /\ UNCHANGED <<head, tail, producerVars, got>>

DequeueStores ==
  /\ consuming = "store"
  /\ tail' = After(tail)
  /\ got' = taken
  /\ taken' = Nothing
  /\ consuming' = "idle"
  /\ UNCHANGED <<buffer, head, producerVars>>

Dequeue == DequeueFindsNothing \/ DequeueBegins \/ DequeueMoves \/ DequeueStores

Enqueue ==
  EnqueueRefuses \/ (\E x \in Item : EnqueueBegins(x)) \/ EnqueueMoves \/ EnqueueStores

QueueNext == Enqueue \/ Dequeue

QueueSpec == QueueInit /\ [][QueueNext]_queueVars

-----------------------------------------------------------------------------
QueueTypeOK ==
  /\ buffer \in [Slot -> Item \cup {Nothing}]
  /\ head \in Slot
  /\ tail \in Slot
  /\ producing \in {"idle", "move", "store"}
  /\ item \in Item \cup {Nothing}
  /\ accepted \in BOOLEAN
  /\ consuming \in {"idle", "move", "store"}
  /\ taken \in Item \cup {Nothing}
  /\ got \in Item \cup {Nothing}

(***************************************************************************)
(* The two threads never work on the same slot, although neither waits for *)
(* the other and each acts on an index it has loaded before.               *)
(***************************************************************************)
SlotsAreSeparate == producing # "idle" /\ consuming # "idle" => head # tail

(***************************************************************************)
(* A published slot holds an item until the consumer moves it out: what is *)
(* dequeued is never Nothing.                                              *)
(***************************************************************************)
Published(i) == (i + Size - tail) % Size < (head + Size - tail) % Size
SlotsAreFilled ==
  \A i \in Slot : Published(i) /\ ~ (i = tail /\ consuming = "store") => buffer[i] # Nothing

-----------------------------------------------------------------------------
(* The queue is a BoundedFifo of Size - 1 items.  An item is in it from    *)
(* the store of head_ to the store of tail_.                               *)
Stored ==
  [i \in 1 .. (head + Size - tail) % Size |->
     IF i = 1 /\ consuming = "store" THEN taken ELSE buffer[(tail + i - 1) % Size]]

Bounded == INSTANCE BoundedFifo WITH items <- Stored, Room <- Size - 1

QueueIsFifo == Bounded!FifoSpec
=============================================================================
