---------------------------- MODULE BoundedFifo ----------------------------
(***************************************************************************)
(* What SPSCQueue promises to a producer and a consumer: a queue of at     *)
(* most Room items, first in, first out; an item is refused only when the  *)
(* queue is full, and "nothing" is the answer only when it is empty.       *)
(***************************************************************************)
EXTENDS Naturals, Sequences

CONSTANTS Item, Nothing, Room

VARIABLES
  items,     (* in the queue                                              *)
  accepted,  (* what the last enqueue returned                            *)
  got        (* what the last dequeue returned                            *)

fifoVars == <<items, accepted, got>>

FifoInit == items = << >> /\ accepted = TRUE /\ got = Nothing

Accept(x) ==
  /\ Len(items) < Room
  /\ items' = Append(items, x)
  /\ accepted' = TRUE
  /\ UNCHANGED got

Refuse ==
  /\ Len(items) = Room
  /\ accepted' = FALSE
  /\ UNCHANGED <<items, got>>

Give ==
  /\ items # << >>
  /\ got' = Head(items)
  /\ items' = Tail(items)
  /\ UNCHANGED accepted

GiveNothing ==
  /\ items = << >>
  /\ got' = Nothing
  /\ UNCHANGED <<items, accepted>>

FifoNext == (\E x \in Item : Accept(x)) \/ Refuse \/ Give \/ GiveNothing

FifoSpec == FifoInit /\ [][FifoNext]_fifoVars
=============================================================================
