--------------------------- MODULE MessageChannel ---------------------------
(***************************************************************************)
(* What one direction of the engine/GUI link promises to the code that     *)
(* uses it: an unbounded FIFO channel.  A call of send() either puts its   *)
(* message behind everything accepted before it, or refuses it (the        *)
(* message is larger than the shared slot) and leaves no trace.  The owner *)
(* of the channel takes the messages out in the order of acceptance.       *)
(*                                                                         *)
(* The module says nothing of mutexes, of the one-slot buffer or of the    *)
(* reader thread: SharedMemory.tla models those and refines this module.   *)
(***************************************************************************)
EXTENDS Naturals, Sequences

CONSTANTS
  Senders,   (* the threads that call send() on this channel              *)
  MaxSends   (* bound: how many times each of them calls it               *)

VARIABLES
  channel,    (* accepted and not yet taken out                           *)
  attempted,  (* per sender, the calls of send() that have returned       *)
  delivered   (* everything taken out so far, oldest first (history)      *)

vars == <<channel, attempted, delivered>>

(* The n-th message of a sender is identified by the pair <<sender, n>>.   *)
Message == Senders \X (1 .. MaxSends)

Init ==
  /\ channel = << >>
  /\ attempted = [s \in Senders |-> 0]
  /\ delivered = << >>

Accept(s) ==
  /\ attempted[s] < MaxSends
  /\ attempted' = [attempted EXCEPT ![s] = @ + 1]
  /\ channel' = Append(channel, <<s, attempted[s] + 1>>)
  /\ UNCHANGED delivered

Refuse(s) ==
  /\ attempted[s] < MaxSends
  /\ attempted' = [attempted EXCEPT ![s] = @ + 1]
  /\ UNCHANGED <<channel, delivered>>

Deliver ==
  /\ channel # << >>
  /\ channel' = Tail(channel)
  /\ delivered' = Append(delivered, Head(channel))
  /\ UNCHANGED attempted

Next ==
  \/ \E s \in Senders : Accept(s) \/ Refuse(s)
  \/ Deliver

Spec == Init /\ [][Next]_vars
=============================================================================
