---------------------------- MODULE BoundedFifo ----------------------------
(***************************************************************************)
(* What a mailbox of bridge/overwrite_queue.rs promises the tasks at its   *)
(* two ends, with no ring, no byte counters and no wake-ups: accepted      *)
(* frames leave whole, once and in the order of their acceptance, and only *)
(* a lossy mailbox (bus to network) ever drops one it has accepted, and    *)
(* then always the oldest.  When a producer is refused is left open here.  *)
(***************************************************************************)
EXTENDS Naturals, Sequences

CONSTANTS
  Depth,      (* frames the mailbox holds at most                          *)
  Frames,     (* the frames producers offer                                *)
  Consumers,  (* the tasks that pop                                        *)
  Lossy       (* TRUE for a mailbox its producers push with push_overwrite *)

VARIABLES
  queue,      (* accepted and not yet removed, oldest first                *)
  hand        (* hand[c]: the frame consumer c has popped, <<>> for none   *)

fifoVars == <<queue, hand>>

Init ==
  /\ queue = <<>>
  /\ hand = [c \in Consumers |-> <<>>]

Accept(f) ==
  /\ f # <<>>
  /\ Len(queue) < Depth
  /\ queue' = Append(queue, f)
  /\ UNCHANGED hand

Deliver(c) ==
  /\ queue # <<>>
  /\ hand' = [hand EXCEPT ![c] = Head(queue)]
  /\ queue' = Tail(queue)

Consume(c) ==
  /\ hand' = [hand EXCEPT ![c] = <<>>]
  /\ UNCHANGED queue

Evict ==
  /\ Lossy
  /\ queue # <<>>
  /\ queue' = Tail(queue)
  /\ UNCHANGED hand

Next ==
  \/ \E f \in Frames : Accept(f)
  \/ \E c \in Consumers : Deliver(c) \/ Consume(c)
  \/ Evict

Spec == Init /\ [][Next]_fifoVars
=============================================================================
