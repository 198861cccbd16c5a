------------------------------ MODULE Mailbox ------------------------------
(***************************************************************************)
(* One OverwriteQueue of bridge/overwrite_queue.rs and the tasks that use  *)
(* it: a ring of B bytes that stores frames back to back, a Deque of at    *)
(* most N lengths, and two one-slot signals, ready (a frame was inserted)  *)
(* and space (a frame was removed).                                        *)
(*                                                                         *)
(* The queue state is only touched inside a critical section, so a lock    *)
(* section is one step; the signal that follows it is sent after the lock  *)
(* is released and is a step of its own, because the other core, or the    *)
(* other task after an await, can run in between.  Only push_overwrite     *)
(* takes several steps under the lock (one per evicted frame), and         *)
(* Locked keeps everybody else out for that long.                          *)
(***************************************************************************)
EXTENDS Integers, Sequences

CONSTANTS
  N,           (* the Deque's capacity                                     *)
  B,           (* the ring's bytes, MAX_BYTES in the code                  *)
  Byte,        (* byte values                                              *)
  Frames,      (* the frames producers offer, acceptable or not            *)
  Blockers,    (* tasks that call push                                     *)
  Triers,      (* tasks that call try_push / try_push_ref                  *)
  Overwriters, (* tasks that call push_overwrite                           *)
  Consumers    (* tasks that call pop or try_pop                           *)

Procs == Blockers \cup Triers \cup Overwriters \cup Consumers

(***************************************************************************)
(* Every mailbox of the firmware has one task that pops and at most one    *)
(* that blocks in push, and no mailbox mixes push_overwrite with push      *)
(* (main.rs and uart_mailbox.rs hand the queues out).                      *)
(***************************************************************************)
ASSUME MailboxAssumption ==
  /\ N \in Nat \ {0}
  /\ B \in Nat \ {0}
  /\ 0 \in Byte
  /\ Frames \subseteq Seq(Byte)
  /\ \A b, d \in Blockers : b = d
  /\ \A c, d \in Consumers : c = d
  /\ Blockers \cap Triers = {} /\ Blockers \cap Overwriters = {}
  /\ Blockers \cap Consumers = {} /\ Triers \cap Overwriters = {}
  /\ Triers \cap Consumers = {} /\ Overwriters \cap Consumers = {}
  /\ Blockers = {} \/ Overwriters = {}

(* Definitions named ...Fault are variants a mistake in the code could     *)
(* introduce; no specification uses them, they show what each property     *)
(* would notice.                                                           *)

VARIABLES
  lengths,  (* Deque of the lengths of the queued frames                   *)
  bytes,    (* the ring                                                    *)
  head,     (* index of the oldest queued byte                             *)
  used,     (* queued bytes                                                *)
  ready,    (* the signal consumers wait for                               *)
  space,    (* the signal producers wait for                               *)
  pc,       (* where each task is inside the operation it called           *)
  arg,      (* the frame each task offers or has popped, <<>> for none     *)
  content   (* history: the queued frames themselves, oldest first         *)

ring == <<lengths, bytes, head, used, content>>
vars == <<lengths, bytes, head, used, ready, space, pc, arg, content>>

Signal == {"None", "Waiting", "Signaled"}

Control == {"idle", "check", "try", "spacePoll", "spaceParked", "evict",
            "sigReady", "pop", "readyPoll", "readyParked", "sigSpace"}

-----------------------------------------------------------------------------
(* QueueState.                                                             *)

FitsFault(len) == len > 0 /\ Len(lengths) # N /\ len < B - used

Fits(len) ==
  /\ len > 0
  /\ Len(lengths) # N
  /\ len <= B - used

Smaller(a, b) == IF a < b THEN a ELSE b

DiscardFront ==
  /\ head' = (head + lengths[1]) % B
  /\ used' = used - lengths[1]
  /\ lengths' = Tail(lengths)
  /\ content' = Tail(content)
  /\ UNCHANGED bytes

(* The second slice starts again at the frame's first byte.                *)
InsertFault(item) ==
  LET len   == Len(item)
      tail  == (head + used) % B
      first == Smaller(len, B - tail)
  IN  /\ bytes' = [j \in 0 .. B - 1 |->
                     IF tail <= j /\ j < tail + first THEN item[j - tail + 1]
                     ELSE IF j < len - first THEN item[j + 1]
                     ELSE bytes[j]]
      /\ lengths' = Append(lengths, len)
      /\ used' = used + len
      /\ content' = Append(content, item)
      /\ UNCHANGED head

(* The frame is copied in two pieces: up to the ring's end, then from 0.   *)
Insert(item) ==
  LET len   == Len(item)
      tail  == (head + used) % B
      first == Smaller(len, B - tail)
  IN  /\ bytes' = [j \in 0 .. B - 1 |->
                     IF tail <= j /\ j < tail + first THEN item[j - tail + 1]
                     ELSE IF j < len - first THEN item[first + j + 1]
                     ELSE bytes[j]]
      /\ lengths' = Append(lengths, len)
      /\ used' = used + len
      /\ content' = Append(content, item)
      /\ UNCHANGED head

(* The oldest frame, put together again from its two slices.               *)
Front ==
  LET len   == lengths[1]
      first == Smaller(len, B - head)
  IN  [i \in 1 .. len |->
         IF i <= first THEN bytes[head + i - 1] ELSE bytes[i - first - 1]]

Locked == \E o \in Overwriters : pc[o] = "evict"

-----------------------------------------------------------------------------
(* Signals: latched, one slot.  Signalling wakes the task whose waker is   *)
(* registered; waiting consumes a latched signal or registers the waker.   *)

Goto(p, at) == pc' = [pc EXCEPT ![p] = at]

(* Task p signals and returns; tasks parked on the signal are polled again. *)
SignalAndReturn(p, wasWaiting, parked, poll) ==
  pc' = [q \in Procs |->
           IF q = p THEN "idle"
           ELSE IF wasWaiting /\ pc[q] = parked THEN poll ELSE pc[q]]

SignalReady(p) ==
  /\ pc[p] = "sigReady"
  /\ ready' = "Signaled"
  /\ SignalAndReturn(p, ready = "Waiting", "readyParked", "readyPoll")
  /\ arg' = [arg EXCEPT ![p] = <<>>]
  /\ UNCHANGED <<ring, space>>

(* Space is only announced when the queue is empty again.                  *)
SignalSpaceFault(p) ==
  /\ pc[p] = "sigSpace"
  /\ \/ /\ lengths = <<>>
        /\ space' = "Signaled"
        /\ SignalAndReturn(p, space = "Waiting", "spaceParked", "spacePoll")
     \/ /\ lengths # <<>>
        /\ Goto(p, "idle")
        /\ UNCHANGED space
  /\ arg' = [arg EXCEPT ![p] = <<>>]
  /\ UNCHANGED <<ring, ready>>

SignalSpace(p) ==
  /\ pc[p] = "sigSpace"
  /\ space' = "Signaled"
  /\ SignalAndReturn(p, space = "Waiting", "spaceParked", "spacePoll")
  /\ arg' = [arg EXCEPT ![p] = <<>>]
  /\ UNCHANGED <<ring, ready>>

(* The signal is cleared before the wait.                                  *)
WaitReadyFault(c) ==
  /\ pc[c] = "readyPoll"
  /\ ready' = "Waiting"
  /\ Goto(c, "readyParked")
  /\ UNCHANGED <<ring, space, arg>>

WaitReady(c) ==
  /\ pc[c] = "readyPoll"
  /\ \/ /\ ready = "Signaled"
        /\ ready' = "None"
        /\ Goto(c, "pop")
     \/ /\ ready # "Signaled"
        /\ ready' = "Waiting"
        /\ Goto(c, "readyParked")
  /\ UNCHANGED <<ring, space, arg>>

WaitSpaceFault(b) ==
  /\ pc[b] = "spacePoll"
  /\ space' = "Waiting"
  /\ Goto(b, "spaceParked")
  /\ UNCHANGED <<ring, ready, arg>>

WaitSpace(b) ==
  /\ pc[b] = "spacePoll"
  /\ \/ /\ space = "Signaled"
        /\ space' = "None"
        /\ Goto(b, "check")
     \/ /\ space # "Signaled"
        /\ space' = "Waiting"
        /\ Goto(b, "spaceParked")
  /\ UNCHANGED <<ring, ready, arg>>

-----------------------------------------------------------------------------
(* Producers.                                                              *)

(* push: a frame no empty queue could hold is returned to the caller and   *)
(* nothing changes.                                                        *)
Push(b, f) ==
  /\ pc[b] = "idle"
  /\ Len(f) # 0 /\ Len(f) <= B
  /\ Goto(b, "check")
  /\ arg' = [arg EXCEPT ![b] = f]
  /\ UNCHANGED <<ring, ready, space>>

(* wait_for_space's look at the queue.                                     *)
CheckSpace(b) ==
  /\ pc[b] = "check"
  /\ ~Locked
  /\ Goto(b, IF Fits(Len(arg[b])) THEN "try" ELSE "spacePoll")
  /\ UNCHANGED <<ring, ready, space, arg>>

(* push's try_push: another producer may have taken the space meanwhile.   *)
PushTry(b) ==
  /\ pc[b] = "try"
  /\ ~Locked
  /\ \/ /\ Fits(Len(arg[b]))
        /\ Insert(arg[b])
        /\ Goto(b, "sigReady")
     \/ /\ ~Fits(Len(arg[b]))
        /\ Goto(b, "check")
        /\ UNCHANGED ring
  /\ UNCHANGED <<ready, space, arg>>

(* The future is dropped by a select while it waits: its waker stays.      *)
CancelPush(b) ==
  /\ pc[b] \in {"spacePoll", "spaceParked"}
  /\ Goto(b, "idle")
  /\ arg' = [arg EXCEPT ![b] = <<>>]
  /\ UNCHANGED <<ring, ready, space>>

(* The lossy policy on a network mailbox.                                  *)
TryPushRefFault(t, f) ==
  /\ pc[t] = "idle"
  /\ ~Locked
  /\ f # <<>>
  /\ \/ /\ Fits(Len(f))
        /\ Insert(f)
        /\ Goto(t, "sigReady")
        /\ arg' = [arg EXCEPT ![t] = f]
     \/ /\ ~Fits(Len(f)) /\ lengths # <<>>
        /\ DiscardFront
        /\ UNCHANGED <<pc, arg>>
  /\ UNCHANGED <<ready, space>>

(* try_push_ref: a frame that does not fit is refused, nothing changes.    *)
TryPushRef(t, f) ==
  /\ pc[t] = "idle"
  /\ ~Locked
  /\ Fits(Len(f))
  /\ Insert(f)
  /\ Goto(t, "sigReady")
  /\ arg' = [arg EXCEPT ![t] = f]
  /\ UNCHANGED <<ready, space>>

(* push_overwrite takes the lock ...                                       *)
PushOverwrite(o, f) ==
  /\ pc[o] = "idle"
  /\ ~Locked
  /\ Len(f) # 0 /\ Len(f) <= B
  /\ Goto(o, "evict")
  /\ arg' = [arg EXCEPT ![o] = f]
  /\ UNCHANGED <<ring, ready, space>>

(* ... discards the oldest frames while the new one does not fit (the      *)
(* early return on an empty queue is what EvictionFindsRoom excludes) ...  *)
EvictOldest(o) ==
  /\ pc[o] = "evict"
  /\ ~Fits(Len(arg[o]))
  /\ lengths # <<>>
  /\ DiscardFront
  /\ UNCHANGED <<ready, space, pc, arg>>

(* ... and inserts the new one.                                            *)
InsertNewest(o) ==
  /\ pc[o] = "evict"
  /\ Fits(Len(arg[o]))
  /\ Insert(arg[o])
  /\ Goto(o, "sigReady")
  /\ UNCHANGED <<ready, space, arg>>

-----------------------------------------------------------------------------
(* Consumers.                                                              *)

Take(c) ==
  /\ lengths # <<>>
  /\ arg' = [arg EXCEPT ![c] = Front]
  /\ DiscardFront
  /\ Goto(c, "sigSpace")

(* try_pop called on its own: the bus tasks, and the drain between two     *)
(* UART sessions.  On an empty queue it returns None and changes nothing.  *)
TryPop(c) ==
  /\ pc[c] = "idle"
  /\ ~Locked
  /\ Take(c)
  /\ UNCHANGED <<ready, space>>

Pop(c) ==
  /\ pc[c] = "idle"
  /\ Goto(c, "pop")
  /\ UNCHANGED <<ring, ready, space, arg>>

PopTry(c) ==
  /\ pc[c] = "pop"
  /\ ~Locked
  /\ \/ Take(c)
     \/ /\ lengths = <<>>
        /\ Goto(c, "readyPoll")
        /\ UNCHANGED <<ring, arg>>
  /\ UNCHANGED <<ready, space>>

(* The session's select drops a pop that waits.                            *)
CancelPop(c) ==
  /\ pc[c] \in {"readyPoll", "readyParked"}
  /\ Goto(c, "idle")
  /\ UNCHANGED <<ring, ready, space, arg>>

-----------------------------------------------------------------------------
Init ==
  /\ lengths = <<>>
  /\ bytes = [j \in 0 .. B - 1 |-> 0]
  /\ head = 0
  /\ used = 0
  /\ ready = "None"
  /\ space = "None"
  /\ pc = [p \in Procs |-> "idle"]
  /\ arg = [p \in Procs |-> <<>>]
  /\ content = <<>>

Blocker(b) ==
  \/ \E f \in Frames : Push(b, f)
  \/ CheckSpace(b)
  \/ PushTry(b)
  \/ WaitSpace(b)
  \/ CancelPush(b)

Overwriter(o) ==
  \/ \E f \in Frames : PushOverwrite(o, f)
  \/ EvictOldest(o)
  \/ InsertNewest(o)

Consumer(c) ==
  \/ TryPop(c)
  \/ Pop(c)
  \/ PopTry(c)
  \/ WaitReady(c)
  \/ CancelPop(c)
  \/ SignalSpace(c)

Next ==
  \/ \E b \in Blockers : Blocker(b)
  \/ \E t \in Triers, f \in Frames : TryPushRef(t, f)
  \/ \E o \in Overwriters : Overwriter(o)
  \/ \E p \in Blockers \cup Triers \cup Overwriters : SignalReady(p)
  \/ \E c \in Consumers : Consumer(c)

Spec == Init /\ [][Next]_vars

(***************************************************************************)
(* The executor polls every woken task, and an operation under way runs on *)
(* to its next await.  Nobody has to start a push; the consumer's loop     *)
(* does call pop (or try_pop) again after each frame.  The consumer gets   *)
(* strong fairness because push_overwrite holds the lock for a step here   *)
(* where the code runs it to its end before the executor polls anyone.     *)
(***************************************************************************)
Fairness ==
  /\ \A b \in Blockers : WF_vars(CheckSpace(b) \/ PushTry(b) \/ WaitSpace(b))
  /\ \A o \in Overwriters : WF_vars(EvictOldest(o) \/ InsertNewest(o))
  /\ \A p \in Blockers \cup Triers \cup Overwriters : WF_vars(SignalReady(p))
  /\ \A c \in Consumers :
       SF_vars(TryPop(c) \/ Pop(c) \/ PopTry(c) \/ WaitReady(c) \/ SignalSpace(c))

FairSpec == Spec /\ Fairness

-----------------------------------------------------------------------------
(* Properties.                                                             *)

TypeOK ==
  /\ lengths \in Seq(1 .. B) /\ Len(lengths) <= N
  /\ bytes \in [0 .. B - 1 -> Byte]
  /\ head \in 0 .. B - 1
  /\ used \in 0 .. B
  /\ ready \in Signal
  /\ space \in Signal
  /\ pc \in [Procs -> Control]
  /\ arg \in [Procs -> Seq(Byte)]
  /\ content \in Seq(Frames)

(* The ring index at distance x - head from the head, for x below 2B.      *)
Wrap(x) == IF x < B THEN x ELSE x - B

(* pos[i] is the distance of queued frame i from the head.                 *)
Placed(pos) ==
  /\ pos[1] = 0
  /\ pos[Len(lengths) + 1] = used
  /\ \A i \in 1 .. Len(lengths) :
       /\ lengths[i] = Len(content[i])
       /\ pos[i + 1] = pos[i] + lengths[i]
       /\ \A j \in i + 1 .. Len(lengths) + 1 : pos[i] + lengths[i] <= pos[j]
       /\ \A k \in 1 .. lengths[i] :
            bytes[Wrap(head + pos[i] + k - 1)] = content[i][k]

(***************************************************************************)
(* Layout: the ring holds exactly the accepted frames, back to back from   *)
(* head, whatever the point where it wraps, and they fill the bytes in     *)
(* use: the byte counter, the length queue and the ring can never disagree: no  *)
(* push overwrites a byte of a queued frame and no pop returns bytes of    *)
(* two frames (overwrite_queue.rs insert, discard_front, try_pop).         *)
(***************************************************************************)
Layout ==
  /\ Len(content) = Len(lengths)
  /\ \E pos \in [1 .. Len(lengths) + 1 -> 0 .. used] : Placed(pos)

(***************************************************************************)
(* NoLostReady: a consumer that found the queue empty and went to wait is  *)
(* never left waiting beside a queued frame unless its wake-up is latched  *)
(* or a producer is about to send it (pop's check-then-wait against the    *)
(* signal that try_push_ref sends after it has released the lock).         *)
(***************************************************************************)
NoLostReady ==
  \A c \in Consumers :
    /\ pc[c] \in {"readyPoll", "readyParked"} /\ lengths # <<>> =>
         \/ ready = "Signaled" /\ pc[c] = "readyPoll"
         \/ \E p \in Blockers \cup Triers \cup Overwriters : pc[p] = "sigReady"
    /\ pc[c] = "readyParked" => ready = "Waiting"

(***************************************************************************)
(* NoLostSpace: a push that waits is never left waiting while its frame    *)
(* would fit, unless the wake-up is latched or about to be sent            *)
(* (wait_for_space against try_pop's signal after the lock).               *)
(***************************************************************************)
NoLostSpace ==
  \A b \in Blockers :
    /\ pc[b] \in {"spacePoll", "spaceParked"} /\ Fits(Len(arg[b])) =>
         \/ space = "Signaled" /\ pc[b] = "spacePoll"
         \/ \E c \in Consumers : pc[c] = "sigSpace"
    /\ pc[b] = "spaceParked" => space = "Waiting"

(***************************************************************************)
(* EvictionFindsRoom: push_overwrite never runs out of frames to discard,  *)
(* so its early return, which would lose the new frame and still report    *)
(* success, is not reached.                                                *)
(***************************************************************************)
EvictionFindsRoom ==
  \A o \in Overwriters :
    pc[o] = "evict" /\ lengths = <<>> => Fits(Len(arg[o]))

(* The mailbox seen from its two ends.                                     *)
Fifo == INSTANCE BoundedFifo WITH
  Depth <- N,
  Lossy <- Overwriters # {},
  queue <- content,
  hand  <- [c \in Consumers |-> arg[c]]

(* Implements: accepted frames leave whole, once and in order, and only a  *)
(* mailbox filled by push_overwrite drops an accepted one, the oldest.     *)
Implements == Fifo!Spec

(* PushReturns: under a consumer that keeps popping, and once the refusing *)
(* producer has stopped taking the room, a blocked push ends (push's loop  *)
(* around wait_for_space).                                                 *)
PushReturns ==
  <>[](\A t \in Triers : pc[t] = "idle") =>
    \A b \in Blockers :
      pc[b] \in {"check", "try", "spacePoll", "spaceParked"} ~>
        pc[b] \in {"sigReady", "idle"}

(* PopReturns: a pop does not wait forever beside a queued frame.          *)
PopReturns ==
  \A c \in Consumers :
    content # <<>> /\ pc[c] \in {"pop", "readyPoll", "readyParked"} ~>
      pc[c] \in {"sigSpace", "idle"} \/ content = <<>>
=============================================================================
