------------------------------- MODULE I2cTask -------------------------------
(***************************************************************************)
(* The I2C slave task (bridge/i2c_task.rs i2c_poll_task) between its bus    *)
(* master and the two I2C mailboxes.  One bus transaction is one step: the *)
(* task handles a write, or stages and gives out a slot, without an await  *)
(* in between.  Two protocols share the task: version 1 cuts packets into  *)
(* slots, version 2 (protocol/i2c_packet.rs) moves a packet in one         *)
(* transaction and keeps its answer in a one-packet mailbox.               *)
(*                                                                         *)
(* The master is the host of host/i2c_backend.rs: it numbers its transfers *)
(* and reassembles responses.  It may give up at any point, and the bus    *)
(* may blank a slot (which both ends ignore), cut a write short, or fail.  *)
(*                                                                         *)
(* A payload is as many parts as it has slots.  A request is its slot kind, *)
(* the class parse_request_bytes and looks_like_local_command give it, its *)
(* size, the size of its local answer and the transfer's number; a reply   *)
(* is its slot kind, a number and its size.                                *)
(*                                                                         *)
(* Definitions named ...Fault are variants a mistake in the code could     *)
(* introduce; no specification uses them, they show what each property     *)
(* would notice.                                                           *)
(***************************************************************************)
EXTENDS Naturals, Sequences, SequencesExt

CONSTANTS
  Requests,     (* requests the master may send                            *)
  ReplySizes,   (* sizes of the frames the network side delivers           *)
  PayloadMax,   (* I2C_PACKET_MAX and MAX_PAYLOAD, in parts                *)
  Depth,        (* packets a mailbox holds                                 *)
  Versions,     (* protocol versions the master uses                       *)
  MaxRequests,  (* bound: transfers the master starts                      *)
  MaxReplies,   (* bound: frames the network side delivers                 *)
  MaxFaults,    (* bound: bus faults and abandoned transfers               *)
  None

Kinds == {"data", "command", "other", "error"}
Classes == {"forward", "empty", "local", "unknown"}

(* Requests with their transfer's number, and replies.                     *)
Transfers == [kind : Kinds, class : Classes, size : Nat, answer : Nat, n : Nat]
Replies == [kind : Kinds, n : Nat, size : Nat]

ASSUME I2cAssumption ==
  /\ \A q \in Requests : /\ q.kind \in Kinds /\ q.class \in Classes
                         /\ q.size \in Nat \ {0} /\ q.answer \in Nat \ {0}
  /\ ReplySizes \subseteq Nat \ {0}
  /\ PayloadMax \in Nat \ {0} /\ Depth \in Nat \ {0}
  /\ Versions \subseteq {1, 2} /\ Versions # {}
  /\ MaxRequests \in Nat /\ MaxReplies \in Nat /\ MaxFaults \in Nat
  /\ None \notin Replies /\ None \notin [p : Transfers, next : Nat, clean : BOOLEAN]

VARIABLES
  rx,          (* RxPacketState                                            *)
  late,        (* PARTIAL_PACKET_TIMEOUT has passed since the last slot    *)
  tx,          (* TxPacketState                                            *)
  lastXfer,    (* last_transfer_id                                         *)
  v2,          (* the protocol the task speaks                             *)
  mailbox,     (* packet_v2::Mailbox: the staged packet or None            *)
  toNetwork,   (* requests for the session (push_overwrite)                *)
  toMaster,    (* replies from the session                                 *)
  writing,     (* master: the request being written, slot by slot          *)
  reading,     (* master: the response being assembled                     *)
  peeked,      (* master: the packet whose version 2 header it has read    *)
  xfers,       (* history: transfers started                               *)
  delivered,   (* history: frames the network side delivered, in order     *)
  received,    (* history: what the master took for whole responses        *)
  frames,      (* history: the frames of the network among them, in order  *)
  faults,      (* history: faults so far                                   *)
  lost,        (* history: response slots the master did not get           *)
  disturbed    (* history: the master or the bus spoilt a staged response  *)

pico == <<rx, late, tx, lastXfer, v2, mailbox>>
master == <<writing, reading, peeked, xfers, received, frames>>
vars == <<rx, late, tx, lastXfer, v2, mailbox, toNetwork, toMaster, writing, reading,
          peeked, xfers, delivered, received, frames, faults, lost, disturbed>>

Reply(kind, n, size) == [kind |-> kind, n |-> n, size |-> size]
ErrorReply == Reply("error", 0, 1)
LocalReply(q) == Reply("command", 0, q.answer)
Numbered(q, xfer) ==
  [kind |-> q.kind, class |-> q.class, size |-> q.size, answer |-> q.answer, n |-> xfer]

Part(p, i) == [of |-> p, part |-> i]
Whole(p) == [i \in 1 .. p.size |-> Part(p, i)]

(* A slot: its flags, transfer, offset, length of the packet and its data. *)
Slot(p, xfer, total, offset) ==
  [kind |-> p.kind, start |-> offset = 0, end |-> offset + 1 = total, xfer |-> xfer,
   offset |-> offset, total |-> total, data |-> Part(p, offset + 1)]

NoPacket == [active |-> FALSE, kind |-> None, xfer |-> 0, total |-> 0, parts |-> <<>>]
Started(s) == [active |-> TRUE, kind |-> s.kind, xfer |-> s.xfer, total |-> s.total,
               parts |-> <<s.data>>]
Extended(p, s) == [active |-> TRUE, kind |-> p.kind, xfer |-> p.xfer, total |-> p.total,
                   parts |-> Append(p.parts, s.data)]

-----------------------------------------------------------------------------
(* The task: staging responses.                                            *)

NoResponse == [reply |-> None, xfer |-> 1, total |-> 0, next |-> 0]

(* TxPacketState::stage: whatever was staged before is replaced; a payload *)
(* above the limit is cut (build_frame_into).                              *)
Stage(reply, xfer) ==
  tx' = [reply |-> reply, xfer |-> xfer, next |-> 0,
         total |-> IF reply.size > PayloadMax THEN PayloadMax ELSE reply.size]

(* packet_v2::Mailbox::stage: refuses long packets and keeps what it has.  *)
StageMailbox(reply) ==
  mailbox' = IF reply.size <= PayloadMax /\ mailbox = None THEN reply ELSE mailbox

(* push_overwrite into the mailbox of the session.                         *)
Forward(q) ==
  toNetwork' = Append(IF Len(toNetwork) < Depth THEN toNetwork ELSE Tail(toNetwork), q)

(* process_complete_packet.                                                *)
ProcessComplete(parts, xfer) ==
  LET q == Head(parts).of
  IN  \/ /\ q.class = "local"
         /\ Stage(LocalReply(q), xfer)
         /\ UNCHANGED toNetwork
      \/ /\ q.class = "forward"
         /\ Forward(parts)
         /\ UNCHANGED tx
      \/ /\ q.class = "empty"
         /\ UNCHANGED <<tx, toNetwork>>
      \/ /\ q.class = "unknown"
         /\ Stage(ErrorReply, xfer)
         /\ UNCHANGED toNetwork

-----------------------------------------------------------------------------
(* The task: version 1 writes.                                             *)

(* RxPacketState::push_slot: the packet after slot s, NoPacket if s is     *)
(* refused.                                                                *)
Continues(s) ==
  /\ rx.active /\ ~late
  /\ s.kind = rx.kind /\ s.xfer = rx.xfer
  /\ s.offset = Len(rx.parts)
  /\ s.offset + 1 <= rx.total

(* Offsets and transfers are not compared.                                 *)
AssembledFault(s) ==
  IF s.start THEN Started(s)
  ELSE IF rx.active /\ ~late /\ s.kind = rx.kind THEN Extended(rx, s)
  ELSE NoPacket

(* A packet left half-way is not given up for a new one.                   *)
AssembledKeepsFault(s) ==
  IF s.start /\ ~rx.active THEN Started(s)
  ELSE IF Continues(s) THEN Extended(rx, s)
  ELSE NoPacket

Assembled(s) ==
  IF s.total > PayloadMax THEN NoPacket
  ELSE IF s.start THEN Started(s)
  ELSE IF Continues(s) THEN Extended(rx, s)
  ELSE NoPacket

(* handle_write_slot with a slot that decodes.                             *)
HandleSlot(s) ==
  LET p == Assembled(s)
      done == s.end /\ Len(p.parts) = p.total
  IN  /\ late' = FALSE
      /\ \/ /\ p.active /\ ~s.end
            /\ rx' = p
            /\ UNCHANGED <<tx, lastXfer, toNetwork>>
         \/ /\ p.active /\ done
            /\ rx' = NoPacket
            /\ lastXfer' = p.xfer
            /\ ProcessComplete(p.parts, p.xfer)
         \/ /\ ~p.active \/ (s.end /\ ~done)
            /\ rx' = NoPacket
            /\ Stage(ErrorReply, lastXfer)
            /\ UNCHANGED <<lastXfer, toNetwork>>

(* A write that is no slot of 32 bytes is answered with an error in        *)
(* version 1; version 2 ignores it.                                        *)
HandleShort ==
  IF v2 THEN UNCHANGED <<rx, late, tx>>
  ELSE Stage(ErrorReply, lastXfer) /\ UNCHANGED <<rx, late>>

(* recover_i2c_state after an error of the controller.                     *)
Recover ==
  IF v2 THEN UNCHANGED <<rx, late, tx>>
  ELSE /\ rx' = NoPacket
       /\ late' = FALSE
       /\ Stage(ErrorReply, lastXfer)

-----------------------------------------------------------------------------
(* The task: version 1 reads.                                              *)

(* A queued reply is popped even while another one is staged.              *)
PoppedFault == toMaster # <<>>

(* stage_response_packet: the response to read from, popped if none is     *)
(* staged.                                                                 *)
Popped == tx.reply = None /\ toMaster # <<>>

Current ==
  IF ~Popped THEN tx
  ELSE [reply |-> Head(toMaster), xfer |-> lastXfer, next |-> 0,
        total |-> IF Head(toMaster).size > PayloadMax THEN PayloadMax
                  ELSE Head(toMaster).size]

(* next_slot_bytes: the slot goes out and the response moves on, whether   *)
(* or not the master reads it to the end.                                  *)
GiveSlot ==
  LET c == Current
  IN  /\ tx' = IF c.reply = None \/ c.next + 1 >= c.total THEN NoResponse
               ELSE [c EXCEPT !.next = @ + 1]
      /\ toMaster' = IF Popped THEN Tail(toMaster) ELSE toMaster

-----------------------------------------------------------------------------
(* The master.                                                             *)

(* A response is taken for whole.                                          *)
Take(parts) ==
  /\ received' = received \cup {parts}
  /\ frames' = IF Head(parts).of.kind = "data" THEN Append(frames, Head(parts).of)
               ELSE frames

(* Kind and transfer of a continuation are not compared.                   *)
TakeSlotFault(s) ==
  LET p == IF s.start THEN Started(s) ELSE Extended(reading, s)
      whole == s.end /\ Len(p.parts) = p.total
      fits == reading.active /\ s.offset = Len(reading.parts)
  IN  IF (s.start \/ fits) /\ ~s.end
      THEN reading' = p /\ UNCHANGED <<received, frames>>
      ELSE /\ reading' = NoPacket
           /\ IF (s.start \/ fits) /\ whole THEN Take(p.parts)
              ELSE UNCHANGED <<received, frames>>

(* read_frame: the slot joins the response being assembled; a slot that    *)
(* does not fit gives up.                                                  *)
TakeSlot(s) ==
  LET fits == reading.active /\ s.kind = reading.kind /\ s.xfer = reading.xfer
              /\ s.offset = Len(reading.parts)
      p == IF s.start THEN Started(s) ELSE Extended(reading, s)
      whole == s.end /\ Len(p.parts) = p.total
  IN  IF (s.start \/ fits) /\ ~s.end
      THEN reading' = p /\ UNCHANGED <<received, frames>>
      ELSE /\ reading' = NoPacket
           /\ IF (s.start \/ fits) /\ whole THEN Take(p.parts)
              ELSE UNCHANGED <<received, frames>>

(* write_request begins a transfer.                                        *)
BeginRequest(q) ==
  /\ 1 \in Versions
  /\ writing = None
  /\ xfers < MaxRequests
  /\ xfers' = xfers + 1
  /\ writing' = [p |-> Numbered(q, xfers'), next |-> 0, clean |-> TRUE]
  /\ UNCHANGED <<pico, toNetwork, toMaster, reading, peeked, received, frames, delivered,
                 faults, lost, disturbed>>

NextSlot == Slot(writing.p, writing.p.n, writing.p.size, writing.next)

Advanced(clean) ==
  IF NextSlot.end THEN None
  ELSE [writing EXCEPT !.next = @ + 1, !.clean = @ /\ clean]

(* Something is staged that the master has not read.                       *)
Staged == tx.reply # None \/ mailbox # None

(* One slot is written and arrives.  The write disturbs a staged response  *)
(* if it completes anything but a frame for the network, if a slot before  *)
(* it went wrong, or if it changes the protocol.                           *)
WriteSlot ==
  /\ writing # None
  /\ writing' = Advanced(TRUE)
  /\ HandleSlot(NextSlot)
  /\ v2' = FALSE
  /\ peeked' = None
  /\ disturbed' = (disturbed \/ (Staged /\ (\/ v2
                                            \/ ~writing.clean
                                            \/ NextSlot.end /\ writing.p.class # "forward")))
  /\ UNCHANGED <<mailbox, toMaster, reading, xfers, received, frames, delivered, faults,
                 lost>>

(* The slot does not arrive and the master goes on: the bus blanks it, it  *)
(* arrives short, or the controller reports an error.                      *)
WriteSpoilt ==
  /\ writing # None
  /\ faults < MaxFaults
  /\ faults' = faults + 1
  /\ writing' = Advanced(FALSE)
  /\ \/ UNCHANGED <<rx, late, tx, disturbed>>
     \/ (HandleShort \/ Recover) /\ disturbed' = (disturbed \/ (Staged /\ ~v2))
  /\ UNCHANGED <<lastXfer, v2, mailbox, toNetwork, toMaster, reading, peeked, xfers,
                 received, frames, delivered, lost>>

(* The master gives up a transfer half-way.                                *)
AbandonRequest ==
  /\ writing # None
  /\ faults < MaxFaults
  /\ faults' = faults + 1
  /\ writing' = None
  /\ UNCHANGED <<pico, toNetwork, toMaster, reading, peeked, xfers, received, frames,
                 delivered, lost, disturbed>>

(* The gap between two slots grows beyond PARTIAL_PACKET_TIMEOUT.          *)
GapTooLong ==
  /\ rx.active /\ ~late
  /\ faults < MaxFaults
  /\ faults' = faults + 1
  /\ late' = TRUE
  /\ writing' = IF writing = None THEN None ELSE [writing EXCEPT !.clean = FALSE]
  /\ UNCHANGED <<rx, tx, lastXfer, v2, mailbox, toNetwork, toMaster, reading, peeked,
                 xfers, received, frames, delivered, lost, disturbed>>

(* One slot is read.                                                       *)
ReadSlot ==
  /\ 1 \in Versions /\ ~v2
  /\ GiveSlot
  /\ IF Current.reply = None THEN UNCHANGED <<reading, received, frames>>
     ELSE TakeSlot(Slot(Current.reply, Current.xfer, Current.total, Current.next))
  /\ UNCHANGED <<rx, late, lastXfer, v2, mailbox, toNetwork, writing, peeked, xfers,
                 delivered, faults, lost, disturbed>>

(* One slot is read and lost: blanked (the master reads on) or cut off     *)
(* (the master gives up the response).                                     *)
ReadLost ==
  /\ 1 \in Versions /\ ~v2
  /\ faults < MaxFaults
  /\ faults' = faults + 1
  /\ GiveSlot
  /\ reading' \in {reading, NoPacket}
  /\ lost' = IF Current.reply = None THEN lost ELSE lost + 1
  /\ disturbed' = (disturbed \/ Current.reply # None)
  /\ UNCHANGED <<rx, late, lastXfer, v2, mailbox, toNetwork, writing, peeked, xfers,
                 received, frames, delivered>>

-----------------------------------------------------------------------------
(* Version 2.                                                              *)

(* The master selects version 2, which clears the packet being assembled.  *)
SelectV2 ==
  /\ 2 \in Versions /\ writing = None
  /\ ~v2
  /\ v2' = TRUE
  /\ rx' = NoPacket /\ late' = FALSE
  /\ reading' = NoPacket
  /\ disturbed' = (disturbed \/ Staged)
  /\ UNCHANGED <<tx, lastXfer, mailbox, toNetwork, toMaster, writing, peeked, xfers,
                 received, frames, delivered, faults, lost>>

(* handle_v2_write: one packet in one transaction; it selects version 2,   *)
(* too.  A local command is not answered while a packet is staged.         *)
WriteV2(q) ==
  /\ 2 \in Versions /\ writing = None
  /\ v2' = TRUE
  /\ xfers < MaxRequests
  /\ xfers' = xfers + 1
  /\ IF q.class = "local" /\ mailbox = None THEN StageMailbox(LocalReply(q))
     ELSE UNCHANGED mailbox
  /\ IF q.class = "forward" THEN Forward(Whole(Numbered(q, xfers')))
     ELSE UNCHANGED toNetwork
  /\ reading' = IF v2 THEN reading ELSE NoPacket
  /\ disturbed' = (disturbed \/ (Staged /\ ~v2))
  /\ UNCHANGED <<rx, late, tx, lastXfer, toMaster, writing, peeked, received, frames,
                 delivered, faults, lost>>

(* The next reply waits for the response staged in version 1, too.         *)
FillMailboxFault ==
  IF mailbox = None /\ tx.reply = None /\ toMaster # <<>>
  THEN StageMailbox(Head(toMaster)) /\ toMaster' = Tail(toMaster)
  ELSE UNCHANGED <<mailbox, toMaster>>

(* The packet a version 2 read gives out: the staged one or the next.      *)
FillMailbox ==
  IF mailbox = None /\ toMaster # <<>>
  THEN StageMailbox(Head(toMaster)) /\ toMaster' = Tail(toMaster)
  ELSE UNCHANGED <<mailbox, toMaster>>

(* The master reads the four bytes of the header.                          *)
PeekV2 ==
  /\ v2 /\ peeked = None
  /\ FillMailbox
  /\ peeked' = mailbox'
  /\ UNCHANGED <<rx, late, tx, lastXfer, v2, toNetwork, writing, reading, xfers,
                 received, frames, delivered, faults, lost, disturbed>>

(* The body is read but the mailbox is emptied only by the next one.       *)
ReadBodyFault ==
  /\ v2 /\ peeked # None /\ mailbox # None
  /\ Take(Whole(mailbox))
  /\ peeked' = None
  /\ UNCHANGED <<rx, late, tx, lastXfer, v2, mailbox, toNetwork, toMaster, writing,
                 reading, xfers, delivered, faults, lost, disturbed>>

(* The master reads header and body; complete_body(true) empties the       *)
(* mailbox.                                                                *)
ReadBody ==
  /\ v2 /\ peeked # None /\ mailbox # None
  /\ Take(Whole(mailbox))
  /\ mailbox' = None
  /\ peeked' = None
  /\ UNCHANGED <<rx, late, tx, lastXfer, v2, toNetwork, toMaster, writing, reading,
                 xfers, delivered, faults, lost, disturbed>>

(* The body is cut off: complete_body(false) keeps the packet.  The master *)
(* then selects version 2 again, which changes nothing.                    *)
AbortBody ==
  /\ v2 /\ peeked # None
  /\ faults < MaxFaults
  /\ faults' = faults + 1
  /\ peeked' = None
  /\ UNCHANGED <<pico, toNetwork, toMaster, writing, reading, xfers, received, frames,
                 delivered, lost, disturbed>>

-----------------------------------------------------------------------------
(* The bridge session at the other end of the mailboxes.                   *)

SessionTake ==
  /\ toNetwork # <<>>
  /\ toNetwork' = Tail(toNetwork)
  /\ UNCHANGED <<pico, toMaster, master, delivered, faults, lost, disturbed>>

(* The session reads a frame only when its mailbox has room for it.        *)
SessionReply(size) ==
  /\ Len(delivered) < MaxReplies
  /\ Len(toMaster) < Depth
  /\ delivered' = Append(delivered, Reply("data", Len(delivered) + 1, size))
  /\ toMaster' = Append(toMaster, Last(delivered'))
  /\ UNCHANGED <<pico, toNetwork, master, faults, lost, disturbed>>

Init ==
  /\ rx = NoPacket /\ late = FALSE
  /\ tx = NoResponse /\ lastXfer = 1
  /\ v2 = FALSE /\ mailbox = None
  /\ toNetwork = <<>> /\ toMaster = <<>>
  /\ writing = None /\ reading = NoPacket /\ peeked = None /\ xfers = 0
  /\ delivered = <<>> /\ received = {} /\ frames = <<>>
  /\ faults = 0 /\ lost = 0 /\ disturbed = FALSE

ReadWell == ReadSlot \/ PeekV2 \/ ReadBody

Next ==
  \/ \E q \in Requests : BeginRequest(q) \/ WriteV2(q)
  \/ WriteSlot \/ WriteSpoilt \/ AbandonRequest \/ GapTooLong
  \/ ReadSlot \/ ReadLost
  \/ SelectV2 \/ PeekV2 \/ ReadBody \/ AbortBody
  \/ SessionTake
  \/ \E size \in ReplySizes : SessionReply(size)

(* The master keeps polling the mailbox.                                   *)
Spec == Init /\ [][Next]_vars /\ WF_vars(ReadWell)

-----------------------------------------------------------------------------
(* Properties.                                                             *)

IsParts(x) == \A i \in DOMAIN x : x[i].part \in 1 .. x[i].of.size

(* TypeOK: the state keeps its types, neither mailbox exceeds its depth    *)
(* and neither packet buffer its length.                                   *)
TypeOK ==
  /\ rx.active \in BOOLEAN /\ late \in BOOLEAN /\ v2 \in BOOLEAN
  /\ IsParts(rx.parts) /\ Len(rx.parts) <= rx.total /\ rx.total <= PayloadMax
  /\ tx.next \in 0 .. tx.total /\ tx.total <= PayloadMax
  /\ lastXfer \in 1 .. MaxRequests + 1
  /\ Len(toNetwork) <= Depth /\ Len(toMaster) <= Depth
  /\ mailbox = None \/ mailbox.size <= PayloadMax
  /\ IsParts(reading.parts)
  /\ faults <= MaxFaults /\ lost <= faults

WholePacket(x) == x # <<>> /\ x = Whole(Head(x).of)

(* RequestsWhole: push_slot never assembles a packet out of two transfers, *)
(* with a gap or with a slot twice, whatever the bus swallows and wherever *)
(* the master gives up.                                                    *)
RequestsWhole == \A i \in DOMAIN toNetwork : WholePacket(toNetwork[i])

(* CleanWritesForwarded: a frame whose slots all arrived in time is queued *)
(* for the network by its last slot, whatever was left behind before.      *)
CleanWritesForwarded ==
  [][ (/\ writing # None /\ writing' = None /\ faults' = faults
       /\ writing.clean /\ writing.p.class = "forward" /\ writing.p.size <= PayloadMax)
      => toNetwork' # <<>> /\ Last(toNetwork') = Whole(writing.p) ]_vars

(* ResponsesWhole: what the master reassembles is one response, whole, as  *)
(* long as no more than one slot of all responses was lost on the way.     *)
(* (Two lost slots can join two responses: they share the transfer id of   *)
(* the last request.)                                                      *)
ResponsesWhole == lost <= 1 => \A x \in received : WholePacket(x)

IsData(r) == r # None /\ r.kind = "data"
Coming == (IF IsData(tx.reply) THEN <<tx.reply>> ELSE <<>>)
          \o (IF IsData(mailbox) THEN <<mailbox>> ELSE <<>>)
          \o toMaster

(* RepliesExact: every frame from the network reaches the master once and  *)
(* in order, or is staged, or waits; aborted version 2 reads and frames    *)
(* written while a response is read change nothing about it.  Excepted are *)
(* masters that lose a version 1 slot, change the version or write         *)
(* commands or broken transfers over a staged response.                    *)
RepliesExact == ~disturbed => frames \o Coming = delivered

(* RepliesDrain: a master that keeps polling empties the mailbox, whatever *)
(* is staged in either protocol when it changes between them.              *)
RepliesDrain == toMaster # <<>> ~> toMaster = <<>>
=============================================================================
